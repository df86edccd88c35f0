----------------------------- MODULE BrowserProofs -----------------------------
(* For any number of tabs, tokens and sessions: which forms are refused,      *)
(* which cookies are lost, and that redirects lead nowhere for ever.          *)
EXTENDS Browser, TLAPS

Csrfs == Tokens \cup {NoToken}
Targets == {"app", "login-form", "forbidden", "error"} \cup Gets

(* What an answer of a handler is, whichever handler it is: a form has the    *)
(* token that it sets or else the request's, no form is refused that has the  *)
(* cookie's token, and a session that is cleared is not open.                 *)
Made(t, c, s, to, k) ==
    /\ at[t] = "sent"
    /\ Reply(t, c, s, to, k)
    /\ to \in Forms =>
          \/ c \in Tokens /\ k = c
          \/ c = NoToken /\ k = req[t].csrf /\ k \in Tokens
    /\ c # NoToken => req[t].csrf = NoToken /\ (excused' \/ ~Beside(t))
    /\ to = "forbidden" => req[t].kind \in Posts /\ ~ValidCSRF(t)
    /\ s = NoSession => req[t].session \notin open'
    /\ s \in drawn'.sessions \cup {NoSession, Keep}
    /\ excused => excused'

(* What a handler does to the state of the server.                            *)
Grown ==
    /\ drawn' \in [tokens : SUBSET Tokens, sessions : SUBSET Sessions]
    /\ drawn.sessions \subseteq drawn'.sessions
    /\ open' \subseteq drawn'.sessions
    /\ \A s \in open' : s \in open \/ s \notin drawn.sessions
    /\ excused' \in BOOLEAN

Handled(t) ==
    \E c \in Csrfs, s \in Sessions \cup {NoSession, Keep}, to \in Targets, k \in Csrfs :
        Made(t, c, s, to, k)

LEMMA NewDrawn ==
    ASSUME NEW S, NEW x \in New(S)
    PROVE  x \in S
BY DEF New

LEMMA ServerSame ==
    ASSUME TypeOK, UNCHANGED server
    PROVE  Grown /\ (excused => excused')
BY DEF server, Grown, TypeOK

LEMMA GetTokenHandled ==
    ASSUME TypeOK, NEW t \in Tabs, NEW to \in {"app", "login-form", "error"},
           at[t] = "sent", GetToken(t, to), UNCHANGED open
    PROVE  Handled(t) /\ Grown
<1>1. req[t].csrf \in Csrfs
    BY DEF TypeOK, Request, Csrfs
<1>2. CASE ~Draws(t) /\ Reply(t, NoToken, Keep, to, req[t].csrf) /\ UNCHANGED <<drawn, excused>>
  <2>1. Grown /\ (excused => excused')
      BY <1>2, ServerSame DEF server
  <2>2. req[t].csrf \in Tokens
      BY <1>1, <1>2 DEF Draws, Csrfs
  <2>3. Made(t, NoToken, Keep, to, req[t].csrf)
      BY <1>2, <2>1, <2>2, BrowserAssumption DEF Made, Forms
  <2> QED BY <1>1, <2>1, <2>3 DEF Handled, Csrfs, Targets
<1>3. CASE /\ Draws(t)
           /\ \E k \in New(Tokens \ drawn.tokens) :
                 /\ Reply(t, Cookie(k), Keep, to, k)
                 /\ drawn' = [drawn EXCEPT !.tokens = @ \cup {k}]
           /\ excused' = (excused \/ (req[t].csrf = NoToken /\ Beside(t)))
  <2>1. PICK k \in New(Tokens \ drawn.tokens) :
           /\ Reply(t, Cookie(k), Keep, to, k)
           /\ drawn' = [drawn EXCEPT !.tokens = @ \cup {k}]
      BY <1>3
  <2>2. k \in Tokens
      BY NewDrawn
  <2>3. drawn' \in [tokens : SUBSET Tokens, sessions : SUBSET Sessions]
           /\ drawn'.sessions = drawn.sessions
      BY <2>1, <2>2 DEF TypeOK
  <2>4. excused' \in BOOLEAN
      BY <1>3
  <2>5. Grown
      BY <2>3, <2>4 DEF Grown, TypeOK
  <2>6. req[t].csrf = NoToken
      BY <1>3 DEF Draws
  <2>7. excused' \/ ~Beside(t)
      BY <1>3, <2>6
  <2>8. excused => excused'
      BY <1>3
  <2>9. Made(t, k, Keep, to, k)
      BY <2>1, <2>2, <2>6, <2>7, <2>8, BrowserAssumption DEF Made, Forms, Cookie
  <2> QED BY <2>2, <2>5, <2>9 DEF Handled, Csrfs, Targets
<1> QED BY <1>2, <1>3 DEF GetToken

LEMMA HandleHandled ==
    ASSUME TypeOK, NEW t \in Tabs, Handle(t)
    PROVE  Handled(t) /\ Grown
<1>0. /\ req[t].csrf \in Csrfs /\ req[t].form \in Csrfs
      /\ req[t].session \in Sessions \cup {NoSession}
    BY DEF TypeOK, Request, Csrfs
<1> USE DEF Arrived
<1>1. CASE RedirectToLogin(t)
  <2>1. Grown /\ (excused => excused')
      BY <1>1, ServerSame DEF RedirectToLogin
  <2>2. req[t].session \notin open /\ open' = open
      BY <1>1 DEF RedirectToLogin, Authenticated, server
  <2> DEFINE s == IF req[t].session = NoSession THEN Keep ELSE NoSession
  <2>3. Made(t, NoToken, s, "login-page", NoToken)
      BY <1>1, <2>1, <2>2, BrowserAssumption DEF RedirectToLogin, Made, Forms
  <2> QED BY <2>1, <2>3 DEF Handled, Csrfs, Targets, Gets
<1>2. CASE ShowPage(t)
    BY <1>2, GetTokenHandled DEF ShowPage
<1>3. CASE Refuse(t)
  <2>1. Grown /\ (excused => excused')
      BY <1>3, ServerSame DEF Refuse
  <2>2. Made(t, NoToken, Keep, "forbidden", NoToken)
      BY <1>3, <2>1, BrowserAssumption DEF Refuse, Made, Forms
  <2> QED BY <2>1, <2>2 DEF Handled, Csrfs, Targets
<1>4. CASE LoginFails(t)
  <2>1. Grown /\ (excused => excused')
      BY <1>4, ServerSame DEF LoginFails
  <2>2. req[t].csrf \in Tokens
      BY <1>0, <1>4 DEF LoginFails, Accepted, ValidCSRF, Csrfs
  <2>3. Made(t, NoToken, Keep, "login-form", req[t].csrf)
      BY <1>4, <2>1, <2>2, BrowserAssumption DEF LoginFails, Accepted, Made, Forms, TokenShown
  <2> QED BY <1>0, <2>1, <2>3 DEF Handled, Csrfs, Targets
<1>5. CASE Login(t)
  <2>1. PICK s \in New(Sessions \ drawn.sessions) :
           /\ Reply(t, NoToken, s, "index", NoToken)
           /\ open' = open \cup {s}
           /\ drawn' = [drawn EXCEPT !.sessions = @ \cup {s}]
      BY <1>5 DEF Login
  <2>2. s \in Sessions /\ s \notin drawn.sessions
      BY NewDrawn
  <2>3. /\ drawn' \in [tokens : SUBSET Tokens, sessions : SUBSET Sessions]
        /\ drawn'.sessions = drawn.sessions \cup {s}
      BY <2>1, <2>2 DEF TypeOK
  <2>4. excused' = excused /\ at[t] = "sent"
      BY <1>5 DEF Login, Accepted
  <2>5. Grown
      BY <2>1, <2>2, <2>3, <2>4 DEF Grown, TypeOK
  <2>6. Made(t, NoToken, s, "index", NoToken)
      BY <2>1, <2>2, <2>3, <2>4, BrowserAssumption DEF Made, Forms
  <2> QED BY <2>2, <2>5, <2>6 DEF Handled, Csrfs, Targets, Gets
<1>6. CASE Logout(t)
  <2>1. open' = open \ {req[t].session} /\ UNCHANGED <<drawn, excused>> /\ at[t] = "sent"
      BY <1>6 DEF Logout, Accepted
  <2>2. Grown
      BY <2>1 DEF Grown, TypeOK
  <2>3. excused => excused'
      BY <2>1
  <2>4. req[t].session \notin open'
      BY <2>1
  <2>5. Made(t, NoToken, NoSession, "login-page", NoToken)
      BY <1>6, <2>1, <2>3, <2>4, BrowserAssumption DEF Logout, Made, Forms
  <2> QED BY <2>2, <2>5 DEF Handled, Csrfs, Targets, Gets
<1>7. CASE Perform(t)
  <2>1. Grown /\ (excused => excused')
      BY <1>7, ServerSame DEF Perform
  <2>2. Made(t, NoToken, Keep, "index", NoToken)
      BY <1>7, <2>1, BrowserAssumption DEF Perform, Accepted, Made, Forms
  <2> QED BY <2>1, <2>2 DEF Handled, Csrfs, Targets, Gets
<1>8. CASE Fail(t)
  <2>1. Grown /\ (excused => excused')
      BY <1>8, ServerSame DEF Fail
  <2>2. Made(t, NoToken, Keep, "error", NoToken)
      BY <1>8, <2>1, BrowserAssumption DEF Fail, Made, Forms, AfterError
  <2> QED BY <2>1, <2>2 DEF Handled, Csrfs, Targets
<1> QED BY <1>1, <1>2, <1>3, <1>4, <1>5, <1>6, <1>7, <1>8 DEF Handle

-----------------------------------------------------------------------------
(* Types, with what an answer has beside its type.                            *)

(* Only a request that was handled has an answer; a form on its way has the   *)
(* token of the cookie that comes with it, or else of the request's.          *)
Answered(t) ==
    /\ at[t] # "answered" => answer[t] = NoAnswer
    /\ answer[t].to \in Forms =>
          \/ answer[t].csrf \in Tokens /\ answer[t].token = answer[t].csrf
          \/ /\ answer[t].csrf = NoToken
             /\ answer[t].token = req[t].csrf /\ answer[t].token \in Tokens

(* Known sessions are ones that were drawn, and an answer that clears the     *)
(* cookie is one to a request without an open session.                        *)
Known(t) ==
    /\ req[t].session \in drawn.sessions \cup {NoSession}
    /\ answer[t].session \in drawn.sessions \cup {NoSession, Keep}
    /\ answer[t].session = NoSession => req[t].session \notin open

BaseInv ==
    /\ TypeOK
    /\ \A t \in Tabs : Answered(t) /\ Known(t)
    /\ jar.session \in drawn.sessions \cup {NoSession}

LEMMA InitBase == Init => BaseInv
<1> SUFFICES ASSUME Init PROVE BaseInv
    OBVIOUS
<1>1. NoRequest \in Request /\ NoAnswer \in Answer
    BY DEF NoRequest, Request, NoAnswer, Answer, Gets
<1>2. TypeOK
    BY <1>1 DEF Init, TypeOK, Cookies
<1>3. \A t \in Tabs : Answered(t) /\ Known(t)
    BY DEF Init, Answered, Known, NoRequest, NoAnswer, Forms
<1> QED BY <1>2, <1>3 DEF BaseInv, Init

LEMMA SentTyped ==
    ASSUME NEW kind \in Gets \cup Posts, NEW foreign \in BOOLEAN, NEW c \in Cookies,
           NEW form \in Csrfs
    PROVE  /\ Sent(kind, foreign, c, form) \in Request
           /\ Sent(kind, foreign, c, form).session = c.session
           /\ Sent(kind, foreign, c, form).kind = kind
           /\ Sent(kind, foreign, c, form).form = form
           /\ Sent(kind, foreign, c, form).csrf = IF foreign THEN NoToken ELSE c.csrf
BY DEF Sent, Request, Cookies, Csrfs

LEMMA SendBase ==
    ASSUME BaseInv, NEW t \in Tabs, at[t] = "idle", NEW r \in Request,
           r.session = jar.session, Send(t, r), UNCHANGED <<jar, page, answer, server>>
    PROVE  BaseInv'
<1>1. TypeOK'
    BY DEF BaseInv, TypeOK, Send, server
<1>2. \A u \in Tabs : Answered(u)'
  <2> SUFFICES ASSUME NEW u \in Tabs PROVE Answered(u)'
      OBVIOUS
  <2>1. answer[t] = NoAnswer
      BY DEF BaseInv, Answered
  <2>2. CASE u = t
    <3>1. answer'[t] = NoAnswer
        BY <2>1
    <3>2. NoAnswer.to \notin Forms
        BY DEF NoAnswer, Forms
    <3> QED BY <2>2, <3>1, <3>2 DEF Answered
  <2>3. CASE u # t
      BY <2>3 DEF BaseInv, TypeOK, Send, Answered
  <2> QED BY <2>2, <2>3
<1>3. \A u \in Tabs : Known(u)'
  <2> SUFFICES ASSUME NEW u \in Tabs PROVE Known(u)'
      OBVIOUS
  <2>1. answer[t].session # NoSession
      BY BrowserAssumption DEF BaseInv, Answered, NoAnswer
  <2> QED BY <2>1 DEF BaseInv, TypeOK, Send, Known, server
<1> QED BY <1>1, <1>2, <1>3 DEF BaseInv, server

LEMMA VisitBase ==
    ASSUME BaseInv, NEW t \in Tabs, Visit(t)
    PROVE  BaseInv'
<1>1. PICK kind \in Gets, foreign \in BOOLEAN : Send(t, Sent(kind, foreign, jar, NoToken))
    BY DEF Visit
<1>2. jar \in Cookies /\ NoToken \in Csrfs
    BY DEF BaseInv, TypeOK, Csrfs
<1> QED BY <1>1, <1>2, SentTyped, SendBase DEF Visit

LEMMA SubmitBase ==
    ASSUME BaseInv, NEW t \in Tabs, Submit(t)
    PROVE  BaseInv'
<1>1. PICK kind \in Posts : Send(t, Sent(kind, FALSE, jar, page[t].token))
    BY DEF Submit
<1>2. jar \in Cookies /\ page[t].token \in Csrfs
    BY DEF BaseInv, TypeOK, Csrfs, Blank
<1> DEFINE r == Sent(kind, FALSE, jar, page[t].token)
<1>3. r \in Request /\ r.session = jar.session
    BY <1>2 DEF Sent, Request, Cookies, Csrfs
<1> HIDE DEF r
<1>4. Send(t, r)
    BY <1>1 DEF r
<1> QED BY <1>3, <1>4, SendBase DEF Submit

LEMMA AbandonBase ==
    ASSUME BaseInv, NEW t \in Tabs, Abandon(t)
    PROVE  BaseInv'
<1>1. NoRequest \in Request /\ NoAnswer \in Answer
    BY DEF NoRequest, Request, NoAnswer, Answer, Gets
<1>2. TypeOK'
    BY <1>1 DEF Abandon, Rest, BaseInv, TypeOK, server
<1>3. \A u \in Tabs : Answered(u)'
    BY DEF Abandon, Rest, BaseInv, TypeOK, Answered, NoAnswer, Forms
<1>4. \A u \in Tabs : Known(u)'
    BY BrowserAssumption DEF Abandon, Rest, BaseInv, TypeOK, Known, NoAnswer, NoRequest, server
<1> QED BY <1>2, <1>3, <1>4 DEF BaseInv, Abandon, server

LEMMA ReceiveBase ==
    ASSUME BaseInv, NEW t \in Tabs, Receive(t)
    PROVE  BaseInv'
<1> DEFINE a == answer[t]
<1>0. NoRequest \in Request /\ NoAnswer \in Answer /\ a \in Answer /\ req[t] \in Request
    BY DEF NoRequest, Request, NoAnswer, Answer, Gets, BaseInv, TypeOK
<1>1. jar' = [csrf |-> IF a.csrf = NoToken THEN jar.csrf ELSE a.csrf,
              session |-> IF a.session = Keep THEN jar.session ELSE a.session]
    BY DEF Receive
<1>2. jar' \in Cookies /\ jar'.session \in drawn.sessions \cup {NoSession}
    BY <1>0, <1>1 DEF BaseInv, TypeOK, Known, Cookies, Answer
<1>3. /\ answer' = [answer EXCEPT ![t] = NoAnswer]
      /\ open' = open /\ drawn' = drawn /\ excused' \in BOOLEAN
    BY DEF Receive
<1>4. ASSUME NEW r \in Request, NEW f \in {"idle", "sent"},
             req' = [req EXCEPT ![t] = r], at' = [at EXCEPT ![t] = f],
             r.session \in drawn.sessions \cup {NoSession},
             page' \in [Tabs -> {Blank} \cup [form : Forms, token : Tokens]]
      PROVE  BaseInv'
  <2>1. TypeOK'
      BY <1>0, <1>2, <1>3, <1>4 DEF BaseInv, TypeOK
  <2>2. \A u \in Tabs : Answered(u)'
      BY <1>3, <1>4 DEF BaseInv, TypeOK, Answered, NoAnswer, Forms
  <2>3. \A u \in Tabs : Known(u)'
      BY <1>3, <1>4, BrowserAssumption DEF BaseInv, TypeOK, Known, NoAnswer
  <2> QED BY <1>2, <1>3, <2>1, <2>2, <2>3 DEF BaseInv
<1>5. CASE a.to \in Gets
  <2>1. Send(t, Sent(a.to, req[t].foreign, jar', NoToken)) /\ UNCHANGED page
      BY <1>5 DEF Receive
  <2>2. /\ Sent(a.to, req[t].foreign, jar', NoToken) \in Request
        /\ Sent(a.to, req[t].foreign, jar', NoToken).session = jar'.session
      BY <1>0, <1>2, <1>5, SentTyped DEF Csrfs, Request
  <2> QED BY <1>2, <1>4, <2>1, <2>2 DEF Send, BaseInv, TypeOK
<1>6. CASE a.to \notin Gets
  <2>1. /\ Rest(t)
        /\ page' = [page EXCEPT ![t] =
              IF a.to \in Forms THEN [form |-> a.to, token |-> a.token] ELSE Blank]
      BY <1>6 DEF Receive
  <2>2. a.to \in Forms => a.token \in Tokens
      BY DEF BaseInv, Answered
  <2>3. page' \in [Tabs -> {Blank} \cup [form : Forms, token : Tokens]]
      BY <2>1, <2>2 DEF BaseInv, TypeOK
  <2> QED BY <1>0, <1>4, <2>1, <2>3 DEF Rest, NoRequest
<1> QED BY <1>5, <1>6

LEMMA HandleBase ==
    ASSUME BaseInv, NEW t \in Tabs, Handle(t)
    PROVE  BaseInv'
<1>1. Handled(t) /\ Grown
    BY HandleHandled DEF BaseInv
<1>2. PICK c \in Csrfs, s \in Sessions \cup {NoSession, Keep}, to \in Targets, k \in Csrfs :
          Made(t, c, s, to, k)
    BY <1>1 DEF Handled
<1>3. /\ answer' = [answer EXCEPT ![t] =
             [csrf |-> c, session |-> s, to |-> to, token |-> k]]
      /\ at' = [at EXCEPT ![t] = "answered"]
      /\ UNCHANGED <<jar, page, req>>
    BY <1>2 DEF Made, Reply
<1>4. [csrf |-> c, session |-> s, to |-> to, token |-> k] \in Answer
    BY DEF Answer, Csrfs, Targets
<1>5. TypeOK'
    BY <1>1, <1>3, <1>4 DEF BaseInv, TypeOK, Grown
<1>6. \A u \in Tabs : Answered(u)'
  <2>1. Answered(t)'
      BY <1>2, <1>3 DEF Made, BaseInv, TypeOK, Answered, Csrfs
  <2>2. ASSUME NEW u \in Tabs, u # t PROVE Answered(u)'
      BY <1>3, <2>2 DEF BaseInv, TypeOK, Answered
  <2> QED BY <2>1, <2>2
<1>7. \A u \in Tabs : Known(u)'
  <2>1. Known(t)'
      BY <1>1, <1>2, <1>3 DEF Made, Grown, BaseInv, TypeOK, Known
  <2>2. ASSUME NEW u \in Tabs, u # t PROVE Known(u)'
    <3>1. answer'[u] = answer[u] /\ req'[u] = req[u]
        BY <1>3, <2>2 DEF BaseInv, TypeOK
    <3>2. req[u].session \notin open => req[u].session \notin open'
        BY <1>1, BrowserAssumption DEF Grown, BaseInv, Known, TypeOK
    <3> QED BY <1>1, <3>1, <3>2 DEF Grown, BaseInv, Known
  <2> QED BY <2>1, <2>2
<1> QED BY <1>1, <1>3, <1>5, <1>6, <1>7 DEF BaseInv, Grown

LEMMA ExpireBase ==
    ASSUME BaseInv, NEW s \in Sessions, Expire(s)
    PROVE  BaseInv'
<1>1. TypeOK'
    BY DEF Expire, BaseInv, TypeOK
<1> QED BY <1>1 DEF Expire, BaseInv, Answered, Known

LEMMA StepBase == BaseInv /\ [Next]_vars => BaseInv'
<1>1. ASSUME BaseInv, UNCHANGED vars PROVE BaseInv'
    BY <1>1 DEF vars, server, BaseInv, TypeOK, Answered, Known
<1> QED BY <1>1, VisitBase, SubmitBase, AbandonBase, ReceiveBase, HandleBase, ExpireBase
        DEF Next

LEMMA BaseInvariance == Spec => []BaseInv
BY InitBase, StepBase, PTL DEF Spec

(* The type invariant: no page has a form without token.                      *)
THEOREM TypeCorrect == Spec => []TypeOK
<1>1. BaseInv => TypeOK
    BY DEF BaseInv
<1> QED BY <1>1, BaseInvariance, PTL

-----------------------------------------------------------------------------
(* Pages that arrive, and cookies that are lost.                              *)

(* Every page that arrives, after whatever happened before, has a form that   *)
(* will be accepted, or the cookie was replaced meanwhile.                    *)
THEOREM FreshForms == Spec => FreshFormAccepted
<1>1. ASSUME BaseInv, NEW t \in Tabs, Receive(t), answer[t].to \in Forms,
             req[t].csrf \in {NoToken, jar.csrf}
      PROVE  page'[t].token = jar'.csrf
  <2>1. answer[t].to \notin Gets
      BY <1>1 DEF Gets, Forms
  <2>2. page'[t].token = answer[t].token
      BY <1>1, <2>1 DEF Receive, BaseInv, TypeOK
  <2>3. jar'.csrf = IF answer[t].csrf = NoToken THEN jar.csrf ELSE answer[t].csrf
      BY <1>1 DEF Receive
  <2>4. \/ answer[t].csrf \in Tokens /\ answer[t].token = answer[t].csrf
        \/ /\ answer[t].csrf = NoToken
           /\ answer[t].token = req[t].csrf /\ answer[t].token \in Tokens
      BY <1>1 DEF BaseInv, Answered
  <2> QED BY <1>1, <2>2, <2>3, <2>4, BrowserAssumption
<1>2. BaseInv /\ [Next]_vars =>
         [\A t \in Tabs :
             Receive(t) /\ answer[t].to \in Forms /\ req[t].csrf \in {NoToken, jar.csrf} =>
                 page'[t].token = jar'.csrf]_vars
    BY <1>1
<1> QED BY <1>2, BaseInvariance, PTL DEF Spec, FreshFormAccepted

LEMMA SessionStep ==
    ASSUME BaseInv, [Next]_vars, jar.session \in open, jar'.session # jar.session
    PROVE  \E t \in Tabs : Receive(t) /\ (answer[t].session \in Sessions
                                           \/ req[t].session # jar.session)
<1>1. jar' # jar
    OBVIOUS
<1>2. PICK t \in Tabs : Receive(t)
  <2>1. ~(\E s \in Sessions : Expire(s)) /\ ~UNCHANGED vars
      BY <1>1 DEF Expire, vars
  <2>2. ASSUME NEW t \in Tabs, Visit(t) \/ Submit(t) \/ Abandon(t) PROVE FALSE
      BY <1>1, <2>2 DEF Visit, Submit, Abandon
  <2>3. ASSUME NEW t \in Tabs, Handle(t) PROVE FALSE
      BY <1>1, <2>3, HandleHandled DEF BaseInv, Handled, Made, Reply
  <2> QED BY <2>1, <2>2, <2>3 DEF Next
<1>3. answer[t].session # Keep
    BY <1>2 DEF Receive
<1>4. answer[t].session \in Sessions \cup {NoSession}
    BY <1>3 DEF BaseInv, TypeOK, Answer
<1>5. answer[t].session = NoSession => req[t].session \notin open
    BY DEF BaseInv, Known
<1> QED BY <1>2, <1>4, <1>5

(* No error and no other page signs a user out.                               *)
THEOREM OpenSessions == Spec => OpenSessionKept
<1>1. BaseInv /\ [Next]_vars =>
         [jar.session \in open /\ jar'.session # jar.session =>
             \E t \in Tabs : Receive(t) /\ (answer[t].session \in Sessions
                                           \/ req[t].session # jar.session)]_vars
    BY SessionStep
<1> QED BY <1>1, BaseInvariance, PTL DEF Spec, OpenSessionKept

-----------------------------------------------------------------------------
(* Forms that are refused.                                                    *)

(* As long as no request without the cookie overlapped another that set it,   *)
(* and again when all that such a request left behind is gone, the browser,   *)
(* its pages, its requests and its answers know one token.                    *)
TokenInv == RefusedOnlyExcused /\ (excused \/ OneToken)

LEMMA ServerKeepsExcuse ==
    ASSUME NEW t \in Tabs, Visit(t) \/ Submit(t) \/ Abandon(t)
    PROVE  excused' = excused
BY DEF Visit, Submit, Abandon, server

LEMMA StepToken == BaseInv /\ TokenInv /\ [Next]_vars => TokenInv'
<1> SUFFICES ASSUME BaseInv, TokenInv, [Next]_vars PROVE TokenInv'
    OBVIOUS
<1>0. /\ jar \in Cookies /\ req \in [Tabs -> Request] /\ answer \in [Tabs -> Answer]
      /\ at \in [Tabs -> {"idle", "sent", "answered"}]
      /\ page \in [Tabs -> {Blank} \cup [form : Forms, token : Tokens]]
    BY DEF BaseInv, TypeOK
<1>1. ASSUME NEW t \in Tabs, NEW r \in Request, Send(t, r), at[t] = "idle",
             UNCHANGED <<jar, page, answer, server>>, r.csrf \in {jar.csrf, NoToken},
             excused \/ r.kind \notin Posts \/ (r.form = r.csrf /\ r.csrf # NoToken)
      PROVE  TokenInv'
  <2>1. req' = [req EXCEPT ![t] = r] /\ at' = [at EXCEPT ![t] = "sent"]
      BY <1>1 DEF Send
  <2>2. excused' = excused /\ UNCHANGED <<jar, page, answer>>
      BY <1>1 DEF server
  <2>3. RefusedOnlyExcused'
      BY <1>0, <2>1, <2>2 DEF TokenInv, RefusedOnlyExcused, Refused
  <2>4. excused \/ OneToken'
      BY <1>0, <1>1, <2>1, <2>2 DEF TokenInv, OneToken
  <2> QED BY <2>2, <2>3, <2>4 DEF TokenInv
<1>2. ASSUME NEW t \in Tabs, Visit(t) PROVE TokenInv'
  <2>1. PICK kind \in Gets, foreign \in BOOLEAN : Send(t, Sent(kind, foreign, jar, NoToken))
      BY <1>2 DEF Visit
  <2> DEFINE r == Sent(kind, foreign, jar, NoToken)
  <2>2. r \in Request /\ r.kind = kind /\ r.csrf \in {jar.csrf, NoToken}
      BY <1>0 DEF Sent, Request, Cookies
  <2>3. kind \notin Posts
      BY DEF Gets, Posts
  <2> HIDE DEF r
  <2>4. Send(t, r)
      BY <2>1 DEF r
  <2> QED BY <1>1, <1>2, <2>2, <2>3, <2>4 DEF Visit
<1>3. ASSUME NEW t \in Tabs, Submit(t) PROVE TokenInv'
  <2>1. PICK kind \in Posts :
           /\ page[t].form = IF kind = "login" THEN "login-form" ELSE "app"
           /\ Send(t, Sent(kind, FALSE, jar, page[t].token))
      BY <1>3 DEF Submit
  <2> DEFINE r == Sent(kind, FALSE, jar, page[t].token)
  <2>2. page[t].token \in Tokens
    <3>1. page[t] \in {Blank} \cup [form : Forms, token : Tokens]
        BY <1>0
    <3>2. page[t].form # "none"
        BY <2>1
    <3> QED BY <3>1, <3>2 DEF Blank
  <2>3. r \in Request /\ r.form = page[t].token /\ r.csrf = jar.csrf
      BY <1>0, <2>2 DEF Sent, Request, Cookies
  <2>4. excused \/ page[t].token = jar.csrf
      BY <2>2, BrowserAssumption DEF TokenInv, OneToken
  <2> HIDE DEF r
  <2>5. excused \/ (r.form = r.csrf /\ r.csrf # NoToken)
      BY <2>2, <2>3, <2>4, BrowserAssumption
  <2>6. Send(t, r)
      BY <2>1 DEF r
  <2> QED BY <1>1, <1>3, <2>3, <2>5, <2>6 DEF Submit
<1>4. ASSUME NEW t \in Tabs, Abandon(t) PROVE TokenInv'
  <2>1. /\ req' = [req EXCEPT ![t] = NoRequest] /\ at' = [at EXCEPT ![t] = "idle"]
        /\ answer' = [answer EXCEPT ![t] = NoAnswer] /\ UNCHANGED <<jar, page>>
        /\ excused' = excused
      BY <1>4, ServerKeepsExcuse DEF Abandon, Rest
  <2>2. /\ NoRequest.csrf = NoToken /\ NoRequest.kind \notin Posts /\ NoAnswer.csrf = NoToken
      BY DEF NoRequest, NoAnswer, Posts
  <2>3. RefusedOnlyExcused'
      BY <1>0, <2>1 DEF TokenInv, RefusedOnlyExcused, Refused
  <2>4. excused \/ OneToken'
      BY <1>0, <2>1, <2>2 DEF TokenInv, OneToken
  <2> QED BY <2>1, <2>3, <2>4 DEF TokenInv
<1>5. ASSUME NEW t \in Tabs, Receive(t), ~Settled' PROVE TokenInv'
  <2> DEFINE a == answer[t]
  <2>1. /\ jar'.csrf = IF a.csrf = NoToken THEN jar.csrf ELSE a.csrf
        /\ answer' = [answer EXCEPT ![t] = NoAnswer] /\ (excused' <=> excused)
      BY <1>5 DEF Receive
  <2>2. \E r \in [kind : Gets, csrf : {jar'.csrf, NoToken}], f \in {"idle", "sent"} :
           /\ req'[t].kind = r.kind /\ req'[t].csrf = r.csrf
           /\ \A u \in Tabs \ {t} : req'[u] = req[u] /\ at'[u] = at[u]
           /\ at'[t] = f
    <3>1. CASE a.to \in Gets
      <4>1. Send(t, Sent(a.to, req[t].foreign, jar', NoToken))
          BY <1>5, <3>1 DEF Receive
      <4>2. /\ Sent(a.to, req[t].foreign, jar', NoToken).kind = a.to
            /\ Sent(a.to, req[t].foreign, jar', NoToken).csrf \in {jar'.csrf, NoToken}
          BY DEF Sent
      <4>3. /\ req'[t] = Sent(a.to, req[t].foreign, jar', NoToken) /\ at'[t] = "sent"
            /\ \A u \in Tabs \ {t} : req'[u] = req[u] /\ at'[u] = at[u]
          BY <1>0, <4>1 DEF Send
      <4>4. [kind |-> req'[t].kind, csrf |-> req'[t].csrf]
               \in [kind : Gets, csrf : {jar'.csrf, NoToken}]
          BY <3>1, <4>2, <4>3
      <4> QED BY <4>3, <4>4
    <3>2. CASE a.to \notin Gets
      <4>1. /\ req'[t] = NoRequest /\ at'[t] = "idle"
            /\ \A u \in Tabs \ {t} : req'[u] = req[u] /\ at'[u] = at[u]
          BY <1>0, <1>5, <3>2 DEF Receive, Rest
      <4>2. NoRequest.kind \in Gets /\ NoRequest.csrf = NoToken
          BY DEF NoRequest, Gets
      <4>3. [kind |-> req'[t].kind, csrf |-> req'[t].csrf]
               \in [kind : Gets, csrf : {jar'.csrf, NoToken}]
          BY <4>1, <4>2
      <4> QED BY <4>1, <4>3
    <3> QED BY <3>1, <3>2
  <2>3. \A u \in Tabs :
           \/ page'[u].token \in {page[u].token, NoToken}
           \/ u = t /\ a.to \in Forms /\ page'[u].token = a.token
    <3>1. CASE a.to \in Gets
      <4>1. page' = page
          BY <1>5, <3>1 DEF Receive
      <4> QED BY <4>1
    <3>2. CASE a.to \notin Gets
      <4>1. page' = [page EXCEPT ![t] =
               IF a.to \in Forms THEN [form |-> a.to, token |-> a.token] ELSE Blank]
          BY <1>5, <3>2 DEF Receive
      <4>2. \A u \in Tabs \ {t} : page'[u] = page[u]
          BY <1>0, <4>1
      <4>3. page'[t] = IF a.to \in Forms THEN [form |-> a.to, token |-> a.token] ELSE Blank
          BY <1>0, <4>1
      <4>4. \/ a.to \in Forms /\ page'[t].token = a.token
            \/ page'[t].token = NoToken
          BY <4>3 DEF Blank
      <4> HIDE DEF a
      <4> QED BY <4>2, <4>4
    <3> QED BY <3>1, <3>2
  <2>4. RefusedOnlyExcused'
      BY <1>0, <2>1, <2>2 DEF TokenInv, RefusedOnlyExcused, Refused
  <2>5. ASSUME ~excused PROVE OneToken'
    <3>1. OneToken
        BY <2>5 DEF TokenInv
    <3>2. a.csrf # NoToken => jar.csrf = NoToken
        BY <3>1 DEF OneToken
    <3>3. a.to \in Forms => \/ a.csrf # NoToken /\ a.token = a.csrf
                            \/ a.csrf = NoToken /\ a.token \in {jar.csrf, NoToken}
        BY <3>1, BrowserAssumption DEF OneToken, BaseInv, Answered
    <3>4. \A u \in Tabs : page'[u].token \in {jar'.csrf, NoToken}
        BY <2>1, <2>3, <3>1, <3>2, <3>3 DEF OneToken
    <3>5. \A u \in Tabs : req'[u].csrf \in {jar'.csrf, NoToken}
        BY <2>1, <2>2, <3>1, <3>2 DEF OneToken
    <3>6. \A k \in Gets : k \notin Posts
        BY DEF Gets, Posts
    <3>7. \A u \in Tabs : req'[u].kind \in Posts =>
             req'[u].form = req'[u].csrf /\ req'[u].csrf # NoToken
        BY <2>2, <3>1, <3>6 DEF OneToken
    <3>8. \A u \in Tabs : answer'[u].csrf # NoToken => u # t /\ answer'[u] = answer[u]
        BY <1>0, <2>1 DEF NoAnswer
    <3>9. \A u \in Tabs \ {t} : answer'[u] = answer[u]
        BY <1>0, <2>1
    <3>10. answer'[t].csrf = NoToken
        BY <1>0, <2>1 DEF NoAnswer
    <3>11. \A u \in Tabs : answer'[u].csrf # NoToken =>
              jar'.csrf = NoToken /\ \A w \in Tabs \ {u} : answer'[w].csrf = NoToken
      <4> SUFFICES ASSUME NEW u \in Tabs, answer'[u].csrf # NoToken
                   PROVE  jar'.csrf = NoToken /\ \A w \in Tabs \ {u} : answer'[w].csrf = NoToken
          OBVIOUS
      <4>1. u # t /\ answer[u].csrf # NoToken
          BY <3>8
      <4>2. jar.csrf = NoToken /\ \A w \in Tabs \ {u} : answer[w].csrf = NoToken
          BY <3>1, <4>1 DEF OneToken
      <4> QED BY <2>1, <3>9, <3>10, <4>1, <4>2
    <3> QED BY <3>4, <3>5, <3>7, <3>11 DEF OneToken
  <2> QED BY <2>1, <2>4, <2>5 DEF TokenInv
<1>6. ASSUME NEW t \in Tabs, Handle(t) PROVE TokenInv'
  <2>1. PICK c \in Csrfs, s \in Sessions \cup {NoSession, Keep}, to \in Targets, k \in Csrfs :
            Made(t, c, s, to, k)
      BY <1>6, HandleHandled DEF BaseInv, Handled
  <2>2. /\ answer' = [answer EXCEPT ![t] =
               [csrf |-> c, session |-> s, to |-> to, token |-> k]]
        /\ UNCHANGED <<jar, page, req>>
        /\ at' = [at EXCEPT ![t] = "answered"]
      BY <2>1 DEF Made, Reply
  <2>3. excused => excused'
      BY <2>1 DEF Made
  <2>4. to = "forbidden" => excused'
    <3>1. ASSUME to = "forbidden", ~excused PROVE FALSE
      <4>1. req[t].kind \in Posts /\ ~ValidCSRF(t)
          BY <2>1, <3>1 DEF Made
      <4>2. OneToken
          BY <3>1 DEF TokenInv
      <4> QED BY <4>1, <4>2 DEF OneToken, ValidCSRF
    <3> QED BY <2>3, <3>1
  <2>5. answer'[t].to = to /\ answer'[t].csrf = c
      BY <1>0, <2>2
  <2>6. \A u \in Tabs \ {t} : answer'[u] = answer[u] /\ at'[u] = at[u]
      BY <1>0, <2>2
  <2>7. RefusedOnlyExcused'
    <3> SUFFICES ASSUME NEW u \in Tabs, at'[u] = "answered", answer'[u].to = "forbidden"
                 PROVE  excused'
        BY DEF RefusedOnlyExcused, Refused
    <3>1. CASE u = t
        BY <2>4, <2>5, <3>1
    <3>2. CASE u # t
        BY <2>3, <2>6, <3>2 DEF TokenInv, RefusedOnlyExcused, Refused
    <3> QED BY <3>1, <3>2
  <2>8. ASSUME ~excused' PROVE OneToken'
    <3>1. ~excused /\ OneToken
        BY <2>3, <2>8 DEF TokenInv
    <3>2. c # NoToken => jar.csrf = NoToken /\ \A u \in Tabs \ {t} : answer[u].csrf = NoToken
      <4> SUFFICES ASSUME c # NoToken
                   PROVE  jar.csrf = NoToken /\ \A u \in Tabs \ {t} : answer[u].csrf = NoToken
          OBVIOUS
      <4>1. ~Beside(t)
          BY <2>1, <2>8 DEF Made
      <4>2. \A u \in Tabs \ {t} : at[u] # "answered" => answer[u].csrf = NoToken
          BY DEF BaseInv, Answered, NoAnswer
      <4> QED BY <4>1, <4>2 DEF Beside
    <3>3. \A u \in Tabs : answer'[u].csrf # NoToken =>
             jar.csrf = NoToken /\ \A w \in Tabs \ {u} : answer'[w].csrf = NoToken
      <4> SUFFICES ASSUME NEW u \in Tabs, answer'[u].csrf # NoToken
                   PROVE  jar.csrf = NoToken /\ \A w \in Tabs \ {u} : answer'[w].csrf = NoToken
          OBVIOUS
      <4>1. CASE u = t
          BY <2>5, <2>6, <3>2, <4>1
      <4>2. CASE u # t
        <5>1. answer[u].csrf # NoToken
            BY <2>6, <4>2
        <5>2. c = NoToken
            BY <3>2, <4>2, <5>1
        <5> QED BY <2>5, <2>6, <3>1, <4>2, <5>1, <5>2 DEF OneToken
      <4> QED BY <4>1, <4>2
    <3> QED BY <2>2, <3>1, <3>3 DEF OneToken
  <2> QED BY <2>7, <2>8 DEF TokenInv
<1>7. ASSUME NEW s \in Sessions, Expire(s) PROVE TokenInv'
    BY <1>7 DEF Expire, TokenInv, RefusedOnlyExcused, Refused, OneToken
<1>8. CASE UNCHANGED vars
    BY <1>8 DEF vars, server, TokenInv, RefusedOnlyExcused, Refused, OneToken
<1>9. ASSUME NEW t \in Tabs, Receive(t), Settled' PROVE TokenInv'
    BY <1>9 DEF Settled, TokenInv, RefusedOnlyExcused
<1> QED BY <1>2, <1>3, <1>4, <1>5, <1>6, <1>7, <1>8, <1>9 DEF Next

(* A form is refused only when requests without the cookie overlapped, or     *)
(* came from another site, and something that they left behind is still       *)
(* there.                                                                     *)
THEOREM RefusedExcused == Spec => []RefusedOnlyExcused
<1>1. Init => TokenInv
  <2> SUFFICES ASSUME Init PROVE RefusedOnlyExcused /\ OneToken
      BY DEF TokenInv
  <2>1. RefusedOnlyExcused
      BY DEF Init, RefusedOnlyExcused, Refused
  <2>2. OneToken
      BY DEF Init, OneToken, Blank, NoRequest, NoAnswer, Posts
  <2> QED BY <2>1, <2>2
<1>2. TokenInv => RefusedOnlyExcused
    BY DEF TokenInv
<1> QED BY <1>1, <1>2, BaseInvariance, StepToken, PTL DEF Spec

-----------------------------------------------------------------------------
(* Why redirects end: the number of steps that a tab is away from a page, at  *)
(* most.  A form may lead to the index, the index to the login page, and the  *)
(* login page to no other.                                                    *)

Distance(t) ==
    CASE at[t] = "sent" -> IF req[t].kind \in Posts THEN 6
                           ELSE IF req[t].kind = "index" THEN 4 ELSE 2
      [] at[t] = "answered" -> IF answer[t].to = "index" THEN 5
                               ELSE IF answer[t].to = "login-page" THEN 3 ELSE 1
      [] OTHER -> 0

Nearer(t) == Distance(t)' < Distance(t)
Waits(t) == UNCHANGED <<at[t], req[t], answer[t]>>

(* What the answer of a handler may be.                                       *)
LEMMA AnswerNearer ==
    ASSUME TypeOK, NEW t \in Tabs, NEW c, NEW s, NEW to, NEW k,
           at[t] = "sent", Reply(t, c, s, to, k),
           to = "index" => req[t].kind \in Posts,
           to = "login-page" => req[t].kind # "login-page"
    PROVE  Nearer(t)
<1>1. at'[t] = "answered" /\ answer'[t].to = to
    BY DEF TypeOK, Reply
<1>2. req[t].kind \in {"index", "login-page"} \cup Posts
    BY DEF TypeOK, Request, Gets
<1> QED BY <1>1, <1>2 DEF Nearer, Distance, Posts

LEMMA HandleNearer ==
    ASSUME TypeOK, NEW t \in Tabs, Handle(t)
    PROVE  Nearer(t)
<1> USE DEF Arrived
<1>1. CASE RedirectToLogin(t)
  <2>1. req[t].kind # "login-page"
      BY <1>1 DEF RedirectToLogin, Authenticated, Protected
  <2> QED BY <1>1, <2>1, AnswerNearer DEF RedirectToLogin
<1>2. CASE ShowPage(t)
  <2>1. PICK to \in {"login-form", "app", "error"} : \E c, k : Reply(t, c, Keep, to, k)
      BY <1>2 DEF ShowPage, GetToken
  <2> QED BY <1>2, <2>1, AnswerNearer DEF ShowPage
<1>3. CASE Refuse(t)
    BY <1>3, AnswerNearer DEF Refuse
<1>4. CASE LoginFails(t)
    BY <1>4, AnswerNearer DEF LoginFails, Accepted
<1>5. CASE Login(t)
  <2>1. \E s : Reply(t, NoToken, s, "index", NoToken)
      BY <1>5 DEF Login
  <2> QED BY <1>5, <2>1, AnswerNearer DEF Login, Accepted, Posts
<1>6. CASE Logout(t)
    BY <1>6, AnswerNearer DEF Logout, Accepted
<1>7. CASE Perform(t)
    BY <1>7, AnswerNearer DEF Perform, Accepted, Posts
<1>8. CASE Fail(t)
    BY <1>8, AnswerNearer DEF Fail
<1> QED BY <1>1, <1>2, <1>3, <1>4, <1>5, <1>6, <1>7, <1>8 DEF Handle

LEMMA ReceiveNearer ==
    ASSUME TypeOK, NEW t \in Tabs, Receive(t)
    PROVE  Nearer(t)
<1>1. at[t] = "answered"
    BY DEF Receive
<1>2. CASE answer[t].to \in Gets
  <2>1. PICK r : Send(t, r) /\ r.kind = answer[t].to
      BY <1>2 DEF Receive, Sent
  <2>2. at'[t] = "sent" /\ req'[t].kind = answer[t].to
      BY <2>1 DEF Send, TypeOK
  <2> QED BY <1>1, <1>2, <2>2 DEF Nearer, Distance, Gets, Posts
<1>3. CASE answer[t].to \notin Gets
  <2>1. at'[t] = "idle"
      BY <1>3 DEF Receive, Rest, TypeOK
  <2> QED BY <1>1, <2>1 DEF Nearer, Distance
<1> QED BY <1>2, <1>3

LEMMA StepNearer ==
    ASSUME TypeOK, [Next]_vars, NEW t \in Tabs, at[t] # "idle"
    PROVE  Nearer(t) \/ Waits(t)
<1>1. ASSUME NEW u \in Tabs, Visit(u) \/ Submit(u) PROVE Waits(t)
    BY <1>1 DEF Visit, Submit, Send, Waits, TypeOK
<1>2. ASSUME NEW u \in Tabs, u # t, Abandon(u) \/ Receive(u) PROVE Waits(t)
    BY <1>2 DEF Abandon, Receive, Send, Rest, Waits, TypeOK
<1>3. ASSUME NEW u \in Tabs, u # t, Handle(u) PROVE Waits(t)
  <2>1. \E c, s, to, k : Reply(u, c, s, to, k)
      BY <1>3, Zenon DEF Handle, RedirectToLogin, ShowPage, GetToken, Refuse, LoginFails, Login,
                         Logout, Perform, Fail
  <2> QED BY <1>3, <2>1 DEF Reply, Waits, TypeOK
<1>4. CASE Abandon(t)
  <2>1. at'[t] = "idle"
      BY <1>4 DEF Abandon, Rest, TypeOK
  <2>2. Distance(t)' = 0 /\ Distance(t) \in {1, 2, 3, 4, 5, 6}
      BY <2>1 DEF Distance, TypeOK
  <2> QED BY <2>2 DEF Nearer
<1>5. CASE Receive(t)
    BY <1>5, ReceiveNearer
<1>6. CASE Handle(t)
    BY <1>6, HandleNearer
<1>7. ASSUME NEW s \in Sessions, Expire(s) PROVE Waits(t)
    BY <1>7 DEF Expire, Waits
<1>8. CASE UNCHANGED vars
    BY <1>8 DEF vars, Waits
<1> QED BY <1>1, <1>2, <1>3, <1>4, <1>5, <1>6, <1>7, <1>8 DEF Next

(* Whatever cookies are missing, stale or replaced on the way, by whichever   *)
(* tab: a request is over after at most six steps of its own, each of which   *)
(* brings it nearer to its end, and no step of another takes it back.         *)
THEOREM RequestAdvances ==
    Spec => [][\A t \in Tabs : at[t] # "idle" => Distance(t) \in 1..6 /\ (Nearer(t) \/ Waits(t))]_vars
<1>1. TypeOK /\ [Next]_vars
         => [\A t \in Tabs : at[t] # "idle" => Distance(t) \in 1..6 /\ (Nearer(t) \/ Waits(t))]_vars
  <2>1. ASSUME TypeOK, NEW t \in Tabs, at[t] # "idle" PROVE Distance(t) \in 1..6
      BY <2>1 DEF Distance, TypeOK
  <2> QED BY <2>1, StepNearer
<1> QED BY <1>1, TypeCorrect, PTL DEF Spec

=============================================================================
