-------------------------------- MODULE Browser --------------------------------
(* A browser with several tabs, its cookies, and the handlers that set them:  *)
(* csrf.go, requireAuth, login and logout.  Tabs share the cookies; a request *)
(* carries those there were when it was sent, and its answer changes those    *)
(* there are when it arrives.                                                 *)
(*                                                                            *)
(* A handler is one step here; AccessControl has its statements one by one.   *)
(* A session may end at any time for reasons of its own: it expires, or its   *)
(* account is disabled or removed.                                            *)
EXTENDS Naturals, FiniteSets

CONSTANTS Tabs, Tokens, NoToken, Sessions, NoSession, Keep

ASSUME BrowserAssumption ==
    /\ NoToken \notin Tokens
    /\ NoSession \notin Sessions /\ Keep \notin Sessions \cup {NoSession}

VARIABLES
    jar,        \* the browser's cookies: csrf_token and signaldock_session
    page,       \* of each tab: its form, and the token in it
    at,         \* of each tab: "idle", or its request is "sent" or "answered"
    req,        \* of each tab: its request, while there is one
    answer,     \* of each tab: the answer on its way, with the cookies it sets
    open,       \* the sessions in the table
    drawn,      \* the tokens and sessions that were ever handed out
    excused     \* a request without CSRF cookie got a token beside another, and the
                \* browser has not come to know a single one since

server == <<open, drawn, excused>>
vars == <<jar, page, at, req, answer, server>>

(* Pages are "index" or any other with forms, and the login page.             *)
Gets == {"index", "login-page"}
Posts == {"login", "logout", "form"}

Cookies == [csrf : Tokens \cup {NoToken}, session : Sessions \cup {NoSession}]

(* A request: its cookies, the token in its form, and whether the browser     *)
(* considers it as coming from another site.                                  *)
Request ==
    [kind : Gets \cup Posts, foreign : BOOLEAN, csrf : Tokens \cup {NoToken},
     session : Sessions \cup {NoSession}, form : Tokens \cup {NoToken}]

(* An answer: the cookies to set (NoToken sets none, NoSession clears), and a *)
(* page, a redirect or a refusal.                                             *)
Answer ==
    [csrf : Tokens \cup {NoToken}, session : Sessions \cup {NoSession, Keep},
     to : {"app", "login-form", "forbidden", "error"} \cup Gets,
     token : Tokens \cup {NoToken}]

NoRequest == [kind |-> "index", foreign |-> FALSE, csrf |-> NoToken, session |-> NoSession,
              form |-> NoToken]
NoAnswer == [csrf |-> NoToken, session |-> Keep, to |-> "error", token |-> NoToken]

Blank == [form |-> "none", token |-> NoToken]
Forms == {"app", "login-form"}

TypeOK ==
    /\ jar \in Cookies
    /\ page \in [Tabs -> {Blank} \cup [form : Forms, token : Tokens]]
    /\ at \in [Tabs -> {"idle", "sent", "answered"}]
    /\ req \in [Tabs -> Request]
    /\ answer \in [Tabs -> Answer]
    /\ open \subseteq drawn.sessions
    /\ drawn \in [tokens : SUBSET Tokens, sessions : SUBSET Sessions]
    /\ excused \in BOOLEAN

Init ==
    /\ jar = [csrf |-> NoToken, session |-> NoSession]
    /\ page = [t \in Tabs |-> Blank]
    /\ at = [t \in Tabs |-> "idle"]
    /\ req = [t \in Tabs |-> NoRequest]
    /\ answer = [t \in Tabs |-> NoAnswer]
    /\ open = {}
    /\ drawn = [tokens |-> {}, sessions |-> {}]
    /\ excused = FALSE

-----------------------------------------------------------------------------
(* The browser.                                                               *)

(* The CSRF cookie is SameSite=Strict: it does not come with a request that   *)
(* another site led to.                                                       *)
Sent(kind, foreign, cookies, form) ==
    [kind |-> kind, foreign |-> foreign,
     csrf |-> IF foreign THEN NoToken ELSE cookies.csrf,
     session |-> cookies.session, form |-> form]

Send(t, r) ==
    /\ req' = [req EXCEPT ![t] = r]
    /\ at' = [at EXCEPT ![t] = "sent"]

Rest(t) ==
    /\ req' = [req EXCEPT ![t] = NoRequest]
    /\ at' = [at EXCEPT ![t] = "idle"]

(* There is a token for every request that may draw one, also after redirects.*)
TokensLeft(r) ==
    r.csrf = NoToken =>
        Cardinality({t \in Tabs : at[t] # "idle" /\ req[t].csrf = NoToken})
            < Cardinality(Tokens \ drawn.tokens)

(* The user opens or reloads a page, in the browser or from another site.     *)
Visit(t) ==
    /\ at[t] = "idle"
    /\ \E kind \in Gets, foreign \in BOOLEAN :
          LET r == Sent(kind, foreign, jar, NoToken) IN TokensLeft(r) /\ Send(t, r)
    /\ UNCHANGED <<jar, page, answer, server>>

(* The user submits a form of the page that the tab shows.                    *)
Submit(t) ==
    /\ at[t] = "idle"
    /\ \E kind \in Posts :
          LET r == Sent(kind, FALSE, jar, page[t].token) IN
          /\ page[t].form = IF kind = "login" THEN "login-form" ELSE "app"
          /\ TokensLeft(r) /\ Send(t, r)
    /\ UNCHANGED <<jar, page, answer, server>>

(* The user stops the request, or its answer is lost.                         *)
Abandon(t) ==
    /\ at[t] # "idle"
    /\ Rest(t)
    /\ answer' = [answer EXCEPT ![t] = NoAnswer]
    /\ UNCHANGED <<jar, page, server>>

(* The browser, its pages, its requests and its answers know one token.       *)
OneToken ==
    /\ \A t \in Tabs : page[t].token \in {jar.csrf, NoToken}
    /\ \A t \in Tabs : req[t].csrf \in {jar.csrf, NoToken}
    /\ \A t \in Tabs : req[t].kind \in Posts => req[t].form = req[t].csrf /\ req[t].csrf # NoToken
    /\ \A t \in Tabs : answer[t].csrf # NoToken =>
          jar.csrf = NoToken /\ \A u \in Tabs \ {t} : answer[u].csrf = NoToken
Refused(t) == at[t] = "answered" /\ answer[t].to = "forbidden"
Settled == OneToken /\ \A t \in Tabs : ~Refused(t)

(* An answer arrives: the cookies are set, then a redirect is followed.       *)
Receive(t) ==
    LET a == answer[t] IN
    /\ at[t] = "answered"
    /\ jar' = [csrf |-> IF a.csrf = NoToken THEN jar.csrf ELSE a.csrf,
               session |-> IF a.session = Keep THEN jar.session ELSE a.session]
    /\ IF a.to \in Gets
       THEN Send(t, Sent(a.to, req[t].foreign, jar', NoToken)) /\ UNCHANGED page
       ELSE /\ Rest(t)
            /\ page' = [page EXCEPT ![t] =
                  IF a.to \in Forms THEN [form |-> a.to, token |-> a.token] ELSE Blank]
    /\ answer' = [answer EXCEPT ![t] = NoAnswer]
    /\ excused' = (excused /\ ~Settled')
    /\ UNCHANGED <<open, drawn>>

-----------------------------------------------------------------------------
(* The handlers.                                                              *)

Reply(t, csrf, session, to, token) ==
    /\ answer' = [answer EXCEPT ![t] =
          [csrf |-> csrf, session |-> session, to |-> to, token |-> token]]
    /\ at' = [at EXCEPT ![t] = "answered"]
    /\ UNCHANGED <<jar, page, req>>

(* The routes behind requireAuth.  (Mutant: all of them are.)                 *)
ProtectedAll(kind) == TRUE
Protected(kind) == kind \notin {"login-page", "login"}

Arrived(t) == at[t] = "sent"
Authenticated(t) == Protected(req[t].kind) => req[t].session \in open

(* requireAuth: no cookie, or one whose session is gone.                      *)
RedirectToLogin(t) ==
    /\ Arrived(t) /\ ~Authenticated(t)
    /\ Reply(t, NoToken, IF req[t].session = NoSession THEN Keep ELSE NoSession,
             "login-page", NoToken)
    /\ UNCHANGED server

(* Tokens are random: which of those not yet drawn makes no difference.       *)
New(left) == IF left = {} THEN {} ELSE {CHOOSE x \in left : TRUE}

(* getCSRFToken: a token is drawn and its cookie set when the request carries *)
(* none.  (Mutants: every page draws one; the cookie is not set.)             *)
DrawsAlways(t) == TRUE
Draws(t) == req[t].csrf = NoToken
CookieForgotten(token) == NoToken
Cookie(token) == token

(* Another token is in the jar, or on its way to it.                          *)
Beside(t) == jar.csrf # NoToken \/ \E u \in Tabs \ {t} : at[u] = "answered" /\ answer[u].csrf # NoToken

GetToken(t, to) ==
    \/ /\ ~Draws(t)
       /\ Reply(t, NoToken, Keep, to, req[t].csrf)
       /\ UNCHANGED <<drawn, excused>>
    \/ /\ Draws(t)
       /\ \E k \in New(Tokens \ drawn.tokens) :
             /\ Reply(t, Cookie(k), Keep, to, k)
             /\ drawn' = [drawn EXCEPT !.tokens = @ \cup {k}]
       /\ excused' = (excused \/ (req[t].csrf = NoToken /\ Beside(t)))

(* A page with forms; or an error, when the token is drawn before the page    *)
(* fails (handleGetIndex).                                                    *)
ShowPage(t) ==
    /\ Arrived(t) /\ Authenticated(t)
    /\ \/ req[t].kind = "login-page" /\ GetToken(t, "login-form")
       \/ req[t].kind = "index" /\ GetToken(t, "app")
       \/ req[t].kind = "index" /\ GetToken(t, "error")
    /\ UNCHANGED open

(* validateCSRF.                                                              *)
ValidCSRF(t) == req[t].csrf # NoToken /\ req[t].form = req[t].csrf

Refuse(t) ==
    /\ Arrived(t) /\ Authenticated(t) /\ req[t].kind \in Posts
    /\ ~ValidCSRF(t)
    /\ Reply(t, NoToken, Keep, "forbidden", NoToken)
    /\ UNCHANGED server

Accepted(t, kind) == Arrived(t) /\ Authenticated(t) /\ req[t].kind = kind /\ ValidCSRF(t)

(* handlePostLogin with a wrong password: renderLoginError, with the token of *)
(* the cookie.  (Mutant: without.)                                            *)
NoTokenShown(t) == NoToken
TokenShown(t) == req[t].csrf
LoginFails(t) ==
    /\ Accepted(t, "login")
    /\ Reply(t, NoToken, Keep, "login-form", TokenShown(t))
    /\ UNCHANGED server

Login(t) ==
    /\ Accepted(t, "login")
    /\ \E s \in New(Sessions \ drawn.sessions) :
          /\ Reply(t, NoToken, s, "index", NoToken)
          /\ open' = open \cup {s}
          /\ drawn' = [drawn EXCEPT !.sessions = @ \cup {s}]
    /\ UNCHANGED excused

Logout(t) ==
    /\ Accepted(t, "logout")
    /\ Reply(t, NoToken, NoSession, "login-page", NoToken)
    /\ open' = open \ {req[t].session}
    /\ UNCHANGED <<drawn, excused>>

(* The forms of admins, which lead back to their page.                        *)
Perform(t) ==
    /\ Accepted(t, "form")
    /\ Reply(t, NoToken, Keep, "index", NoToken)
    /\ UNCHANGED server

(* Requests that get as far as a statement of the database.                   *)
AsksDatabase(t) ==
    IF Protected(req[t].kind) THEN req[t].session # NoSession
    ELSE req[t].kind = "login" /\ ValidCSRF(t)

(* What becomes of the cookie when the database fails.  (Mutant: the user is  *)
(* signed out.)                                                               *)
SignOut == NoSession
AfterError == Keep
Fail(t) ==
    /\ Arrived(t) /\ AsksDatabase(t)
    /\ Reply(t, NoToken, AfterError, "error", NoToken)
    /\ UNCHANGED server

Handle(t) ==
    \/ RedirectToLogin(t) \/ ShowPage(t) \/ Refuse(t) \/ LoginFails(t) \/ Login(t)
    \/ Logout(t) \/ Perform(t) \/ Fail(t)

(* A session ends that nobody logged out: open has those that still let a     *)
(* request pass, so that one of a disabled account has ended although its row *)
(* may be left (middleware.go:69).                                            *)
Expire(s) ==
    /\ s \in open
    /\ open' = open \ {s}
    /\ UNCHANGED <<jar, page, at, req, answer, drawn, excused>>

Next ==
    \/ \E t \in Tabs : Visit(t) \/ Submit(t) \/ Abandon(t) \/ Receive(t) \/ Handle(t)
    \/ \E s \in Sessions : Expire(s)

Spec == Init /\ [][Next]_vars

(* Requests are handled and answers arrive.                                   *)
FairSpec == Spec /\ \A t \in Tabs : WF_vars(Handle(t) \/ Receive(t))

-----------------------------------------------------------------------------
(* Properties.                                                                *)

(* A form is refused for its token only after a request without CSRF cookie   *)
(* got a token although the browser had one, or was about to get one: two     *)
(* requests overlapped, or one came from another site (csrf.go:36).  It takes *)
(* another one as soon as all pages, requests and answers have the browser's  *)
(* token again.                                                               *)
RefusedOnlyExcused == \A t \in Tabs : Refused(t) => excused

(* A page that arrives has a form that will be accepted, whatever happened    *)
(* before, unless the cookie was replaced while the page was on its way:      *)
(* reloading helps.                                                           *)
FreshFormAccepted ==
    [][\A t \in Tabs :
          Receive(t) /\ answer[t].to \in Forms /\ req[t].csrf \in {NoToken, jar.csrf} =>
              page'[t].token = jar'.csrf]_vars

(* The browser loses the cookie of a session that is still open only to a new *)
(* login or to the answer of a request that did not carry it                  *)
(* (middleware.go:43): no error, no other tab's page signs a user out.        *)
OpenSessionKept ==
    [][jar.session \in open /\ jar'.session # jar.session =>
          \E t \in Tabs : Receive(t) /\ (answer[t].session \in Sessions
                                           \/ req[t].session # jar.session)]_vars

(* Every request comes to an end: no chain of redirects is a cycle, whatever  *)
(* the cookies are.                                                           *)
RedirectsEnd == \A t \in Tabs : at[t] # "idle" ~> at[t] = "idle"

=============================================================================
