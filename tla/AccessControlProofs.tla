-------------------------- MODULE AccessControlProofs --------------------------
(* Proofs about AccessControl, for any sets of users, tokens and requests and *)
(* any bounds: the inductive invariant, the safety properties that follow     *)
(* from it, the two properties of single steps, what lasts for good, and what *)
(* a request has left to do.                                                  *)
EXTENDS AccessControl, TLAPS

-----------------------------------------------------------------------------
(* Type correctness.                                                          *)

(* What Become, Goto and Finish leave in the request they set, and in the     *)
(* others.                                                                    *)
LEMMA BecomeFacts ==
    ASSUME TypeOK, NEW c \in Requests, NEW q, Become(c, q)
    PROVE  /\ request'[c] = q
           /\ \A d \in Requests : d # c => request'[d] = request[d]
           /\ q \in Request => request' \in [Requests -> Request]
  BY DEF Become, TypeOK

(* Goto moves a request to another step.                                      *)
LEMMA GotoFacts ==
    ASSUME TypeOK, NEW c \in Requests, NEW s \in Steps, Goto(c, s)
    PROVE  /\ request' \in [Requests -> Request]
           /\ request'[c].at = s
           /\ request'[c].token = request[c].token
           /\ request'[c].user = request[c].user
           /\ request'[c].admin = request[c].admin
           /\ request'[c].answer = request[c].answer
           /\ \A d \in Requests : d # c => request'[d] = request[d]
  <1>1. request \in [Requests -> Request] /\ request[c] \in Request
    BY DEF TypeOK
  <1>2. [request[c] EXCEPT !.at = s] \in Request
    BY <1>1 DEF Request
  <1> QED BY <1>1, <1>2 DEF Goto, Become, Request

(* Finish ends a request with an answer.                                      *)
LEMMA FinishFacts ==
    ASSUME TypeOK, NEW c \in Requests, NEW a \in Answers, Finish(c, a)
    PROVE  /\ request' \in [Requests -> Request]
           /\ request'[c].at = "done"
           /\ request'[c].token = request[c].token
           /\ request'[c].user = request[c].user
           /\ request'[c].admin = request[c].admin
           /\ request'[c].answer = a
           /\ \A d \in Requests : d # c => request'[d] = request[d]
  <1>1. request \in [Requests -> Request] /\ request[c] \in Request
    BY DEF TypeOK
  <1>2. [request[c] EXCEPT !.at = "done", !.answer = a] \in Request
    BY <1>1 DEF Request, Steps
  <1> QED BY <1>1, <1>2 DEF Finish, Become, Request

(* An idle request is a request.                                              *)
LEMMA IdleType == Idle \in Request /\ NoRow \in Row
  BY DEF Idle, Request, Steps, Answers, NoRow, Row

-----------------------------------------------------------------------------
(* The tables.                                                                *)

(* The ways a step changes accounts and sessions: it inserts one, it closes   *)
(* or ages sessions, or it removes or updates an account.                     *)
Opens ==
    /\ UNCHANGED users
    /\ \E u \in Present, t \in Tokens \ issued :
          /\ session' = [session EXCEPT ![t] = [NoRow EXCEPT !.user = u]]
          /\ issued' = issued \cup {t}
          /\ cookies' \in {cookies, cookies \cup {t}}
Closes ==
    /\ UNCHANGED <<users, issued, cookies>>
    /\ session' \in [Tokens -> Row]
    /\ \A t \in Tokens : session'[t] \in {session[t], NoRow}
Ages ==
    /\ UNCHANGED <<users, issued, cookies>>
    /\ session' \in [Tokens -> Row]
    /\ \A t \in Tokens : /\ session'[t].user = session[t].user
                         /\ session[t].overdue => session'[t].overdue
Inserts ==
    /\ UNCHANGED <<disabled, sessions>>
    /\ \E u \in Users \ known, r \in Roles :
          role' = [role EXCEPT ![u] = r] /\ known' = known \cup {u}
Removes ==
    /\ UNCHANGED <<known, issued, cookies>>
    /\ \E u \in Present :
          /\ role' = [role EXCEPT ![u] = "none"]
          /\ disabled' = disabled \ {u}
          /\ session' = [t \in Tokens |-> IF session[t].user = u THEN NoRow ELSE session[t]]
Updates ==
    /\ UNCHANGED <<known, sessions>>
    /\ \E u \in Present, r \in Roles :
          /\ role' = [role EXCEPT ![u] = r]
          /\ disabled' \in {disabled \cup {u}, disabled \ {u}}
Writes == Opens \/ Closes \/ Ages \/ Inserts \/ Removes \/ Updates

(* Closing a session, or none, is a way to close sessions.                    *)
LEMMA ClosedCloses ==
    ASSUME TypeOK, UNCHANGED <<users, issued, cookies>>, NEW t,
           session' \in {session, Closed(t)}
    PROVE  Closes
  BY IdleType DEF TypeOK, Closes, Closed

(* What a request writes.                                                     *)
LEMMA RequestWrites ==
    ASSUME TypeOK, NEW c \in Requests, Arrive(c) \/ Proceed(c)
    PROVE  Writes \/ UNCHANGED <<users, sessions>>
  <1>1. CASE Arrive(c) \/ Lookup(c) \/ FindSession(c) \/ LoadAccount(c) \/ Forbid(c)
             \/ Serve(c) \/ HandlerFails(c) \/ Reply(c)
    BY <1>1 DEF Arrive, Lookup, FindSession, LoadAccount, Forbid, Serve, HandlerFails, Reply
  <1>2. CASE OpenSession(c)
    <2>1. CASE UNCHANGED <<users, sessions>>
      BY <2>1
    <2>2. CASE ~UNCHANGED <<users, sessions>>
      BY <1>2, <2>2 DEF OpenSession, Referenced, Writes, Opens, users, sessions
    <2> QED BY <2>1, <2>2
  <1>3. CASE Expire(c) \/ Evict(c) \/ SignOut(c)
    <2>1. UNCHANGED <<users, issued, cookies>> /\ session' \in {session, Closed(request[c].token)}
      BY <1>3 DEF Expire, Evict, SignOut
    <2> QED BY <2>1, ClosedCloses DEF Writes
  <1>4. CASE CreateUser(c)
    BY <1>4 DEF CreateUser, Writes, Inserts
  <1>5. CASE DeleteUser(c)
    BY <1>5 DEF DeleteUser, Writes, Removes, Others
  <1>6. CASE UpdateUser(c)
    BY <1>6 DEF UpdateUser, Writes, Updates, Others
  <1> QED BY <1>1, <1>2, <1>3, <1>4, <1>5, <1>6 DEF Proceed

(* What any step writes.                                                      *)
LEMMA StepWrites ==
    ASSUME TypeOK, [Next]_vars
    PROVE  Writes \/ UNCHANGED <<users, sessions>>
  <1>1. ASSUME NEW c \in Requests, Arrive(c) \/ Proceed(c) PROVE Writes \/ UNCHANGED <<users, sessions>>
    BY <1>1, RequestWrites
  <1>2. CASE Age
    <2>1. PICK t \in Open : session' \in {[session EXCEPT ![t].aged = TRUE],
                                          [session EXCEPT ![t].overdue = TRUE]}
      BY <1>2 DEF Age
    <2>2. session \in [Tokens -> Row] /\ t \in Tokens
      BY DEF TypeOK, Open
    <2>3. /\ [session[t] EXCEPT !.aged = TRUE] \in Row
          /\ [session[t] EXCEPT !.overdue = TRUE] \in Row
          /\ [session[t] EXCEPT !.aged = TRUE].user = session[t].user
          /\ [session[t] EXCEPT !.overdue = TRUE].user = session[t].user
          /\ [session[t] EXCEPT !.aged = TRUE].overdue = session[t].overdue
          /\ [session[t] EXCEPT !.overdue = TRUE].overdue
      BY <2>2 DEF Row
    <2>4. \/ session' = [session EXCEPT ![t] = [session[t] EXCEPT !.aged = TRUE]]
          \/ session' = [session EXCEPT ![t] = [session[t] EXCEPT !.overdue = TRUE]]
      BY <2>1
    <2>5. UNCHANGED <<users, issued, cookies>>
      BY <1>2 DEF Age
    <2>6. Ages
      BY <2>2, <2>3, <2>4, <2>5 DEF Ages
    <2> QED BY <2>6 DEF Writes
  <1>3. CASE Sweep
    <2>1. UNCHANGED <<users, issued, cookies>> /\ session' \in {session, Swept}
      BY <1>3 DEF Sweep
    <2>2. session \in [Tokens -> Row]
      BY DEF TypeOK
    <2>3. Closes
      BY <2>1, <2>2, IdleType DEF Swept, Closes
    <2> QED BY <2>3 DEF Writes
  <1>4. CASE Restart
    BY <1>4 DEF Restart, Writes, Inserts, Roles, users
  <1>5. CASE TickerFires \/ UNCHANGED vars
    BY <1>5 DEF TickerFires, vars
  <1> QED BY <1>1, <1>2, <1>3, <1>4, <1>5 DEF Next

(* Every step keeps the types of the tables.                                  *)
LEMMA TableTypes ==
    ASSUME TypeOK, [Next]_vars
    PROVE  /\ role' \in [Users -> Roles \cup {"none"}]
           /\ disabled' \subseteq Users /\ known' \subseteq Users
           /\ session' \in [Tokens -> Row]
           /\ issued' \subseteq Tokens /\ cookies' \subseteq Tokens
  <1>1. CASE UNCHANGED <<users, sessions>>
    BY <1>1 DEF users, sessions, TypeOK
  <1>2. CASE Opens
    <2>1. \A u \in Users : [NoRow EXCEPT !.user = u] \in Row
      BY DEF NoRow, Row
    <2> QED BY <1>2, <2>1 DEF Opens, TypeOK, users, Present
  <1>3. CASE Closes \/ Ages
    BY <1>3 DEF Closes, Ages, TypeOK, users
  <1>4. CASE Inserts \/ Updates
    BY <1>4 DEF Inserts, Updates, TypeOK, sessions, Present
  <1>5. CASE Removes
    BY <1>5, IdleType DEF Removes, TypeOK
  <1> QED BY <1>1, <1>2, <1>3, <1>4, <1>5, StepWrites DEF Writes

(* An ID or token that was inserted stays so, an account that is gone stays   *)
(* gone, and a session stays with its account until it is closed.             *)
Lasting ==
    /\ known \subseteq known' /\ issued \subseteq issued'
    /\ known \cap Present' \subseteq Present
    /\ \A t \in issued : session'[t].user \in {session[t].user, NoUser}

(* Every step keeps IDs inserted and sessions with their accounts.            *)
LEMMA TablesStep ==
    ASSUME TypeOK, Tables, [Next]_vars
    PROVE  Tables' /\ Lasting
  <1> USE AccessAssumption
  <1>0. /\ role \in [Users -> Roles \cup {"none"}] /\ session \in [Tokens -> Row]
        /\ known \subseteq Users /\ issued \subseteq Tokens /\ cookies \subseteq Tokens
    BY DEF TypeOK
  <1> USE DEF Tables, Lasting, NoOrphanSessions, Present, Open
  <1>1. CASE UNCHANGED <<users, sessions>>
    BY <1>1 DEF users, sessions
  <1>2. CASE Opens
    <2>1. PICK u \in Present, t \in Tokens \ issued :
             /\ session' = [session EXCEPT ![t] = [NoRow EXCEPT !.user = u]]
             /\ issued' = issued \cup {t}
             /\ cookies' \in {cookies, cookies \cup {t}}
      BY <1>2 DEF Opens
    <2>2. session'[t].user = u /\ \A s \in Tokens : s # t => session'[s] = session[s]
      BY <2>1, <1>0 DEF NoRow
    <2>3. UNCHANGED <<role, known>>
      BY <1>2 DEF Opens, users
    <2>4. UNCHANGED disabled
      BY <1>2 DEF Opens, users
    <2> QED BY <2>1, <2>2, <2>3, <2>4, <1>0
  <1>3. CASE Closes
    <2>1. \A t \in Tokens : session'[t].user \in {session[t].user, NoUser}
      BY <1>3 DEF Closes, NoRow
    <2>2. UNCHANGED <<role, disabled, known, issued, cookies>>
      BY <1>3 DEF Closes, users
    <2> QED BY <2>1, <2>2, <1>0
  <1>4. CASE Ages
    <2>2. UNCHANGED <<role, disabled, known, issued, cookies>> /\ \A t \in Tokens : session'[t].user = session[t].user
      BY <1>4 DEF Ages, users
    <2> QED BY <2>2, <1>0
  <1>5. CASE Inserts
    BY <1>5, <1>0 DEF Inserts, sessions, Roles
  <1>6. CASE Removes
    <2>1. PICK u \in Present :
             /\ role' = [role EXCEPT ![u] = "none"]
             /\ disabled' = disabled \ {u}
             /\ session' = [t \in Tokens |-> IF session[t].user = u THEN NoRow ELSE session[t]]
      BY <1>6 DEF Removes
    <2>2. \A t \in Tokens : session'[t].user = IF session[t].user = u THEN NoUser ELSE session[t].user
      BY <2>1, <1>0 DEF NoRow
    <2>3. UNCHANGED <<known, issued, cookies>>
      BY <1>6 DEF Removes
    <2> QED BY <2>1, <2>2, <2>3, <1>0
  <1>7. CASE Updates
    BY <1>7, <1>0 DEF Updates, sessions, Roles
  <1> QED BY <1>1, <1>2, <1>3, <1>4, <1>5, <1>6, <1>7, StepWrites DEF Writes

-----------------------------------------------------------------------------
(* The requests.                                                              *)

(* What the properties and the invariant say of one request.                  *)
EntitledAt(c) == At(c, "done") =>
    /\ request[c].answer \in {"page", "out", "forbidden", "admin page"} =>
           {"session", "enabled"} \subseteq seen[c]
    /\ request[c].answer = "admin page" => "admin" \in seen[c]
    /\ request[c].answer = "in" => "enabled" \in seen[c]
ClearedAt(c) == At(c, "done") =>
    /\ request[c].answer = "out" => request[c].token \notin Open
    /\ request[c].answer = "login" /\ faults = 0 => request[c].token \notin Open
ErrorAt(c) == At(c, "done") /\ request[c].answer = "error" =>
    faults > 0 \/ (request[c].token = NoToken /\ request[c].user \notin Present)
Good(c) == Shape(c) /\ Checked(c) /\ EntitledAt(c) /\ ClearedAt(c) /\ ErrorAt(c)

(* What seen is after a step.                                                 *)
LEMMA WatchFacts ==
    ASSUME TypeOK, Watch, NEW c \in Requests
    PROVE  /\ request'[c].at = "done" => seen'[c] = seen[c]
           /\ request'[c].at = "idle" => seen'[c] = {}
           /\ request'[c].at \notin {"done", "idle"} => seen'[c] = seen[c] \cup Holds(c)'
           /\ seen' \in [Requests -> SUBSET Facts]
  <1>1. Holds(c)' \subseteq Facts
    BY DEF Holds, Facts
  <1>2. \A d \in Requests : Holds(d)' \subseteq Facts /\ seen[d] \subseteq Facts
    BY DEF Holds, Facts, TypeOK
  <1> QED BY <1>2 DEF Watch

(* The steps that end a request keep what was seen; faults are only counted.  *)
LEMMA FaultsGrow ==
    ASSUME TypeOK, [Next]_vars
    PROVE  faults' \in 0..MaxFaults /\ faults' >= faults
  <1> USE AccessAssumption
  <1>0. faults \in 0..MaxFaults
    BY DEF TypeOK
  <1>1. UNCHANGED faults \/ Fault
    BY DEF Next, Arrive, Proceed, Lookup, OpenSession, FindSession, Expire, LoadAccount, Evict,
           Forbid, Serve, HandlerFails, SignOut, CreateUser, DeleteUser, UpdateUser, Reply,
           Applied, Age, Sweep, TickerFires, Restart, vars
  <1> QED BY <1>0, <1>1 DEF Fault

(* A request that a step leaves alone stays good.                             *)
LEMMA OthersGood ==
    ASSUME TypeOK, Tables, NEW c \in Requests, Good(c), [Next]_vars, request'[c] = request[c],
           seen' \in [Requests -> SUBSET Facts],
           At(c, "idle") \/ seen[c] \subseteq seen'[c]
    PROVE  Good(c)'
  <1> USE AccessAssumption
  <1>1. Lasting /\ Tables'
    BY TablesStep
  <1>2. faults' >= faults /\ faults \in Nat /\ faults' \in Nat
    BY FaultsGrow DEF TypeOK
  <1>3. request[c] \in Request /\ issued \subseteq Tokens /\ known \subseteq Users
    BY DEF TypeOK
  <1>4. Shape(c)'
    BY <1>1, <1>3 DEF Good, Shape, Lasting, At
  <1>5. Checked(c)' /\ EntitledAt(c)'
    BY DEF Good, Checked, EntitledAt, At
  <1>6. \A t \in issued : t \notin Open => t \notin Open'
    BY <1>1, <1>3 DEF Lasting, Open
  <1>7. NoToken \notin Open'
    BY DEF Open
  <1>8. ClearedAt(c)'
    BY <1>2, <1>6, <1>7 DEF Good, ClearedAt, Shape, At
  <1>9. request[c].user \in known \cup {NoUser} /\ NoUser \notin Present'
    BY DEF Good, Shape, Present
  <1>10. request[c].user \notin Present => request[c].user \notin Present'
    BY <1>1, <1>9 DEF Lasting
  <1>11. ErrorAt(c)'
    BY <1>2, <1>10 DEF Good, ErrorAt, At
  <1> QED BY <1>4, <1>5, <1>8, <1>11 DEF Good

(* A request that ends keeps its token and account; it is good if its answer  *)
(* is.                                                                        *)
LEMMA EndGood ==
    ASSUME TypeOK, Tables, NEW c \in Requests, Good(c), [Next]_vars, Watch,
           NEW a \in Answers, Finish(c, a), EntitledAt(c)', ClearedAt(c)', ErrorAt(c)'
    PROVE  Good(c)'
  <1>1. Lasting
    BY TablesStep
  <1>2. request'[c].at = "done" /\ request'[c].token = request[c].token /\ request'[c].user = request[c].user
    BY FinishFacts
  <1> QED BY <1>1, <1>2 DEF Good, Shape, Checked, Lasting, At

(* A step of a request leaves it good, well-formed, and the others alone.     *)
LEMMA ActingGood ==
    ASSUME TypeOK, Tables, NEW c \in Requests, Good(c), Arrive(c) \/ Proceed(c), Watch
    PROVE  /\ Good(c)'
           /\ request' \in [Requests -> Request]
           /\ \A d \in Requests : d # c => request'[d] = request[d]
  <1> USE AccessAssumption
  <1> DEFINE Local == /\ request' \in [Requests -> Request]
                      /\ \A d \in Requests : d # c => request'[d] = request[d]
  <1>0. /\ [Next]_vars
        /\ role \in [Users -> Roles \cup {"none"}] /\ session \in [Tokens -> Row]
        /\ request \in [Requests -> Request] /\ request[c] \in Request
        /\ known \subseteq Users /\ issued \subseteq Tokens /\ cookies \subseteq Tokens
        /\ faults \in Nat
    BY DEF Next, TypeOK
  <1>1. /\ request'[c].at = "done" => seen'[c] = seen[c]
        /\ request'[c].at \notin {"done", "idle"} => seen'[c] = seen[c] \cup Holds(c)'
    BY WatchFacts
  <1>2. Lasting /\ Tables'
    BY <1>0, TablesStep
  <1>3. NoToken \notin Open /\ NoToken \notin Open' /\ NoUser \notin Present /\ NoUser \notin Present'
    BY DEF Open, Present
  <1>4. \A a \in Answers : Finish(c, a) =>
           /\ request'[c].at = "done" /\ request'[c].answer = a
           /\ request'[c].token = request[c].token /\ request'[c].user = request[c].user
           /\ seen'[c] = seen[c]
           /\ Local
    BY <1>1, FinishFacts
  <1>5. ASSUME NEW a \in Answers \ {"page", "out", "forbidden", "admin page", "in"}, Finish(c, a)
        PROVE  EntitledAt(c)'
    BY <1>4, <1>5 DEF EntitledAt, At
  <1>6. ASSUME Finish(c, "error"), Fault PROVE Good(c)' /\ Local
    <2>0. "error" \in Answers /\ faults' > 0
      BY <1>0, <1>6 DEF Answers, Fault
    <2>1. request'[c].at = "done" /\ request'[c].answer = "error"
      BY <1>4, <1>6, <2>0
    <2>2. ClearedAt(c)' /\ ErrorAt(c)'
      BY <2>0, <2>1 DEF ClearedAt, ErrorAt, At
    <2> QED BY <1>0, <1>4, <1>5, <1>6, <2>0, <2>2, EndGood
  <1>7. ASSUME Finish(c, "login"), request[c].token \notin Open' \/ faults' # 0
        PROVE  Good(c)' /\ Local
    <2>1. ClearedAt(c)' /\ ErrorAt(c)'
      BY <1>4, <1>7 DEF ClearedAt, ErrorAt, At, Answers
    <2> QED BY <1>0, <1>4, <1>5, <1>7, <2>1, EndGood DEF Answers
  <1>8. ASSUME Finish(c, "page") \/ Finish(c, "forbidden") \/ Finish(c, "out") \/ Finish(c, "admin page"),
               At(c, "handling"), Finish(c, "admin page") => request[c].admin,
               Finish(c, "out") => request[c].token \notin Open'
        PROVE  Good(c)' /\ Local
    <2>1. PICK a \in {"page", "forbidden", "out", "admin page"} : Finish(c, a)
      BY <1>8
    <2>2. a \in Answers
      BY DEF Answers
    <2>3. /\ {"session", "enabled"} \subseteq seen'[c]
          /\ request[c].admin => "admin" \in seen'[c]
      BY <1>4, <1>8, <2>1, <2>2 DEF Good, Checked
    <2>4. /\ request'[c].at = "done" /\ request'[c].answer = a
          /\ request'[c].token = request[c].token
      BY <1>4, <2>1, <2>2
    <2>5. EntitledAt(c)' /\ ErrorAt(c)' /\ ClearedAt(c)'
      BY <1>8, <2>1, <2>3, <2>4 DEF EntitledAt, ErrorAt, ClearedAt, At
    <2> QED BY <1>0, <1>4, <2>1, <2>2, <2>5, EndGood
  <1>9. \A t \in Tokens \cup {NoToken} : session' = Closed(t) => t \notin Open'
    BY <1>0 DEF Closed, Open, NoRow
  <1>10. request[c].token \in Tokens \cup {NoToken} /\ request[c].user \in Users \cup {NoUser}
    BY <1>0 DEF Request
  <1>22. ASSUME NEW q \in Request, Become(c, q) PROVE request'[c] = q /\ Local
    BY <1>22, BecomeFacts
  <1>11. CASE Arrive(c)
    <2>1. CASE Become(c, [Idle EXCEPT !.at = "lookup"])
      <3>1. [Idle EXCEPT !.at = "lookup"] \in Request
        BY DEF Idle, Request, Steps, Answers
      <3>2. request'[c] = [Idle EXCEPT !.at = "lookup"] /\ Local
        BY <2>1, <3>1, <1>22
      <3> QED BY <3>2 DEF Good, Shape, Checked, EntitledAt, ClearedAt, ErrorAt, At, Idle
    <2>2. ASSUME NEW t \in cookies, Become(c, [Idle EXCEPT !.at = "finding", !.token = t])
          PROVE  Good(c)' /\ Local
      <3>1. [Idle EXCEPT !.at = "finding", !.token = t] \in Request
        BY <1>0 DEF Idle, Request, Steps, Answers
      <3>2. request'[c] = [Idle EXCEPT !.at = "finding", !.token = t] /\ Local
        BY <2>2, <3>1, <1>22
      <3>3. t \in issued'
        BY <1>2 DEF Lasting, Tables
      <3> QED BY <3>2, <3>3 DEF Good, Shape, Checked, EntitledAt, ClearedAt, ErrorAt, At, Idle
    <2>3. CASE Become(c, [Idle EXCEPT !.at = "done", !.answer = "login"])
      <3>1. [Idle EXCEPT !.at = "done", !.answer = "login"] \in Request
        BY DEF Idle, Request, Steps, Answers
      <3>2. request'[c] = [Idle EXCEPT !.at = "done", !.answer = "login"] /\ Local
        BY <2>3, <3>1, <1>22
      <3> QED BY <1>3, <3>2 DEF Good, Shape, Checked, EntitledAt, ClearedAt, ErrorAt, At, Idle
    <2> QED BY <1>11, <2>1, <2>2, <2>3 DEF Arrive
  <1>12. CASE Lookup(c)
    <2>1. ASSUME NEW u \in Enabled, Become(c, [request[c] EXCEPT !.at = "opening", !.user = u])
          PROVE  Good(c)' /\ Local
      <3>1. [request[c] EXCEPT !.at = "opening", !.user = u] \in Request
        BY <1>0 DEF Request, Steps, Enabled, Present
      <3>2. request'[c] = [request[c] EXCEPT !.at = "opening", !.user = u] /\ Local
        BY <2>1, <3>1, <1>22
      <3>3. request'[c].at = "opening" /\ request'[c].user = u /\ request'[c].token = NoToken
        BY <1>0, <1>12, <3>2 DEF Lookup, Good, Shape, At, Request
      <3>4. u \in known' /\ u \in Enabled'
        BY <1>2, <1>12 DEF Lookup, users, Enabled, Present, Lasting, Tables
      <3>5. "enabled" \in seen'[c]
        BY <1>1, <3>3, <3>4 DEF Holds
      <3> QED BY <3>2, <3>3, <3>4, <3>5 DEF Good, Shape, Checked, EntitledAt, ClearedAt, ErrorAt, At
    <2>2. CASE Finish(c, "denied")
      <3>1. ClearedAt(c)' /\ ErrorAt(c)'
        BY <1>4, <2>2 DEF ClearedAt, ErrorAt, At, Answers
      <3> QED BY <1>0, <1>4, <1>5, <2>2, <3>1, EndGood DEF Answers
    <2> QED BY <1>6, <1>12, <2>1, <2>2 DEF Lookup
  <1>13. CASE OpenSession(c)
    <2>1. CASE ~Referenced(request[c].user) /\ Finish(c, "error") /\ UNCHANGED <<users, sessions, faults>>
      <3>1. request'[c].token = NoToken /\ request'[c].user \notin Present' /\ request'[c].answer = "error"
        BY <1>4, <1>13, <2>1 DEF OpenSession, Referenced, Good, Shape, At, users, Present, Answers
      <3>2. ClearedAt(c)' /\ ErrorAt(c)'
        BY <3>1 DEF ClearedAt, ErrorAt
      <3> QED BY <1>0, <1>4, <1>5, <2>1, <3>2, EndGood DEF Answers
    <2>2. ASSUME NEW t \in Tokens \ issued, issued' = issued \cup {t}, UNCHANGED faults,
                 Become(c, [request[c] EXCEPT !.at = "done", !.answer = "in", !.token = t])
          PROVE  Good(c)' /\ Local
      <3>1. [request[c] EXCEPT !.at = "done", !.answer = "in", !.token = t] \in Request
        BY <1>0 DEF Request, Steps, Answers
      <3>2. request'[c] = [request[c] EXCEPT !.at = "done", !.answer = "in", !.token = t] /\ Local
        BY <2>2, <3>1, <1>22
      <3>3. /\ request'[c].at = "done" /\ request'[c].user = request[c].user
            /\ request'[c].token = t /\ request'[c].answer = "in"
        BY <1>0, <3>2 DEF Request
      <3>4. "enabled" \in seen'[c] /\ request[c].user \in known'
        BY <1>1, <1>2, <1>13, <3>3 DEF OpenSession, Good, Checked, Shape, Lasting
      <3> QED BY <2>2, <3>2, <3>3, <3>4 DEF Good, Shape, Checked, EntitledAt, ClearedAt, ErrorAt, At
    <2> QED BY <1>6, <1>13, <2>1, <2>2 DEF OpenSession
  <1>14. CASE FindSession(c)
    <2>0. UNCHANGED <<session, issued, known>> /\ request[c].token \in issued /\ Open' = Open
          /\ Expired' = Expired
      BY <1>14 DEF FindSession, sessions, users, Good, Shape, At, Open, Expired
    <2>1. CASE request[c].token \notin Open /\ Finish(c, "login")
      BY <1>7, <2>0, <2>1
    <2>2. CASE Goto(c, "expiring")
      <3>1. Local /\ request'[c].at = "expiring" /\ request'[c].token = request[c].token
            /\ request'[c].user = request[c].user
        BY <2>2, GotoFacts DEF Steps
      <3> QED BY <2>0, <3>1 DEF Good, Shape, Checked, EntitledAt, ClearedAt, ErrorAt, At
    <2>3. CASE /\ request[c].token \in Open \ Expired
               /\ Become(c, [request[c] EXCEPT !.at = "loading",
                                               !.user = session[request[c].token].user])
      <3> DEFINE u == session[request[c].token].user
      <3>1. u \in Present /\ u \in Users /\ u \in known'
        BY <2>0, <2>3 DEF Tables, NoOrphanSessions, Present
      <3>2. [request[c] EXCEPT !.at = "loading", !.user = u] \in Request
        BY <1>0, <3>1 DEF Request, Steps
      <3>3. request'[c] = [request[c] EXCEPT !.at = "loading", !.user = u] /\ Local
        BY <2>3, <3>2, <1>22
      <3>4. request'[c].at = "loading" /\ request'[c].user = u /\ request'[c].token = request[c].token
        BY <1>0, <3>3 DEF Request
      <3>5. "session" \in seen'[c]
        BY <1>1, <2>0, <2>3, <3>4 DEF Holds
      <3> QED BY <2>0, <3>1, <3>3, <3>4, <3>5 DEF Good, Shape, Checked, EntitledAt, ClearedAt, ErrorAt, At
    <2> QED BY <1>6, <1>14, <2>1, <2>2, <2>3 DEF FindSession
  <1>15. CASE Expire(c)
    <2>1. CASE session' = Closed(request[c].token) /\ Finish(c, "login")
      BY <1>7, <1>9, <1>10, <2>1
    <2> QED BY <1>6, <1>15, <2>1 DEF Expire, AfterExpiry
  <1>16. CASE LoadAccount(c)
    <2>0. /\ UNCHANGED <<session, issued, known, role, disabled>>
          /\ request[c].token \in issued /\ request[c].user \in known
          /\ session[request[c].token].user \in {request[c].user, NoUser}
          /\ "session" \in seen[c]
          /\ Open' = Open /\ Present' = Present /\ Enabled' = Enabled /\ Admins' = Admins
      BY <1>16 DEF LoadAccount, sessions, users, Good, Shape, Checked, At, Open, Present, Enabled, Admins
    <2>1. CASE request[c].user \notin Present /\ Finish(c, "login")
      <3>1. request[c].token \notin Open
        BY <2>0, <2>1 DEF Open, Tables, NoOrphanSessions
      <3> QED BY <1>7, <2>0, <2>1, <3>1
    <2>2. CASE Goto(c, "evicting")
      <3>1. Local /\ request'[c].at = "evicting" /\ request'[c].token = request[c].token
            /\ request'[c].user = request[c].user
        BY <2>2, GotoFacts DEF Steps
      <3>2. "session" \in seen'[c]
        BY <1>1, <2>0, <3>1
      <3> QED BY <2>0, <3>1, <3>2 DEF Good, Shape, Checked, EntitledAt, ClearedAt, ErrorAt, At
    <2>3. CASE /\ request[c].user \in Admitted
               /\ Become(c, [request[c] EXCEPT !.at = "handling",
                                               !.admin = role[request[c].user] = "admin"])
      <3> DEFINE b == role[request[c].user] = "admin"
      <3>2. [request[c] EXCEPT !.at = "handling", !.admin = b] \in Request
        BY <1>0 DEF Request, Steps
      <3>3. request'[c] = [request[c] EXCEPT !.at = "handling", !.admin = b] /\ Local
        BY <2>3, <3>2, <1>22
      <3>4. /\ request'[c].at = "handling" /\ request'[c].user = request[c].user
            /\ request'[c].token = request[c].token /\ request'[c].admin = b
        BY <1>0, <3>3 DEF Request
      <3>5. {"session", "enabled"} \subseteq seen'[c]
        BY <1>1, <2>0, <2>3, <3>4 DEF Holds, Admitted
      <3>6. b => request[c].user \in Admins
        BY <2>3 DEF Admitted, Admins
      <3>7. request'[c].admin => "admin" \in seen'[c]
        BY <1>1, <2>0, <3>4, <3>6 DEF Holds
      <3>8. Shape(c)'
        BY <2>0, <3>4 DEF Shape, At
      <3>9. Checked(c)' /\ EntitledAt(c)' /\ ClearedAt(c)' /\ ErrorAt(c)'
        BY <3>4, <3>5, <3>7 DEF Checked, EntitledAt, ClearedAt, ErrorAt, At
      <3> QED BY <3>3, <3>8, <3>9 DEF Good
    <2> QED BY <1>6, <1>16, <2>1, <2>2, <2>3 DEF LoadAccount
  <1>17. CASE Evict(c)
    <2>1. CASE session' = Closed(request[c].token)
      BY <1>7, <1>9, <1>10, <1>17, <2>1 DEF Evict
    <2>2. CASE Fault
      BY <1>0, <1>7, <1>17, <2>2 DEF Evict, Fault
    <2> QED BY <1>17, <2>1, <2>2 DEF Evict
  <1>23. \A a, b \in Answers : Finish(c, a) /\ Finish(c, b) => a = b
    BY <1>4
  <1>18. CASE Forbid(c) \/ Serve(c) \/ HandlerFails(c)
    BY <1>6, <1>8, <1>18, <1>23 DEF Forbid, Serve, HandlerFails, IsAdmin, Answers
  <1>19. CASE SignOut(c)
    <2>1. request[c].token \notin Open' /\ At(c, "handling")
      BY <1>9, <1>10, <1>19 DEF SignOut
    <2> QED BY <1>6, <1>8, <1>19, <1>23, <2>1 DEF SignOut, Applied, Answers
  <1>20. CASE CreateUser(c) \/ DeleteUser(c) \/ UpdateUser(c)
    <2>1. IsAdmin(c) /\ Applied(c, "admin page")
      BY <1>20 DEF CreateUser, DeleteUser, UpdateUser
    <2> QED BY <1>6, <1>8, <1>23, <2>1 DEF IsAdmin, Applied, Answers
  <1>21. CASE Reply(c)
    <2>1. Become(c, Idle) /\ Idle \in Request
      BY <1>21, IdleType DEF Reply
    <2>2. request'[c] = Idle /\ Local
      BY <2>1, <1>22
    <2>3. request'[c].at = "idle" /\ request'[c].token = NoToken /\ request'[c].user = NoUser
      BY <2>2 DEF Idle
    <2> QED BY <2>2, <2>3 DEF Good, Shape, Checked, EntitledAt, ClearedAt, ErrorAt, At
  <1> QED BY <1>11, <1>12, <1>13, <1>14, <1>15, <1>16, <1>17, <1>18, <1>19, <1>20, <1>21 DEF Proceed

(* Every request is good after every step.                                    *)
LEMMA GoodStep ==
    ASSUME TypeOK, Tables, \A c \in Requests : Good(c), [Next]_vars
    PROVE  /\ \A c \in Requests : Good(c)'
           /\ request' \in [Requests -> Request]
           /\ seen' \in [Requests -> SUBSET Facts]
  <1>0. request \in [Requests -> Request] /\ seen \in [Requests -> SUBSET Facts]
    BY DEF TypeOK
  <1>1. CASE UNCHANGED vars
    BY <1>0, <1>1, OthersGood DEF vars
  <1>2. CASE Watch
    <2>0. seen' \in [Requests -> SUBSET Facts]
      BY <1>2 DEF Watch, Holds, Facts, TypeOK
    <2>1. ASSUME NEW c \in Requests, request'[c] = request[c] PROVE Good(c)'
      <3>1. At(c, "idle") \/ seen[c] \subseteq seen'[c]
        BY <1>2, <2>1, WatchFacts DEF At
      <3> QED BY <2>0, <2>1, <3>1, OthersGood
    <2>2. ASSUME NEW c \in Requests, Arrive(c) \/ Proceed(c)
          PROVE  (\A d \in Requests : Good(d)') /\ request' \in [Requests -> Request]
      BY <1>2, <2>1, <2>2, ActingGood
    <2>3. CASE request' = request
      BY <1>0, <2>0, <2>1, <2>3
    <2>4. CASE request' = [c \in Requests |-> Idle]
      <3>1. ASSUME NEW c \in Requests PROVE Good(c)'
        <4>1. request'[c].at = "idle" /\ request'[c].token = NoToken /\ request'[c].user = NoUser
          BY <2>4 DEF Idle
        <4> QED BY <4>1 DEF Good, Shape, Checked, EntitledAt, ClearedAt, ErrorAt, At
      <3> QED BY <2>0, <2>4, <3>1, IdleType
    <2>5. (\E c \in Requests : Arrive(c) \/ Proceed(c)) \/ request' = request
          \/ request' = [c \in Requests |-> Idle]
      BY DEF Next, Age, Sweep, TickerFires, Restart, vars
    <2> QED BY <2>0, <2>2, <2>3, <2>4, <2>5
  <1> QED BY <1>1, <1>2 DEF Next

(* The invariant, one request at a time.                                      *)
LEMMA InvGood == Inv <=> TypeOK /\ Tables /\ \A c \in Requests : Good(c)
  BY DEF Inv, Good, EntitledAt, ClearedAt, ErrorAt, Entitled, CookieClearedSessionClosed,
         NoSpuriousError

(* The invariant holds when nothing has run yet.                              *)
LEMMA InvInit == Init => Inv
  <1> USE AccessAssumption
  <1> SUFFICES ASSUME Init PROVE Inv
    OBVIOUS
  <1>1. TypeOK
    BY IdleType DEF Init, TypeOK, Roles
  <1>2. Tables
    BY DEF Init, Tables, NoOrphanSessions, Present, Open, NoRow
  <1>3. ASSUME NEW c \in Requests PROVE Good(c)
    <2>1. request[c].at = "idle" /\ request[c].token = NoToken /\ request[c].user = NoUser
      BY DEF Init, Idle
    <2> QED BY <2>1 DEF Good, Shape, Checked, EntitledAt, ClearedAt, ErrorAt, At
  <1> QED BY <1>1, <1>2, <1>3, InvGood

(* The invariant is inductive.                                                *)
LEMMA InvStep == Inv /\ [Next]_vars => Inv'
  <1> SUFFICES ASSUME Inv, [Next]_vars PROVE Inv'
    OBVIOUS
  <1> USE AccessAssumption
  <1>1. TypeOK /\ Tables /\ \A c \in Requests : Good(c)
    BY InvGood
  <1>2. /\ \A c \in Requests : Good(c)'
        /\ request' \in [Requests -> Request]
        /\ seen' \in [Requests -> SUBSET Facts]
    BY <1>1, GoodStep
  <1>3. Tables'
    BY <1>1, TablesStep
  <1>4. cleaner' \in {"sweeping", "waiting"} /\ restarts' \in 0..MaxRestarts
    <2>1. cleaner' \in {cleaner, "sweeping", "waiting"}
      BY DEF Next, Arrive, Proceed, Lookup, OpenSession, FindSession, Expire, LoadAccount, Evict,
             Forbid, Serve, HandlerFails, SignOut, CreateUser, DeleteUser, UpdateUser, Reply,
             Age, Sweep, AfterFailedSweep, TickerFires, Restart, vars
    <2>2. restarts' = restarts \/ (restarts < MaxRestarts /\ restarts' = restarts + 1)
      BY DEF Next, Arrive, Proceed, Lookup, OpenSession, FindSession, Expire, LoadAccount, Evict,
             Forbid, Serve, HandlerFails, SignOut, CreateUser, DeleteUser, UpdateUser, Reply,
             Age, Sweep, TickerFires, Restart, vars
    <2> QED BY <1>1, <2>1, <2>2 DEF TypeOK
  <1>5. TypeOK'
    BY <1>1, <1>2, <1>4, TableTypes, FaultsGrow DEF TypeOK
  <1>6. (TypeOK /\ Tables /\ \A c \in Requests : Good(c))'
    BY <1>2, <1>3, <1>5
  <1> QED BY <1>6, InvGood, PTL

(* The inductive invariant of access control.                                 *)
THEOREM Invariance == Spec => []Inv
  BY InvInit, InvStep, PTL DEF Spec

(* Every variable keeps its type.                                             *)
THEOREM TypeCorrect == Spec => []TypeOK
  <1>1. Inv => TypeOK
    BY DEF Inv
  <1> QED BY <1>1, Invariance, PTL

(* requireAuth and requireAdmin overlook no logout, removal or change of role *)
(* that was finished before the request arrived.                              *)
THEOREM AccessEntitled == Spec => []Entitled
  <1>1. Inv => Entitled
    BY DEF Inv
  <1> QED BY <1>1, Invariance, PTL

(* No session outlives its account.                                           *)
THEOREM SessionsOwned == Spec => []NoOrphanSessions
  <1>1. Inv => NoOrphanSessions
    BY DEF Inv, Tables
  <1> QED BY <1>1, Invariance, PTL

(* A browser told to forget its cookie leaves no session behind.              *)
THEOREM CookieCleared == Spec => []CookieClearedSessionClosed
  <1>1. Inv => CookieClearedSessionClosed
    BY DEF Inv
  <1> QED BY <1>1, Invariance, PTL

(* Concurrent deletions of one session do not make each other fail.           *)
THEOREM ErrorsExplained == Spec => []NoSpuriousError
  <1>1. Inv => NoSpuriousError
    BY DEF Inv
  <1> QED BY <1>1, Invariance, PTL

-----------------------------------------------------------------------------
(* Properties of single steps.                                                *)

(* Only a request whose sender was an enabled admin while it ran changes      *)
(* accounts; a restart inserts an enabled admin into an empty table and       *)
(* changes no other one.                                                      *)
THEOREM ChangesByAdmins == Spec => OnlyAdminsChange
  <1> DEFINE ByAdmin == \E c \in Requests :
                 /\ At(c, "handling") /\ request'[c] # request[c]
                 /\ {"session", "enabled", "admin"} \subseteq seen[c]
             Bootstrap == IF Present = {} THEN \E u \in Users : Present' = {u} /\ Admins' = {u}
                          ELSE UNCHANGED <<role, disabled>>
             Change == /\ restarts' = restarts /\ <<role, disabled>>' # <<role, disabled>> => ByAdmin
                       /\ restarts' # restarts => Bootstrap
  <1>1. ASSUME Inv, Next, restarts' = restarts, <<role, disabled>>' # <<role, disabled>>
        PROVE  ByAdmin
    <2>0. ~Restart
      BY <1>1, AccessAssumption DEF Restart, Inv, TypeOK
    <2>1. PICK c \in Requests : CreateUser(c) \/ DeleteUser(c) \/ UpdateUser(c)
      BY <1>1, <2>0 DEF Next, Arrive, Proceed, Lookup, OpenSession, FindSession, Expire,
             LoadAccount, Evict, Forbid, Serve, HandlerFails, SignOut, Reply, Age, Sweep,
             TickerFires, users
    <2>2. At(c, "handling") /\ request[c].admin
      BY <2>1 DEF CreateUser, DeleteUser, UpdateUser, IsAdmin
    <2>3. Finish(c, "admin page") \/ Finish(c, "error")
      BY <2>1 DEF CreateUser, DeleteUser, UpdateUser, Applied
    <2>4. request'[c].at = "done"
      BY <1>1, <2>3, FinishFacts DEF Inv, Answers
    <2> QED BY <1>1, <2>2, <2>4 DEF Inv, Checked, At
  <1>2. ASSUME Inv, Next, restarts' # restarts
        PROVE  Bootstrap
    <2>1. Restart
      BY <1>2 DEF Next, Arrive, Proceed, Lookup, OpenSession, FindSession, Expire, LoadAccount,
             Evict, Forbid, Serve, HandlerFails, SignOut, CreateUser, DeleteUser, UpdateUser,
             Reply, Age, Sweep, TickerFires
    <2>2. CASE Present # {}
      BY <2>1, <2>2 DEF Restart
    <2>3. CASE Present = {}
      <3>1. PICK u \in Users \ known : role' = [role EXCEPT ![u] = "admin"] /\ UNCHANGED disabled
        BY <2>1, <2>3 DEF Restart
      <3>2. role'[u] = "admin" /\ \A v \in Users : v # u => role'[v] = "none"
        BY <1>2, <2>3, <3>1 DEF Inv, TypeOK, Present
      <3>3. Present' = {u} /\ disabled' = {}
        BY <1>2, <2>3, <3>1, <3>2 DEF Inv, Tables, Present
      <3> QED BY <2>3, <3>2, <3>3 DEF Admins, Enabled
    <2> QED BY <2>2, <2>3
  <1>3. Inv /\ [Next]_vars => [Change]_vars
    BY <1>1, <1>2
  <1> QED BY <1>3, Invariance, PTL DEF Spec, OnlyAdminsChange

(* The last enabled admin is only lost to a form whose sender was an admin    *)
(* when requireAuth read his account and is none any more.                    *)
THEOREM LockoutNeedsRace == Spec => AdminsLostOnlyByRace
  <1> DEFINE Race == Admins # {} /\ Admins' = {} =>
          \E c \in Requests :
              /\ At(c, "handling") /\ request'[c] # request[c]
              /\ request[c].user \notin Admins
  <1>1. Inv /\ [Next]_vars => [Race]_vars
    <2> SUFFICES ASSUME Inv, Next, Admins # {}, Admins' = {}
                 PROVE  \E c \in Requests :
                            /\ At(c, "handling") /\ request'[c] # request[c]
                            /\ request[c].user \notin Admins
      BY DEF vars
    <2>0. TypeOK /\ Tables
      BY DEF Inv
    <2>1. PICK c \in Requests : DeleteUser(c) \/ UpdateUser(c)
      <3>1. ASSUME UNCHANGED users PROVE FALSE
        BY <3>1 DEF users, Admins, Enabled, Present
      <3>2. ASSUME NEW u \in Users \ known, NEW r \in Roles, role' = [role EXCEPT ![u] = r],
                   UNCHANGED disabled
            PROVE  FALSE
        BY <2>0, <3>2 DEF Admins, Enabled, Present, TypeOK, Tables, Roles
      <3>3. ASSUME NEW c \in Requests, CreateUser(c) PROVE FALSE
        BY <3>2, <3>3 DEF CreateUser
      <3>4. ASSUME Restart PROVE FALSE
        BY <3>1, <3>2, <3>4 DEF Restart, Roles, users
      <3> QED BY <3>1, <3>3, <3>4
            DEF Next, Arrive, Proceed, Lookup, OpenSession, FindSession, Expire, LoadAccount, Evict,
                Forbid, Serve, HandlerFails, SignOut, Reply, Age, Sweep, TickerFires, users
    <2>2. At(c, "handling") /\ Applied(c, "admin page")
      BY <2>1 DEF DeleteUser, UpdateUser, IsAdmin
    <2>3. request'[c] # request[c]
      BY <2>0, <2>2, FinishFacts DEF Applied, At, Answers
    <2>4. ASSUME request[c].user \in Admins PROVE FALSE
      <3>1. PICK u \in Others(c) : \A v \in Users : v # u => role'[v] = role[v] /\ (v \in disabled' <=> v \in disabled)
        BY <2>0, <2>1 DEF DeleteUser, UpdateUser, TypeOK, Others, Present
      <3>2. request[c].user \in Users /\ request[c].user # u
        BY <2>4, <3>1 DEF Others, Admins, Enabled, Present
      <3>3. request[c].user \in Admins'
        BY <2>4, <3>1, <3>2 DEF Admins, Enabled, Present
      <3> QED BY <3>3
    <2> QED BY <2>2, <2>3, <2>4
  <1> QED BY <1>1, Invariance, PTL DEF Spec, AdminsLostOnlyByRace

-----------------------------------------------------------------------------
(* What is over stays over: closed sessions, removed and disabled accounts.   *)

Same(c) == request'[c].token = request[c].token /\ request'[c].user = request[c].user

(* Where a step of a request leads.                                           *)
Arrives(c) ==
    /\ At(c, "idle") /\ request'[c].user = NoUser
    /\ \/ request'[c].at \in {"lookup", "done"} /\ request'[c].token = NoToken
       \/ request'[c].at = "finding" /\ request'[c].token \in cookies
SignsIn(c) ==
    \/ /\ At(c, "lookup") /\ request'[c].at = "opening" /\ request'[c].user \in Enabled
       /\ request'[c].token = request[c].token
    \/ /\ At(c, "opening") /\ request'[c].at = "done" /\ request'[c].user = request[c].user
       /\ request'[c].token \in Tokens \ issued
Passes(c) ==
    \/ /\ At(c, "finding") /\ request'[c].at = "loading"
       /\ request'[c].token = request[c].token /\ request[c].token \in Open
       /\ request'[c].user = session[request[c].token].user
    \/ At(c, "loading") /\ request'[c].at = "handling" /\ Same(c) /\ request[c].user \in Enabled
Strays(c) ==
    /\ Same(c)
    /\ \/ At(c, "finding") /\ request'[c].at = "expiring"
       \/ At(c, "loading") /\ request'[c].at = "evicting"
Ends(c) ==
    /\ request[c].at \notin {"idle", "done"} /\ request'[c].at = "done" /\ Same(c)
    /\ request[c].at \in {"finding", "expiring"} => request'[c].answer \in {"login", "error"}
Leaves(c) == request'[c] = Idle
Leads(c) == Arrives(c) \/ SignsIn(c) \/ Passes(c) \/ Strays(c) \/ Ends(c) \/ Leaves(c)

(* A request that finishes ends.                                              *)
LEMMA FinishEnds ==
    ASSUME TypeOK, NEW c \in Requests, NEW a \in Answers, Finish(c, a),
           request[c].at \notin {"idle", "done"},
           request[c].at \in {"finding", "expiring"} => a \in {"login", "error"}
    PROVE  Leads(c)
  <1>1. request'[c].at = "done" /\ Same(c) /\ request'[c].answer = a
    BY FinishFacts DEF Same
  <1> QED BY <1>1 DEF Leads, Ends

(* Each step of a request leads on.                                           *)
LEMMA RequestLeads ==
    ASSUME TypeOK, NEW c \in Requests, Arrive(c) \/ Proceed(c)
    PROVE  Leads(c) /\ \A d \in Requests : d # c => request'[d] = request[d]
  <1>0. /\ request \in [Requests -> Request] /\ request[c] \in Request
        /\ cookies \subseteq Tokens
    BY DEF TypeOK
  <1> DEFINE Rest == \A d \in Requests : d # c => request'[d] = request[d]
  <1>1. ASSUME NEW q, Become(c, q) PROVE request'[c] = q /\ Rest
    BY <1>1, BecomeFacts
  <1>2. ASSUME NEW a \in Answers, Finish(c, a), request[c].at \notin {"idle", "done"},
               request[c].at \in {"finding", "expiring"} => a \in {"login", "error"}
        PROVE  Leads(c) /\ Rest
    BY <1>2, FinishEnds, FinishFacts
  <1>3. CASE Arrive(c)
    <2>0. At(c, "idle")
      BY <1>3 DEF Arrive
    <2>1. CASE Become(c, [Idle EXCEPT !.at = "lookup"])
      <3>1. request'[c] = [Idle EXCEPT !.at = "lookup"] /\ Rest
        BY <1>1, <2>1
      <3> QED BY <2>0, <3>1 DEF Leads, Arrives, Idle
    <2>2. CASE Become(c, [Idle EXCEPT !.at = "done", !.answer = "login"])
      <3>1. request'[c] = [Idle EXCEPT !.at = "done", !.answer = "login"] /\ Rest
        BY <1>1, <2>2
      <3> QED BY <2>0, <3>1 DEF Leads, Arrives, Idle
    <2>3. ASSUME NEW t \in cookies, Become(c, [Idle EXCEPT !.at = "finding", !.token = t])
          PROVE  Leads(c) /\ Rest
      <3>1. request'[c] = [Idle EXCEPT !.at = "finding", !.token = t] /\ Rest
        BY <1>1, <2>3
      <3> QED BY <2>0, <3>1 DEF Leads, Arrives, Idle
    <2> QED BY <1>3, <2>1, <2>2, <2>3, Zenon DEF Arrive
  <1>4. CASE Lookup(c)
    <2>0. At(c, "lookup")
      BY <1>4 DEF Lookup
    <2>1. ASSUME NEW u \in Enabled, Become(c, [request[c] EXCEPT !.at = "opening", !.user = u])
          PROVE  Leads(c) /\ Rest
      <3>1. request'[c] = [request[c] EXCEPT !.at = "opening", !.user = u] /\ Rest
        BY <1>1, <2>1
      <3>2. /\ request'[c].at = "opening" /\ request'[c].user = u
            /\ request'[c].token = request[c].token
        BY <1>0, <3>1 DEF Request
      <3> QED BY <2>0, <3>1, <3>2 DEF Leads, SignsIn
    <2>2. ASSUME NEW a \in {"denied", "error"}, Finish(c, a) PROVE Leads(c) /\ Rest
      BY <1>2, <2>0, <2>2 DEF At, Answers
    <2> QED BY <1>4, <2>1, <2>2 DEF Lookup
  <1>5. CASE OpenSession(c)
    <2>0. At(c, "opening")
      BY <1>5 DEF OpenSession
    <2>1. ASSUME NEW t \in Tokens \ issued,
                 Become(c, [request[c] EXCEPT !.at = "done", !.answer = "in", !.token = t])
          PROVE  Leads(c) /\ Rest
      <3>1. request'[c] = [request[c] EXCEPT !.at = "done", !.answer = "in", !.token = t]
            /\ Rest
        BY <1>1, <2>1
      <3>2. /\ request'[c].at = "done" /\ request'[c].user = request[c].user
            /\ request'[c].token = t
        BY <1>0, <3>1 DEF Request
      <3> QED BY <2>0, <3>1, <3>2 DEF Leads, SignsIn
    <2>2. ASSUME Finish(c, "error") PROVE Leads(c) /\ Rest
      BY <1>2, <2>0, <2>2 DEF At, Answers
    <2> QED BY <1>5, <2>1, <2>2, Zenon DEF OpenSession
  <1>6. CASE FindSession(c)
    <2>0. At(c, "finding")
      BY <1>6 DEF FindSession
    <2>1. ASSUME Goto(c, "expiring") PROVE Leads(c) /\ Rest
      <3>1. Same(c) /\ request'[c].at = "expiring" /\ Rest
        BY <2>1, GotoFacts DEF Steps, Same
      <3> QED BY <2>0, <3>1 DEF Leads, Strays
    <2>2. ASSUME NEW u, u = session[request[c].token].user, request[c].token \in Open,
                 Become(c, [request[c] EXCEPT !.at = "loading", !.user = u])
          PROVE  Leads(c) /\ Rest
      <3>1. request'[c] = [request[c] EXCEPT !.at = "loading", !.user = u] /\ Rest
        BY <1>1, <2>2
      <3>2. /\ request'[c].at = "loading" /\ request'[c].user = u
            /\ request'[c].token = request[c].token
        BY <1>0, <3>1 DEF Request
      <3> QED BY <2>0, <2>2, <3>1, <3>2 DEF Leads, Passes
    <2>3. ASSUME NEW a \in {"login", "error"}, Finish(c, a) PROVE Leads(c) /\ Rest
      BY <1>2, <2>0, <2>3 DEF At, Answers
    <2>4. \/ Finish(c, "login") \/ Goto(c, "expiring") \/ Finish(c, "error")
          \/ /\ request[c].token \in Open
             /\ Become(c, [request[c] EXCEPT !.at = "loading",
                                             !.user = session[request[c].token].user])
      BY <1>6, Zenon DEF FindSession
    <2> QED BY <2>1, <2>2, <2>3, <2>4
  <1>7. CASE LoadAccount(c)
    <2>0. At(c, "loading")
      BY <1>7 DEF LoadAccount
    <2>1. ASSUME Goto(c, "evicting") PROVE Leads(c) /\ Rest
      <3>1. Same(c) /\ request'[c].at = "evicting" /\ Rest
        BY <2>1, GotoFacts DEF Steps, Same
      <3> QED BY <2>0, <3>1 DEF Leads, Strays
    <2>2. ASSUME NEW b, request[c].user \in Enabled,
                 Become(c, [request[c] EXCEPT !.at = "handling", !.admin = b])
          PROVE  Leads(c) /\ Rest
      <3>1. request'[c] = [request[c] EXCEPT !.at = "handling", !.admin = b] /\ Rest
        BY <1>1, <2>2
      <3>2. request'[c].at = "handling" /\ Same(c)
        BY <1>0, <3>1 DEF Request, Same
      <3> QED BY <2>0, <2>2, <3>1, <3>2 DEF Leads, Passes
    <2>3. ASSUME NEW a \in {"login", "error"}, Finish(c, a) PROVE Leads(c) /\ Rest
      BY <1>2, <2>0, <2>3 DEF At, Answers
    <2> QED BY <1>7, <2>1, <2>2, <2>3, Zenon DEF LoadAccount, Admitted
  <1>8. CASE Expire(c)
    <2>1. At(c, "expiring") /\ (Finish(c, "login") \/ Finish(c, "error"))
      BY <1>8, Zenon DEF Expire, AfterExpiry
    <2> QED BY <1>2, <2>1 DEF At, Answers
  <1>9. CASE Evict(c)
    <2>1. At(c, "evicting") /\ Finish(c, "login")
      BY <1>9 DEF Evict
    <2> QED BY <1>2, <2>1 DEF At, Answers
  <1>10. CASE Forbid(c) \/ Serve(c) \/ HandlerFails(c) \/ SignOut(c)
              \/ CreateUser(c) \/ DeleteUser(c) \/ UpdateUser(c)
    <2>1. At(c, "handling")
      BY <1>10, Zenon
         DEF Forbid, Serve, HandlerFails, SignOut, CreateUser, DeleteUser, UpdateUser, IsAdmin
    <2>2. \/ Finish(c, "forbidden") \/ Finish(c, "page") \/ Finish(c, "admin page")
          \/ Finish(c, "error") \/ Finish(c, "out")
      BY <1>10, Zenon
         DEF Forbid, Serve, HandlerFails, SignOut, CreateUser, DeleteUser, UpdateUser, Applied
    <2> QED BY <1>2, <2>1, <2>2 DEF At, Answers
  <1>11. CASE Reply(c)
    BY <1>1, <1>11 DEF Reply, Leads, Leaves
  <1> QED BY <1>3, <1>4, <1>5, <1>6, <1>7, <1>8, <1>9, <1>10, <1>11 DEF Proceed

(* What any step does to a request.                                           *)
LEMMA StepLeads ==
    ASSUME TypeOK, [Next]_vars, NEW c \in Requests
    PROVE  request'[c] = request[c] \/ Leads(c)
  <1>1. ASSUME NEW d \in Requests, Arrive(d) \/ Proceed(d)
        PROVE  request'[c] = request[c] \/ Leads(c)
    BY <1>1, RequestLeads
  <1>2. CASE Restart
    BY <1>2 DEF Restart, Leads, Leaves
  <1>3. CASE Age \/ Sweep \/ TickerFires \/ UNCHANGED vars
    BY <1>3 DEF Age, Sweep, TickerFires, vars
  <1> QED BY <1>1, <1>2, <1>3 DEF Next

(* A session that is closed, once the requests that it let pass have ended:   *)
(* those that still carry its token are turned away.                          *)
SignedOff(t) ==
    /\ t \in issued \ Open
    /\ \A c \in Requests : request[c].token = t =>
          \/ request[c].at \in {"finding", "expiring"}
          \/ At(c, "done") /\ request[c].answer \in {"login", "error"}

(* An account that is removed, or disabled, once the requests that acted for  *)
(* it have ended.                                                             *)
Dismissed(u) ==
    /\ u \in known \ Present
    /\ \A c \in Requests : request[c].user = u => At(c, "done")
Suspended(u) ==
    /\ u \in disabled
    /\ \A c \in Requests :
          request[c].user = u => request[c].at \in {"loading", "evicting", "done"}

(* Once a session is closed, by a logout, the eviction of a disabled account, *)
(* the removal of its account or its expiry, and the requests that it had let *)
(* pass have ended, no request that carries its token is ever let pass again, *)
(* whatever logins, retries, restarts and failures follow.                    *)
THEOREM ClosedForGood == Spec => \A t \in Tokens : [](SignedOff(t) => []SignedOff(t))
  <1> SUFFICES ASSUME NEW t \in Tokens PROVE Spec => [](SignedOff(t) => []SignedOff(t))
    OBVIOUS
  <1>1. Inv /\ SignedOff(t) /\ [Next]_vars => SignedOff(t)'
    <2> SUFFICES ASSUME Inv, SignedOff(t), [Next]_vars PROVE SignedOff(t)'
      OBVIOUS
    <2>1. TypeOK /\ Tables /\ t # NoToken
      BY AccessAssumption DEF Inv
    <2>2. t \in (issued \ Open)'
      BY <2>1, TablesStep DEF SignedOff, Lasting, Open
    <2>3. ASSUME NEW c \in Requests, request'[c].token = t
          PROVE  \/ request'[c].at \in {"finding", "expiring"}
                 \/ request'[c].at = "done" /\ request'[c].answer \in {"login", "error"}
      <3>1. request'[c] = request[c] \/ Leads(c)
        BY <2>1, StepLeads
      <3>2. CASE request'[c] = request[c]
        BY <2>3, <3>2 DEF SignedOff, At
      <3>3. CASE Arrives(c)
        BY <2>1, <2>3, <3>3 DEF Arrives
      <3>4. CASE SignsIn(c)
        <4>1. At(c, "lookup") => request[c].token = NoToken
          BY DEF Inv, Shape, At
        <4> QED BY <2>1, <2>3, <3>4, <4>1 DEF SignsIn, SignedOff
      <3>5. CASE Passes(c) \/ Strays(c) \/ Ends(c)
        BY <2>3, <3>5 DEF Passes, Strays, Ends, Same, SignedOff, At
      <3>6. CASE Leaves(c)
        BY <2>1, <2>3, <3>6 DEF Leaves, Idle
      <3> QED BY <3>1, <3>2, <3>3, <3>4, <3>5, <3>6 DEF Leads
    <2> QED BY <2>2, <2>3 DEF SignedOff, At
  <1> QED BY <1>1, Invariance, PTL DEF Spec

(* Once an account is removed and the requests that acted for it have ended,  *)
(* none ever acts for it again: no session of it is left, and none is opened. *)
THEOREM RemovedForGood == Spec => \A u \in Users : [](Dismissed(u) => []Dismissed(u))
  <1> SUFFICES ASSUME NEW u \in Users PROVE Spec => [](Dismissed(u) => []Dismissed(u))
    OBVIOUS
  <1>1. Inv /\ Dismissed(u) /\ [Next]_vars => Dismissed(u)'
    <2> SUFFICES ASSUME Inv, Dismissed(u), [Next]_vars PROVE Dismissed(u)'
      OBVIOUS
    <2>1. TypeOK /\ Tables /\ u # NoUser
      BY AccessAssumption DEF Inv
    <2>2. u \in (known \ Present)'
      BY <2>1, TablesStep DEF Dismissed, Lasting
    <2>3. ASSUME NEW c \in Requests, request'[c].user = u PROVE request'[c].at = "done"
      <3>1. request'[c] = request[c] \/ Leads(c)
        BY <2>1, StepLeads
      <3>2. CASE request'[c] = request[c] \/ Strays(c) \/ Ends(c)
        BY <2>3, <3>2 DEF Dismissed, Strays, Ends, Same, At
      <3>3. CASE Arrives(c) \/ Leaves(c)
        BY <2>1, <2>3, <3>3 DEF Arrives, Leaves, Idle
      <3>4. CASE SignsIn(c)
        BY <2>3, <3>4 DEF SignsIn, Dismissed, Enabled
      <3>5. CASE Passes(c)
        BY <2>1, <2>3, <3>5 DEF Passes, Same, Dismissed, Tables, NoOrphanSessions, At
      <3> QED BY <3>1, <3>2, <3>3, <3>4, <3>5 DEF Leads
    <2> QED BY <2>2, <2>3 DEF Dismissed, At
  <1> QED BY <1>1, Invariance, PTL DEF Spec

(* While an account is disabled, and once the requests that acted for it have *)
(* ended, none acts for it: neither its password nor a session that is still  *)
(* open gets a request past requireAuth before an admin enables it again.     *)
THEOREM SuspendedUntilEnabled ==
    Spec => [][\A u \in Users : Suspended(u) => Suspended(u)' \/ u \notin disabled']_vars
  <1>1. Inv /\ [Next]_vars =>
          [\A u \in Users : Suspended(u) => Suspended(u)' \/ u \notin disabled']_vars
    <2> SUFFICES ASSUME Inv, [Next]_vars, NEW u \in Users, Suspended(u), u \in disabled',
                        NEW c \in Requests, request'[c].user = u
                 PROVE  request'[c].at \in {"loading", "evicting", "done"}
      BY DEF Suspended
    <2>1. TypeOK /\ u # NoUser
      BY AccessAssumption DEF Inv
    <2>2. request'[c] = request[c] \/ Leads(c)
      BY <2>1, StepLeads
    <2>3. CASE request'[c] = request[c] \/ Strays(c) \/ Ends(c)
      BY <2>3 DEF Suspended, Strays, Ends, Same, At
    <2>4. CASE Arrives(c) \/ Leaves(c)
      BY <2>1, <2>4 DEF Arrives, Leaves, Idle
    <2>5. CASE SignsIn(c) \/ Passes(c)
      BY <2>5 DEF SignsIn, Passes, Same, Suspended, Enabled, At
    <2> QED BY <2>2, <2>3, <2>4, <2>5 DEF Leads
  <1> QED BY <1>1, Invariance, PTL DEF Spec

-----------------------------------------------------------------------------
(* What the steps leave to fairness.                                          *)

StepsLeft(s) ==
    CASE s = "finding" -> 4
      [] s \in {"lookup", "loading"} -> 3
      [] s \in {"opening", "expiring", "evicting", "handling"} -> 2
      [] s = "done" -> 1
      [] OTHER -> 0

Nearer(c) == StepsLeft(request'[c].at) < StepsLeft(request[c].at)

(* Every request ends after at most four statements of its own, whatever the  *)
(* others do and however the database fails: there is no loop and no retry.   *)
THEOREM RequestAdvances ==
    Spec => [][\A c \in Requests : ~At(c, "idle") => Nearer(c) \/ UNCHANGED request[c]]_vars
  <1>1. Inv /\ [Next]_vars =>
          [\A c \in Requests : ~At(c, "idle") => Nearer(c) \/ UNCHANGED request[c]]_vars
    <2> SUFFICES ASSUME Inv, [Next]_vars, NEW c \in Requests, ~At(c, "idle"),
                        ~UNCHANGED request[c]
                 PROVE  Nearer(c)
      OBVIOUS
    <2>1. TypeOK /\ request[c].at \in Steps
      BY DEF Inv, TypeOK, Request
    <2>2. Leads(c)
      BY <2>1, StepLeads
    <2>3. CASE SignsIn(c) \/ Passes(c) \/ Strays(c)
      BY <2>3 DEF SignsIn, Passes, Strays, Nearer, StepsLeft, At
    <2>4. CASE Ends(c)
      BY <2>1, <2>4 DEF Ends, Nearer, StepsLeft, At, Steps
    <2>5. CASE Leaves(c)
      <3>1. request'[c].at = "idle"
        BY <2>5 DEF Leaves, Idle
      <3> QED BY <2>1, <3>1 DEF Nearer, StepsLeft, At, Steps
    <2> QED BY <2>2, <2>3, <2>4, <2>5 DEF Leads, Arrives
  <1> QED BY <1>1, Invariance, PTL DEF Spec

(* What OverdueRemoved asks of the steps: an overdue session stays overdue    *)
(* until it is gone, and a sweep that does not fail leaves none.  What is     *)
(* left is that the cleanup runs again and that the database works.           *)
THEOREM OverdueUntilSwept ==
    Spec => [][/\ \A t \in Overdue : t \in Overdue' \/ t \notin Open'
               /\ cleaner = "sweeping" /\ cleaner' = "waiting" /\ UNCHANGED faults
                      => Overdue' = {}]_vars
  <1>1. Inv /\ [Next]_vars =>
          [/\ \A t \in Overdue : t \in Overdue' \/ t \notin Open'
           /\ cleaner = "sweeping" /\ cleaner' = "waiting" /\ UNCHANGED faults
                  => Overdue' = {}]_vars
    <2> SUFFICES ASSUME Inv, [Next]_vars
                 PROVE  /\ \A t \in Overdue : t \in Overdue' \/ t \notin Open'
                        /\ cleaner = "sweeping" /\ cleaner' = "waiting" /\ UNCHANGED faults
                               => Overdue' = {}
      OBVIOUS
    <2>0. TypeOK /\ Tables /\ session \in [Tokens -> Row]
      BY DEF Inv, TypeOK
    <2>1. ASSUME NEW t \in Overdue PROVE t \in Overdue' \/ t \notin Open'
      <3>1. t \in Tokens /\ t \in Open /\ session[t].overdue /\ t \in issued
        BY <2>0, <2>1 DEF Overdue, Tables, Open
      <3>2. session'[t].user = NoUser \/ session'[t].overdue
        <4>1. CASE UNCHANGED session
          BY <3>1, <4>1
        <4>2. CASE Opens
          BY <2>0, <3>1, <4>2 DEF Opens
        <4>3. CASE Closes
          BY <3>1, <4>3 DEF Closes, NoRow
        <4>4. CASE Ages
          BY <3>1, <4>4 DEF Ages
        <4>5. CASE Removes
          BY <2>0, <3>1, <4>5 DEF Removes, NoRow
        <4> QED BY <2>0, <4>1, <4>2, <4>3, <4>4, <4>5, StepWrites
              DEF Writes, Inserts, Updates, sessions
      <3> QED BY <3>1, <3>2 DEF Overdue, Open
    <2>2. ASSUME cleaner = "sweeping", cleaner' = "waiting", UNCHANGED faults
          PROVE  Overdue' = {}
      <3>1. Sweep
        BY <2>2 DEF Next, Arrive, Proceed, Lookup, OpenSession, FindSession, Expire, LoadAccount,
               Evict, Forbid, Serve, HandlerFails, SignOut, CreateUser, DeleteUser, UpdateUser,
               Reply, Age, TickerFires, Restart, vars
      <3>2. session' = Swept
        BY <2>0, <2>2, <3>1 DEF Sweep, Fault, TypeOK
      <3> QED BY <3>2 DEF Swept, Overdue, Open, NoRow
    <2> QED BY <2>1, <2>2
  <1> QED BY <1>1, Invariance, PTL DEF Spec

================================================================================
