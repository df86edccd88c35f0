----------------------------- MODULE AccessControl -----------------------------
(* Who may do what: the users and sessions tables of PostgreSQL, the login,   *)
(* logout and user handlers of package web behind requireAuth and             *)
(* requireAdmin, and the hourly deletion of expired sessions.  Every request  *)
(* runs in a goroutine of its own and goes through several statements, each a *)
(* step here: what it read in one may have changed at the next.  Work done in *)
(* memory (password hashes, CSRF and form checks, the guard on the own        *)
(* account) belongs to the step of the statement next to it.                  *)
(*                                                                            *)
(* Passwords, usernames and cookies' lifetimes in the browser are abstracted: *)
(* a login may name any account and be right or wrong about its password, and *)
(* a request may carry any token that a login has handed out.                 *)
EXTENDS Naturals, FiniteSets

CONSTANTS
    Users, NoUser,      \* user IDs (uuid.NewV7 never repeats one)
    Tokens, NoToken,    \* session tokens (generateToken never repeats one)
    Requests,           \* the concurrent requests
    MaxExpired,         \* bound on the sessions expired at the same time
    MaxFaults,          \* bound on failed database calls
    MaxRestarts         \* bound on restarts of the process

ASSUME AccessAssumption ==
    /\ NoUser \notin Users
    /\ NoToken \notin Tokens
    /\ MaxExpired \in Nat
    /\ MaxFaults \in Nat
    /\ MaxRestarts \in Nat

VARIABLES
    role,       \* users.role: [Users -> Roles \cup {"none"}], "none" = no row
    disabled,   \* users.disabled
    known,      \* the user IDs ever inserted
    session,    \* table sessions: [Tokens -> Row]
    issued,     \* the tokens ever inserted
    cookies,    \* the tokens that a login handed to a browser
    request,    \* [Requests -> Request]: where each request is
    seen,       \* [Requests -> SUBSET Facts]: what held at some time during it
    cleaner,    \* runSessionCleanup: "sweeping" or "waiting" for its ticker
    faults, restarts

users == <<role, disabled, known>>
sessions == <<session, issued, cookies>>
vars == <<users, sessions, request, seen, cleaner, faults, restarts>>

Roles == {"admin", "viewer"}

(* A row of sessions: its account, and whether expires_at has passed by the   *)
(* clock of the process (aged) and by that of PostgreSQL (overdue).           *)
Row == [user : Users \cup {NoUser}, aged : BOOLEAN, overdue : BOOLEAN]
NoRow == [user |-> NoUser, aged |-> FALSE, overdue |-> FALSE]

(* A request: its step, the token of its cookie (NoToken in a login), its     *)
(* account, whether requireAuth found that to be an admin's, and its answer.  *)
Steps == {"idle", "lookup", "opening", "finding", "expiring", "loading", "evicting",
          "handling", "done"}
Answers == {"none", "in", "denied", "login", "page", "out", "forbidden", "admin page",
            "error"}
Request == [at : Steps, token : Tokens \cup {NoToken}, user : Users \cup {NoUser},
            admin : BOOLEAN, answer : Answers]
Idle == [at |-> "idle", token |-> NoToken, user |-> NoUser, admin |-> FALSE, answer |-> "none"]

Facts == {"session", "enabled", "admin"}

TypeOK ==
    /\ role \in [Users -> Roles \cup {"none"}]
    /\ disabled \subseteq Users
    /\ known \subseteq Users
    /\ session \in [Tokens -> Row]
    /\ issued \subseteq Tokens
    /\ cookies \subseteq Tokens
    /\ request \in [Requests -> Request]
    /\ seen \in [Requests -> SUBSET Facts]
    /\ cleaner \in {"sweeping", "waiting"}
    /\ faults \in 0..MaxFaults
    /\ restarts \in 0..MaxRestarts

Present == {u \in Users : role[u] # "none"}
Enabled == Present \ disabled
Admins == {u \in Enabled : role[u] = "admin"}
Open == {t \in Tokens : session[t].user # NoUser}
Expired == {t \in Open : session[t].aged}
Overdue == {t \in Open : session[t].overdue}

(* The first start found no user and inserted the initial admin.              *)
Init ==
    /\ \E u \in Users : /\ role = [v \in Users |-> IF v = u THEN "admin" ELSE "none"]
                        /\ known = {u}
    /\ disabled = {}
    /\ session = [t \in Tokens |-> NoRow]
    /\ issued = {}
    /\ cookies = {}
    /\ request = [c \in Requests |-> Idle]
    /\ seen = [c \in Requests |-> {}]
    /\ cleaner = "sweeping"
    /\ faults = 0
    /\ restarts = 0

-----------------------------------------------------------------------------
(* Steps of a request.                                                        *)

At(c, s) == request[c].at = s
Become(c, q) == request' = [request EXCEPT ![c] = q]
Goto(c, s) == Become(c, [request[c] EXCEPT !.at = s])
Finish(c, a) == Become(c, [request[c] EXCEPT !.at = "done", !.answer = a])
Fault == faults < MaxFaults /\ faults' = faults + 1

(* The DELETE of one session; deleting an absent one changes nothing.         *)
Closed(t) == [session EXCEPT ![t] = NoRow]

(* A request arrives: a login, one with a cookie, or one without.  What it    *)
(* asks for does not matter before its handler runs.                          *)
Arrive(c) ==
    /\ At(c, "idle")
    /\ \/ Become(c, [Idle EXCEPT !.at = "lookup"])
       \/ \E t \in cookies : Become(c, [Idle EXCEPT !.at = "finding", !.token = t])
       \/ Become(c, [Idle EXCEPT !.at = "done", !.answer = "login"])
    /\ UNCHANGED <<users, sessions, cleaner, faults, restarts>>

(* handlePostLogin: ByUsername, VerifyPassword and the check for a disabled   *)
(* account.                                                                   *)
Lookup(c) ==
    /\ At(c, "lookup")
    /\ \/ /\ \E u \in Enabled :
                Become(c, [request[c] EXCEPT !.at = "opening", !.user = u])
          /\ UNCHANGED faults
       \/ Finish(c, "denied") /\ UNCHANGED faults
       \/ Fault /\ Finish(c, "error")
    /\ UNCHANGED <<users, sessions, cleaner, restarts>>

(* The foreign key of sessions.user_id.  (Mutant: there is none.)             *)
ReferenceUnchecked(u) == TRUE
Referenced(u) == u \in Present

(* Service.Create inserts the session; the login hands the token out.  A      *)
(* failed INSERT may have been applied, under a token that nobody knows.      *)
(* Model bound: Tokens is the number of logins that get this far.             *)
OpenSession(c) ==
    LET u == request[c].user
    IN  /\ At(c, "opening")
        /\ \/ /\ Referenced(u)
              /\ \E t \in Tokens \ issued :
                    /\ session' = [session EXCEPT ![t] = [NoRow EXCEPT !.user = u]]
                    /\ issued' = issued \cup {t}
                    /\ \/ /\ cookies' = cookies \cup {t}
                          /\ Become(c, [request[c] EXCEPT !.at = "done", !.answer = "in",
                                                          !.token = t])
                          /\ UNCHANGED faults
                       \/ Fault /\ Finish(c, "error") /\ UNCHANGED cookies
           \/ ~Referenced(u) /\ Finish(c, "error") /\ UNCHANGED <<sessions, faults>>
           \/ Fault /\ Finish(c, "error") /\ UNCHANGED sessions
        /\ UNCHANGED <<users, cleaner, restarts>>

(* Service.Validate reads the row and compares it with the clock.             *)
FindSession(c) ==
    LET t == request[c].token
    IN  /\ At(c, "finding")
        /\ \/ t \notin Open /\ Finish(c, "login") /\ UNCHANGED faults
           \/ t \in Expired /\ Goto(c, "expiring") /\ UNCHANGED faults
           \/ /\ t \in Open \ Expired
              /\ Become(c, [request[c] EXCEPT !.at = "loading", !.user = session[t].user])
              /\ UNCHANGED faults
           \/ Fault /\ Finish(c, "error")
        /\ UNCHANGED <<users, sessions, cleaner, restarts>>

(* What requireAuth makes of the DELETE of an expired session: a row that     *)
(* another request or the cleanup deleted first is as good as deleted.        *)
(* (Mutant: the error loses its identity, and is one.)                        *)
AfterExpiryOpaque(t) == IF t \in Open THEN "login" ELSE "error"
AfterExpiry(t) == "login"

Expire(c) ==
    LET t == request[c].token
    IN  /\ At(c, "expiring")
        /\ \/ session' = Closed(t) /\ Finish(c, AfterExpiry(t)) /\ UNCHANGED faults
           \/ Fault /\ session' \in {session, Closed(t)} /\ Finish(c, "error")
        /\ UNCHANGED <<users, issued, cookies, cleaner, restarts>>

(* The accounts that requireAuth lets through.  (Mutant: it does not look at  *)
(* users.disabled.)                                                           *)
AdmittedAll == Present
Admitted == Enabled

(* users.ByID.  The account is copied into the request's context.             *)
LoadAccount(c) ==
    LET u == request[c].user
    IN  /\ At(c, "loading")
        /\ \/ u \notin Present /\ Finish(c, "login") /\ UNCHANGED faults
           \/ u \in Present \ Admitted /\ Goto(c, "evicting") /\ UNCHANGED faults
           \/ /\ u \in Admitted
              /\ Become(c, [request[c] EXCEPT !.at = "handling",
                                              !.admin = role[u] = "admin"])
              /\ UNCHANGED faults
           \/ Fault /\ Finish(c, "error")
        /\ UNCHANGED <<users, sessions, cleaner, restarts>>

(* A disabled user's session is deleted; if that fails, it is only logged.    *)
(* (Mutant: only the cookie is cleared.)                                      *)
EvictCookieOnly(c) ==
    /\ At(c, "evicting")
    /\ Finish(c, "login")
    /\ UNCHANGED <<users, sessions, cleaner, faults, restarts>>

Evict(c) ==
    LET t == request[c].token
    IN  /\ At(c, "evicting")
        /\ \/ session' = Closed(t) /\ UNCHANGED faults
           \/ Fault /\ session' \in {session, Closed(t)}
        /\ Finish(c, "login")
        /\ UNCHANGED <<users, issued, cookies, cleaner, restarts>>

-----------------------------------------------------------------------------
(* The handlers, with the account that requireAuth copied.                    *)

(* requireAdmin.  (Mutant: a route without it.)                               *)
IsAdminUnchecked(c) == At(c, "handling")
IsAdmin(c) == At(c, "handling") /\ request[c].admin

Forbid(c) ==
    /\ At(c, "handling") /\ ~request[c].admin
    /\ Finish(c, "forbidden")
    /\ UNCHANGED <<users, sessions, cleaner, faults, restarts>>

(* A page, or a form refused: for its CSRF token, a malformed or unknown ID,  *)
(* an unknown role, a username that is taken, or the own account.  The pages  *)
(* and forms of endpoints change nothing here.                                *)
Serve(c) ==
    /\ \/ At(c, "handling") /\ Finish(c, "page")
       \/ IsAdmin(c) /\ Finish(c, "admin page")
    /\ UNCHANGED <<users, sessions, cleaner, faults, restarts>>

(* Any of them whose statement fails without having been applied.             *)
HandlerFails(c) ==
    /\ At(c, "handling")
    /\ Fault /\ Finish(c, "error")
    /\ UNCHANGED <<users, sessions, cleaner, restarts>>

(* A statement that is applied answers a, unless its answer is lost.          *)
Applied(c, a) ==
    \/ Finish(c, a) /\ UNCHANGED faults
    \/ Fault /\ Finish(c, "error")

(* handlePostLogout: Service.Delete.                                          *)
SignOut(c) ==
    /\ At(c, "handling")
    /\ session' = Closed(request[c].token)
    /\ Applied(c, "out")
    /\ UNCHANGED <<users, issued, cookies, cleaner, restarts>>

(* handlePostUser, with a username that is free.                              *)
CreateUser(c) ==
    /\ IsAdmin(c)
    /\ \E u \in Users \ known, r \in Roles :
          /\ role' = [role EXCEPT ![u] = r]
          /\ known' = known \cup {u}
    /\ Applied(c, "admin page")
    /\ UNCHANGED <<disabled, sessions, cleaner, restarts>>

(* The accounts an admin's forms may name.  (Mutant: the own one, too.)       *)
OthersAndSelf(c) == Users
Others(c) == Users \ {request[c].user}

(* handleDeleteUser; the foreign key cascades to the user's sessions.         *)
DeleteUser(c) ==
    /\ IsAdmin(c)
    /\ \E u \in Others(c) \cap Present :
          /\ role' = [role EXCEPT ![u] = "none"]
          /\ session' = [t \in Tokens |-> IF session[t].user = u THEN NoRow ELSE session[t]]
          /\ disabled' = disabled \ {u}
    /\ Applied(c, "admin page")
    /\ UNCHANGED <<known, issued, cookies, cleaner, restarts>>

(* handleUpdateUser: role and disabled in one statement.                      *)
UpdateUser(c) ==
    /\ IsAdmin(c)
    /\ \E u \in Others(c) \cap Present, r \in Roles :
          /\ role' = [role EXCEPT ![u] = r]
          /\ disabled' \in {disabled \cup {u}, disabled \ {u}}
    /\ Applied(c, "admin page")
    /\ UNCHANGED <<known, sessions, cleaner, restarts>>

Reply(c) ==
    /\ At(c, "done")
    /\ Become(c, Idle)
    /\ UNCHANGED <<users, sessions, cleaner, faults, restarts>>

Proceed(c) ==
    \/ Lookup(c) \/ OpenSession(c)
    \/ FindSession(c) \/ Expire(c) \/ LoadAccount(c) \/ Evict(c)
    \/ Forbid(c) \/ Serve(c) \/ HandlerFails(c)
    \/ SignOut(c) \/ CreateUser(c) \/ DeleteUser(c) \/ UpdateUser(c)
    \/ Reply(c)

-----------------------------------------------------------------------------
(* Time, the cleanup and the process.                                         *)

(* 24 hours pass, by either clock first.                                      *)
Age ==
    \E t \in Open :
        /\ Cardinality((Expired \cup Overdue) \ {t}) < MaxExpired
        /\ session' \in {[session EXCEPT ![t].aged = TRUE],
                         [session EXCEPT ![t].overdue = TRUE]}
        /\ UNCHANGED <<users, issued, cookies, request, cleaner, faults, restarts>>

(* deleteExpiredSessions: a failure is logged.  (Mutant: it ends the loop.)   *)
AfterFailedSweepStopped == "stopped"
AfterFailedSweep == "waiting"

Swept == [t \in Tokens |-> IF t \in Overdue THEN NoRow ELSE session[t]]

Sweep ==
    /\ cleaner = "sweeping"
    /\ \/ session' = Swept /\ cleaner' = "waiting" /\ UNCHANGED faults
       \/ Fault /\ session' \in {session, Swept} /\ cleaner' = AfterFailedSweep
    /\ UNCHANGED <<users, issued, cookies, request, restarts>>

(* The ticker of runSessionCleanup fires.                                     *)
TickerFires ==
    /\ cleaner = "waiting" /\ cleaner' = "sweeping"
    /\ UNCHANGED <<users, sessions, request, faults, restarts>>

(* The process ends with its requests and starts again: ensureInitialAdmin    *)
(* inserts an admin if there is no user at all, and the cleanup starts with a *)
(* sweep.                                                                     *)
Restart ==
    /\ restarts < MaxRestarts /\ restarts' = restarts + 1
    /\ request' = [c \in Requests |-> Idle]
    /\ cleaner' = "sweeping"
    /\ \/ Present # {} /\ UNCHANGED <<role, known>>
       \/ /\ Present = {}
          /\ \E u \in Users \ known : /\ role' = [role EXCEPT ![u] = "admin"]
                                      /\ known' = known \cup {u}
    /\ UNCHANGED <<disabled, sessions, faults>>

(* What holds for a request now, of the token it carries and of the account   *)
(* it acts for.  seen collects it over the time the request takes.            *)
Holds(c) ==
    (IF request[c].token \in Open \ Expired THEN {"session"} ELSE {})
        \cup (IF request[c].user \in Enabled THEN {"enabled"} ELSE {})
        \cup (IF request[c].user \in Admins THEN {"admin"} ELSE {})

Watch ==
    seen' = [c \in Requests |-> CASE request'[c].at = "idle" -> {}
                                  [] request'[c].at = "done" -> seen[c]
                                  [] OTHER -> seen[c] \cup Holds(c)']

Next ==
    /\ \/ \E c \in Requests : Arrive(c) \/ Proceed(c)
       \/ Age \/ Sweep \/ TickerFires \/ Restart
    /\ Watch

Spec == Init /\ [][Next]_vars

(* Fairness: the cleanup goroutine runs and its ticker fires.                 *)
Fairness ==
    /\ WF_vars(Sweep /\ Watch)
    /\ WF_vars(TickerFires /\ Watch)

FairSpec == Spec /\ Fairness

-----------------------------------------------------------------------------
(* Properties.                                                                *)

(* Whatever requireAuth lets pass had an open, unexpired session and an       *)
(* enabled account, and an admin's page or form an admin's account, at some   *)
(* time while the request ran: neither a logout, a removal nor a change of    *)
(* role that was finished before the request arrived is ever overlooked.  A   *)
(* login succeeds only for an account that was enabled while it ran.          *)
Entitled ==
    \A c \in Requests : At(c, "done") =>
        /\ request[c].answer \in {"page", "out", "forbidden", "admin page"} =>
               {"session", "enabled"} \subseteq seen[c]
        /\ request[c].answer = "admin page" => "admin" \in seen[c]
        /\ request[c].answer = "in" => "enabled" \in seen[c]

(* Accounts change only by a request whose sender was an enabled admin while  *)
(* it ran, whether or not the answer reaches him.  A restart that finds no    *)
(* account at all leaves one, an enabled admin, and any other restart changes *)
(* none, also when no admin is left (bootstrap.go:22).                        *)
OnlyAdminsChange ==
    [][/\ restarts' = restarts /\ <<role, disabled>>' # <<role, disabled>> =>
              \E c \in Requests :
                  /\ At(c, "handling") /\ request'[c] # request[c]
                  /\ {"session", "enabled", "admin"} \subseteq seen[c]
       /\ restarts' # restarts =>
              IF Present = {} THEN \E u \in Users : Present' = {u} /\ Admins' = {u}
              ELSE UNCHANGED <<role, disabled>>
      ]_vars

(* The last enabled admin can only be lost to a race: to a form of one who    *)
(* was an admin when requireAuth read his account and is none any more when   *)
(* the statement runs (two admins who delete, disable or demote each other).  *)
AdminsLostOnlyByRace ==
    [][Admins # {} /\ Admins' = {} =>
          \E c \in Requests :
              /\ At(c, "handling") /\ request'[c] # request[c]
              /\ request[c].user \notin Admins
      ]_vars

(* No session outlives its account, in particular none that a login opens     *)
(* while the account is deleted.                                              *)
NoOrphanSessions == \A t \in Open : session[t].user \in Present

(* A browser that was told to forget its cookie leaves no session behind,     *)
(* unless a database call failed; after a successful logout not even then.    *)
CookieClearedSessionClosed ==
    \A c \in Requests : At(c, "done") =>
        /\ request[c].answer = "out" => request[c].token \notin Open
        /\ request[c].answer = "login" /\ faults = 0 => request[c].token \notin Open

(* Requests and the cleanup that delete the same session or account at the    *)
(* same time do not make each other fail: while the database works, only a    *)
(* login whose account is deleted under it ends in an error.                  *)
NoSpuriousError ==
    \A c \in Requests : At(c, "done") /\ request[c].answer = "error" =>
        faults > 0 \/ (request[c].token = NoToken /\ request[c].user \notin Present)

(* The inductive invariant: what makes the properties above hold.             *)

(* Accounts and sessions have IDs that were inserted, a session has an        *)
(* account, and only accounts are disabled.                                   *)
Tables ==
    /\ Present \subseteq known
    /\ disabled \subseteq Present
    /\ Open \cup cookies \subseteq issued
    /\ NoOrphanSessions

(* What a request carries at each of its steps.  The session that requireAuth *)
(* has found stays that of the account it found, until it is closed.          *)
Shape(c) ==
    /\ request[c].token \in issued \cup {NoToken}
    /\ request[c].user \in known \cup {NoUser}
    /\ request[c].at \in {"lookup", "opening"} => request[c].token = NoToken
    /\ At(c, "opening") => request[c].user \in known
    /\ request[c].at \in {"finding", "expiring"} => request[c].token \in issued
    /\ request[c].at \in {"loading", "evicting", "handling"} =>
          /\ request[c].token \in issued /\ request[c].user \in known
          /\ session[request[c].token].user \in {request[c].user, NoUser}

(* What has held for a request by the time it is at each of its steps.        *)
Checked(c) ==
    /\ At(c, "opening") => "enabled" \in seen[c]
    /\ request[c].at \in {"loading", "evicting"} => "session" \in seen[c]
    /\ At(c, "handling") => /\ {"session", "enabled"} \subseteq seen[c]
                            /\ request[c].admin => "admin" \in seen[c]

Inv ==
    /\ TypeOK
    /\ Tables
    /\ \A c \in Requests : Shape(c) /\ Checked(c)
    /\ Entitled
    /\ CookieClearedSessionClosed
    /\ NoSpuriousError

-----------------------------------------------------------------------------
(* What the process is obliged to do.                                         *)

(* A session that the database considers expired is removed, however often    *)
(* the cleanup fails before the database works again.                         *)
OverdueRemoved == \A t \in Tokens : t \in Overdue ~> t \notin Open

=============================================================================
