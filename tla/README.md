# SignalDock in TLA+

SignalDock watches HTTP(S) endpoints.  An admin registers a URL; the server
checks that it responds and that its certificate is valid, and shows the latest
result.  These modules model the part of the program whose correctness depends
on the order in which things happen, or on more cases than anyone lists in a
test, model-check it with TLC on small instances and prove its safety properties
with TLAPS for instances of any size.

Source lines below refer to `src/`; `PROJECT.json` maps every definition to the
lines it stands for.

## 1. Inventory

| Component | State | Operations |
|---|---|---|
| Endpoint service (`internal/endpoint/service.go`) | none of its own: it combines the two stores below | `Add`, `Refresh`, `List`, `ByID`, `RemoveByID` |
| Endpoint repository (`repository.go`, `schema.go:14-18`) | table `endpoints`: id, unique url | `Insert`, `List`, `ByID`, `RemoveByID`: one statement each |
| Check store (`check_store.go`) | a map from IDs to results, in memory, under a lock | `Set`, `Get`, `Delete` |
| Process (`cmd/signaldock/run.go`, `startup.go`, `bootstrap.go`, `session_cleanup.go`) | its phase | pool, schema, initial admin, cleanup goroutine, startup refresh, listen, shutdown |
| Sessions (`internal/session`) | table `sessions`: token hash, user, expiry | `Create`, `Validate`, `Delete`, `DeleteExpired` |
| Users (`internal/user`) | table `users`: id, unique name, role, disabled | `Insert`, `List`, `ByUsername`, `ByID`, `UpdateAccess`, `RemoveByID` |
| Middleware (`internal/web/middleware.go`) | the account copied into the request | `requireAuth`, `requireAdmin` |
| Handlers (`internal/web/*_handlers.go`) | none | login, logout, users, endpoints |
| Messages and page states (`endpoint_handlers.go`, `view.go`) | none | from the errors and results of a check |
| CSRF tokens and cookies (`csrf.go`, `auth.go`) | the browser's cookies, the token in each page | `getCSRFToken`, `validateCSRF` |
| URL normalization (`url.go`) | none | `ParseURL` |
| Probes (`internal/probe`) | of one check: pinned addresses, redirects, deadlines | host lookup, HTTP with redirects, TLS |
| Health (`health_handler.go`) | none | `/healthz`, `/readyz` |
| Password hashing, metrics targets, Grafana proxy, templates | none | computations, reads, forwarding |
| Deployment (`deploy`, `infra`, `.github`) | configuration | one replica, by decision; updated by the default strategy, probed for readiness and liveness |

How they interact: `net/http` runs every request in a goroutine of its own.  A
request goes through `requireAuth` (a statement on `sessions`, one on `users`),
perhaps `requireAdmin`, and a handler, which makes one statement on `users` or
`sessions` or one call of the endpoint service.  A service call in turn is a
sequence of statements on `endpoints`, slow network checks and calls of the
check store.  Nothing is locked across two of these steps and there are no
transactions: PostgreSQL makes each statement atomic and the store's lock each
map access, and that is all.  Beside the requests run the startup loop, before
the server listens, and the hourly cleanup of sessions.  During an update a
second process runs all of this on the same database.  The browser, at the other
end, has one set of cookies for all its tabs.

What is hard, and where it bites, is listed under "hazards" in `PROJECT.json`.
In short: results and rows live in two stores that are changed one after the
other; checks take seconds and store their result whatever has happened since;
a statement can be applied although its answer is lost; the process can stop
anywhere and forgets all results; a handler acts on an account read earlier;
several parties delete the same session; names resolve differently each time and
servers redirect anywhere; a check has many ways to fail and a client may leave
in the middle; two processes create the same tables and the same account; the
liveness probe does not know of the startup loop; answers change the cookies in
the order they arrive.

What makes each part correct: an endpoint once checked is never unchecked in
the same process, an unchecked one always has somebody about to check it, one
URL is never registered or first-checked twice, removal is final; nobody
passes the middleware who was not entitled while the request ran; sessions do
not outlive accounts or logouts; expired sessions disappear; the program stays
administrable; connections only go to validated addresses, a check ends in time,
and what it says, stores and shows agree; a URL has one spelling; an update
interrupts nothing and creates nothing twice; a browser's forms and sessions
stay good.

## 2. Modules

| Module | What it is |
|---|---|
| `EndpointRegistry` | abstract specification: endpoints and results, every operation atomic |
| `EndpointRegistryProofs` | its consistency, what it keeps from step to step, and that removal is final, proved |
| `EndpointService` | the service over its two stores, the startup loop and the process |
| `MCEndpointService` and `MCEndpoint*.cfg` | instances of it for TLC |
| `EndpointServiceProofs` | its invariants, that it implements `EndpointRegistry` and keeps what that keeps, and that calls and startup advance, proved |
| `AccessControl` | users, sessions, middleware, login, logout, cleanup, initial admin |
| `MCAccessControl` and `MCAccess*.cfg` | instances of it for TLC |
| `AccessControlProofs` | its invariants and step properties, what logout, disabling and removal mean for good, and that requests advance, proved |
| `CheckOutcome` | operators: the errors a check returns, the handlers' answers, the states of the page |
| `EndpointCheck` (extends `CheckOutcome`) | one `Add` or `Refresh` in full: lookups, redirects, addresses, deadlines, the answer |
| `MCEndpointCheck` and its `.cfg` | an instance of it for TLC |
| `EndpointCheckProofs` | its safety, and that every step of a check brings its end nearer, proved |
| `UrlTable` | `ParseURL`, and the table whose key is its result |
| `MCUrlTable` and its `.cfg`, `UrlTableProofs` | every spelling of two targets; its properties, proved |
| `Lifecycle` | processes of a Deployment on one database: start, update, shutdown, restart |
| `MCLifecycle` and its `.cfg`, `LifecycleProofs` | two pods; its safety, the registry in every pod, and that a startup advances, proved |
| `Browser` | the cookies and tabs of a browser against `csrf.go`, `requireAuth`, login and logout |
| `MCBrowser` and its `.cfg`, `BrowserProofs` | two tabs; its safety, and that redirects advance, proved |

The components share no table and no lock; a request passes the middleware
before it calls the service and never returns to it, so they are modelled side
by side and not composed.  A composition would add no interleaving that any of
them depends on.  Some code is modelled twice, at different grain:
`EndpointService` interleaves the statements of many calls and takes a probe as
one step, `EndpointCheck` opens up that step for one call, and `Lifecycle` has
calls of two processes in as few steps as these can tell apart.  `AccessControl`
interleaves the statements of requests that carry any token; `Browser` takes a
handler as one step and restricts requests to what a browser sends.

### EndpointService

`rows` is the table and `checks` the map of the CheckStore.  A result is
represented by the time it was taken (`CheckedAt`), since that is what decides
between "Checking" and a state, and which of two results is newer.  `call[c]`
is the local state of one service call: the step it is at, its endpoint, the
result it has and has not stored.  `call[Boot]` is the startup loop.

| Steps | Code |
|---|---|
| `StartAdd`, `ResolveAdd`, `InsertAdd`, `Probe`, `Store` | `Add`: ParseURL, host lookup, INSERT, probes, `Set`; both ways through it |
| `StartRefresh` / `BootRefresh`, `Load`, `ResolveRefresh`, `Probe`, `Store` | `Refresh`, from a form or from the startup loop |
| `StartRemove`, `DeleteRow`, `Forget` | `RemoveByID`: DELETE, then `CheckStore.Delete` |
| `StartRead`, `Select`, `Fetch`, `FinishRead` | `List` and `ByID`: one SELECT, then one `Get` per row |
| `Start`, `StartFails`, `Serve`, `Crash` | `run`, and the end of the process at any point |

A database call may fail (`Fault`).  A failed INSERT or DELETE may have been
applied: the connection broke or the request's context was cancelled after the
commit.  `drawn` remembers the IDs ever inserted (UUIDs do not repeat); `lost`
the endpoints whose check a failed call of this process skipped; `view[c].had`
the results that were there when a reader read its rows.  These three exist for
the properties only, except that `drawn` keeps IDs fresh.  `PendingHasOwner`
excuses the endpoints of `lost`: what an INSERT that is applied but reported as
failed leaves is shown by finding 1 and not by it.

Abstractions: `ParseURL` rejects or yields a member of `Urls`; a stored URL
parses again; a lookup succeeds, fails or finds an unsafe address; a probe
ends, with or without an error.  A reader may fetch its results in any order,
where the code goes by creation time.

### AccessControl

`role`, `disabled` and `session` are the tables; a row of `sessions` has, in
place of a time, two flags: expired by the clock of the process (`aged`, what
`Validate` looks at) and by that of PostgreSQL (`overdue`, what `DeleteExpired`
looks at).  Either can come first.  `request[c]` is the local state of a
request: its step, its token, its account, and the role that `requireAuth`
copied.  What a request asks for has no influence before its handler runs, so
it is chosen there: that keeps the state space small and loses no behaviour.

| Steps | Code |
|---|---|
| `Lookup`, `OpenSession` | `handlePostLogin`: `ByUsername` and the password, `Service.Create` |
| `FindSession`, `Expire` | `Service.Validate`: read and compare, DELETE of an expired row |
| `LoadAccount`, `Evict` | `requireAuth`: `ByID`, deletion of a disabled account's session |
| `Forbid`, `Serve`, `HandlerFails` | `requireAdmin`, pages and refused forms, failing statements |
| `SignOut`, `CreateUser`, `DeleteUser`, `UpdateUser` | the handlers that change something |
| `Age`, `Sweep`, `TickerFires` | the clocks, `runSessionCleanup` |
| `Restart` | the process ends and starts again: `ensureInitialAdmin`, first sweep |

`seen[c]` collects, over the time a request takes, what held of its token and
its account ("session": open and unexpired; "enabled"; "admin").  It is there
to state `Entitled` and `OnlyAdminsChange`.  The latter speaks of every step that
changes an account: it is one of a request whose own account was an enabled admin
at some moment of it, or a restart, which inserts exactly one enabled admin when
no account is left and changes none otherwise.

Abstractions: a login may be right or wrong about any password; an internal
error of the hash functions is left out.  Usernames are left out: an INSERT may
be refused as if the name were taken (`Serve`).  A form may be refused for its
CSRF token.  A request may carry any token a login handed out, at any time:
nothing is assumed of browsers.

### CheckOutcome and EndpointCheck

An error is the set of the sentinel errors that `errors.Is` finds in it; a
result keeps of its times whether they are zero.  That is all that the handler
and the page look at.  `failures` and `result` fill as the call proceeds; `at`
is its step, `now` the seconds it has taken, `deadline` the one that `context`
enforces at present.

| Steps | Code |
|---|---|
| `Validate` | `validateEndpointHost` and `validateHost`, with both of Add's ways out |
| `Insert` | `Repository.Insert`: applied, taken, or failed with or without being applied |
| `Dial` | `DialContext` over `pinned`, with TLS when the target is https |
| `Await` | the response: an answer, a redirect that passes or fails `CheckRedirect`, silence |
| `Redirect` | the rest of `CheckRedirect`: validation and pinning of the new host |
| `Handshake` | `tlsProbe` with `verifyCertificate` |
| `Store` | `CheckStore.Set` and the answer of the handler |
| `Leave` | the client disconnects: the context of the request is cancelled |

A lookup returns any of `Lookups` each time or fails; an address in `Up` always
works, one in `Down` refuses, one in neither does as it likes at each dial, and
`Internal` stands for what `isUnsafeAddr` rejects.  `calm` behaviours are those
in which nothing goes wrong but at `Down` addresses; they exist for
`CalmMeansResponding`.  `conn` is the address dialed last, by either probe, so that
`ConnectsToValidated` is about the connections of both.  Time passes in whole
seconds within a step; database statements take none, so that `WithinBudget`
bounds the time the network may take (`pool.Exec` has no timeout of its own).
Literal addresses in URLs are names that resolve to one address; as the code
looks nothing up for them they pass validation also after the client has left
(`Literals`), where every lookup fails.  `ErrNoPeerCertificate`
is left out: Go's client fails the handshake before.  `ParseURL`'s errors are
those of `UrlTable`, `ByID` those of `EndpointService`.

### UrlTable

A text is a record of its components, each with the spellings the code tells
apart or makes equal: scheme, capitals, user, host with or without brackets,
port (absent, empty after its colon, not a number, with or without leading
zeros), path, query, fragment.  `Valid` and `Parse` are `ParseURL`; `Target` is
no code but the reference: what an HTTP client asks for, and of whom.  `Add`,
`Refresh` and `Remove` are the uses of the result.  How `url.Parse` splits
characters into these components, percent-encoding included, is not modelled.

### Lifecycle

`phase[p]` is where the process of pod `p` is in `run`; `checked`, `todo`,
`adding` are its CheckStore, its startup loop and its Add in progress, lost when
it ends; `schema`, `admins` and `rows` are the database.  `spent[p]` is the time
its container has not listened, up to `Patience`, after which the liveness probe
has it killed (`Kill`).  `Update` starts the new pod beside the old one, which
`Retire` ends when the new one is `Ready`: that is what Kubernetes does with one
replica and the default strategy.  A SIGTERM before `signal.Notify` ends the
process at once; after it, `Drained` is the shutdown, complete or not after ten
seconds, and requests accepted before it go on meanwhile (`Answering`).  In a
startup only the checks take time: a pool, schema or bootstrap statement that
hangs until the liveness probe ends the container is a `Crash`.

`CreateSchema` may fail when another process creates the same tables at the same
time: PostgreSQL then reports a duplicate key in its catalogue in spite of
IF NOT EXISTS.  `InsertAdmin` fails on the unique name: both pods come from one
Deployment and are given the same one (`deployment.yaml:85-89`).  `Crash` is any end of a
process, also one after a failed statement; `CallFails` a failed database call
that the process survives; together they are bounded by `MaxFaults`.

`missed` exists for `UncheckedOnlyMissed`: what another process added after this
one listed the table, and what a failed call skipped.  That these stay unchecked is
what the code does (section 3, more facts); the property says that no other
endpoint does.  `Registry(p)` is `EndpointRegistry` again, as pod `p` shows it: the rows are those
of the database, the results those in its own memory (`Shown`).  `EveryPodARegistry`
says that each pod implements it while others change the table behind its back;
it depends on IDs that do not return (`FreshIds`), since a CheckStore keeps the
results of what another pod removed.  Left out: an update that
begins before the one before it is over, sessions, checks that two processes run
of one endpoint, which do not meet, and changes to accounts.  `OneInitialAdmin` is therefore about accounts that stay:
were the first one removed while a second process is between its SELECT and
its INSERT, that process would insert it again.

### Browser

`jar` holds the two cookies, `page[t]` the form a tab shows and its token,
`req[t]` and `answer[t]` what is under way.  A request carries the cookies of
when it was sent, an answer sets them when it arrives, redirects are followed
with the cookies of then.  A navigation from another site comes without the
SameSite=Strict CSRF cookie but with the session cookie, which is Lax.

`Visit`, `Submit`, `Abandon` and `Receive` are the browser's, `RedirectToLogin`,
`ShowPage`, `Refuse`, `LoginFails`, `Login`, `Logout`, `Perform` and `Fail` the
handlers'.  Pages with forms are one kind; viewers, who are refused forms
for their role, are `AccessControl`'s: whoever is logged in here may submit.
`Expire` is the end of a session for any other reason; `open` has the sessions
that still let a request pass, so that the one of a disabled account is not open
although its row stays when its deletion fails (`middleware.go:69`).  `excused`
says that a token was drawn although another was in the jar or on its way to it,
and that the jar, pages, requests and answers have not come down to one token
since (`Settled`); it exists for `RefusedOnlyExcused`.

## 3. Properties and runs

| Run | Bounds | Shows |
|---|---|---|
| `endpoint_safety` | 3 requests and the startup loop, 2 IDs, 1 URL, 1 crash, 1 fault; 1.6 M states | `PendingHasOwner`, `AnsweredCheckVisible`, `OneProberPerUrl`, `NoFalseChecking`; implements `EndpointRegistry` |
| `endpoint_liveness` | 2 requests, 2 IDs, 2 URLs, 2 clock values, 1 crash, no fault | `PendingResolved`, `EventuallyServing` |
| `endpoint_pending_forever` | 1 request, 1 fault | finding 1 |
| `endpoint_latest_wins` | 2 requests, 2 clock values | finding 2 |
| `endpoint_removed_leaves` | 2 requests | finding 3 |
| `access_safety` | 2 requests, 2 users, 2 tokens, 1 fault; 1 M states | `Entitled`, `NoOrphanSessions`, `CookieClearedSessionClosed`, `NoSpuriousError` |
| `access_bootstrap` | 2 requests, 3 users, 2 tokens, 1 restart | `OnlyAdminsChange`, `AdminsLostOnlyByRace` |
| `access_liveness` | 1 request, 2 tokens, 1 fault, 1 restart | `OverdueRemoved` |
| `check_outcome` | 2 hosts, 4 addresses, lists of up to 3, the timeouts of the code, 3 redirects; 1.7 M states | `AddedIffSaid`, `MessageAgreesWithPage`, `StoredNeverPending`, `ConnectsToValidated`, `WithinBudget`, `CalmMeansResponding`, `EveryCallAnswered` |
| `url_table` | all spellings of 1 name and 1 address, 5 ports, 2 rows | `StoredParsesToItself`, `OneRowPerTarget`, `AddedAsAsked` |
| `lifecycle` | 2 pods, 3 endpoints, 1 update, 1 fault, patience for 2 checks; 0.4 M states | `OneInitialAdmin`, `UncheckedOnlyMissed`, `NoGap`, `KilledOnlyWithMany`, `UpdateEnds`; each pod implements `EndpointRegistry` (`EveryPodARegistry`) |
| `browser` | 2 tabs, 2 tokens, 2 logins; 0.5 M states | `RefusedOnlyExcused`, `FreshFormAccepted`, `OpenSessionKept`, `RedirectsEnd` |

Why these bounds are enough to be of use: each hazard of the service is between
two calls on one endpoint, with a third that observes or removes; two IDs let an
URL return under a new one.  Two tokens and two users let an account lose its
rights by the hand of another while it acts; the third user is the new initial
admin after both are gone.  One fault, crash or restart at any point is what a
single call can meet; the proofs below have no bounds.  `IdsLeft` stops an Add
that would find no ID left, `MaxExpired` bounds the sessions expired at a time,
and a login rests when `Tokens` are used up.  The user, token and request sets
are symmetric and used so in the safety runs, never in the liveness runs.

`check_outcome` has an address of each kind, and lists in which a working one
comes after one that refuses or an internal one after a working one; three
redirects are one that returns to a host, one that is followed and one too many.
`lifecycle` has two pods because an update has two, and one endpoint more than
the liveness probe has patience for, so that `Kill` happens.  Tokens and logins
of `browser` are used up: `TokensLeft` holds back a request that could find no
token left, so that the bound never leaves a request unanswered, and a login
that would find no session left may still fail.  Two of each let an older one
meet a newer one.  `endpoint_safety` takes about four minutes,
`browser` three, `endpoint_liveness`, `lifecycle` and `access_safety` two to three,
the others one at most.  Deadlock is not checked where the system or its bounds come
to an end: a check that was answered, an update that is over, tokens and IDs that
are used up.

Every property has a mutant: a definition of the model changed the way a
plausible bug would change the code (no UNIQUE constraint, the map cleared
before the row, no check for disabled accounts, the own account not guarded, a
cleanup that gives up, ...), under which TLC finds the property violated.

Fairness, where liveness is checked: a call that has begun goes on (probes have
deadlines, PostgreSQL answers), the startup loop and `run` go on, the
orchestrator restarts a process that ended, the cleanup goroutine runs and its
ticker fires.  No request is ever obliged to arrive.  Faults and crashes are
bounded, so they end.  That is what `PendingResolved` and `OverdueRemoved`
assume: neither the code nor the model promises anything of a database that
fails for ever.  In `check_outcome` the steps of the call are fair: each has a
deadline (`host.go:48`, `http.go:110`, `tls.go:40`); the client's leaving is not.
In `lifecycle` each process and Kubernetes go on with what they have begun
(`Progress`); nobody has to add endpoints or update, and `UpdateEnds` excludes
only that the liveness probe kills containers for ever.  In `browser` requests
are handled and answers arrive; no user has to do anything.

### Findings

1. **Pending for ever** (`view.go:60`, `service.go:86`).  The page says
   "Checking" and the comment that this is brief.  If the INSERT of `Add` is
   committed but reported as failed, the endpoint is listed and nobody checks it
   until an admin refreshes it or the process restarts.
2. **Not the latest result** (`check_store.go:22`, `service.go:98-99,124`).
   `Set` stores what comes last; of two overlapping checks the older result may
   replace the newer.
3. **Results that stay** (`service.go:155,161`).  A check in flight when its
   endpoint is removed stores its result after `RemoveByID` cleared it.  Readers
   never see it, as IDs do not return (`ImplementsRegistry`), but it stays in
   memory.

A fact that no comment contradicts, and so no finding: two admins who delete,
disable or demote each other at the same time leave no admin.  When no account
is left at all, the next start inserts the initial admin again; when there are
viewers or disabled accounts left, only the database can help.
`AdminsLostOnlyByRace` says that such a race is the only way there.

More facts of that sort, which the models show and no comment contradicts:

- A redirect that is refused counts as a response: the admin reads "currently
  unreachable" and the page says "Responding".  "TLS certificate is invalid" is
  also said when the page says that TLS is unavailable.  `MessageAgreesWithPage`
  has these as its two exceptions.
- A client that leaves during its Refresh or Add makes the check fail, and "No
  response" is stored and shown until the next check.  `CalmMeansResponding`
  therefore needs the client to stay.
- The first address that is silent uses up the whole timeout, of the HTTP as of
  the TLS probe; that is why `CalmMeansResponding` speaks of addresses that
  refuse.  The lookup of a redirect is not bound by the request's deadline and
  adds at most its own two seconds (`WithinBudget`).
- IPv6 addresses, trailing dots, percent-encoding and an empty query have
  spellings that `ParseURL` does not unify: the components of `UrlTable` are
  what it does compare.
- During an update two processes serve for a moment.  An endpoint added through
  the old one after the new one listed the table stays "Checking" in the new one
  until an admin refreshes it.
- The liveness probe gives a container about 25 seconds.  A silent https endpoint
  takes 10 to 14, so three of them keep the program from ever serving after a
  restart.  `KilledOnlyWithMany` says that it takes as many as that;
  `EventuallyServing` of `EndpointService`, where no probe is modelled, is about
  the startup loop alone.
- A link from another site replaces the CSRF cookie, and the forms of all open
  tabs are refused until they are reloaded.  Tokens are not bound to accounts: a
  form outlives logout and login.

## 4. Proofs

TLAPS checks these for any sets of IDs, URLs, users, tokens, requests, addresses,
pods and tabs and any bounds, from the assumption of each module alone: the
constants that stand for "none" are outside the sets they complete, the startup
loop is not a request, and bounds are natural numbers.  `CheckAssumption` also
says that two lookups and the two probes' timeouts fit into `WriteTimeout`, which
the code's 2, 2, 5, 5 and 30 seconds do, and that lookups return lists of
addresses; `LifecycleAssumption` that there are finitely many endpoints.

- `EndpointServiceProofs`: `Invariance` (`Spec => []Inv`), and from it
  `TypeCorrect`, `PendingOwned`, `AnswerVisible`, `ReadersSound`, `ReservedUrl`,
  and `Implementation`: the service implements `EndpointRegistry`.  From that,
  `ServiceConsistent`, `ServiceLasting`, `RemovalFinal`.  Of its progress,
  `CallAdvances`, `OwnersAdvance`, `StartupAdvances`.
- `EndpointRegistryProofs`: `RegistryConsistent`, `RegistryLasting`,
  `RemovedForGood`.
- `AccessControlProofs`: `Invariance`, and from it `TypeCorrect`,
  `AccessEntitled`, `SessionsOwned`, `CookieCleared`, `ErrorsExplained`, and for
  single steps `ChangesByAdmins`, `LockoutNeedsRace`.  For good: `ClosedForGood`,
  `RemovedForGood`, `SuspendedUntilEnabled`.  Of its progress, `RequestAdvances`,
  `OverdueUntilSwept`.
- `EndpointCheckProofs`: `TypeCorrect`, `Connects`, `NeverPending`, `SaidIsDone`,
  `SaidIsShown`, `Budget`, `NoFalseAlarm`; `CallAdvances`.
- `UrlTableProofs`: `ParseIdempotent`, `ParseKeepsTarget`, `NormalFormUnique`, of
  the pure functions; from them `TypeCorrect`, `StoredParses`, `AddedFaithful`,
  `UniqueTargets`, of the table.
- `LifecycleProofs`: `TypeCorrect`, `OneAdmin`, `NothingOverlooked`,
  `NoInterruption`, `KilledWithMany`; `EveryPodImplements`, `EveryPodLasting`;
  `StartupAdvances`.
- `BrowserProofs`: `TypeCorrect`, `RefusedExcused`, `FreshForms`, `OpenSessions`;
  `RequestAdvances`.

`EndpointService!Inv`.  `PendingHasOwner` is not inductive by itself: that a
caller who is about to store a result stores it under the right ID needs to know
what a call holds at each step (`Shape`), that IDs with rows or results were
inserted and URLs are unique (`Table`), and that two Adds never hold the same row
(`Adds`).  `Readers` is what makes `NoFalseChecking` inductive: a result that a
reader has still to fetch stays until its row is gone.  The refinement maps
`latest` to the result of a registered endpoint and `retired` to the IDs inserted
and gone; `InsertAdd` maps to `Register`, `Store` to `Observe` or, when the row
is gone, to a stutter, `DeleteRow` to `Forget`, `Crash` to `Restart`; `Forget`
stutters because the row goes first.

What the registry keeps, the service keeps.  `Lasting` of the registry says of a
step that an ID that is gone stays gone, a row that stays keeps its URL, and a
check is lost only with its endpoint or with the process; `Inherited` instantiates
the registry's theorems with the refinement mapping, `IsRegistry` is `Implementation`
in those terms, and the rest is one application.  So `RemovalFinal`, which the
registry has by one step per operation, is true of the interleaved statements and
map accesses of the service.  In `Lifecycle` the mapping has a pod as parameter.
`StepSeen` says which step of `Registry(q)` each step of `Next` is, and with it
`EveryPodLasting` goes through the registry's steps itself, because tlapm does
not cite theorems of a parameterised instance.

`AccessControl!Inv`.  `Tables` says that rows belong to inserted IDs, and sessions
and the mark of being disabled to accounts, `Shape` what a request carries, in
particular that the session it found stays with the account it found until it is closed, and `Checked` what was
seen by the time it reaches each step.  The central lemma, `TablesStep`, says
that inserted IDs stay inserted, accounts that are gone stay gone, and a session
never changes hands; with it a request that a step leaves alone stays good
(`OthersGood`), and one lemma goes through the steps of the acting one
(`ActingGood`).

For good.  `Entitled` speaks of one request.  What an admin expects of a logout, a
removal or a disabled account is about all later ones: `SignedOff(t)`,
`Dismissed(u)` and `Suspended(u)` say that the rights are gone and that no request
that had them is still under way, and the theorems that this lasts, whatever
requests, failures and restarts follow; of a disabled account until an admin
enables it.  `Suspended` does not say that no session is left: a login that
overlaps the disabling may leave one, which passes nobody while the account is
disabled and is good again when it is enabled before it expires.  The predicates
are inductive on top of `Inv`; `StepLeads` says of every step where it leads each
request, with `Lasting` of `TablesStep` for the tables.

`EndpointCheckProofs!Inv`.  `Shape` says which variables are set at which step and
that pinned lists have no internal address, which gives `ConnectsToValidated`.
`Outcome` says, by how far the call has got, which failures there may be and
which results come with them; `AddedIffSaid`, `MessageAgreesWithPage` and
`StoredNeverPending` are read off it.  `Clock` bounds the time at each step so
that what is left to come still fits; what matters is that a deadline is set once
per probe.  `Calm` keeps, in a calm behaviour, an address ahead that works.

`Lifecycle`.  `KnownInv`: of a process that listed the table, every row is
checked, still to do, being added, or missed; a serving one has nothing to do.
`ThriftInv`: the time a process has spent in its loop and the time that the
endpoints still to do may take are together no more than all endpoints ever
inserted may take.

`Browser!TokenInv`.  Until a request is excused, and again when the browser has
come to know a single token since, there is one token (`OneToken`):
what is in the jar, in pages, in forms and on its way is that token or none.  The
hard case is the answer that brings the first token while another tab's request
has gone out without one: drawing a second is what excuses.

Towards liveness.  That something happens at last needs fairness and ENABLED, which
TLAPS does not reason about here.  The part of the argument that is about the code
and not about its scheduling is proved: a measure that each step of the process
makes smaller and that nothing else makes larger.

| Property, model-checked | What is proved of its steps, without bounds |
|---|---|
| `PendingResolved`, `EventuallyServing` | `PendingOwned`, `OwnersAdvance`, `CallAdvances`, `StartupAdvances` of `EndpointServiceProofs`: a pending endpoint has an owner, who stays its owner and brings its check nearer with each step; a call leads on or, a reader, fetches a result less; the startup loop strikes off an endpoint for each call it begins, also when that fails |
| `EveryCallAnswered` | `CallAdvances` of `EndpointCheckProofs`: stage, redirects left, turn and addresses left, in this order, fall with every step; the client's leaving does not raise them |
| `OverdueRemoved` | `OverdueUntilSwept`: overdue sessions stay so until they are gone, a sweep that succeeds leaves none; `RequestAdvances`: a request ends after four statements at most |
| `UpdateEnds` | `StartupAdvances` of `LifecycleProofs`: a starting pod goes forward or ends; other pods and failed calls never set it back |
| `RedirectsEnd` | `RequestAdvances` of `BrowserProofs`: at most six steps of its own from Visit or Submit to a page, whichever cookies change meanwhile |

The theorems of this table do not imply the properties.  What they leave open is
that the steps are enabled and taken, and that is what TLC checks on the small
instances.

Only model-checked: these six liveness properties and the three violations.  Every
other property of a run is stated by a theorem.

## 5. Not modelled, and the plan

Not modelled for good: password hashing, whose parameters and encoding are
computations without state; templates, static files, the Grafana proxy, security
headers and the list of metrics targets, which are reads and forwarding and keep
no state; charts and infrastructure other than the Deployment of the program.

What could still be added, in this order:

1. Two modules refined one by the other in proofs: `EndpointCheck` as the Probe
   step of `EndpointService`, which at present allows any error.
2. Sessions across two processes of an update: nothing of them is in memory, so
   `AccessControl` with more requests covers it, but its cleanup runs twice then.
3. White space, percent-encoding and international names in `UrlTable`, which
   would need a model of `url.Parse`.
