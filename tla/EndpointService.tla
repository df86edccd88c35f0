-------------------------- MODULE EndpointService --------------------------
(* endpoint.Service over its two stores: the endpoints table of PostgreSQL    *)
(* (Repository) and the in-memory CheckStore.  Every HTTP request that calls  *)
(* the service runs in a goroutine of its own and the startup loop of run()   *)
(* in another; a step is one statement on a store, or one network check, so   *)
(* the calls interleave as the goroutines do.  The process can stop at any    *)
(* point and lose the CheckStore; the table survives.                         *)
(*                                                                            *)
(* A CheckResult is abstracted to the time it was taken (HTTP.CheckedAt); 0   *)
(* is the zero value that CheckStore.Get returns for an absent ID.            *)
EXTENDS Naturals, FiniteSets

CONSTANTS
    Ids, NoId,          \* endpoint IDs (uuid.NewV7 never repeats one)
    Urls, NoUrl,        \* normalized URLs
    Requests, Boot,     \* the concurrent requests, and the startup loop
    MaxClock,           \* bound on the wall clock
    MaxCrashes,         \* bound on process stops
    MaxFaults           \* bound on failed database calls

ASSUME ServiceAssumption ==
    /\ NoId \notin Ids
    /\ NoUrl \notin Urls
    /\ Boot \notin Requests
    /\ MaxClock \in Nat \ {0}
    /\ MaxCrashes \in Nat
    /\ MaxFaults \in Nat

Callers == Requests \cup {Boot}

VARIABLES
    rows,       \* table endpoints: [Ids -> Urls \cup {NoUrl}], NoUrl = no row
    drawn,      \* the IDs ever inserted
    checks,     \* CheckStore.results: [Ids -> time of the result, 0 = absent]
    phase,      \* run(): "down", "starting" (the startup loop), "serving"
    todo,       \* what the startup loop has still to refresh
    call,       \* [Callers -> Call]: the service call each caller is in
    view,       \* [Requests -> View]: what a List or ByID has read so far
    clock, crashes, faults,
    lost        \* IDs whose check a failed database call of this run skipped

vars == <<rows, drawn, checks, phase, todo, call, view, clock, crashes, faults, lost>>
db == <<rows, drawn>>
budget == <<clock, crashes>>

(* A call: the step it is at, its endpoint, its URL (Add only), the result it *)
(* holds but has not stored, and its answer.                                  *)
Steps == {"idle", "loading", "resolving", "inserting", "probing", "storing",
          "deleting", "forgetting", "selecting", "fetching", "done"}
Answers == {"none", "ok", "check", "invalid", "unsafe", "exists", "notfound", "error",
            "read"}
Call == [at : Steps, id : Ids \cup {NoId}, url : Urls \cup {NoUrl}, held : 0..MaxClock,
         answer : Answers]

Idle == [at |-> "idle", id |-> NoId, url |-> NoUrl, held |-> 0, answer |-> "none"]

(* A reader: the IDs of its rows it has not fetched a result for, those that  *)
(* had a result when it read the rows, and those it found without one.        *)
View == [want : SUBSET Ids, had : SUBSET Ids, blank : SUBSET Ids]
NoView == [want |-> {}, had |-> {}, blank |-> {}]

TypeOK ==
    /\ rows \in [Ids -> Urls \cup {NoUrl}]
    /\ drawn \subseteq Ids
    /\ checks \in [Ids -> 0..MaxClock]
    /\ phase \in {"down", "starting", "serving"}
    /\ todo \subseteq Ids
    /\ call \in [Callers -> Call]
    /\ view \in [Requests -> View]
    /\ clock \in 1..MaxClock
    /\ crashes \in 0..MaxCrashes
    /\ faults \in 0..MaxFaults
    /\ lost \subseteq Ids

Registered == {i \in Ids : rows[i] # NoUrl}

(* The UNIQUE constraint on url, and a new ID for every Add.                  *)
TakenNever(u) == FALSE                      \* mutant: no constraint
Taken(u) == \E i \in Ids : rows[i] = u
ReusableIds == Ids \ Registered             \* mutant: IDs return with their URL
FreshIds == Ids \ drawn

(* The table after a DELETE.                                                  *)
Tombstone(i) == [rows EXCEPT ![i] = "deleted"]   \* mutant: a soft delete
Without(i) == [rows EXCEPT ![i] = NoUrl]

IsAdd(c) == call[c].url # NoUrl

Init ==
    /\ rows = [i \in Ids |-> NoUrl]
    /\ drawn = {}
    /\ checks = [i \in Ids |-> 0]
    /\ phase = "down"
    /\ todo = {}
    /\ call = [c \in Callers |-> Idle]
    /\ view = [c \in Requests |-> NoView]
    /\ clock = 1
    /\ crashes = 0
    /\ faults = 0
    /\ lost = {}

-----------------------------------------------------------------------------
(* Steps of a call.                                                           *)

At(c, s) == call[c].at = s
Become(c, k) == call' = [call EXCEPT ![c] = k]
Goto(c, s) == Become(c, [call[c] EXCEPT !.at = s])
Finish(c, a) == Become(c, [call[c] EXCEPT !.at = "done", !.answer = a])
Fault == faults < MaxFaults /\ faults' = faults + 1

(* A request enters the service; the handler's routing is not modelled.       *)
Enter(c, k) ==
    /\ phase = "serving" /\ At(c, "idle")
    /\ Become(c, k)
    /\ UNCHANGED <<db, checks, phase, todo, view, budget, faults, lost>>

(* Model bound: an Add starts only while an ID is left for it to insert.      *)
IdsLeft ==
    Cardinality({c \in Requests : At(c, "inserting") \/ (At(c, "resolving") /\ IsAdd(c))})
        < Cardinality(FreshIds)

(* Add: ParseURL rejects the text, or yields a normalized URL.                *)
StartAdd(c) ==
    \/ Enter(c, [Idle EXCEPT !.at = "done", !.answer = "invalid"])
    \/ IdsLeft /\ \E u \in Urls : Enter(c, [Idle EXCEPT !.at = "resolving", !.url = u])

(* validateEndpointHost of Add: the host resolves, or the lookup fails and    *)
(* the failure is the check result, or an address is unsafe and Add rejects.  *)
ResolveAdd(c) ==
    /\ At(c, "resolving") /\ IsAdd(c)
    /\ \/ Goto(c, "inserting")
       \/ Become(c, [call[c] EXCEPT !.at = "inserting", !.held = clock, !.answer = "check"])
       \/ Finish(c, "unsafe")
    /\ UNCHANGED <<db, checks, phase, todo, view, budget, faults, lost>>

(* Where an Add goes once its row is in: an endpoint that resolved is probed, *)
(* the result of a failed lookup is stored as it is.                          *)
UnstoredFailure(c) == IF call[c].held = 0 THEN "probing" ELSE "done"   \* mutant: no Set
AfterInsert(c) == IF call[c].held = 0 THEN "probing" ELSE "storing"

(* The INSERT.  A failed one may have been applied: its answer was lost, or   *)
(* the request's context was cancelled after the commit.                      *)
InsertAdd(c) ==
    /\ At(c, "inserting")
    /\ \/ /\ ~Taken(call[c].url)
          /\ \E i \in FreshIds :
                /\ rows' = [rows EXCEPT ![i] = call[c].url]
                /\ drawn' = drawn \cup {i}
                /\ Become(c, [call[c] EXCEPT !.at = AfterInsert(c), !.id = i])
          /\ UNCHANGED <<faults, lost>>
       \/ /\ Taken(call[c].url)
          /\ Finish(c, "exists")
          /\ UNCHANGED <<db, faults, lost>>
       \/ /\ Fault
          /\ Finish(c, "error")
          /\ UNCHANGED <<db, lost>>
       \/ /\ Fault
          /\ ~Taken(call[c].url)
          /\ \E i \in FreshIds :
                /\ rows' = [rows EXCEPT ![i] = call[c].url]
                /\ drawn' = drawn \cup {i}
                /\ lost' = lost \cup {i}
          /\ Finish(c, "error")
    /\ UNCHANGED <<checks, phase, todo, view, budget>>

(* check: the HTTP and TLS probes, whatever they find, yield a result.        *)
Probe(c) ==
    /\ At(c, "probing")
    /\ \E a \in {"ok", "check"} :
          Become(c, [call[c] EXCEPT !.at = "storing", !.held = clock, !.answer = a])
    /\ UNCHANGED <<db, checks, phase, todo, view, budget, faults, lost>>

(* CheckStore.Set, in Add and in Refresh.                                     *)
Store(c) ==
    /\ At(c, "storing")
    /\ checks' = [checks EXCEPT ![call[c].id] = call[c].held]
    /\ Goto(c, "done")
    /\ UNCHANGED <<db, phase, todo, view, budget, faults, lost>>

StartRefresh(c) ==
    \E i \in Ids : Enter(c, [Idle EXCEPT !.at = "loading", !.id = i])

(* refreshEndpointsOnStartup takes its next endpoint.  (Mutant: it keeps      *)
(* every endpoint in the list, to retry it.)                                  *)
BootRetry ==
    /\ phase = "starting" /\ At(Boot, "idle")
    /\ \E i \in todo : Become(Boot, [Idle EXCEPT !.at = "loading", !.id = i])
    /\ UNCHANGED <<db, checks, phase, todo, view, budget, faults, lost>>

BootRefresh ==
    /\ phase = "starting" /\ At(Boot, "idle")
    /\ \E i \in todo : /\ todo' = todo \ {i}
                       /\ Become(Boot, [Idle EXCEPT !.at = "loading", !.id = i])
    /\ UNCHANGED <<db, checks, phase, view, budget, faults, lost>>

(* Refresh reads the row.  When the startup loop's read fails, nothing will   *)
(* check that endpoint in this run: the loop only logs and goes on.           *)
Load(c) ==
    /\ At(c, "loading")
    /\ \/ call[c].id \in Registered /\ Goto(c, "resolving") /\ UNCHANGED <<faults, lost>>
       \/ call[c].id \notin Registered /\ Finish(c, "notfound") /\ UNCHANGED <<faults, lost>>
       \/ /\ Fault
          /\ Finish(c, "error")
          /\ lost' = IF c = Boot THEN lost \cup {call[c].id} ELSE lost
    /\ UNCHANGED <<db, checks, phase, todo, view, budget>>

(* validateEndpointHost of Refresh: here a failed lookup and an unsafe        *)
(* address both become the check result.                                      *)
ResolveRefresh(c) ==
    /\ At(c, "resolving") /\ ~IsAdd(c)
    /\ \/ Goto(c, "probing")
       \/ Become(c, [call[c] EXCEPT !.at = "storing", !.held = clock, !.answer = "check"])
    /\ UNCHANGED <<db, checks, phase, todo, view, budget, faults, lost>>

(* RemoveByID.  (Mutant: it clears the result before it deletes the row.)     *)
ForgetFirst(c) ==
    /\ phase = "serving" /\ At(c, "idle")
    /\ \E i \in Ids : /\ Become(c, [Idle EXCEPT !.at = "deleting", !.id = i])
                      /\ checks' = [checks EXCEPT ![i] = 0]
    /\ UNCHANGED <<db, phase, todo, view, budget, faults, lost>>

StartRemove(c) ==
    \E i \in Ids : Enter(c, [Idle EXCEPT !.at = "deleting", !.id = i])

(* The DELETE; a failed one may have been applied.                            *)
DeleteRow(c) ==
    LET i == call[c].id
    IN  /\ At(c, "deleting")
        /\ \/ i \in Registered /\ rows' = Without(i) /\ Goto(c, "forgetting") /\ UNCHANGED faults
           \/ i \notin Registered /\ Finish(c, "notfound") /\ UNCHANGED <<rows, faults>>
           \/ Fault /\ rows' \in {rows, Without(i)} /\ Finish(c, "error")
        /\ UNCHANGED <<drawn, checks, phase, todo, view, budget, lost>>

(* CheckStore.Delete, after the row is gone.                                  *)
Forget(c) ==
    /\ At(c, "forgetting")
    /\ checks' = [checks EXCEPT ![call[c].id] = 0]
    /\ Finish(c, "ok")
    /\ UNCHANGED <<db, phase, todo, view, budget, faults, lost>>

(* List (NoId) or ByID.                                                       *)
StartRead(c) ==
    \E i \in Ids \cup {NoId} : Enter(c, [Idle EXCEPT !.at = "selecting", !.id = i])

(* The SELECT of a reader: one statement, so one state of the table.          *)
Select(c) ==
    LET found == IF call[c].id = NoId THEN Registered ELSE Registered \cap {call[c].id}
    IN  /\ At(c, "selecting")
        /\ \/ /\ call[c].id = NoId \/ found # {}
              /\ Goto(c, "fetching")
              /\ view' = [view EXCEPT ![c] =
                    [want |-> found, had |-> {i \in found : checks[i] # 0}, blank |-> {}]]
              /\ UNCHANGED faults
           \/ /\ call[c].id # NoId /\ found = {}
              /\ Finish(c, "notfound")
              /\ UNCHANGED <<view, faults>>
           \/ Fault /\ Finish(c, "error") /\ UNCHANGED view
        /\ UNCHANGED <<db, checks, phase, todo, budget, lost>>

(* CheckStore.Get for one of the rows, each under its own read lock.  The     *)
(* code goes by creation time; any order is allowed here.                     *)
Fetch(c) ==
    /\ At(c, "fetching")
    /\ \E i \in view[c].want :
          view' = [view EXCEPT ![c].want = @ \ {i},
                               ![c].blank = IF checks[i] = 0 THEN @ \cup {i} ELSE @]
    /\ UNCHANGED <<db, checks, phase, todo, call, budget, faults, lost>>

FinishRead(c) ==
    /\ At(c, "fetching") /\ view[c].want = {}
    /\ Finish(c, "read")
    /\ UNCHANGED <<db, checks, phase, todo, view, budget, faults, lost>>

(* The handler has its answer (the startup loop drops it).                    *)
Reply(c) ==
    /\ At(c, "done")
    /\ Become(c, Idle)
    /\ view' = IF c = Boot THEN view ELSE [view EXCEPT ![c] = NoView]
    /\ UNCHANGED <<db, checks, phase, todo, budget, faults, lost>>

RefreshSteps(c) ==
    Load(c) \/ ResolveRefresh(c) \/ Probe(c) \/ Store(c) \/ Reply(c)

(* What a caller does once it is in a call.                                   *)
Proceed(c) ==
    \/ RefreshSteps(c)
    \/ ResolveAdd(c) \/ InsertAdd(c)
    \/ DeleteRow(c) \/ Forget(c)
    \/ Select(c) \/ Fetch(c) \/ FinishRead(c)

Request(c) == StartAdd(c) \/ StartRefresh(c) \/ StartRemove(c) \/ StartRead(c)

BootStep == BootRefresh \/ RefreshSteps(Boot)

-----------------------------------------------------------------------------
(* Steps of the process.                                                      *)

(* run(): the pool, the schema and the bootstrap succeed and the startup loop *)
(* lists the rows.  (Mutant: nothing is refreshed on startup.)                *)
ToRefreshNone == {}
ToRefresh == Registered

Start ==
    /\ phase = "down"
    /\ phase' = "starting"
    /\ todo' = ToRefresh
    /\ lost' = {}
    /\ UNCHANGED <<db, checks, call, view, budget, faults>>

(* ... or a database call fails, run returns the error and the process exits. *)
StartFails ==
    /\ phase = "down" /\ Fault
    /\ UNCHANGED <<db, checks, phase, todo, call, view, budget, lost>>

(* The loop is through: run() makes the handler and listens.                  *)
Serve ==
    /\ phase = "starting" /\ todo = {} /\ At(Boot, "idle")
    /\ phase' = "serving"
    /\ UNCHANGED <<db, checks, todo, call, view, budget, faults, lost>>

(* The process ends, killed or after a shutdown that did not wait for every   *)
(* handler; its memory is gone.                                               *)
Crash ==
    /\ phase # "down" /\ crashes < MaxCrashes
    /\ crashes' = crashes + 1
    /\ phase' = "down"
    /\ todo' = {}
    /\ checks' = [i \in Ids |-> 0]
    /\ call' = [c \in Callers |-> Idle]
    /\ view' = [c \in Requests |-> NoView]
    /\ UNCHANGED <<db, clock, faults, lost>>

Tick ==
    /\ clock < MaxClock
    /\ clock' = clock + 1
    /\ UNCHANGED <<db, checks, phase, todo, call, view, crashes, faults, lost>>

Next ==
    \/ \E c \in Requests : Request(c) \/ Proceed(c)
    \/ BootStep
    \/ Start \/ StartFails \/ Serve \/ Crash \/ Tick

Spec == Init /\ [][Next]_vars

(* Fairness: a goroutine in a call keeps running (the probes have deadlines   *)
(* and PostgreSQL answers), run() goes on, and the orchestrator restarts a    *)
(* process that ended.  No request is ever obliged to arrive.                 *)
Fairness ==
    /\ \A c \in Requests : WF_vars(Proceed(c))
    /\ WF_vars(BootStep)
    /\ WF_vars(Start)
    /\ WF_vars(Serve)

FairSpec == Spec /\ Fairness

-----------------------------------------------------------------------------
(* Properties.                                                                *)

(* What List and ByID show of an endpoint is an EndpointRegistry.  A result   *)
(* without a row is not part of it: no reader looks at it.                    *)
Registry == INSTANCE EndpointRegistry WITH
    registered <- rows,
    latest <- [i \in Ids |-> IF rows[i] = NoUrl THEN 0 ELSE checks[i]],
    retired <- drawn \ Registered

(* The table and the CheckStore, changed in separate steps by Add, Refresh    *)
(* and RemoveByID, together behave as the registry: unique URLs, removed IDs  *)
(* never back, and a checked endpoint never unchecked again in this process.  *)
ImplementsRegistry == Registry!Spec

(* A caller that will still store a result for i, unless a database call of   *)
(* the startup loop fails.                                                    *)
WillCheck(c, i) ==
    /\ call[c].id = i
    /\ call[c].at \in {"resolving", "probing", "storing"} \/ (c = Boot /\ At(c, "loading"))

(* An endpoint shown as "Checking" (view.go) always has someone about to      *)
(* check it: the Add that inserted it, the startup loop or a refresh -- but   *)
(* for those that a failed database call orphaned in this run.  No            *)
(* interleaving of Add, Refresh, RemoveByID and a restart leaves one behind.  *)
PendingHasOwner ==
    \A i \in Registered : checks[i] = 0 =>
        \/ phase = "down"
        \/ phase = "starting" /\ i \in todo
        \/ i \in lost
        \/ \E c \in Callers : WillCheck(c, i)

(* Once Add or Refresh has answered with a check, readers see a check of that *)
(* endpoint, for as long as it is registered and the process lives: the       *)
(* answer never overtakes the CheckStore.                                     *)
AnsweredCheckVisible ==
    \A c \in Requests :
        (At(c, "done") /\ call[c].answer \in {"ok", "check"} /\ call[c].id \in Registered)
            => checks[call[c].id] # 0

(* service.go:83-85: concurrent Adds of one URL cannot all execute the        *)
(* probes.  Two that do are separated by a removal of the first one's row.    *)
OneProberPerUrl ==
    \A c, d \in Requests :
        (c # d /\ IsAdd(c) /\ At(c, "probing") /\ call[d].url = call[c].url /\ At(d, "probing"))
            => \E e \in {c, d} : call[e].id \in drawn \ Registered

(* List and ByID read the rows and the results in separate steps.  They show  *)
(* an endpoint that had a result when they read its row as unchecked only if  *)
(* it has been removed since: RemoveByID deletes the row first.               *)
NoFalseChecking ==
    \A c \in Requests : view[c].blank \cap view[c].had \cap Registered = {}

-----------------------------------------------------------------------------
(* The inductive invariant: what makes the properties above hold.             *)

(* Rows and results belong to IDs that were inserted, and no two rows have    *)
(* the same URL.                                                              *)
Table ==
    /\ Registered \subseteq drawn
    /\ \A i \in Ids : checks[i] # 0 => i \in drawn
    /\ \A i, j \in Registered : rows[i] = rows[j] => i = j

(* What a call holds at each of its steps: in particular, one that will touch *)
(* the CheckStore does so for an ID that was inserted, and one that will      *)
(* delete a result does so for an ID whose row is gone.                       *)
Shape(c) ==
    /\ call[c].at \in {"loading", "deleting"} => call[c].id \in Ids /\ ~IsAdd(c)
    /\ At(c, "resolving") => call[c].id \in drawn \/ IsAdd(c)
    /\ At(c, "inserting") => IsAdd(c)
    /\ call[c].at \in {"resolving", "inserting"} /\ IsAdd(c) => call[c].id = NoId
    /\ call[c].at \in {"probing", "storing"} => call[c].id \in drawn
    /\ At(c, "storing") => call[c].held # 0
    /\ At(c, "forgetting") => call[c].id \in drawn \ Registered
    /\ At(c, "done") /\ call[c].answer \in {"ok", "check"} => call[c].id \in drawn
    /\ IsAdd(c) => call[c].id \in drawn \cup {NoId}

(* An Add past its INSERT holds the row it inserted, while that is there, and *)
(* no two Adds the same.                                                      *)
Adds ==
    /\ \A c \in Callers : IsAdd(c) /\ call[c].id \in Registered => rows[call[c].id] = call[c].url
    /\ \A c, d \in Callers :
          IsAdd(c) /\ IsAdd(d) /\ call[c].id = call[d].id /\ call[c].id # NoId => c = d

(* What a reader has still to fetch of the results it could have seen is      *)
(* there until the row is gone.                                               *)
Readers ==
    \A c \in Requests :
        /\ view[c].had \subseteq drawn
        /\ \A i \in view[c].want \cap view[c].had \cap Registered : checks[i] # 0
        /\ view[c].blank \cap view[c].had \cap Registered = {}

Inv ==
    /\ TypeOK
    /\ Table
    /\ \A c \in Callers : Shape(c)
    /\ Adds
    /\ Readers
    /\ PendingHasOwner
    /\ AnsweredCheckVisible

-----------------------------------------------------------------------------
(* What the comments of the code promise beyond that, and what the process is *)
(* obliged to do.                                                             *)

(* check_store.go:22, service.go:98: the store keeps the latest result, so    *)
(* that no result is replaced by one taken earlier.                           *)
LatestWins ==
    [][\A i \in Ids : checks'[i] # 0 => checks'[i] >= checks[i]]_vars

(* service.go:155: RemoveByID removes the endpoint and its latest result.     *)
RemovedLeavesNothing ==
    \A i \in drawn \ Registered : checks[i] # 0 =>
        \E c \in Requests : At(c, "forgetting") /\ call[c].id = i

(* view.go:60: an endpoint is without a check only briefly.  It gets one or   *)
(* is removed, even when the process dies in the middle of its Add.           *)
PendingResolved ==
    \A i \in Ids : (i \in Registered /\ checks[i] = 0) ~> (i \notin Registered \/ checks[i] # 0)

(* run.go:82: the checks that run before the server listens do not keep it    *)
(* from listening.                                                            *)
EventuallyServing == phase # "serving" ~> phase = "serving"

=============================================================================
