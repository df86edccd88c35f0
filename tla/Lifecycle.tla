------------------------------- MODULE Lifecycle -------------------------------
(* The program in its Deployment: pods that start, serve and end on one       *)
(* database.  There is one replica, but the Deployment keeps the default      *)
(* strategy, so that during an update the new pod starts while the old one    *)
(* serves, and the old one ends when the new one is ready.                    *)
(*                                                                            *)
(* A pod is ready when its server listens (/readyz), and its container is     *)
(* restarted when it does not listen for too long (the liveness probe).  Both *)
(* are what Kubernetes makes of deployment.yaml.  EndpointService has the     *)
(* interleavings of the calls within one process; here an endpoint is added,  *)
(* checked or removed in as few steps as two processes can tell apart.        *)
EXTENDS Naturals, FiniteSets

CONSTANTS
    Pods, First,        \* pods; the one of the installation
    Ids, NoId,          \* endpoints
    CheckTime,          \* how long a check may take
    Patience,           \* how long a container may take to listen
    MaxUpdates, MaxFaults

ASSUME LifecycleAssumption ==
    /\ First \in Pods
    /\ NoId \notin Ids /\ IsFiniteSet(Ids)
    /\ CheckTime \in Nat /\ Patience \in Nat
    /\ MaxUpdates \in Nat /\ MaxFaults \in Nat

VARIABLES
    schema,     \* the tables exist
    admins,     \* the rows that ensureInitialAdmin has inserted
    rows,       \* the table of endpoints
    drawn,      \* the IDs ever inserted
    phase,      \* of each pod's process
    checked,    \* of each pod: the endpoints with a result in its CheckStore
    todo,       \* of each pod: the endpoints the startup loop has yet to refresh
    spent,      \* of each pod: the time its container has run without listening
    adding,     \* of each pod: the endpoint an Add has inserted and not checked
    missed,     \* of each pod: endpoints that another one added since it listed them,
                \* or of which a database call of its own failed
    target,     \* the pod that the Deployment wants
    updates, faults     \* faults: crashes, and database calls that failed

store == <<schema, admins>>
table == <<rows, drawn>>
memory == <<checked, todo, spent, adding, missed>>
cluster == <<target, updates, faults>>
vars == <<store, table, phase, memory, cluster>>

Startup == {"starting", "creating", "users", "bootstrapping", "listing", "refreshing"}
Phases == Startup \cup {"absent", "serving", "draining", "exited"}

TypeOK ==
    /\ schema \in BOOLEAN /\ admins \in Nat
    /\ rows \subseteq drawn /\ drawn \subseteq Ids
    /\ phase \in [Pods -> Phases]
    /\ checked \in [Pods -> SUBSET drawn] /\ todo \in [Pods -> SUBSET drawn]
    /\ spent \in [Pods -> 0..Patience]
    /\ adding \in [Pods -> drawn \cup {NoId}]
    /\ missed \in [Pods -> SUBSET drawn]
    /\ target \in Pods
    /\ updates \in 0..MaxUpdates /\ faults \in 0..MaxFaults

Init ==
    /\ schema = FALSE /\ admins = 0
    /\ rows = {} /\ drawn = {}
    /\ phase = [p \in Pods |-> IF p = First THEN "starting" ELSE "absent"]
    /\ checked = [p \in Pods |-> {}] /\ todo = [p \in Pods |-> {}]
    /\ spent = [p \in Pods |-> 0]
    /\ adding = [p \in Pods |-> NoId]
    /\ missed = [p \in Pods |-> {}]
    /\ target = First
    /\ updates = 0 /\ faults = 0

Goto(p, f) == phase' = [phase EXCEPT ![p] = f]

(* A process ends, whether the pod goes on with a new container or not.       *)
End(p, f) ==
    /\ Goto(p, f)
    /\ checked' = [checked EXCEPT ![p] = {}]
    /\ todo' = [todo EXCEPT ![p] = {}]
    /\ spent' = [spent EXCEPT ![p] = 0]
    /\ adding' = [adding EXCEPT ![p] = NoId]
    /\ missed' = [missed EXCEPT ![p] = {}]

-----------------------------------------------------------------------------
(* run, up to ListenAndServe.                                                 *)

(* The pool is open; EnsureSchema finds the tables, or begins to create them. *)
(* (Mutant: CREATE TABLE without IF NOT EXISTS.)                              *)
TablesExistError == "exited"
TablesExist == "users"
EnsureSchema(p) ==
    /\ phase[p] = "starting"
    /\ Goto(p, IF schema THEN TablesExist ELSE "creating")
    /\ UNCHANGED <<store, table, memory, cluster>>

(* CREATE TABLE IF NOT EXISTS may fail when another process creates the same  *)
(* table at the same time.                                                    *)
CreateSchema(p) ==
    /\ phase[p] = "creating"
    /\ schema' = TRUE
    /\ \/ Goto(p, "users") /\ UNCHANGED memory
       \/ schema /\ End(p, "exited")
    /\ UNCHANGED <<admins, table, cluster>>

LoadUsers(p) ==
    /\ phase[p] = "users"
    /\ Goto(p, IF admins = 0 THEN "bootstrapping" ELSE "listing")
    /\ UNCHANGED <<store, table, memory, cluster>>

(* The initial admin's name is unique: of two processes that found no user,   *)
(* one fails, and ends.  Both have the name that deployment.yaml gives them.  *)
(* (Mutant: users.username is not UNIQUE.)                                    *)
NeverTaken == FALSE
NameTaken == admins # 0
InsertAdmin(p) ==
    /\ phase[p] = "bootstrapping"
    /\ IF NameTaken THEN End(p, "exited") /\ UNCHANGED admins
       ELSE admins' = admins + 1 /\ Goto(p, "listing") /\ UNCHANGED memory
    /\ UNCHANGED <<schema, table, cluster>>

(* refreshEndpointsOnStartup: Service.List.                                   *)
ListRows(p) ==
    /\ phase[p] = "listing"
    /\ todo' = [todo EXCEPT ![p] = rows]
    /\ Goto(p, "refreshing")
    /\ UNCHANGED <<store, table, checked, spent, adding, missed, cluster>>

(* Time that a refresh may take.  (Mutant: each of two addresses may take as  *)
(* long.)                                                                     *)
DurationsPerAddress == 0..2 * CheckTime
Durations == 0..CheckTime

(* The liveness probe lets the container be.  (Mutant: there is none.)        *)
Unprobed(p, d) == TRUE
InTime(p, d) == spent[p] + d <= Patience

(* Service.Refresh of one of them; its row may be gone by now.                *)
RefreshNext(p) ==
    /\ phase[p] = "refreshing"
    /\ \E i \in todo[p], d \in Durations :
          /\ InTime(p, d)
          /\ spent' = [spent EXCEPT ![p] = @ + d]
          /\ todo' = [todo EXCEPT ![p] = @ \ {i}]
          /\ checked' = [checked EXCEPT ![p] = @ \cup ({i} \cap rows)]
    /\ UNCHANGED <<store, table, phase, adding, missed, cluster>>

(* The server listens when the loop is through.  (Mutant: at once.)           *)
LoopBegun(p) == phase[p] = "refreshing"
LoopDone(p) == phase[p] = "refreshing" /\ todo[p] = {}
Listen(p) ==
    /\ LoopDone(p)
    /\ Goto(p, "serving")
    /\ todo' = [todo EXCEPT ![p] = {}]
    /\ spent' = [spent EXCEPT ![p] = 0]
    /\ UNCHANGED <<store, table, checked, adding, missed, cluster>>

-----------------------------------------------------------------------------
(* A process that serves, or still answers the requests that it accepted      *)
(* before SIGTERM (run.go:134).                                               *)

Answering(p) == phase[p] \in {"serving", "draining"}
Listed(p) == phase[p] \in {"refreshing", "serving", "draining"}

(* The ID of a new endpoint.  (Mutant: those of removed ones come back.)      *)
ReusableIds == Ids \ rows
FreshIds == Ids \ drawn

(* Service.Add inserts the endpoint; its check begins.                        *)
Insert(p) ==
    /\ Answering(p) /\ adding[p] = NoId
    /\ \E i \in FreshIds :
          /\ rows' = rows \cup {i}
          /\ drawn' = drawn \cup {i}
          /\ adding' = [adding EXCEPT ![p] = i]
          /\ missed' = [q \in Pods |-> IF q # p /\ Listed(q) THEN missed[q] \cup {i} ELSE missed[q]]
    /\ UNCHANGED <<store, phase, checked, todo, spent, cluster>>

(* The check ends, CheckStore.Set.                                            *)
Store(p) ==
    /\ adding[p] # NoId
    /\ checked' = [checked EXCEPT ![p] = @ \cup {adding[p]}]
    /\ adding' = [adding EXCEPT ![p] = NoId]
    /\ UNCHANGED <<store, table, phase, todo, spent, missed, cluster>>

(* An admin refreshes or removes an endpoint.                                 *)
Refresh(p) ==
    /\ Answering(p)
    /\ \E i \in rows : checked' = [checked EXCEPT ![p] = @ \cup {i}]
    /\ UNCHANGED <<store, table, phase, todo, spent, adding, missed, cluster>>

Remove(p) ==
    /\ Answering(p)
    /\ \E i \in rows : /\ rows' = rows \ {i}
                       /\ checked' = [checked EXCEPT ![p] = @ \ {i}]
    /\ UNCHANGED <<store, drawn, phase, todo, spent, adding, missed, cluster>>

(* The database fails a call of the startup loop, which goes on without that  *)
(* endpoint, or loses the answer to an INSERT, so that Add gives up.  (While  *)
(* tables and users are read, such a failure is a Crash.)                     *)
CallFails(p) ==
    /\ faults < MaxFaults
    /\ \/ /\ phase[p] = "refreshing"
          /\ \E i \in todo[p] : /\ todo' = [todo EXCEPT ![p] = @ \ {i}]
                                /\ missed' = [missed EXCEPT ![p] = @ \cup {i}]
          /\ UNCHANGED adding
       \/ /\ adding[p] # NoId
          /\ missed' = [missed EXCEPT ![p] = @ \cup {adding[p]}]
          /\ adding' = [adding EXCEPT ![p] = NoId]
          /\ UNCHANGED todo
    /\ faults' = faults + 1
    /\ UNCHANGED <<store, table, phase, checked, spent, target, updates>>

(* Shutdown returns when no request is left, or after ten seconds, which is   *)
(* less than a check may take.                                                *)
Drained(p) ==
    /\ phase[p] = "draining"
    /\ End(p, "absent")
    /\ UNCHANGED <<store, table, cluster>>

-----------------------------------------------------------------------------
(* Kubernetes.                                                                *)

(* A new template: its pod starts beside the one there is.                    *)
Update(p) ==
    /\ updates < MaxUpdates
    /\ \A q \in Pods \ {target} : phase[q] = "absent"
    /\ phase[p] = "absent"
    /\ target' = p
    /\ updates' = updates + 1
    /\ Goto(p, "starting")
    /\ UNCHANGED <<store, table, memory, faults>>

(* /readyz answers, and the database does.  (Mutant: a server of its own      *)
(* answers during the startup loop.)                                          *)
ReadyEarly(p) == phase[p] \in {"refreshing", "serving"}
Ready(p) == phase[p] = "serving"

(* SIGTERM to the old pod, once the new one is ready.  A process that serves  *)
(* drains; before, it has no handler for the signal, and ends.                *)
Retire(p) ==
    /\ p # target /\ Ready(target)
    /\ phase[p] \notin {"absent", "draining"}
    /\ IF phase[p] = "serving" THEN Goto(p, "draining") /\ UNCHANGED memory
       ELSE End(p, "absent")
    /\ UNCHANGED <<store, table, cluster>>

(* The liveness probe has failed too often: the next check would take longer  *)
(* than is left.  The statements before the loop take no time here; one that  *)
(* hangs until the probe ends the container is a Crash.                       *)
Kill(p) ==
    /\ phase[p] = "refreshing"
    /\ todo[p] # {} /\ \E d \in Durations : ~InTime(p, d)
    /\ End(p, "exited")
    /\ UNCHANGED <<store, table, cluster>>

(* A process ends for any reason, be it that its database call failed.        *)
Crash(p) ==
    /\ faults < MaxFaults
    /\ phase[p] \notin {"absent", "exited"}
    /\ End(p, IF phase[p] = "draining" THEN "absent" ELSE "exited")
    /\ faults' = faults + 1
    /\ UNCHANGED <<store, table, target, updates>>

(* The container is started again.                                            *)
Restart(p) ==
    /\ phase[p] = "exited"
    /\ Goto(p, "starting")
    /\ UNCHANGED <<store, table, memory, cluster>>

(* What a process or Kubernetes is going to do.                               *)
Progress(p) ==
    \/ EnsureSchema(p) \/ CreateSchema(p) \/ LoadUsers(p) \/ InsertAdmin(p)
    \/ ListRows(p) \/ RefreshNext(p) \/ Listen(p)
    \/ Store(p) \/ Drained(p) \/ Retire(p) \/ Restart(p)

(* What people and accidents do, and a probe that failed.                     *)
Event(p) ==
    \/ Insert(p) \/ Refresh(p) \/ Remove(p) \/ Update(p)
    \/ CallFails(p) \/ Kill(p) \/ Crash(p)

Next == \E p \in Pods : Progress(p) \/ Event(p)

Spec == Init /\ [][Next]_vars

FairSpec == Spec /\ \A p \in Pods : WF_vars(Progress(p))

-----------------------------------------------------------------------------
(* Properties.                                                                *)

Serving == {p \in Pods : phase[p] = "serving"}

(* However many processes start on an empty table of users, one account       *)
(* comes of it (bootstrap.go:22, 40).                                         *)
OneInitialAdmin == admins <= 1

(* A process that serves has checked every endpoint, but for the one that it  *)
(* is adding, and those that another process added after the startup loop had *)
(* listed the table (startup.go:12, deployment.yaml:8) or that a failed       *)
(* database call made it skip: alone, it has checked all.                     *)
UncheckedOnlyMissed ==
    \A p \in Serving : rows \subseteq checked[p] \cup {adding[p]} \cup missed[p]

(* An update does not interrupt the service: the pod that ends has been       *)
(* replaced, unless a process crashed.                                        *)
NoGap == [][Serving # {} => Serving' # {} \/ \E p \in Pods : Crash(p)]_vars

(* The liveness probe kills no process while it starts as long as there are   *)
(* so few endpoints that all their checks may last as long as they can        *)
(* (run.go:82, deployment.yaml:49).                                           *)
KilledOnlyWithMany ==
    [][\A p \in Pods : Kill(p) => Cardinality(drawn) * CheckTime > Patience]_vars

(* What the pages of one pod show: the rows that all pods share, each with    *)
(* the result that this pod has of it.  Endpoints are their own URLs here,    *)
(* and one time is as good as another.                                        *)
Shown(p) == [i \in Ids |-> IF i \in rows \cap checked[p] THEN 1 ELSE 0]
Registry(p) == INSTANCE EndpointRegistry WITH
    Urls <- Ids,
    NoUrl <- NoId,
    registered <- [i \in Ids |-> IF i \in rows THEN i ELSE NoId],
    latest <- Shown(p),
    retired <- drawn \ rows

(* Each pod keeps the promise of the registry to its users, though others     *)
(* add and remove endpoints behind its back: what it has checked stays        *)
(* checked until the endpoint or the process is gone, and a result that       *)
(* another pod's removal left in its CheckStore never reappears               *)
(* (check_store.go:22, service.go:161).                                       *)
EveryPodARegistry ==
    /\ \A p \in Pods : Registry(p)!Init
    /\ [][\A p \in Pods : Registry(p)!Next \/ UNCHANGED Registry(p)!vars]_vars

(* An update ends, with the new pod alone and serving, whichever bootstrap or *)
(* CREATE TABLE lost a race, unless the liveness probe kills one process      *)
(* after the other.                                                           *)
Alone(p) == Serving = {p} /\ \A q \in Pods \ {p} : phase[q] = "absent"
UpdateEnds ==
    \/ []<><<\E p \in Pods : Kill(p)>>_vars
    \/ \A p \in Pods : target = p ~> target # p \/ Alone(p)

=============================================================================
