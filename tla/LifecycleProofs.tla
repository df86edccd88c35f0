---------------------------- MODULE LifecycleProofs ----------------------------
(* For any number of pods, endpoints, updates and faults:  one initial admin, *)
(* no endpoint overlooked, no interruption by an update, no container killed  *)
(* that has few endpoints to check, a registry in every pod, and a startup    *)
(* that advances.                                                             *)
EXTENDS Lifecycle, FiniteSetTheorems, TLAPS

-----------------------------------------------------------------------------
(* Types.                                                                     *)

LEMMA EndTyped ==
    ASSUME TypeOK, NEW p \in Pods, NEW f \in Phases, End(p, f)
    PROVE  /\ phase' \in [Pods -> Phases]
           /\ checked' \in [Pods -> SUBSET drawn] /\ todo' \in [Pods -> SUBSET drawn]
           /\ spent' \in [Pods -> 0..Patience]
           /\ adding' \in [Pods -> drawn \cup {NoId}]
           /\ missed' \in [Pods -> SUBSET drawn]
BY LifecycleAssumption DEF TypeOK, End, Goto

LEMMA InitType == Init => TypeOK
<1> SUFFICES ASSUME Init PROVE TypeOK
    OBVIOUS
<1>1. phase \in [Pods -> Phases]
    BY DEF Init, Phases, Startup
<1>2. 0 \in 0..Patience /\ 0 \in 0..MaxUpdates /\ 0 \in 0..MaxFaults
    BY LifecycleAssumption
<1>3. /\ checked \in [Pods -> SUBSET drawn] /\ todo \in [Pods -> SUBSET drawn]
      /\ missed \in [Pods -> SUBSET drawn] /\ adding \in [Pods -> drawn \cup {NoId}]
      /\ spent \in [Pods -> 0..Patience]
    BY <1>2 DEF Init
<1> QED BY <1>1, <1>2, <1>3, LifecycleAssumption DEF Init, TypeOK

LEMMA StepType == TypeOK /\ [Next]_vars => TypeOK'
<1> SUFFICES ASSUME TypeOK, [Next]_vars PROVE TypeOK'
    OBVIOUS
<1> USE LifecycleAssumption
<1> USE DEF vars, store, table, memory, cluster
<1>1. ASSUME NEW p \in Pods, EnsureSchema(p) PROVE TypeOK'
    BY <1>1 DEF EnsureSchema, TablesExist, Goto, TypeOK, Phases, Startup
<1>2. ASSUME NEW p \in Pods, CreateSchema(p) PROVE TypeOK'
  <2>1. CASE Goto(p, "users") /\ UNCHANGED memory
      BY <1>2, <2>1 DEF CreateSchema, Goto, TypeOK, Phases, Startup
  <2>2. CASE End(p, "exited")
    <3>1. "exited" \in Phases
        BY DEF Phases
    <3> QED BY <1>2, <2>2, <3>1, EndTyped DEF CreateSchema, TypeOK
  <2> QED BY <1>2, <2>1, <2>2 DEF CreateSchema
<1>3. ASSUME NEW p \in Pods, LoadUsers(p) PROVE TypeOK'
    BY <1>3 DEF LoadUsers, Goto, TypeOK, Phases, Startup
<1>4. ASSUME NEW p \in Pods, InsertAdmin(p) PROVE TypeOK'
  <2>1. CASE End(p, "exited") /\ UNCHANGED admins
    <3>1. "exited" \in Phases
        BY DEF Phases
    <3> QED BY <1>4, <2>1, <3>1, EndTyped DEF InsertAdmin, TypeOK
  <2>2. CASE admins' = admins + 1 /\ Goto(p, "listing") /\ UNCHANGED memory
      BY <1>4, <2>2 DEF InsertAdmin, Goto, TypeOK, Phases, Startup
  <2> QED BY <1>4, <2>1, <2>2 DEF InsertAdmin
<1>5. ASSUME NEW p \in Pods, ListRows(p) PROVE TypeOK'
    BY <1>5 DEF ListRows, Goto, TypeOK, Phases, Startup
<1>6. ASSUME NEW p \in Pods, RefreshNext(p) PROVE TypeOK'
  <2> PICK i \in todo[p], d \in Durations :
          /\ InTime(p, d)
          /\ spent' = [spent EXCEPT ![p] = @ + d]
          /\ todo' = [todo EXCEPT ![p] = @ \ {i}]
          /\ checked' = [checked EXCEPT ![p] = @ \cup ({i} \cap rows)]
      BY <1>6 DEF RefreshNext
  <2>1. spent[p] + d \in 0..Patience
      BY DEF TypeOK, InTime, Durations
  <2>2. spent' \in [Pods -> 0..Patience]
      BY <2>1 DEF TypeOK
  <2>3. todo' \in [Pods -> SUBSET drawn] /\ checked' \in [Pods -> SUBSET drawn]
      BY DEF TypeOK
  <2> QED BY <1>6, <2>2, <2>3 DEF RefreshNext, TypeOK
<1>7. ASSUME NEW p \in Pods, Listen(p) PROVE TypeOK'
    BY <1>7 DEF Listen, Goto, TypeOK, Phases
<1>8. ASSUME NEW p \in Pods, Store(p) PROVE TypeOK'
    BY <1>8 DEF Store, TypeOK
<1>9. ASSUME NEW p \in Pods, Drained(p) PROVE TypeOK'
  <2>1. "absent" \in Phases
      BY DEF Phases
  <2> QED BY <1>9, <2>1, EndTyped DEF Drained, TypeOK
<1>10. ASSUME NEW p \in Pods, Retire(p) PROVE TypeOK'
  <2>1. CASE Goto(p, "draining") /\ UNCHANGED memory
      BY <1>10, <2>1 DEF Retire, Goto, TypeOK, Phases
  <2>2. CASE End(p, "absent")
    <3>1. "absent" \in Phases
        BY DEF Phases
    <3> QED BY <1>10, <2>2, <3>1, EndTyped DEF Retire, TypeOK
  <2> QED BY <1>10, <2>1, <2>2 DEF Retire
<1>11. ASSUME NEW p \in Pods, Restart(p) PROVE TypeOK'
    BY <1>11 DEF Restart, Goto, TypeOK, Phases, Startup
<1>12. ASSUME NEW p \in Pods, Insert(p) PROVE TypeOK'
  <2> PICK i \in Ids \ drawn :
          /\ rows' = rows \cup {i} /\ drawn' = drawn \cup {i}
          /\ adding' = [adding EXCEPT ![p] = i]
          /\ missed' = [q \in Pods |-> IF q # p /\ Listed(q) THEN missed[q] \cup {i} ELSE missed[q]]
      BY <1>12 DEF Insert, FreshIds
  <2>1. rows' \subseteq drawn' /\ drawn' \subseteq Ids
      BY DEF TypeOK
  <2>2. adding' \in [Pods -> drawn' \cup {NoId}]
      BY DEF TypeOK
  <2>3. missed' \in [Pods -> SUBSET drawn']
      BY DEF TypeOK
  <2>4. checked' \in [Pods -> SUBSET drawn'] /\ todo' \in [Pods -> SUBSET drawn']
      BY <1>12 DEF Insert, FreshIds, TypeOK
  <2> QED BY <1>12, <2>1, <2>2, <2>3, <2>4 DEF Insert, FreshIds, TypeOK
<1>13. ASSUME NEW p \in Pods, Refresh(p) PROVE TypeOK'
    BY <1>13 DEF Refresh, TypeOK
<1>14. ASSUME NEW p \in Pods, Remove(p) PROVE TypeOK'
    BY <1>14 DEF Remove, TypeOK
<1>15. ASSUME NEW p \in Pods, Update(p) PROVE TypeOK'
    BY <1>15 DEF Update, Goto, TypeOK, Phases, Startup
<1>16. ASSUME NEW p \in Pods, Kill(p) PROVE TypeOK'
  <2>1. "exited" \in Phases
      BY DEF Phases
  <2> QED BY <1>16, <2>1, EndTyped DEF Kill, TypeOK
<1>17. ASSUME NEW p \in Pods, Crash(p) PROVE TypeOK'
  <2>1. (IF phase[p] = "draining" THEN "absent" ELSE "exited") \in Phases
      BY DEF Phases
  <2>2. faults' \in 0..MaxFaults
      BY <1>17 DEF Crash, TypeOK
  <2>3. End(p, IF phase[p] = "draining" THEN "absent" ELSE "exited")
      BY <1>17 DEF Crash
  <2> QED BY <1>17, <2>1, <2>2, <2>3, EndTyped DEF Crash, TypeOK
<1>18. ASSUME NEW p \in Pods, CallFails(p) PROVE TypeOK'
  <2>1. faults' \in 0..MaxFaults
      BY <1>18 DEF CallFails, TypeOK
  <2>2. /\ todo' \in [Pods -> SUBSET drawn] /\ missed' \in [Pods -> SUBSET drawn]
        /\ adding' \in [Pods -> drawn \cup {NoId}]
      BY <1>18 DEF CallFails, TypeOK
  <2> QED BY <1>18, <2>1, <2>2 DEF CallFails, TypeOK
<1>19. CASE UNCHANGED vars
    BY <1>19 DEF TypeOK
<1> QED BY <1>1, <1>2, <1>3, <1>4, <1>5, <1>6, <1>7, <1>8, <1>9, <1>10, <1>11, <1>12,
           <1>13, <1>14, <1>15, <1>16, <1>17, <1>18, <1>19 DEF Next, Progress, Event

(* The type invariant: what a process knows are endpoints that existed, and   *)
(* no container outlives the patience of the liveness probe.                  *)
THEOREM TypeCorrect == Spec => []TypeOK
BY InitType, StepType, PTL DEF Spec

-----------------------------------------------------------------------------
(* One initial admin.                                                         *)

LEMMA StepAdmin == TypeOK /\ OneInitialAdmin /\ [Next]_vars => OneInitialAdmin'
<1> SUFFICES ASSUME TypeOK, OneInitialAdmin, [Next]_vars PROVE OneInitialAdmin'
    OBVIOUS
<1> USE DEF store, vars
<1>1. ASSUME NEW p \in Pods, InsertAdmin(p) PROVE OneInitialAdmin'
    BY <1>1 DEF InsertAdmin, NameTaken, TypeOK, OneInitialAdmin
<1>2. CASE UNCHANGED admins
    BY <1>2 DEF OneInitialAdmin
<1>3. ASSUME NEW p \in Pods, Progress(p) \/ Event(p), ~InsertAdmin(p) PROVE UNCHANGED admins
  <2>1. CASE EnsureSchema(p) \/ CreateSchema(p) \/ LoadUsers(p) \/ ListRows(p) \/ RefreshNext(p)
      BY <2>1 DEF EnsureSchema, CreateSchema, LoadUsers, ListRows, RefreshNext
  <2>2. CASE Listen(p) \/ Store(p) \/ Drained(p) \/ Retire(p) \/ Restart(p)
      BY <2>2 DEF Listen, Store, Drained, Retire, Restart
  <2>3. CASE Insert(p) \/ Refresh(p) \/ Remove(p) \/ Update(p) \/ CallFails(p) \/ Kill(p) \/ Crash(p)
      BY <2>3 DEF Insert, Refresh, Remove, Update, CallFails, Kill, Crash
  <2> QED BY <1>3, <2>1, <2>2, <2>3 DEF Progress, Event
<1> QED BY <1>1, <1>2, <1>3 DEF Next

(* However many processes bootstrap at once, one account comes of it.         *)
THEOREM OneAdmin == Spec => []OneInitialAdmin
<1>1. Init => OneInitialAdmin
    BY DEF Init, OneInitialAdmin
<1> QED BY <1>1, InitType, StepType, StepAdmin, PTL DEF Spec

-----------------------------------------------------------------------------
(* What a process knows of the table: from the list on, each row has been     *)
(* checked, is still to be checked, is being added, or came from another      *)
(* process.                                                                   *)

Known(p) ==
    /\ phase[p] \in {"refreshing", "serving"} =>
          rows \subseteq checked[p] \cup todo[p] \cup {adding[p]} \cup missed[p]
    /\ phase[p] = "serving" => todo[p] = {}

KnownInv == \A p \in Pods : Known(p)

(* A process that is neither in the loop nor serving owes nothing.            *)
LEMMA KnownElsewhere ==
    ASSUME TypeOK, KnownInv, NEW p \in Pods, NEW f \in Phases \ {"refreshing", "serving"},
           Goto(p, f), rows' \subseteq rows, UNCHANGED memory
    PROVE  KnownInv'
BY DEF Goto, KnownInv, Known, TypeOK, memory

LEMMA KnownEnd ==
    ASSUME TypeOK, KnownInv, NEW p \in Pods, NEW f \in Phases \ {"refreshing", "serving"},
           End(p, f), UNCHANGED rows
    PROVE  KnownInv'
BY DEF Goto, End, KnownInv, Known, TypeOK

LEMMA StepKnown == TypeOK /\ KnownInv /\ [Next]_vars => KnownInv'
<1> SUFFICES ASSUME TypeOK, KnownInv, [Next]_vars PROVE KnownInv'
    OBVIOUS
<1> USE DEF vars, table
<1>1. ASSUME NEW p \in Pods, EnsureSchema(p) \/ LoadUsers(p) \/ Restart(p) \/ Update(p)
      PROVE  KnownInv'
  <2>1. PICK f \in {"users", "creating", "bootstrapping", "listing", "starting"} : Goto(p, f)
      BY <1>1 DEF EnsureSchema, TablesExist, LoadUsers, Restart, Update
  <2>2. f \in Phases \ {"refreshing", "serving"}
      BY <2>1 DEF Phases, Startup
  <2>3. UNCHANGED rows /\ UNCHANGED memory
      BY <1>1 DEF EnsureSchema, LoadUsers, Restart, Update
  <2> QED BY <2>1, <2>2, <2>3, KnownElsewhere
<1>2. ASSUME NEW p \in Pods, CreateSchema(p) \/ InsertAdmin(p) \/ Retire(p) PROVE KnownInv'
  <2>1. CASE UNCHANGED memory /\ \E f \in {"users", "listing", "draining"} : Goto(p, f)
    <3>1. PICK f \in {"users", "listing", "draining"} : Goto(p, f)
        BY <2>1
    <3>2. f \in Phases \ {"refreshing", "serving"}
        BY <3>1 DEF Phases, Startup
    <3>3. UNCHANGED rows
        BY <1>2 DEF CreateSchema, InsertAdmin, Retire
    <3> QED BY <2>1, <3>1, <3>2, <3>3, KnownElsewhere
  <2>2. CASE \E f \in {"exited", "absent"} : End(p, f)
    <3>1. PICK f \in {"exited", "absent"} : End(p, f)
        BY <2>2
    <3>2. f \in Phases \ {"refreshing", "serving"}
        BY <3>1 DEF Phases
    <3>3. UNCHANGED rows
        BY <1>2 DEF CreateSchema, InsertAdmin, Retire
    <3> QED BY <3>1, <3>2, <3>3, KnownEnd
  <2> QED BY <1>2, <2>1, <2>2 DEF CreateSchema, InsertAdmin, Retire
<1>3. ASSUME NEW p \in Pods, Drained(p) \/ Kill(p) \/ Crash(p) PROVE KnownInv'
  <2>1. PICK f \in {"exited", "absent"} : End(p, f)
      BY <1>3 DEF Drained, Kill, Crash
  <2>2. f \in Phases \ {"refreshing", "serving"}
      BY <2>1 DEF Phases
  <2>3. UNCHANGED rows
      BY <1>3 DEF Drained, Kill, Crash
  <2> QED BY <2>1, <2>2, <2>3, KnownEnd
<1>4. ASSUME NEW p \in Pods, ListRows(p) PROVE KnownInv'
    BY <1>4 DEF ListRows, Goto, KnownInv, Known, TypeOK
<1>5. ASSUME NEW p \in Pods, RefreshNext(p) PROVE KnownInv'
    BY <1>5 DEF RefreshNext, KnownInv, Known, TypeOK
<1>6. ASSUME NEW p \in Pods, Listen(p) PROVE KnownInv'
    BY <1>6 DEF Listen, LoopDone, Goto, KnownInv, Known, TypeOK
<1>7. ASSUME NEW p \in Pods, Insert(p) PROVE KnownInv'
  <2> PICK i \in Ids \ drawn :
          /\ rows' = rows \cup {i}
          /\ adding' = [adding EXCEPT ![p] = i]
          /\ missed' = [q \in Pods |-> IF q # p /\ Listed(q) THEN missed[q] \cup {i} ELSE missed[q]]
      BY <1>7 DEF Insert, FreshIds
  <2>1. adding[p] = NoId /\ NoId \notin rows
      BY <1>7, LifecycleAssumption DEF Insert, FreshIds, TypeOK
  <2>2. UNCHANGED <<phase, checked, todo>>
      BY <1>7 DEF Insert, FreshIds
  <2>3. Known(p)'
      BY <2>1, <2>2 DEF KnownInv, Known, TypeOK
  <2>4. ASSUME NEW q \in Pods, q # p PROVE Known(q)'
      BY <2>2, <2>4 DEF KnownInv, Known, TypeOK, Listed
  <2> QED BY <2>3, <2>4 DEF KnownInv
<1>8. ASSUME NEW p \in Pods, Store(p) \/ Refresh(p) PROVE KnownInv'
    BY <1>8 DEF Store, Refresh, KnownInv, Known, TypeOK
<1>9. ASSUME NEW p \in Pods, Remove(p) PROVE KnownInv'
    BY <1>9 DEF Remove, KnownInv, Known, TypeOK
<1>10. ASSUME NEW p \in Pods, CallFails(p) PROVE KnownInv'
    BY <1>10 DEF CallFails, KnownInv, Known, TypeOK
<1>11. CASE UNCHANGED vars
    BY <1>11 DEF KnownInv, Known, memory
<1> QED BY <1>1, <1>2, <1>3, <1>4, <1>5, <1>6, <1>7, <1>8, <1>9, <1>10, <1>11
        DEF Next, Progress, Event

(* A process that serves overlooked no endpoint, however many others add some *)
(* and remove some while it starts.                                           *)
THEOREM NothingOverlooked == Spec => []UncheckedOnlyMissed
<1>1. Init => KnownInv
    BY DEF Init, KnownInv, Known
<1>2. KnownInv => UncheckedOnlyMissed
    BY DEF KnownInv, Known, UncheckedOnlyMissed, Serving
<1> QED BY <1>1, <1>2, InitType, StepType, StepKnown, PTL DEF Spec

-----------------------------------------------------------------------------
(* No interruption.                                                           *)

(* Whoever is serving goes on serving, if the step is of another process that *)
(* is not serving.                                                            *)
LEMMA OthersServe ==
    ASSUME TypeOK, NEW p \in Pods, phase[p] # "serving",
           \E f \in Phases : phase' = [phase EXCEPT ![p] = f]
    PROVE  Serving \subseteq Serving'
BY DEF Serving, TypeOK

LEMMA StepServing ==
    ASSUME TypeOK, [Next]_vars
    PROVE  Serving # {} => Serving' # {} \/ \E p \in Pods : Crash(p)
<1> USE DEF vars
<1>1. ASSUME NEW p \in Pods, EnsureSchema(p) \/ CreateSchema(p) \/ LoadUsers(p) \/ InsertAdmin(p)
      PROVE  Serving \subseteq Serving'
  <2>1. phase[p] # "serving"
      BY <1>1 DEF EnsureSchema, CreateSchema, LoadUsers, InsertAdmin
  <2>2. \E f \in Phases : phase' = [phase EXCEPT ![p] = f]
      BY <1>1 DEF EnsureSchema, TablesExist, CreateSchema, LoadUsers, InsertAdmin, Goto, End,
                  Phases, Startup
  <2> QED BY <2>1, <2>2, OthersServe
<1>2. ASSUME NEW p \in Pods, ListRows(p) \/ Listen(p) \/ Drained(p) \/ Update(p) \/ Kill(p)
                                \/ Restart(p)
      PROVE  Serving \subseteq Serving'
  <2>1. phase[p] # "serving"
      BY <1>2 DEF ListRows, Listen, LoopDone, Drained, Update, Kill, Restart
  <2>2. \E f \in Phases : phase' = [phase EXCEPT ![p] = f]
      BY <1>2 DEF ListRows, Listen, Drained, Update, Kill, Restart, Goto, End, Phases, Startup
  <2> QED BY <2>1, <2>2, OthersServe
<1>3. ASSUME NEW p \in Pods, RefreshNext(p) \/ Store(p) \/ Insert(p) \/ Refresh(p) \/ Remove(p)
                                  \/ CallFails(p)
      PROVE  Serving' = Serving
    BY <1>3 DEF RefreshNext, Store, Insert, Refresh, Remove, CallFails, Serving
<1>4. ASSUME NEW p \in Pods, Retire(p) PROVE target \in Serving'
    BY <1>4 DEF Retire, Ready, Goto, End, Serving, TypeOK
<1>5. CASE UNCHANGED vars
    BY <1>5 DEF Serving
<1> QED BY <1>1, <1>2, <1>3, <1>4, <1>5 DEF Next, Progress, Event

(* An update never interrupts the service.                                    *)
THEOREM NoInterruption == Spec => NoGap
<1>1. TypeOK /\ [Next]_vars => [Serving # {} => Serving' # {} \/ \E p \in Pods : Crash(p)]_vars
    BY StepServing
<1> QED BY <1>1, InitType, StepType, PTL DEF Spec, NoGap

-----------------------------------------------------------------------------
(* The patience of the liveness probe.                                        *)

(* What a process in its loop has spent, and what it may yet spend, is no     *)
(* more than the checks of all endpoints may take.                            *)
Thrift(p) ==
    /\ phase[p] # "refreshing" => spent[p] = 0
    /\ phase[p] = "refreshing" =>
          spent[p] + Cardinality(todo[p]) * CheckTime <= Cardinality(drawn) * CheckTime

ThriftInv == \A p \in Pods : Thrift(p)

LEMMA Products ==
    ASSUME NEW m \in Nat, NEW n \in Nat, NEW c \in Nat, m <= n
    PROVE  m * c <= n * c /\ (m + 1) * c = m * c + c /\ m * c \in Nat
OBVIOUS

LEMMA Finite ==
    ASSUME TypeOK
    PROVE  /\ IsFiniteSet(drawn) /\ Cardinality(drawn) \in Nat
           /\ \A s \in SUBSET drawn :
                 /\ IsFiniteSet(s) /\ Cardinality(s) \in Nat
                 /\ Cardinality(s) <= Cardinality(drawn)
<1>1. IsFiniteSet(drawn)
    BY FS_Subset, LifecycleAssumption DEF TypeOK
<1> QED BY <1>1, FS_Subset, FS_CardinalityType

LEMMA ThriftElsewhere ==
    ASSUME TypeOK, ThriftInv, NEW p \in Pods, NEW f \in Phases \ {"refreshing"},
           phase' = [phase EXCEPT ![p] = f], UNCHANGED drawn,
           \A q \in Pods \ {p} : spent'[q] = spent[q] /\ todo'[q] = todo[q],
           spent'[p] = 0
    PROVE  ThriftInv'
BY DEF ThriftInv, Thrift, TypeOK

LEMMA StepThrift == TypeOK /\ ThriftInv /\ [Next]_vars => ThriftInv'
<1> SUFFICES ASSUME TypeOK, ThriftInv, [Next]_vars PROVE ThriftInv'
    OBVIOUS
<1> USE DEF vars, table, memory
<1>1. ASSUME NEW p \in Pods,
             \/ EnsureSchema(p) \/ CreateSchema(p) \/ LoadUsers(p) \/ InsertAdmin(p) \/ Listen(p)
             \/ Drained(p) \/ Retire(p) \/ Restart(p) \/ Update(p) \/ Kill(p) \/ Crash(p)
      PROVE  ThriftInv'
  <2>1. \E f \in Phases \ {"refreshing"} :
           /\ phase' = [phase EXCEPT ![p] = f]
           /\ \/ End(p, f)
              \/ UNCHANGED <<spent, todo>> /\ phase[p] # "refreshing"
              \/ Listen(p)
      BY <1>1 DEF EnsureSchema, TablesExist, CreateSchema, LoadUsers, InsertAdmin, Listen, Drained,
                  Retire, Restart, Update, Kill, Crash, Goto, End, Phases, Startup
  <2>2. /\ \A q \in Pods \ {p} : spent'[q] = spent[q] /\ todo'[q] = todo[q]
        /\ spent'[p] = 0
      BY <2>1 DEF End, Listen, TypeOK, ThriftInv, Thrift
  <2>3. UNCHANGED drawn
      BY <1>1 DEF EnsureSchema, CreateSchema, LoadUsers, InsertAdmin, Listen, Drained, Retire,
                  Restart, Update, Kill, Crash
  <2> QED BY <2>1, <2>2, <2>3, ThriftElsewhere
<1>2. ASSUME NEW p \in Pods, ListRows(p) PROVE ThriftInv'
  <2>1. spent[p] = 0 /\ todo'[p] = rows /\ UNCHANGED <<drawn, spent>>
      BY <1>2 DEF ListRows, ThriftInv, Thrift, TypeOK
  <2>2. Cardinality(rows) * CheckTime <= Cardinality(drawn) * CheckTime
        /\ Cardinality(rows) * CheckTime \in Nat
      BY Finite, Products, LifecycleAssumption DEF TypeOK
  <2>3. Thrift(p)'
      BY <1>2, <2>1, <2>2 DEF ListRows, Goto, Thrift, TypeOK
  <2>4. ASSUME NEW q \in Pods, q # p PROVE Thrift(q)'
      BY <1>2, <2>1, <2>4 DEF ListRows, Goto, ThriftInv, Thrift, TypeOK
  <2> QED BY <2>3, <2>4 DEF ThriftInv
<1>3. ASSUME NEW p \in Pods, RefreshNext(p) PROVE ThriftInv'
  <2> PICK i \in todo[p], d \in Durations :
          /\ spent' = [spent EXCEPT ![p] = @ + d]
          /\ todo' = [todo EXCEPT ![p] = @ \ {i}]
      BY <1>3 DEF RefreshNext
  <2>1. phase[p] = "refreshing" /\ UNCHANGED <<phase, drawn>>
      BY <1>3 DEF RefreshNext
  <2>2. todo[p] \in SUBSET drawn /\ spent[p] \in Nat
      BY DEF TypeOK
  <2> DEFINE m == Cardinality(todo[p] \ {i})
  <2>3. m \in Nat /\ Cardinality(todo[p]) = m + 1
      BY <2>2, Finite, FS_RemoveElement, FS_CardinalityType
  <2>4. Cardinality(todo[p]) * CheckTime = m * CheckTime + CheckTime /\ m * CheckTime \in Nat
    <3> HIDE DEF m
    <3> QED BY <2>3, Products, LifecycleAssumption
  <2>5. spent'[p] = spent[p] + d /\ todo'[p] = todo[p] \ {i}
      BY DEF TypeOK
  <2>6. d \in Nat /\ d <= CheckTime
      BY LifecycleAssumption DEF Durations
  <2>7. spent[p] + Cardinality(todo[p]) * CheckTime <= Cardinality(drawn) * CheckTime
      BY <2>1 DEF ThriftInv, Thrift
  <2>8. spent'[p] + Cardinality(todo'[p]) * CheckTime <= Cardinality(drawn) * CheckTime
    <3>1. Cardinality(drawn) * CheckTime \in Nat
        BY Finite, Products, LifecycleAssumption
    <3>2. Cardinality(todo'[p]) = m
        BY <2>5
    <3> HIDE DEF m
    <3> QED BY <2>2, <2>4, <2>5, <2>6, <2>7, <3>1, <3>2, LifecycleAssumption
  <2>9. Thrift(p)'
      BY <2>1, <2>8 DEF Thrift
  <2>10. ASSUME NEW q \in Pods, q # p PROVE Thrift(q)'
      BY <2>1, <2>10 DEF ThriftInv, Thrift, TypeOK
  <2> QED BY <2>9, <2>10 DEF ThriftInv
<1>4. ASSUME NEW p \in Pods, Insert(p) PROVE ThriftInv'
  <2>1. UNCHANGED <<phase, spent, todo>>
      BY <1>4 DEF Insert, FreshIds
  <2>2. PICK i \in Ids \ drawn : drawn' = drawn \cup {i}
      BY <1>4 DEF Insert, FreshIds
  <2>3. Cardinality(drawn') = Cardinality(drawn) + 1
      BY <2>2, Finite, FS_AddElement
  <2>4. /\ Cardinality(drawn) * CheckTime <= Cardinality(drawn') * CheckTime
        /\ Cardinality(drawn) * CheckTime \in Nat /\ Cardinality(drawn') * CheckTime \in Nat
      BY <2>3, Finite, Products, LifecycleAssumption
  <2>5. ASSUME NEW q \in Pods PROVE Thrift(q)'
    <3>1. Cardinality(todo[q]) * CheckTime \in Nat /\ spent[q] \in Nat
        BY Finite, Products, LifecycleAssumption DEF TypeOK
    <3> QED BY <2>1, <2>4, <3>1 DEF ThriftInv, Thrift
  <2> QED BY <2>5 DEF ThriftInv
<1>5. ASSUME NEW p \in Pods, Store(p) \/ Refresh(p) \/ Remove(p) PROVE ThriftInv'
  <2>1. UNCHANGED <<phase, spent, todo, drawn>>
      BY <1>5 DEF Store, Refresh, Remove
  <2> QED BY <2>1 DEF ThriftInv, Thrift
<1>6. ASSUME NEW p \in Pods, CallFails(p) PROVE ThriftInv'
  <2>1. UNCHANGED <<phase, spent, drawn>>
      BY <1>6 DEF CallFails
  <2>2. ASSUME NEW q \in Pods PROVE Thrift(q)'
    <3>1. /\ todo[q] \in SUBSET drawn /\ todo'[q] \subseteq todo[q]
          /\ spent[q] \in Nat
        BY <1>6 DEF CallFails, TypeOK
    <3>2. /\ Cardinality(todo'[q]) \in Nat /\ Cardinality(todo[q]) \in Nat
          /\ Cardinality(todo'[q]) <= Cardinality(todo[q])
        BY <3>1, Finite, FS_Subset
    <3>3. /\ Cardinality(todo'[q]) * CheckTime <= Cardinality(todo[q]) * CheckTime
          /\ Cardinality(todo'[q]) * CheckTime \in Nat
          /\ Cardinality(todo[q]) * CheckTime \in Nat
        BY <3>2, Products, LifecycleAssumption
    <3>4. Cardinality(drawn) * CheckTime \in Nat
        BY Finite, Products, LifecycleAssumption
    <3> QED BY <2>1, <3>1, <3>3, <3>4 DEF ThriftInv, Thrift
  <2> QED BY <2>2 DEF ThriftInv
<1>7. CASE UNCHANGED vars
    BY <1>7 DEF ThriftInv, Thrift
<1> QED BY <1>1, <1>2, <1>3, <1>4, <1>5, <1>6, <1>7 DEF Next, Progress, Event

LEMMA KillNeedsMany ==
    ASSUME TypeOK, ThriftInv, NEW p \in Pods, Kill(p)
    PROVE  Cardinality(drawn) * CheckTime > Patience
<1>1. phase[p] = "refreshing" /\ todo[p] # {} /\ todo[p] \in SUBSET drawn
    BY DEF Kill, TypeOK
<1>2. spent[p] + CheckTime > Patience /\ spent[p] \in Nat
    BY LifecycleAssumption DEF Kill, InTime, Durations, TypeOK
<1>3. spent[p] + Cardinality(todo[p]) * CheckTime <= Cardinality(drawn) * CheckTime
    BY <1>1 DEF ThriftInv, Thrift
<1>4. Cardinality(todo[p]) \in Nat /\ Cardinality(todo[p]) # 0
    BY <1>1, Finite, FS_EmptySet
<1>5. 1 * CheckTime <= Cardinality(todo[p]) * CheckTime
    BY <1>4, Products, LifecycleAssumption
<1>6. Cardinality(drawn) * CheckTime \in Nat /\ Cardinality(todo[p]) * CheckTime \in Nat
    BY <1>4, Finite, Products, LifecycleAssumption
<1> QED BY <1>2, <1>3, <1>5, <1>6, LifecycleAssumption

(* The liveness probe kills no process that has few endpoints to check.       *)
THEOREM KilledWithMany == Spec => KilledOnlyWithMany
<1>1. Init => ThriftInv
    BY DEF Init, ThriftInv, Thrift
<1>2. TypeOK /\ ThriftInv /\ [Next]_vars
         => [\A p \in Pods : Kill(p) => Cardinality(drawn) * CheckTime > Patience]_vars
    BY KillNeedsMany
<1> QED BY <1>1, <1>2, InitType, StepType, StepThrift, PTL DEF Spec, KilledOnlyWithMany

-----------------------------------------------------------------------------
(* Every pod a registry.  A step of a pod p, as the users of a pod q see it:  *)
(* it changes nothing, or it is a step of the registry.                       *)

Keeps(q) == UNCHANGED Registry(q)!vars

LEMMA SameView ==
    ASSUME NEW q \in Pods, UNCHANGED <<rows, drawn>>, UNCHANGED Shown(q)
    PROVE  Keeps(q)
BY DEF Keeps, Registry!vars

LEMMA SameMemory ==
    ASSUME NEW q \in Pods, UNCHANGED <<rows, drawn>>, UNCHANGED checked[q]
    PROVE  Keeps(q)
BY SameView DEF Shown

(* The end of a process empties its own memory and nobody else's.             *)
LEMMA EndSeen ==
    ASSUME TypeOK, NEW p \in Pods, NEW q \in Pods, NEW f, End(p, f), UNCHANGED <<rows, drawn>>
    PROVE  Registry(q)!Restart \/ Keeps(q)
<1>1. CASE q = p
  <2>1. checked'[q] = {}
      BY <1>1 DEF End, TypeOK
  <2>2. Shown(q)' = [i \in Ids |-> 0]
      BY <2>1 DEF Shown
  <2> QED BY <2>2 DEF Registry!Restart
<1>2. CASE q # p
  <2>1. UNCHANGED checked[q]
      BY <1>2 DEF End, TypeOK
  <2> QED BY <2>1, SameMemory
<1> QED BY <1>1, <1>2

(* A result that p stores is seen by the users of p, if its row is there.     *)
LEMMA ResultSeen ==
    ASSUME TypeOK, NEW p \in Pods, NEW q \in Pods, NEW i \in Ids,
           UNCHANGED <<rows, drawn>>,
           \/ checked' = [checked EXCEPT ![p] = @ \cup {i}]
           \/ checked' = checked
    PROVE  Registry(q)!Observe(i) \/ Keeps(q)
<1>1. CASE q # p \/ i \notin rows \/ checked' = checked
  <2>1. UNCHANGED Shown(q)
      BY <1>1 DEF Shown, TypeOK
  <2> QED BY <2>1, SameView
<1>2. CASE q = p /\ i \in rows /\ checked' = [checked EXCEPT ![p] = @ \cup {i}]
  <2>1. i # NoId
      BY LifecycleAssumption
  <2>2. checked'[q] = checked[q] \cup {i}
      BY <1>2 DEF TypeOK
  <2>3. Shown(q)' = [Shown(q) EXCEPT ![i] = 1]
      BY <1>2, <2>2 DEF Shown
  <2>4. Shown(q)'[i] = 1
      BY <2>3 DEF Shown
  <2>5. Shown(q)' = [Shown(q) EXCEPT ![i] = Shown(q)'[i]] /\ Shown(q)'[i] \in Nat \ {0}
    <3>1. Shown(q)'[i] \in Nat \ {0}
        BY <2>4
    <3>2. [Shown(q) EXCEPT ![i] = 1] = [Shown(q) EXCEPT ![i] = Shown(q)'[i]]
        BY <2>4, Zenon
    <3> QED BY <2>3, <3>1, <3>2, Zenon
  <2>6. [j \in Ids |-> IF j \in rows THEN j ELSE NoId][i] # NoId
      BY <1>2, <2>1
  <2>7. UNCHANGED <<[j \in Ids |-> IF j \in rows THEN j ELSE NoId], drawn \ rows>>
      OBVIOUS
  <2>8. Registry(q)!Observe(i)
      BY <2>5, <2>6, <2>7 DEF Registry!Observe
  <2> QED BY <2>8
<1> QED BY <1>1, <1>2

(* An insertion is seen by all as the registration of an unchecked endpoint.  *)
LEMMA InsertSeen ==
    ASSUME TypeOK, NEW p \in Pods, NEW q \in Pods, Insert(p)
    PROVE  \E i \in Ids : \E u \in Ids : Registry(q)!Register(i, u)
<1> PICK i \in Ids \ drawn : rows' = rows \cup {i} /\ drawn' = drawn \cup {i}
    BY DEF Insert, FreshIds
<1>1. i # NoId /\ i \notin rows
    BY LifecycleAssumption DEF TypeOK
<1>2. UNCHANGED checked
    BY DEF Insert, FreshIds
<1>3. i \notin checked[q]
    BY DEF TypeOK
<1>4. UNCHANGED Shown(q)
    BY <1>1, <1>2, <1>3 DEF Shown
<1>5. drawn' \ rows' = drawn \ rows
    OBVIOUS
<1> DEFINE known == [j \in Ids |-> IF j \in rows THEN j ELSE NoId]
<1>6. known' = [known EXCEPT ![i] = i]
    OBVIOUS
<1>7. known[i] = NoId /\ \A j \in Ids : known[j] # i
    BY <1>1
<1>8. Registry(q)!Register(i, i)
    BY <1>4, <1>5, <1>6, <1>7 DEF Registry!Register
<1> QED BY <1>8

(* A removal is seen by all, the result included, though only p deletes it.   *)
LEMMA RemoveSeen ==
    ASSUME TypeOK, NEW p \in Pods, NEW q \in Pods, Remove(p)
    PROVE  \E i \in Ids : Registry(q)!Forget(i)
<1> PICK i \in rows : rows' = rows \ {i} /\ checked' = [checked EXCEPT ![p] = @ \ {i}]
    BY DEF Remove
<1>1. i \in Ids /\ i # NoId /\ i \in drawn
    BY LifecycleAssumption DEF TypeOK
<1>2. UNCHANGED drawn
    BY DEF Remove
<1>3. checked'[q] \in {checked[q], checked[q] \ {i}}
    BY DEF TypeOK
<1>4. Shown(q)' = [Shown(q) EXCEPT ![i] = 0]
    BY <1>1, <1>3 DEF Shown
<1>5. drawn' \ rows' = (drawn \ rows) \cup {i}
    BY <1>1, <1>2
<1> DEFINE known == [j \in Ids |-> IF j \in rows THEN j ELSE NoId]
<1>6. known' = [known EXCEPT ![i] = NoId]
    BY <1>1
<1>7. known[i] # NoId
    BY <1>1
<1>8. Registry(q)!Forget(i)
    BY <1>4, <1>5, <1>6, <1>7 DEF Registry!Forget
<1> QED BY <1>1, <1>8

LEMMA StepSeen ==
    ASSUME TypeOK, NEW q \in Pods, [Next]_vars
    PROVE  Registry(q)!Next \/ Keeps(q)
<1> USE DEF vars, table
<1>1. ASSUME NEW p \in Pods,
             EnsureSchema(p) \/ LoadUsers(p) \/ ListRows(p) \/ Listen(p) \/ Restart(p)
                \/ Update(p) \/ CallFails(p)
      PROVE  Keeps(q)
  <2>1. UNCHANGED <<rows, drawn, checked>>
      BY <1>1 DEF EnsureSchema, LoadUsers, ListRows, Listen, Restart, Update, CallFails, memory
  <2> QED BY <2>1, SameMemory
<1>2. ASSUME NEW p \in Pods,
             CreateSchema(p) \/ InsertAdmin(p) \/ Retire(p) \/ Drained(p) \/ Kill(p) \/ Crash(p)
      PROVE  Registry(q)!Restart \/ Keeps(q)
  <2>1. UNCHANGED <<rows, drawn>>
      BY <1>2 DEF CreateSchema, InsertAdmin, Retire, Drained, Kill, Crash
  <2>2. UNCHANGED memory \/ \E f \in Phases : End(p, f)
    <3>1. {"exited", "absent"} \subseteq Phases
        BY DEF Phases
    <3> QED BY <1>2, <3>1 DEF CreateSchema, InsertAdmin, Retire, Drained, Kill, Crash
  <2> QED BY <2>1, <2>2, EndSeen, SameMemory DEF memory
<1>3. ASSUME NEW p \in Pods, RefreshNext(p) PROVE \E i \in Ids : Registry(q)!Observe(i) \/ Keeps(q)
  <2>1. PICK i \in todo[p] : checked' = [checked EXCEPT ![p] = @ \cup ({i} \cap rows)]
      BY <1>3 DEF RefreshNext
  <2>2. i \in Ids
      BY DEF TypeOK
  <2>3. \/ checked' = [checked EXCEPT ![p] = @ \cup {i}]
        \/ checked' = checked
    <3>1. CASE i \in rows
      <4>1. {i} \cap rows = {i}
          BY <3>1
      <4> QED BY <2>1, <4>1
    <3>2. CASE i \notin rows
      <4>1. {i} \cap rows = {}
          BY <3>2
      <4> QED BY <2>1, <4>1 DEF TypeOK
    <3> QED BY <3>1, <3>2
  <2>4. UNCHANGED <<rows, drawn>>
      BY <1>3 DEF RefreshNext
  <2> QED BY <2>2, <2>3, <2>4, ResultSeen
<1>4. ASSUME NEW p \in Pods, Store(p) \/ Refresh(p)
      PROVE  \E i \in Ids : Registry(q)!Observe(i) \/ Keeps(q)
  <2>1. PICK i \in Ids : checked' = [checked EXCEPT ![p] = @ \cup {i}]
      BY <1>4 DEF Store, Refresh, TypeOK
  <2>2. UNCHANGED <<rows, drawn>>
      BY <1>4 DEF Store, Refresh
  <2> QED BY <2>1, <2>2, ResultSeen
<1>5. ASSUME NEW p \in Pods, Insert(p) PROVE \E i, u \in Ids : Registry(q)!Register(i, u)
    BY <1>5, InsertSeen
<1>6. ASSUME NEW p \in Pods, Remove(p) PROVE \E i \in Ids : Registry(q)!Forget(i)
    BY <1>6, RemoveSeen
<1>7. CASE UNCHANGED vars
    BY <1>7, SameMemory DEF memory
<1> HIDE DEF Keeps
<1> QED BY <1>1, <1>2, <1>3, <1>4, <1>5, <1>6, <1>7 DEF Next, Progress, Event, Registry!Next

LEMMA InitSeen == ASSUME Init, NEW q \in Pods PROVE Registry(q)!Init
BY DEF Init, Shown, Registry!Init

(* The service of each pod implements the registry, whatever the other pods   *)
(* on the same database do.                                                   *)
THEOREM EveryPodImplements == Spec => EveryPodARegistry
<1>1. Init => \A p \in Pods : Registry(p)!Init
    BY InitSeen
<1>2. TypeOK /\ [Next]_vars
         => [\A p \in Pods : Registry(p)!Next \/ UNCHANGED Registry(p)!vars]_vars
    BY StepSeen DEF Keeps
<1> QED BY <1>1, <1>2, InitType, StepType, PTL DEF Spec, EveryPodARegistry

-----------------------------------------------------------------------------
(* What the registry means for a user who looks twice at the pages of one pod.*)

Lasting(q) ==
    /\ drawn \ rows \subseteq drawn' \ rows'
    /\ \A i \in rows \cap checked[q] : i \in rows' => i \in checked'[q] \/ rows' \cap checked'[q] = {}

(* Whoever adds and removes endpoints through whichever pods: a removed one   *)
(* never returns, and one that this pod showed as checked it shows as checked *)
(* until it is removed, or until the process has ended and shows no checks.   *)
THEOREM EveryPodLasting == Spec => [][\A q \in Pods : Lasting(q)]_vars
<1>1. TypeOK /\ [Next]_vars => [\A q \in Pods : Lasting(q)]_vars
  <2> SUFFICES ASSUME TypeOK, [Next]_vars, NEW q \in Pods PROVE Lasting(q)
      OBVIOUS
  <2> DEFINE known == [j \in Ids |-> IF j \in rows THEN j ELSE NoId]
  <2>0. /\ rows \subseteq Ids /\ NoId \notin Ids /\ TypeOK'
        /\ \A i \in Ids : i \in rows \cap checked[q] <=> Shown(q)[i] # 0
        /\ \A i \in Ids : i \in rows' \cap checked'[q] <=> Shown(q)'[i] # 0
        /\ \A i \in Ids : i \in rows <=> known[i] # NoId
        /\ \A i \in Ids : i \in rows' <=> known'[i] # NoId
      BY LifecycleAssumption, StepType DEF TypeOK, Shown
  <2>1. ASSUME NEW i \in Ids, NEW u \in Ids, Registry(q)!Register(i, u) PROVE Lasting(q)
      BY <2>0, <2>1 DEF Registry!Register, Lasting
  <2>2. ASSUME NEW i \in Ids, Registry(q)!Observe(i) PROVE Lasting(q)
    <3>1. known' = known /\ drawn' \ rows' = drawn \ rows
        BY <2>2 DEF Registry!Observe
    <3>2. Shown(q)'[i] # 0 /\ Shown(q)' = [Shown(q) EXCEPT ![i] = Shown(q)'[i]]
        BY <2>2 DEF Registry!Observe
    <3>3. \A j \in Ids : Shown(q)[j] # 0 => Shown(q)'[j] # 0
        BY <3>2 DEF Shown
    <3> QED BY <2>0, <3>1, <3>3 DEF Lasting
  <2>3. ASSUME NEW i \in Ids, Registry(q)!Forget(i) PROVE Lasting(q)
    <3>1. known' = [known EXCEPT ![i] = NoId] /\ drawn' \ rows' = (drawn \ rows) \cup {i}
        BY <2>3 DEF Registry!Forget
    <3>2. Shown(q)' = [Shown(q) EXCEPT ![i] = 0]
        BY <2>3 DEF Registry!Forget
    <3>3. \A j \in Ids : j # i /\ Shown(q)[j] # 0 => Shown(q)'[j] # 0
        BY <3>2 DEF Shown
    <3>4. known'[i] = NoId
        BY <3>1
    <3> QED BY <2>0, <3>1, <3>3, <3>4 DEF Lasting
  <2>4. CASE Registry(q)!Restart
    <3>1. drawn' \ rows' = drawn \ rows /\ Shown(q)' = [i \in Ids |-> 0]
        BY <2>4 DEF Registry!Restart
    <3>2. rows' \subseteq Ids
        BY <2>0 DEF TypeOK
    <3>3. rows' \cap checked'[q] = {}
        BY <2>0, <3>1, <3>2
    <3> QED BY <3>1, <3>3 DEF Lasting
  <2>5. CASE Keeps(q)
    <3>1. Shown(q)' = Shown(q) /\ drawn' \ rows' = drawn \ rows
        BY <2>5 DEF Keeps, Registry!vars
    <3> QED BY <2>0, <3>1 DEF Lasting
  <2> QED BY <2>1, <2>2, <2>3, <2>4, <2>5, StepSeen DEF Registry!Next
<1> QED BY <1>1, InitType, StepType, PTL DEF Spec

-----------------------------------------------------------------------------
(* Why a startup ends.                                                        *)

(* The phases that may follow in the startup of a process.                    *)
Following(f) ==
    CASE f = "starting" -> {"creating", "users"}
      [] f = "creating" -> {"users"}
      [] f = "users" -> {"bootstrapping", "listing"}
      [] f = "bootstrapping" -> {"listing"}
      [] f = "listing" -> {"refreshing"}
      [] f = "refreshing" -> {"serving"}
      [] OTHER -> {}

(* What a step of a pod does to its phase and list.                           *)
Changes(p, f) ==
    phase' = [phase EXCEPT ![p] = f] /\ \A q \in Pods \ {p} : UNCHANGED todo[q]
Advances(p) == \E f \in Following(phase[p]) : Changes(p, f)
Shortens(p) ==
    /\ phase[p] = "refreshing" /\ UNCHANGED phase
    /\ \A q \in Pods \ {p} : UNCHANGED todo[q]
    /\ todo'[p] \subseteq todo[p] /\ todo'[p] # todo[p]
Dies(p) == Changes(p, "exited") \/ Changes(p, "absent")
Moves(p) ==
    \/ phase[p] = "serving" /\ Changes(p, "draining")
    \/ phase[p] \in {"absent", "exited"} /\ Changes(p, "starting")
Rests == UNCHANGED <<phase, todo>>

LEMMA EndChanges ==
    ASSUME TypeOK, NEW p \in Pods, NEW f, End(p, f)
    PROVE  Changes(p, f)
BY DEF End, Goto, Changes, TypeOK

LEMMA StepChanges ==
    ASSUME TypeOK, NEW p \in Pods, Progress(p) \/ Event(p)
    PROVE  Advances(p) \/ Shortens(p) \/ Dies(p) \/ Moves(p) \/ Rests
<1> USE DEF memory, cluster
<1>0. todo \in [Pods -> SUBSET drawn]
    BY DEF TypeOK
<1>1. ASSUME EnsureSchema(p) \/ LoadUsers(p) PROVE Advances(p)
    BY <1>1 DEF EnsureSchema, LoadUsers, TablesExist, Goto, Advances, Changes, Following
<1>2. ASSUME CreateSchema(p) PROVE Advances(p) \/ Dies(p)
    BY <1>2, EndChanges DEF CreateSchema, Goto, Advances, Changes, Following, Dies
<1>3. ASSUME InsertAdmin(p) PROVE Advances(p) \/ Dies(p)
    BY <1>3, EndChanges DEF InsertAdmin, Goto, Advances, Changes, Following, Dies
<1>4. ASSUME ListRows(p) \/ Listen(p) PROVE Advances(p)
    BY <1>0, <1>4 DEF ListRows, Listen, LoopDone, Goto, Advances, Changes, Following
<1>5. ASSUME RefreshNext(p) PROVE Shortens(p)
    BY <1>0, <1>5 DEF RefreshNext, Shortens
<1>6. ASSUME Store(p) \/ Insert(p) \/ Refresh(p) \/ Remove(p) PROVE Rests
    BY <1>6 DEF Store, Insert, Refresh, Remove, Rests
<1>7. ASSUME CallFails(p) PROVE Shortens(p) \/ Rests
    BY <1>0, <1>7 DEF CallFails, Shortens, Rests
<1>8. ASSUME Drained(p) \/ Kill(p) \/ Crash(p) PROVE Dies(p)
    BY <1>8, EndChanges DEF Drained, Kill, Crash, Dies
<1>9. ASSUME Retire(p) PROVE Dies(p) \/ Moves(p)
    BY <1>9, EndChanges DEF Retire, Goto, Dies, Moves, Changes
<1>10. ASSUME Restart(p) \/ Update(p) PROVE Moves(p)
    BY <1>10 DEF Restart, Update, Goto, Moves, Changes
<1> QED BY <1>1, <1>2, <1>3, <1>4, <1>5, <1>6, <1>7, <1>8, <1>9, <1>10 DEF Progress, Event

(* A pod that starts gets on: nothing but its end takes it back, neither the  *)
(* other pods nor failed calls of the database or checks; a phase of startup  *)
(* leads to a later one, and in the loop an endpoint less is left to check.   *)
(* (UpdateEnds rests on this, and on the fairness of the processes.)          *)
THEOREM StartupAdvances ==
    Spec => [][\A p \in Pods : phase[p] \in Startup =>
                  \/ UNCHANGED <<phase[p], todo[p]>>
                  \/ phase'[p] \in Following(phase[p]) \cup {"exited", "absent"}
                  \/ /\ phase[p] = "refreshing" /\ UNCHANGED phase[p]
                     /\ todo'[p] \subseteq todo[p] /\ todo'[p] # todo[p]]_vars
<1>1. TypeOK /\ [Next]_vars =>
         [\A p \in Pods : phase[p] \in Startup =>
              \/ UNCHANGED <<phase[p], todo[p]>>
              \/ phase'[p] \in Following(phase[p]) \cup {"exited", "absent"}
              \/ /\ phase[p] = "refreshing" /\ UNCHANGED phase[p]
                 /\ todo'[p] \subseteq todo[p] /\ todo'[p] # todo[p]]_vars
  <2> SUFFICES ASSUME TypeOK, Next, NEW p \in Pods, phase[p] \in Startup,
                      ~UNCHANGED <<phase[p], todo[p]>>
               PROVE  \/ phase'[p] \in Following(phase[p]) \cup {"exited", "absent"}
                      \/ /\ phase[p] = "refreshing" /\ UNCHANGED phase[p]
                         /\ todo'[p] \subseteq todo[p] /\ todo'[p] # todo[p]
      BY DEF vars
  <2>0. phase \in [Pods -> Phases]
      BY DEF TypeOK
  <2>1. PICK q \in Pods : Progress(q) \/ Event(q)
      BY DEF Next
  <2>2. q = p
    <3>1. ASSUME q # p PROVE UNCHANGED <<phase[p], todo[p]>>
        BY <2>0, <2>1, <3>1, StepChanges
           DEF Advances, Shortens, Dies, Moves, Rests, Changes
    <3> QED BY <3>1
  <2>3. Advances(p) \/ Shortens(p) \/ Dies(p) \/ Moves(p) \/ Rests
      BY <2>1, <2>2, StepChanges
  <2>4. CASE Advances(p) \/ Dies(p)
      BY <2>0, <2>4 DEF Advances, Dies, Changes
  <2>5. CASE Shortens(p)
      BY <2>5 DEF Shortens
  <2>6. CASE Moves(p) \/ Rests
      BY <2>6 DEF Moves, Rests, Startup
  <2> QED BY <2>3, <2>4, <2>5, <2>6
<1> QED BY <1>1, InitType, StepType, PTL DEF Spec

=============================================================================
