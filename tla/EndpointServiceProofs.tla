----------------------- MODULE EndpointServiceProofs -----------------------
(* Proofs about EndpointService, for any sets of IDs, URLs and requests and   *)
(* any bounds: its safety properties, that it implements EndpointRegistry and *)
(* so keeps what that keeps, and why its calls and its startup come to an end.*)
EXTENDS EndpointService, TLAPS

-----------------------------------------------------------------------------
(* Type correctness.                                                          *)

(* An idle call is a call.                                                    *)
LEMMA IdleType == Idle \in Call
  BY ServiceAssumption DEF Call, Idle, Steps, Answers

(* What Become leaves in the call it sets, and in the others.                 *)
LEMMA BecomeFacts ==
    ASSUME call \in [Callers -> Call], NEW c \in Callers, NEW k \in Call, Become(c, k)
    PROVE  /\ call' \in [Callers -> Call]
           /\ call'[c] = k
           /\ \A d \in Callers \ {c} : call'[d] = call[d]
  BY DEF Become

(* Goto moves a call to another step and leaves its other fields alone.       *)
LEMMA GotoFacts ==
    ASSUME call \in [Callers -> Call], NEW c \in Callers, NEW s \in Steps, Goto(c, s)
    PROVE  /\ call' \in [Callers -> Call]
           /\ call'[c].at = s
           /\ call'[c].id = call[c].id
           /\ call'[c].url = call[c].url
           /\ call'[c].held = call[c].held
           /\ call'[c].answer = call[c].answer
           /\ \A d \in Callers \ {c} : call'[d] = call[d]
  BY DEF Goto, Become, Call

(* Finish ends a call with an answer and leaves its other fields alone.       *)
LEMMA FinishFacts ==
    ASSUME call \in [Callers -> Call], NEW c \in Callers, NEW a \in Answers, Finish(c, a)
    PROVE  /\ call' \in [Callers -> Call]
           /\ call'[c].at = "done"
           /\ call'[c].id = call[c].id
           /\ call'[c].url = call[c].url
           /\ call'[c].held = call[c].held
           /\ call'[c].answer = a
           /\ \A d \in Callers \ {c} : call'[d] = call[d]
  BY DEF Finish, Become, Call, Steps

(* A step of a call leaves the other calls alone.                             *)
LEMMA Locality ==
    ASSUME TypeOK, NEW c \in Callers,
           \/ c \in Requests /\ (Request(c) \/ Proceed(c))
           \/ RefreshSteps(c)
    PROVE  /\ call' \in [Callers -> Call]
           /\ \A d \in Callers \ {c} : call'[d] = call[d]
  <1> USE ServiceAssumption, IdleType DEF TypeOK
  <1> DEFINE Goal == /\ call' \in [Callers -> Call]
                     /\ \A d \in Callers \ {c} : call'[d] = call[d]
  <1>1. ASSUME NEW s \in Steps, Goto(c, s) PROVE Goal
    BY <1>1, GotoFacts
  <1>2. ASSUME NEW a \in Answers, Finish(c, a) PROVE Goal
    BY <1>2, FinishFacts
  <1>3. ASSUME NEW k \in Call, Become(c, k) PROVE Goal
    BY <1>3, BecomeFacts
  <1>4. \A h \in 0..MaxClock : \A a \in Answers : \A s \in Steps :
          [call[c] EXCEPT !.at = s, !.held = h, !.answer = a] \in Call
    BY DEF Call
  <1>5. clock \in 0..MaxClock
    OBVIOUS
  <1> SUFFICES Goal
    OBVIOUS
  <1> HIDE DEF Goal
  <1>6. CASE RefreshSteps(c)
    <2>1. CASE Load(c)
      BY <2>1, <1>1, <1>2 DEF Load, Steps, Answers
    <2>2. CASE ResolveRefresh(c)
      BY <2>2, <1>1, <1>3, <1>4, <1>5 DEF ResolveRefresh, Steps, Answers
    <2>3. CASE Probe(c)
      BY <2>3, <1>3, <1>4, <1>5 DEF Probe, Steps, Answers
    <2>4. CASE Store(c)
      BY <2>4, <1>1 DEF Store, Steps
    <2>5. CASE Reply(c)
      BY <2>5, <1>3 DEF Reply
    <2> QED BY <1>6, <2>1, <2>2, <2>3, <2>4, <2>5 DEF RefreshSteps
  <1>7. CASE c \in Requests /\ Request(c)
    <2>1. [Idle EXCEPT !.at = "done", !.answer = "invalid"] \in Call
      BY DEF Call, Steps, Answers
    <2>2. \A u \in Urls : [Idle EXCEPT !.at = "resolving", !.url = u] \in Call
      BY DEF Call, Steps
    <2>3. \A i \in Ids \cup {NoId} : \A s \in Steps : [Idle EXCEPT !.at = s, !.id = i] \in Call
      BY DEF Call
    <2>4. CASE StartAdd(c)
      BY <2>1, <2>2, <2>4, <1>3 DEF StartAdd, Enter
    <2>5. CASE StartRefresh(c) \/ StartRemove(c) \/ StartRead(c)
      BY <2>3, <2>5, <1>3 DEF StartRefresh, StartRemove, StartRead, Enter, Steps
    <2> QED BY <1>7, <2>4, <2>5 DEF Request
  <1>8. CASE c \in Requests /\ Proceed(c)
    <2>1. CASE ResolveAdd(c)
      BY <2>1, <1>1, <1>2, <1>3, <1>4, <1>5 DEF ResolveAdd, Steps, Answers
    <2>2. CASE InsertAdd(c)
      <3>1. AfterInsert(c) \in Steps
        BY DEF AfterInsert, Steps
      <3>2. \A i \in Ids : [call[c] EXCEPT !.at = AfterInsert(c), !.id = i] \in Call
        BY <3>1 DEF Call
      <3> QED BY <2>2, <3>2, <1>2, <1>3 DEF InsertAdd, FreshIds, Answers
    <2>3. CASE DeleteRow(c) \/ Forget(c) \/ Select(c) \/ FinishRead(c)
      BY <2>3, <1>1, <1>2 DEF DeleteRow, Forget, Select, FinishRead, Steps, Answers
    <2>4. CASE Fetch(c)
      BY <2>4 DEF Fetch, Goal
    <2>5. CASE RefreshSteps(c)
      BY <2>5, <1>6
    <2> QED BY <1>8, <2>1, <2>2, <2>3, <2>4, <2>5 DEF Proceed
  <1> QED BY <1>6, <1>7, <1>8

(* Only these steps write the table, the CheckStore or a reader's view.       *)
LEMMA Writers ==
    ASSUME [Next]_vars
    PROVE  /\ \/ UNCHANGED <<rows, drawn, checks>>
              \/ \E c \in Requests : InsertAdd(c) \/ DeleteRow(c) \/ Forget(c)
              \/ \E c \in Callers : Store(c)
              \/ Crash
           /\ \/ UNCHANGED view
              \/ \E c \in Requests : Select(c) \/ Fetch(c) \/ Reply(c)
              \/ Crash
           /\ UNCHANGED lost \/ Start \/ \E c \in Callers : InsertAdd(c) \/ Load(c)
  <1>1. CASE UNCHANGED vars
    BY <1>1 DEF vars
  <1>2. ASSUME NEW c \in Requests, Request(c)
        PROVE  UNCHANGED <<rows, drawn, checks, view, lost>>
    BY <1>2 DEF Request, StartAdd, StartRefresh, StartRemove, StartRead, Enter, db
  <1>3. ASSUME NEW c \in Callers, Load(c) \/ ResolveRefresh(c) \/ Probe(c)
        PROVE  UNCHANGED <<rows, drawn, checks, view>> /\ (Load(c) \/ UNCHANGED lost)
    BY <1>3 DEF Load, ResolveRefresh, Probe, db
  <1>4. ASSUME NEW c \in Callers, Store(c)
        PROVE  UNCHANGED <<view, lost>>
    BY <1>4 DEF Store
  <1>5. ASSUME NEW c \in Callers, Reply(c)
        PROVE  /\ UNCHANGED <<rows, drawn, checks, lost>>
               /\ UNCHANGED view \/ c \in Requests
    BY <1>5 DEF Reply, Callers, db
  <1>6. ASSUME NEW c \in Requests, ResolveAdd(c) \/ FinishRead(c)
        PROVE  UNCHANGED <<rows, drawn, checks, view, lost>>
    BY <1>6 DEF ResolveAdd, FinishRead, db
  <1>7. ASSUME NEW c \in Requests, InsertAdd(c) \/ DeleteRow(c) \/ Forget(c)
        PROVE  UNCHANGED view /\ (InsertAdd(c) \/ UNCHANGED lost)
    BY <1>7 DEF InsertAdd, DeleteRow, Forget
  <1>8. ASSUME NEW c \in Requests, Select(c) \/ Fetch(c)
        PROVE  UNCHANGED <<rows, drawn, checks, lost>>
    BY <1>8 DEF Select, Fetch, db
  <1>9. CASE BootRefresh \/ StartFails \/ Serve \/ Tick
    BY <1>9 DEF BootRefresh, StartFails, Serve, Tick, db
  <1>10. CASE Start \/ Crash
    BY <1>10 DEF Start, Crash, db
  <1>11. ASSUME NEW c \in Callers, RefreshSteps(c)
         PROVE  \/ UNCHANGED <<rows, drawn, checks, view>> /\ (Load(c) \/ UNCHANGED lost)
                \/ Store(c) /\ UNCHANGED <<view, lost>>
                \/ /\ Reply(c) /\ UNCHANGED <<rows, drawn, checks, lost>>
                   /\ UNCHANGED view \/ c \in Requests
    BY <1>11, <1>3, <1>4, <1>5 DEF RefreshSteps
  <1>12. Boot \in Callers /\ \A c \in Requests : c \in Callers
    BY DEF Callers
  <1>13. CASE \E c \in Requests : Proceed(c)
    BY <1>13, <1>6, <1>7, <1>8, <1>11, <1>12 DEF Proceed
  <1>14. CASE BootStep
    BY <1>14, <1>9, <1>11, <1>12 DEF BootStep
  <1> QED
    BY <1>1, <1>2, <1>9, <1>10, <1>13, <1>14 DEF Next

(* Every step leaves every caller in a well-formed call.                      *)
LEMMA CallType == TypeOK /\ [Next]_vars => call' \in [Callers -> Call]
  <1> SUFFICES ASSUME TypeOK, [Next]_vars PROVE call' \in [Callers -> Call]
    OBVIOUS
  <1>1. CASE UNCHANGED vars
    BY <1>1 DEF vars, TypeOK
  <1>2. CASE \E c \in Requests : Request(c) \/ Proceed(c)
    BY <1>2, Locality DEF Callers
  <1>3. CASE RefreshSteps(Boot)
    BY <1>3, Locality DEF Callers
  <1>4. CASE BootRefresh
    <2>1. \A i \in Ids : [Idle EXCEPT !.at = "loading", !.id = i] \in Call
      BY IdleType DEF Call, Steps
    <2> QED BY <1>4, <2>1, BecomeFacts DEF BootRefresh, TypeOK, Callers
  <1>5. CASE Start \/ StartFails \/ Serve \/ Tick
    BY <1>5 DEF Start, StartFails, Serve, Tick, TypeOK
  <1>6. CASE Crash
    BY <1>6, IdleType DEF Crash
  <1> QED BY <1>1, <1>2, <1>3, <1>4, <1>5, <1>6 DEF Next, BootStep

(* Every step keeps the types; Store needs to know that it has an ID.         *)
LEMMA TypeStep == TypeOK /\ (\A c \in Callers : Shape(c)) /\ [Next]_vars => TypeOK'
  <1> SUFFICES ASSUME TypeOK, \A c \in Callers : Shape(c), [Next]_vars PROVE TypeOK'
    OBVIOUS
  <1> USE ServiceAssumption
  <1> DEFINE TableType == rows' \in [Ids -> Urls \cup {NoUrl}] /\ drawn' \subseteq Ids
             ProcessType == /\ phase' \in {"down", "starting", "serving"}
                            /\ todo' \subseteq Ids
                            /\ clock' \in 1..MaxClock
                            /\ crashes' \in 0..MaxCrashes
                            /\ faults' \in 0..MaxFaults
  <1>1. call' \in [Callers -> Call]
    BY CallType
  <1>2. TableType
    <2>1. CASE UNCHANGED <<rows, drawn, checks>>
      BY <2>1 DEF TypeOK
    <2>2. ASSUME NEW c \in Requests, InsertAdd(c) PROVE TableType
      <3>1. call[c].url \in Urls \cup {NoUrl}
        BY DEF TypeOK, Call, Callers
      <3> QED BY <2>2, <3>1 DEF InsertAdd, FreshIds, TypeOK, db
    <2>3. ASSUME NEW c \in Requests, DeleteRow(c) PROVE TableType
      BY <2>3 DEF DeleteRow, Without, TypeOK
    <2>4. ASSUME NEW c \in Callers, Forget(c) \/ Store(c) PROVE TableType
      BY <2>4 DEF Forget, Store, TypeOK, db
    <2>5. CASE Crash
      BY <2>5 DEF Crash, TypeOK, db
    <2> HIDE DEF TableType
    <2> QED BY <2>1, <2>2, <2>3, <2>4, <2>5, Writers DEF Callers
  <1>3. checks' \in [Ids -> 0..MaxClock]
    <2>1. CASE UNCHANGED <<rows, drawn, checks>>
      BY <2>1 DEF TypeOK
    <2>2. ASSUME NEW c \in Callers, Store(c) PROVE checks' \in [Ids -> 0..MaxClock]
      <3>1. call[c].held \in 0..MaxClock
        BY DEF TypeOK, Call
      <3> QED BY <2>2, <3>1 DEF Store, TypeOK
    <2>3. ASSUME NEW c \in Requests, Forget(c) PROVE checks' \in [Ids -> 0..MaxClock]
      <3>1. 0 \in 0..MaxClock
        OBVIOUS
      <3> QED BY <2>3, <3>1 DEF Forget, TypeOK
    <2>4. ASSUME NEW c \in Requests, InsertAdd(c) \/ DeleteRow(c)
          PROVE  checks' \in [Ids -> 0..MaxClock]
      BY <2>4 DEF InsertAdd, DeleteRow, TypeOK
    <2>5. CASE Crash
      BY <2>5 DEF Crash
    <2> QED BY <2>1, <2>2, <2>3, <2>4, <2>5, Writers
  <1>4. view' \in [Requests -> View]
    <2>1. CASE UNCHANGED view
      BY <2>1 DEF TypeOK
    <2>2. ASSUME NEW c \in Requests, Select(c) PROVE view' \in [Requests -> View]
      <3>1. \A w, h \in SUBSET Ids : [want |-> w, had |-> h, blank |-> {}] \in View
        BY DEF View
      <3> QED BY <2>2, <3>1 DEF Select, Registered, TypeOK
    <2>3. ASSUME NEW c \in Requests, Fetch(c) PROVE view' \in [Requests -> View]
      <3>1. PICK i \in view[c].want :
              view' = [view EXCEPT ![c].want = @ \ {i},
                                   ![c].blank = IF checks[i] = 0 THEN @ \cup {i} ELSE @]
        BY <2>3 DEF Fetch
      <3>2. view[c] \in View /\ i \in Ids
        BY DEF View, TypeOK
      <3> QED BY <3>1, <3>2 DEF View, TypeOK
    <2>4. ASSUME NEW c \in Requests, Reply(c) PROVE view' \in [Requests -> View]
      BY <2>4 DEF Reply, View, NoView, TypeOK
    <2>5. CASE Crash
      BY <2>5 DEF Crash, View, NoView
    <2> QED BY <2>1, <2>2, <2>3, <2>4, <2>5, Writers
  <1>5. lost' \subseteq Ids
    <2>1. CASE UNCHANGED lost \/ Start
      BY <2>1 DEF Start, TypeOK
    <2>2. ASSUME NEW c \in Callers, Load(c) PROVE lost' \subseteq Ids
      BY <2>2 DEF Load, Shape, At, TypeOK
    <2>3. ASSUME NEW c \in Callers, InsertAdd(c) PROVE lost' \subseteq Ids
      BY <2>3 DEF InsertAdd, FreshIds, TypeOK
    <2> QED BY <2>1, <2>2, <2>3, Writers
  <1>6. ProcessType
    <2> USE DEF TypeOK
    <2>0. Fault => faults' \in 0..MaxFaults
      BY DEF Fault
    <2>1. CASE UNCHANGED vars
      BY <2>1 DEF vars
    <2>2. ASSUME NEW c \in Requests, Request(c) PROVE ProcessType
      BY <2>2 DEF Request, StartAdd, StartRefresh, StartRemove, StartRead, Enter, budget
    <2>3. ASSUME NEW c \in Callers, RefreshSteps(c) PROVE ProcessType
      BY <2>0, <2>3 DEF RefreshSteps, Load, ResolveRefresh, Probe, Store, Reply, budget
    <2>4. ASSUME NEW c \in Requests, ResolveAdd(c) \/ InsertAdd(c) \/ DeleteRow(c) PROVE ProcessType
      BY <2>0, <2>4 DEF ResolveAdd, InsertAdd, DeleteRow, budget
    <2>5. ASSUME NEW c \in Requests, Forget(c) \/ Select(c) \/ Fetch(c) \/ FinishRead(c)
          PROVE  ProcessType
      BY <2>0, <2>5 DEF Forget, Select, Fetch, FinishRead, budget
    <2>6. CASE BootRefresh \/ Start \/ StartFails \/ Serve
      BY <2>0, <2>6 DEF BootRefresh, Start, StartFails, Serve, ToRefresh, Registered, budget
    <2>7. CASE Crash \/ Tick
      BY <2>7 DEF Crash, Tick, budget
    <2> HIDE DEF ProcessType
    <2> QED BY <2>1, <2>2, <2>3, <2>4, <2>5, <2>6, <2>7 DEF Next, BootStep, Proceed, Callers
  <1> QED BY <1>1, <1>2, <1>3, <1>4, <1>5, <1>6 DEF TypeOK

-----------------------------------------------------------------------------
(* The table and the CheckStore.                                              *)

(* The two ways a row comes in, and the way it goes.                          *)
LEMMA InsertEffect ==
    ASSUME TypeOK, NEW c \in Requests, InsertAdd(c)
    PROVE  \/ UNCHANGED <<rows, drawn>>
           \/ \E i \in Ids \ drawn :
                /\ ~Taken(call[c].url)
                /\ rows' = [rows EXCEPT ![i] = call[c].url]
                /\ drawn' = drawn \cup {i}
  BY DEF InsertAdd, FreshIds, db

(* A DELETE clears one row, or none, and inserts nothing.                     *)
LEMMA DeleteEffect ==
    ASSUME TypeOK, NEW c \in Requests, DeleteRow(c)
    PROVE  /\ UNCHANGED <<drawn, checks>>
           /\ rows' = rows \/ rows' = [rows EXCEPT ![call[c].id] = NoUrl]
  BY DEF DeleteRow, Without

(* An ID that was inserted stays so; a removed endpoint never comes back.     *)
LEMMA GoneStaysGone ==
    ASSUME TypeOK, [Next]_vars
    PROVE  /\ drawn \subseteq drawn'
           /\ drawn \ Registered \subseteq drawn' \ Registered'
           /\ \A i \in drawn : i \in Registered' => rows'[i] = rows[i]
  <1> DEFINE Goal == /\ drawn \subseteq drawn'
                     /\ drawn \ Registered \subseteq drawn' \ Registered'
                     /\ \A i \in drawn : i \in Registered' => rows'[i] = rows[i]
  <1>1. UNCHANGED <<rows, drawn>> => Goal
    BY DEF Registered
  <1>2. ASSUME NEW c \in Requests, InsertAdd(c) PROVE Goal
    <2>1. CASE \E i \in Ids \ drawn : /\ rows' = [rows EXCEPT ![i] = call[c].url]
                                     /\ drawn' = drawn \cup {i}
      BY <2>1 DEF Registered, TypeOK
    <2> QED BY <1>1, <1>2, <2>1, InsertEffect
  <1>3. ASSUME NEW c \in Requests, DeleteRow(c) PROVE Goal
    BY <1>1, <1>3, DeleteEffect DEF Registered, TypeOK
  <1>4. ASSUME NEW c \in Callers, Forget(c) \/ Store(c) PROVE UNCHANGED <<rows, drawn>>
    BY <1>4 DEF Forget, Store, db
  <1>5. Crash => UNCHANGED <<rows, drawn>>
    BY DEF Crash, db
  <1>6. \/ UNCHANGED <<rows, drawn>>
        \/ \E c \in Requests : InsertAdd(c) \/ DeleteRow(c)
    BY <1>4, <1>5, Writers DEF Callers
  <1> HIDE DEF Goal
  <1>7. Goal
    BY <1>1, <1>2, <1>3, <1>6
  <1> QED BY <1>7 DEF Goal

(* Every step keeps URLs unique and results on inserted IDs.                  *)
LEMMA TableStep ==
    ASSUME TypeOK, Table, \A c \in Callers : Shape(c), [Next]_vars
    PROVE  Table'
  <1> USE ServiceAssumption
  <1>1. CASE UNCHANGED <<rows, drawn, checks>>
    BY <1>1 DEF Table, Registered
  <1>2. ASSUME NEW c \in Requests, InsertAdd(c) PROVE Table'
    <2>1. checks' = checks
      BY <1>2 DEF InsertAdd
    <2>2. CASE UNCHANGED <<rows, drawn>>
      BY <1>1, <2>1, <2>2
    <2>3. CASE \E i \in Ids \ drawn : /\ ~Taken(call[c].url)
                                     /\ rows' = [rows EXCEPT ![i] = call[c].url]
                                     /\ drawn' = drawn \cup {i}
      BY <2>1, <2>3 DEF Table, Registered, Taken, TypeOK
    <2> QED BY <1>2, <2>2, <2>3, InsertEffect
  <1>3. ASSUME NEW c \in Requests, DeleteRow(c) PROVE Table'
    BY <1>3, DeleteEffect DEF Table, Registered, TypeOK
  <1>4. ASSUME NEW c \in Requests, Forget(c) PROVE Table'
    BY <1>4 DEF Forget, Table, Registered, TypeOK, db
  <1>5. ASSUME NEW c \in Callers, Store(c) PROVE Table'
    <2>1. call[c].id \in drawn
      BY <1>5 DEF Store, At, Shape
    <2> QED BY <1>5, <2>1 DEF Store, Table, Registered, TypeOK, db
  <1>6. CASE Crash
    BY <1>6 DEF Crash, Table, Registered, db
  <1> QED BY <1>1, <1>2, <1>3, <1>4, <1>5, <1>6, Writers

-----------------------------------------------------------------------------
(* What the calls hold.                                                       *)

(* A call keeps its shape through the steps of others.                        *)
LEMMA ShapeOthers ==
    ASSUME TypeOK, [Next]_vars, NEW d \in Callers, Shape(d), call'[d] = call[d]
    PROVE  Shape(d)'
  BY GoneStaysGone DEF Shape, At, IsAdd

(* A step of Refresh leaves the call in the shape of its next step.           *)
LEMMA ShapeRefresh ==
    ASSUME TypeOK, [Next]_vars, NEW c \in Callers, Shape(c), RefreshSteps(c), Table
    PROVE  Shape(c)'
  <1> USE ServiceAssumption DEF At, IsAdd
  <1>1. call \in [Callers -> Call] /\ drawn \subseteq drawn'
    BY GoneStaysGone DEF TypeOK
  <1>2. call[c] \in Call /\ clock \in 0..MaxClock
    BY <1>1 DEF TypeOK
  <1>3. CASE Load(c)
    <2>1. call[c].id \in Ids /\ call[c].url = NoUrl
      BY <1>3 DEF Load, Shape
    <2>2. ASSUME call[c].id \in Registered, Goto(c, "resolving") PROVE Shape(c)'
      BY <1>1, <2>1, <2>2, GotoFacts DEF Shape, Steps, Table
    <2>3. ASSUME NEW a \in {"notfound", "error"}, Finish(c, a) PROVE Shape(c)'
      BY <1>1, <2>1, <2>3, FinishFacts DEF Shape, Answers
    <2> QED BY <1>3, <2>2, <2>3 DEF Load
  <1>4. CASE ResolveRefresh(c)
    <2>1. call[c].id \in drawn /\ call[c].url = NoUrl
      BY <1>4 DEF ResolveRefresh, Shape
    <2>2. ASSUME Goto(c, "probing") PROVE Shape(c)'
      BY <1>1, <2>1, <2>2, GotoFacts DEF Shape, Steps
    <2>3. ASSUME Become(c, [call[c] EXCEPT !.at = "storing", !.held = clock, !.answer = "check"])
          PROVE  Shape(c)'
      <3>1. [call[c] EXCEPT !.at = "storing", !.held = clock, !.answer = "check"] \in Call
        BY <1>2 DEF Call, Steps, Answers
      <3>2. call'[c] = [call[c] EXCEPT !.at = "storing", !.held = clock, !.answer = "check"]
        BY <1>1, <2>3, <3>1, BecomeFacts
      <3>3. /\ call'[c].at = "storing" /\ call'[c].held = clock
            /\ call'[c].id = call[c].id /\ call'[c].url = call[c].url
        BY <3>2, <1>2 DEF Call
      <3> QED BY <1>1, <2>1, <3>3 DEF Shape, TypeOK
    <2> QED BY <1>4, <2>2, <2>3 DEF ResolveRefresh
  <1>5. CASE Probe(c)
    <2>1. call[c].id \in drawn
      BY <1>5 DEF Probe, Shape
    <2>2. PICK a \in {"ok", "check"} :
            Become(c, [call[c] EXCEPT !.at = "storing", !.held = clock, !.answer = a])
      BY <1>5 DEF Probe
    <2>3. [call[c] EXCEPT !.at = "storing", !.held = clock, !.answer = a] \in Call
      BY <1>2 DEF Call, Steps, Answers
    <2>4. call'[c] = [call[c] EXCEPT !.at = "storing", !.held = clock, !.answer = a]
      BY <1>1, <2>2, <2>3, BecomeFacts
    <2>5. /\ call'[c].at = "storing" /\ call'[c].held = clock
          /\ call'[c].id = call[c].id /\ call'[c].url = call[c].url
      BY <2>4, <1>2 DEF Call
    <2> QED BY <1>1, <2>1, <2>5 DEF Shape, TypeOK
  <1>6. CASE Store(c)
    BY <1>1, <1>6, GotoFacts DEF Store, Shape, Steps
  <1>7. CASE Reply(c)
    <2>1. call'[c] = Idle
      BY <1>1, <1>7, IdleType, BecomeFacts DEF Reply
    <2> QED BY <2>1 DEF Shape, Idle
  <1> QED BY <1>3, <1>4, <1>5, <1>6, <1>7 DEF RefreshSteps

(* A request enters with an URL (Add), or with at most an ID, at one of the   *)
(* first steps; it was idle before.                                           *)
LEMMA RequestFacts ==
    ASSUME TypeOK, NEW c \in Requests, Request(c)
    PROVE  /\ call[c].at = "idle"
           /\ phase = "serving" /\ phase' = phase
           /\ UNCHANGED <<rows, drawn, checks, todo, view, lost>>
           /\ \/ /\ call'[c].at = "done" /\ call'[c].answer = "invalid"
                 /\ call'[c].url = NoUrl
              \/ /\ call'[c].at = "resolving" /\ call'[c].id = NoId
                 /\ call'[c].url \in Urls
              \/ /\ call'[c].at \in {"loading", "deleting"} /\ call'[c].id \in Ids
                 /\ call'[c].url = NoUrl
              \/ /\ call'[c].at = "selecting"
                 /\ call'[c].url = NoUrl
  <1> USE ServiceAssumption, IdleType
  <1> DEFINE Goal == call[c].at = "idle" /\ phase = "serving" /\ phase' = phase
  <1>0. c \in Callers /\ call \in [Callers -> Call]
    BY DEF Callers, TypeOK
  <1>1. ASSUME NEW k \in Call, Enter(c, k)
        PROVE  /\ call'[c] = k /\ call[c].at = "idle"
               /\ phase = "serving" /\ phase' = phase
               /\ UNCHANGED <<rows, drawn, checks, todo, view, lost>>
    BY <1>0, <1>1, BecomeFacts DEF Enter, At, db
  <1>2. CASE StartAdd(c)
    <2>1. ASSUME Enter(c, [Idle EXCEPT !.at = "done", !.answer = "invalid"])
          PROVE  /\ call[c].at = "idle" /\ phase = "serving" /\ phase' = phase
                 /\ UNCHANGED <<rows, drawn, checks, todo, view, lost>>
                 /\ call'[c].at = "done" /\ call'[c].answer = "invalid"
                 /\ call'[c].url = NoUrl
      <3>1. [Idle EXCEPT !.at = "done", !.answer = "invalid"] \in Call
        BY DEF Call, Steps, Answers
      <3> QED BY <1>1, <2>1, <3>1 DEF Idle
    <2>2. ASSUME NEW u \in Urls, Enter(c, [Idle EXCEPT !.at = "resolving", !.url = u])
          PROVE  /\ call[c].at = "idle" /\ phase = "serving" /\ phase' = phase
                 /\ UNCHANGED <<rows, drawn, checks, todo, view, lost>>
                 /\ call'[c].at = "resolving" /\ call'[c].id = NoId
                 /\ call'[c].url \in Urls
      <3>1. [Idle EXCEPT !.at = "resolving", !.url = u] \in Call
        BY DEF Call, Steps
      <3> QED BY <1>1, <2>2, <3>1 DEF Idle
    <2> QED BY <1>2, <2>1, <2>2 DEF StartAdd
  <1>3. CASE StartRefresh(c) \/ StartRemove(c) \/ StartRead(c)
    <2>1. ASSUME NEW i \in Ids \cup {NoId}, NEW s \in Steps,
                 Enter(c, [Idle EXCEPT !.at = s, !.id = i])
          PROVE  /\ call[c].at = "idle" /\ phase = "serving" /\ phase' = phase
                 /\ UNCHANGED <<rows, drawn, checks, todo, view, lost>>
                 /\ call'[c].at = s /\ call'[c].id = i /\ call'[c].url = NoUrl
      <3>1. [Idle EXCEPT !.at = s, !.id = i] \in Call
        BY DEF Call
      <3> QED BY <1>1, <2>1, <3>1 DEF Idle
    <2>2. "loading" \in Steps /\ "deleting" \in Steps /\ "selecting" \in Steps
      BY DEF Steps
    <2> QED BY <1>3, <2>1, <2>2 DEF StartRefresh, StartRemove, StartRead
  <1> QED BY <1>2, <1>3 DEF Request

(* After the INSERT, if it inserts, an Add holds the new ID.                  *)
LEMMA InsertFacts ==
    ASSUME TypeOK, NEW c \in Requests, InsertAdd(c)
    PROVE  /\ At(c, "inserting") /\ UNCHANGED <<checks, phase, todo, view>>
           /\ call'[c].url = call[c].url /\ call'[c].held = call[c].held
           /\ \/ /\ call'[c].at = "done" /\ call'[c].answer \in {"exists", "error"}
                 /\ call'[c].id = call[c].id
                 /\ \/ UNCHANGED <<rows, drawn, lost>>
                    \/ \E i \in Ids \ drawn : /\ rows' = [rows EXCEPT ![i] = call[c].url]
                                             /\ drawn' = drawn \cup {i}
                                             /\ lost' = lost \cup {i}
              \/ /\ call'[c].at = AfterInsert(c)
                 /\ call'[c].id \in Ids \ drawn
                 /\ rows' = [rows EXCEPT ![call'[c].id] = call[c].url]
                 /\ drawn' = drawn \cup {call'[c].id}
                 /\ UNCHANGED lost
  <1>0. c \in Callers /\ call \in [Callers -> Call] /\ call[c] \in Call
    BY DEF Callers, TypeOK
  <1>1. AfterInsert(c) \in Steps
    BY DEF AfterInsert, Steps
  <1>2. ASSUME NEW i \in Ids, Become(c, [call[c] EXCEPT !.at = AfterInsert(c), !.id = i])
        PROVE  /\ call'[c].at = AfterInsert(c) /\ call'[c].id = i
               /\ call'[c].url = call[c].url /\ call'[c].held = call[c].held
    <2>1. [call[c] EXCEPT !.at = AfterInsert(c), !.id = i] \in Call
      BY <1>0, <1>1 DEF Call
    <2>2. call'[c] = [call[c] EXCEPT !.at = AfterInsert(c), !.id = i]
      BY <1>0, <1>2, <2>1, BecomeFacts
    <2> QED BY <1>0, <2>2 DEF Call
  <1>3. ASSUME NEW a \in {"exists", "error"}, Finish(c, a)
        PROVE  /\ call'[c].at = "done" /\ call'[c].answer = a
               /\ call'[c].id = call[c].id
               /\ call'[c].url = call[c].url /\ call'[c].held = call[c].held
    BY <1>0, <1>3, FinishFacts DEF Answers
  <1>4. At(c, "inserting") /\ UNCHANGED <<checks, phase, todo, view>>
    BY DEF InsertAdd
  <1> QED BY <1>2, <1>3, <1>4 DEF InsertAdd, FreshIds, db

(* Every step leaves every call in the shape of the step it is at.            *)
LEMMA ShapeStep ==
    ASSUME TypeOK, [Next]_vars, Table, \A c \in Callers : Shape(c)
    PROVE  \A c \in Callers : Shape(c)'
  <1> USE ServiceAssumption
  <1>0. /\ call \in [Callers -> Call] /\ drawn \subseteq drawn'
        /\ Boot \in Callers /\ \A c \in Requests : c \in Callers
    BY GoneStaysGone DEF TypeOK, Callers
  <1>1. ASSUME call' = call PROVE \A c \in Callers : Shape(c)'
    BY <1>1, ShapeOthers
  <1>2. ASSUME NEW c \in Callers, Shape(c)', \A d \in Callers \ {c} : call'[d] = call[d]
        PROVE  \A d \in Callers : Shape(d)'
    BY <1>2, ShapeOthers
  <1>3. ASSUME NEW c \in Requests, Request(c) PROVE Shape(c)'
    BY <1>0, <1>3, RequestFacts DEF Shape, At, IsAdd
  <1>4. ASSUME NEW c \in Requests, ResolveAdd(c) PROVE Shape(c)'
    <2>1. call[c].url # NoUrl /\ call[c].id = NoId /\ call[c] \in Call /\ c \in Callers
      BY <1>0, <1>4 DEF ResolveAdd, Shape, At, IsAdd
    <2>2. CASE Goto(c, "inserting")
      BY <1>0, <2>1, <2>2, GotoFacts DEF Shape, At, IsAdd, Steps
    <2>3. CASE Finish(c, "unsafe")
      BY <1>0, <2>1, <2>3, FinishFacts DEF Shape, At, IsAdd, Answers
    <2>4. CASE Become(c, [call[c] EXCEPT !.at = "inserting", !.held = clock, !.answer = "check"])
      <3>1. clock \in 0..MaxClock
        BY DEF TypeOK
      <3>2. [call[c] EXCEPT !.at = "inserting", !.held = clock, !.answer = "check"] \in Call
        BY <2>1, <3>1 DEF Call, Steps, Answers
      <3>3. call'[c] = [call[c] EXCEPT !.at = "inserting", !.held = clock, !.answer = "check"]
        BY <1>0, <2>1, <2>4, <3>2, BecomeFacts
      <3>4. /\ call'[c].at = "inserting"
            /\ call'[c].id = call[c].id /\ call'[c].url = call[c].url
        BY <2>1, <3>3 DEF Call
      <3> QED BY <2>1, <3>4 DEF Shape, At, IsAdd
    <2> QED BY <1>4, <2>2, <2>3, <2>4 DEF ResolveAdd
  <1>5. ASSUME NEW c \in Requests, InsertAdd(c) PROVE Shape(c)'
    <2>1. call[c].url # NoUrl /\ call[c].id = NoId
      BY <1>0, <1>5, InsertFacts DEF Shape, At, IsAdd
    <2>2. CASE call'[c].at = "done"
      BY <1>0, <1>5, <2>1, <2>2, InsertFacts DEF Shape, At, IsAdd, AfterInsert
    <2>3. CASE call'[c].at = AfterInsert(c) /\ call'[c].id \in drawn'
      BY <1>5, <2>1, <2>3, InsertFacts DEF Shape, At, IsAdd, AfterInsert
    <2> QED BY <1>5, <2>2, <2>3, InsertFacts
  <1>6. ASSUME NEW c \in Requests, DeleteRow(c) PROVE Shape(c)'
    <2>1. call[c].id \in Ids /\ call[c].url = NoUrl /\ c \in Callers
      BY <1>0, <1>6 DEF DeleteRow, Shape, At, IsAdd
    <2>2. ASSUME call[c].id \in Registered, rows' = Without(call[c].id), Goto(c, "forgetting")
          PROVE  Shape(c)'
      <3>1. call[c].id \in drawn' \ Registered'
        BY <1>0, <2>2 DEF Table, Registered, Without, TypeOK
      <3> QED BY <1>0, <2>1, <2>2, <3>1, GotoFacts DEF Shape, At, IsAdd, Steps
    <2>3. ASSUME NEW a \in {"notfound", "error"}, Finish(c, a) PROVE Shape(c)'
      BY <1>0, <2>1, <2>3, FinishFacts DEF Shape, At, IsAdd, Answers
    <2> QED BY <1>6, <2>2, <2>3 DEF DeleteRow
  <1>7. ASSUME NEW c \in Requests, Forget(c) PROVE Shape(c)'
    <2>1. call[c].id \in drawn
      BY <1>0, <1>7 DEF Forget, Shape, At
    <2> QED BY <1>0, <1>7, <2>1, FinishFacts DEF Forget, Shape, At, IsAdd, Answers
  <1>8. ASSUME NEW c \in Requests, Select(c) \/ Fetch(c) \/ FinishRead(c) PROVE Shape(c)'
    <2>1. Shape(c) /\ call[c].at \in {"selecting", "fetching"} /\ c \in Callers
      BY <1>0, <1>8 DEF Select, Fetch, FinishRead, At
    <2>2. CASE Goto(c, "fetching")
      BY <1>0, <2>1, <2>2, GotoFacts DEF Shape, At, IsAdd, Steps
    <2>3. ASSUME NEW a \in {"notfound", "error", "read"}, Finish(c, a) PROVE Shape(c)'
      BY <1>0, <2>1, <2>3, FinishFacts DEF Shape, At, IsAdd, Answers
    <2>4. CASE call' = call
      BY <1>1, <2>1, <2>4
    <2> QED BY <1>8, <2>2, <2>3, <2>4 DEF Select, Fetch, FinishRead
  <1>9. ASSUME NEW c \in Callers, RefreshSteps(c) PROVE Shape(c)'
    BY <1>9, ShapeRefresh
  <1>10. CASE BootRefresh
    <2>1. PICK i \in Ids : Become(Boot, [Idle EXCEPT !.at = "loading", !.id = i])
      BY <1>10 DEF BootRefresh, TypeOK
    <2>2. [Idle EXCEPT !.at = "loading", !.id = i] \in Call
      BY IdleType DEF Call, Steps
    <2>3. /\ call'[Boot] = [Idle EXCEPT !.at = "loading", !.id = i]
          /\ \A d \in Callers \ {Boot} : call'[d] = call[d]
      BY <1>0, <2>1, <2>2, BecomeFacts
    <2>4. Shape(Boot)'
      BY <2>3 DEF Shape, At, IsAdd, Idle
    <2> QED BY <1>0, <1>2, <2>3, <2>4
  <1>11. CASE Crash
    BY <1>11 DEF Crash, Shape, At, IsAdd, Idle
  <1>12. CASE Start \/ StartFails \/ Serve \/ Tick
    BY <1>1, <1>12 DEF Start, StartFails, Serve, Tick
  <1>13. CASE UNCHANGED vars
    BY <1>1, <1>13 DEF vars
  <1>14. ASSUME NEW c \in Requests, Request(c) \/ Proceed(c) PROVE \A d \in Callers : Shape(d)'
    <2>1. Shape(c)'
      BY <1>0, <1>3, <1>4, <1>5, <1>6, <1>7, <1>8, <1>9, <1>14 DEF Proceed
    <2> QED BY <1>0, <1>2, <1>14, <2>1, Locality
  <1>15. CASE RefreshSteps(Boot)
    BY <1>0, <1>2, <1>9, <1>15, Locality
  <1> QED BY <1>10, <1>11, <1>12, <1>13, <1>14, <1>15 DEF Next, BootStep

(* Whom a step acts for: a call either ends up without an URL or an ID, or    *)
(* keeps both, or is the one Add whose row the step inserts.                  *)
LEMMA EndpointKept ==
    ASSUME TypeOK, \A c \in Callers : Shape(c), [Next]_vars, NEW d \in Callers
    PROVE  \/ call'[d].url = NoUrl \/ call'[d].id = NoId
           \/ call'[d].id = call[d].id /\ call'[d].url = call[d].url
           \/ /\ d \in Requests /\ InsertAdd(d) /\ call'[d].at = AfterInsert(d)
              /\ \A e \in Callers \ {d} : call'[e] = call[e]
  <1> USE ServiceAssumption
  <1> DEFINE Goal == \/ call'[d].url = NoUrl \/ call'[d].id = NoId
                     \/ call'[d].id = call[d].id /\ call'[d].url = call[d].url
                     \/ /\ d \in Requests /\ InsertAdd(d) /\ call'[d].at = AfterInsert(d)
                        /\ \A e \in Callers \ {d} : call'[e] = call[e]
  <1> SUFFICES Goal
    OBVIOUS
  <1>0. /\ call \in [Callers -> Call] /\ call[d] \in Call
        /\ Boot \in Callers /\ \A c \in Requests : c \in Callers
    BY DEF TypeOK, Callers
  <1>1. call'[d] = call[d] => Goal
    OBVIOUS
  <1>2. CASE d \in Requests /\ Request(d)
    BY <1>2, RequestFacts
  <1>3. ASSUME NEW k \in Call, Become(d, k), k.id = call[d].id, k.url = call[d].url PROVE Goal
    BY <1>0, <1>3, BecomeFacts
  <1>4. ASSUME NEW s \in Steps, Goto(d, s) PROVE Goal
    BY <1>0, <1>4, GotoFacts
  <1>5. ASSUME NEW a \in Answers, Finish(d, a) PROVE Goal
    BY <1>0, <1>5, FinishFacts
  <1>6. \A h \in 0..MaxClock : \A a \in Answers : \A s \in Steps :
          LET k == [call[d] EXCEPT !.at = s, !.held = h, !.answer = a]
          IN  k \in Call /\ k.id = call[d].id /\ k.url = call[d].url
    BY <1>0 DEF Call
  <1>7. clock \in 0..MaxClock
    BY DEF TypeOK
  <1>8. CASE d \in Requests /\ InsertAdd(d)
    <2>1. \A e \in Callers \ {d} : call'[e] = call[e]
      BY <1>8, Locality DEF Proceed
    <2> QED BY <1>8, <2>1, InsertFacts
  <1> HIDE DEF Goal
  <1>9. CASE RefreshSteps(d)
    <2>1. CASE Load(d)
      BY <2>1, <1>4, <1>5 DEF Load, Steps, Answers
    <2>2. CASE ResolveRefresh(d)
      BY <2>2, <1>4, <1>3, <1>6, <1>7 DEF ResolveRefresh, Steps, Answers
    <2>3. CASE Probe(d)
      <3>1. PICK a \in {"ok", "check"} :
              Become(d, [call[d] EXCEPT !.at = "storing", !.held = clock, !.answer = a])
        BY <2>3 DEF Probe
      <3>2. "storing" \in Steps /\ a \in Answers
        BY DEF Steps, Answers
      <3> QED BY <3>1, <3>2, <1>3, <1>6, <1>7
    <2>4. CASE Store(d)
      BY <2>4, <1>4 DEF Store, Steps
    <2>5. CASE Reply(d)
      BY <2>5, <1>0, IdleType, BecomeFacts DEF Reply, Idle, Goal
    <2> QED BY <1>9, <2>1, <2>2, <2>3, <2>4, <2>5 DEF RefreshSteps
  <1>10. CASE d \in Requests /\ Proceed(d)
    <2>1. CASE ResolveAdd(d)
      BY <2>1, <1>3, <1>4, <1>5, <1>6, <1>7 DEF ResolveAdd, Steps, Answers
    <2>2. CASE DeleteRow(d) \/ Forget(d) \/ Select(d) \/ FinishRead(d)
      BY <2>2, <1>4, <1>5 DEF DeleteRow, Forget, Select, FinishRead, Steps, Answers
    <2>3. CASE Fetch(d)
      BY <2>3, <1>1 DEF Fetch
    <2> QED BY <1>8, <1>9, <1>10, <2>1, <2>2, <2>3 DEF Proceed
  <1>11. ASSUME NEW c \in Callers \ {d},
                \/ c \in Requests /\ (Request(c) \/ Proceed(c))
                \/ RefreshSteps(c)
         PROVE  Goal
    BY <1>1, <1>11, Locality
  <1>12. CASE BootRefresh
    <2>1. PICK i \in Ids : Become(Boot, [Idle EXCEPT !.at = "loading", !.id = i])
      BY <1>12 DEF BootRefresh, TypeOK
    <2>2. [Idle EXCEPT !.at = "loading", !.id = i] \in Call
      BY IdleType DEF Call, Steps
    <2>3. /\ call'[Boot] = [Idle EXCEPT !.at = "loading", !.id = i]
          /\ \A e \in Callers \ {Boot} : call'[e] = call[e]
      BY <1>0, <2>1, <2>2, BecomeFacts
    <2> QED BY <1>1, <2>3 DEF Goal, Idle
  <1>13. CASE Start \/ StartFails \/ Serve \/ Tick \/ UNCHANGED vars
    BY <1>1, <1>13 DEF Start, StartFails, Serve, Tick, vars
  <1>14. CASE Crash
    BY <1>14 DEF Crash, Idle, Goal
  <1> QED BY <1>0, <1>2, <1>9, <1>10, <1>11, <1>12, <1>13, <1>14 DEF Next, BootStep

(* Every step keeps each Add on a row of its own, with its own URL.           *)
LEMMA AddsStep ==
    ASSUME TypeOK, Table, Adds, \A c \in Callers : Shape(c), [Next]_vars
    PROVE  Adds'
  <1> USE ServiceAssumption
  <1>1. ASSUME NEW c \in Callers, IsAdd(c)', call'[c].id \in Registered'
        PROVE  rows'[call'[c].id] = call'[c].url
    <2>1. call'[c].url # NoUrl /\ call'[c].id # NoId
      BY <1>1 DEF IsAdd, Registered
    <2>2. CASE call'[c].id = call[c].id /\ call'[c].url = call[c].url
      BY <1>1, <2>1, <2>2, GoneStaysGone DEF Adds, Shape, IsAdd, Registered
    <2>3. CASE c \in Requests /\ InsertAdd(c) /\ call'[c].at = AfterInsert(c)
      BY <2>3, InsertFacts DEF AfterInsert, TypeOK
    <2> QED BY <2>1, <2>2, <2>3, EndpointKept
  <1>2. ASSUME NEW c \in Callers, NEW d \in Callers, IsAdd(c)', IsAdd(d)',
               call'[c].id = call'[d].id, call'[c].id # NoId, c # d
        PROVE  FALSE
    <2>1. call'[c].url # NoUrl /\ call'[d].url # NoUrl
      BY <1>2 DEF IsAdd
    <2>2. ASSUME NEW e \in Callers, NEW f \in Callers, e # f, InsertAdd(e), e \in Requests,
                 call'[e].at = AfterInsert(e), call'[f] = call[f], call'[f].url # NoUrl,
                 call'[e].id = call'[f].id, call'[e].id # NoId
          PROVE  FALSE
      BY <2>2, InsertFacts DEF Shape, IsAdd, AfterInsert
    <2>3. CASE /\ call'[c].id = call[c].id /\ call'[c].url = call[c].url
               /\ call'[d].id = call[d].id /\ call'[d].url = call[d].url
      BY <1>2, <2>1, <2>3 DEF Adds, IsAdd
    <2> QED BY <1>2, <2>1, <2>2, <2>3, EndpointKept
  <1> QED BY <1>1, <1>2 DEF Adds

-----------------------------------------------------------------------------
(* What readers and callers see.                                              *)

(* A registered endpoint that has a result keeps having one in this process.  *)
LEMMA ResultKept ==
    ASSUME TypeOK, Table, \A c \in Callers : Shape(c), [Next]_vars,
           NEW i \in Registered, checks[i] # 0
    PROVE  checks'[i] # 0 \/ Crash
  <1>0. i \in Ids
    BY DEF Registered
  <1>1. ASSUME NEW c \in Requests, Forget(c) PROVE checks'[i] # 0
    <2>1. call[c].id \notin Registered
      BY <1>1 DEF Forget, Shape, At, Callers
    <2> QED BY <1>0, <1>1, <2>1 DEF Forget, TypeOK
  <1>2. ASSUME NEW c \in Callers, Store(c) PROVE checks'[i] # 0
    <2>1. call[c].held # 0
      BY <1>2 DEF Store, Shape, At
    <2> QED BY <1>0, <1>2, <2>1 DEF Store, TypeOK
  <1>3. ASSUME NEW c \in Requests, InsertAdd(c) \/ DeleteRow(c) PROVE checks'[i] # 0
    BY <1>3 DEF InsertAdd, DeleteRow
  <1> QED BY <1>1, <1>2, <1>3, Writers

(* No step takes a result away from a reader whose row is still there.        *)
LEMMA ReadersStep ==
    ASSUME TypeOK, Table, \A c \in Callers : Shape(c), Readers, [Next]_vars
    PROVE  Readers'
  <1> USE ServiceAssumption
  <1>0. Registered \subseteq drawn /\ Registered \subseteq Ids
    BY DEF Table, Registered
  <1>1. ASSUME NEW c \in Requests, view'[c] = view[c], ~Crash
        PROVE  /\ view'[c].had \subseteq drawn'
               /\ \A i \in view'[c].want \cap view'[c].had \cap Registered' : checks'[i] # 0
               /\ view'[c].blank \cap view'[c].had \cap Registered' = {}
    <2>1. view[c].had \subseteq drawn
      BY DEF Readers
    <2>2. \A i \in view[c].had : i \in Registered' => i \in Registered
      BY <2>1, GoneStaysGone
    <2>3. \A i \in view[c].want \cap view[c].had \cap Registered : checks'[i] # 0
      BY <1>1, ResultKept DEF Readers
    <2> QED BY <1>1, <2>1, <2>2, <2>3, GoneStaysGone DEF Readers
  <1>2. CASE UNCHANGED view /\ ~Crash
    BY <1>1, <1>2 DEF Readers
  <1>3. CASE Crash
    BY <1>3 DEF Crash, Readers, NoView
  <1>4. ASSUME NEW c \in Requests, Select(c), view' # view, ~Crash PROVE Readers'
    <2>1. PICK found \in SUBSET Registered :
            view' = [view EXCEPT ![c] =
              [want |-> found, had |-> {i \in found : checks[i] # 0}, blank |-> {}]]
      BY <1>4 DEF Select
    <2>2. UNCHANGED <<rows, drawn, checks>>
      BY <1>4 DEF Select, db
    <2>3. view'[c] = [want |-> found, had |-> {i \in found : checks[i] # 0}, blank |-> {}]
      BY <2>1 DEF TypeOK
    <2>4. \A d \in Requests \ {c} : view'[d] = view[d]
      BY <2>1 DEF TypeOK
    <2>5. /\ view'[c].had \subseteq drawn'
          /\ \A i \in view'[c].want \cap view'[c].had \cap Registered' : checks'[i] # 0
          /\ view'[c].blank \cap view'[c].had \cap Registered' = {}
      BY <1>0, <2>2, <2>3
    <2> QED BY <1>1, <1>4, <2>4, <2>5 DEF Readers
  <1>5. ASSUME NEW c \in Requests, Fetch(c), ~Crash PROVE Readers'
    <2>1. PICK i \in view[c].want :
            view' = [view EXCEPT ![c].want = @ \ {i},
                                 ![c].blank = IF checks[i] = 0 THEN @ \cup {i} ELSE @]
      BY <1>5 DEF Fetch
    <2>2. UNCHANGED <<rows, drawn, checks>> /\ Registered' = Registered
      BY <1>5 DEF Fetch, Registered, db
    <2>3. /\ view'[c].want = view[c].want \ {i}
          /\ view'[c].had = view[c].had
          /\ view'[c].blank = IF checks[i] = 0 THEN view[c].blank \cup {i} ELSE view[c].blank
      BY <2>1 DEF TypeOK, View
    <2>4. \A d \in Requests \ {c} : view'[d] = view[d]
      BY <2>1 DEF TypeOK, View
    <2>5. /\ view'[c].had \subseteq drawn'
          /\ \A j \in view'[c].want \cap view'[c].had \cap Registered' : checks'[j] # 0
          /\ view'[c].blank \cap view'[c].had \cap Registered' = {}
      BY <2>2, <2>3 DEF Readers
    <2> QED BY <1>1, <1>5, <2>4, <2>5 DEF Readers
  <1>6. ASSUME NEW c \in Requests, Reply(c), ~Crash PROVE Readers'
    <2>1. \A d \in Requests \ {c} : view'[d] = view[d]
      BY <1>6 DEF Reply, TypeOK
    <2>2. view'[c] = NoView
      BY <1>6 DEF Reply, TypeOK
    <2> QED BY <1>1, <1>6, <2>1, <2>2 DEF Readers, NoView
  <1> QED BY <1>2, <1>3, <1>4, <1>5, <1>6, Writers

(* Only storing a result, or removing an endpoint, ends a call with one of    *)
(* these two answers.                                                         *)
LEMMA AnswerFacts ==
    ASSUME TypeOK, [Next]_vars, NEW c \in Requests,
           call'[c].at = "done", call'[c].answer \in {"ok", "check"}
    PROVE  call'[c] = call[c] \/ Store(c) \/ Forget(c)
  <1> USE ServiceAssumption
  <1> DEFINE Goal == call'[c] = call[c] \/ Store(c) \/ Forget(c)
  <1> SUFFICES Goal
    OBVIOUS
  <1>0. /\ call \in [Callers -> Call] /\ call[c] \in Call /\ c \in Callers
        /\ c # Boot /\ Boot \in Callers /\ \A d \in Requests : d \in Callers
    BY DEF TypeOK, Callers
  <1>1. ASSUME NEW s \in Steps \ {"done"}, Goto(c, s) PROVE FALSE
    BY <1>0, <1>1, GotoFacts
  <1>2. ASSUME NEW a \in Answers \ {"ok", "check"}, Finish(c, a) PROVE FALSE
    BY <1>0, <1>2, FinishFacts
  <1>3. ASSUME NEW s \in {"inserting", "storing"}, NEW a \in {"ok", "check"},
               Become(c, [call[c] EXCEPT !.at = s, !.held = clock, !.answer = a])
        PROVE  FALSE
    <2>1. [call[c] EXCEPT !.at = s, !.held = clock, !.answer = a] \in Call
      <3>1. clock \in 0..MaxClock
        BY DEF TypeOK
      <3> QED BY <1>0, <3>1 DEF Call, Steps, Answers
    <2>2. call'[c] = [call[c] EXCEPT !.at = s, !.held = clock, !.answer = a]
      BY <1>0, <1>3, <2>1, BecomeFacts
    <2>3. call'[c].at = s
      BY <1>0, <2>2 DEF Call
    <2> QED BY <2>3
  <1>6. CASE RefreshSteps(c)
    <2>1. CASE Load(c)
      BY <2>1, <1>1, <1>2 DEF Load, Steps, Answers
    <2>2. CASE ResolveRefresh(c)
      BY <2>2, <1>1, <1>3 DEF ResolveRefresh, Steps
    <2>3. CASE Probe(c)
      BY <2>3, <1>3 DEF Probe
    <2>4. CASE Reply(c)
      BY <1>0, <2>4, IdleType, BecomeFacts DEF Reply, Idle
    <2> QED BY <1>6, <2>1, <2>2, <2>3, <2>4 DEF RefreshSteps
  <1>7. CASE Request(c)
    BY <1>7, RequestFacts
  <1>8. CASE Proceed(c)
    <2>1. CASE ResolveAdd(c)
      BY <2>1, <1>1, <1>2, <1>3 DEF ResolveAdd, Steps, Answers
    <2>2. CASE InsertAdd(c)
      BY <2>2, InsertFacts DEF AfterInsert
    <2>3. CASE DeleteRow(c) \/ Select(c) \/ FinishRead(c)
      BY <2>3, <1>1, <1>2 DEF DeleteRow, Select, FinishRead, Steps, Answers
    <2>4. CASE Fetch(c)
      BY <2>4 DEF Fetch
    <2> QED BY <1>8, <1>6, <2>1, <2>2, <2>3, <2>4 DEF Proceed
  <1>9. ASSUME NEW d \in Callers \ {c},
               \/ d \in Requests /\ (Request(d) \/ Proceed(d))
               \/ RefreshSteps(d)
        PROVE  Goal
    BY <1>0, <1>9, Locality
  <1>10. CASE BootRefresh
    BY <1>0, <1>10 DEF BootRefresh, Become
  <1>11. CASE Start \/ StartFails \/ Serve \/ Tick \/ UNCHANGED vars
    BY <1>11 DEF Start, StartFails, Serve, Tick, vars
  <1>12. CASE Crash
    BY <1>0, <1>12 DEF Crash, Idle
  <1> HIDE DEF Goal
  <1> QED BY <1>0, <1>7, <1>8, <1>9, <1>10, <1>11, <1>12 DEF Next, BootStep, Goal

(* Every step keeps the checks that were answered visible.                    *)
LEMMA VisibleStep ==
    ASSUME TypeOK, Table, \A c \in Callers : Shape(c), AnsweredCheckVisible, [Next]_vars
    PROVE  AnsweredCheckVisible'
  <1> SUFFICES ASSUME NEW c \in Requests, call'[c].at = "done",
                      call'[c].answer \in {"ok", "check"}, call'[c].id \in Registered'
               PROVE  checks'[call'[c].id] # 0
    BY DEF AnsweredCheckVisible, At
  <1>0. call \in [Callers -> Call] /\ c \in Callers
    BY DEF TypeOK, Callers
  <1>1. CASE call'[c] = call[c]
    <2>1. call[c].id \in drawn
      BY <1>0, <1>1 DEF Shape, At
    <2>2. call[c].id \in Registered
      BY <1>1, <2>1, GoneStaysGone
    <2>3. ~Crash
      BY <1>0 DEF Crash, Idle
    <2> QED BY <1>1, <2>2, <2>3, ResultKept DEF AnsweredCheckVisible, At
  <1>2. CASE Store(c)
    <2>1. call'[c].id = call[c].id /\ call[c].held # 0
      BY <1>0, <1>2, GotoFacts DEF Store, Shape, At, Steps
    <2>2. call[c].id \in Ids
      BY <2>1 DEF Registered
    <2> QED BY <1>2, <2>1, <2>2 DEF Store, TypeOK
  <1>3. CASE Forget(c)
    <2>1. call'[c].id = call[c].id /\ call[c].id \notin Registered
      BY <1>0, <1>3, FinishFacts DEF Forget, Shape, At, Answers
    <2> QED BY <1>3, <2>1 DEF Forget, Registered, db
  <1> QED BY <1>1, <1>2, <1>3, AnswerFacts

-----------------------------------------------------------------------------
(* Who checks a pending endpoint.                                             *)

(* A caller about to check an endpoint stays so until the result is stored, the *)
(* row is gone or a database fault orphans it.                                *)
LEMMA OwnerKept ==
    ASSUME TypeOK, \A c \in Callers : Shape(c), [Next]_vars,
           NEW c \in Callers, NEW i \in Registered, WillCheck(c, i)
    PROVE  WillCheck(c, i)' \/ i \in lost' \/ checks'[i] # 0 \/ phase' = "down"
  <1> USE ServiceAssumption
  <1> DEFINE Goal == WillCheck(c, i)' \/ i \in lost' \/ checks'[i] # 0 \/ phase' = "down"
  <1> SUFFICES Goal
    OBVIOUS
  <1>0. /\ call \in [Callers -> Call] /\ call[c] \in Call /\ i \in Ids
        /\ call[c].id = i /\ i # NoId /\ Shape(c)
        /\ call[c].at \in {"loading", "resolving", "probing", "storing"}
        /\ Boot \in Callers /\ \A d \in Requests : d \in Callers
    BY DEF TypeOK, Callers, Registered, WillCheck, At
  <1>1. call'[c] = call[c] => Goal
    BY DEF WillCheck, At
  <1>2. CASE Load(c)
    <2>1. c = Boot
      BY <1>2 DEF Load, WillCheck, At
    <2>2. CASE Goto(c, "resolving")
      BY <1>0, <2>2, GotoFacts DEF WillCheck, Steps
    <2>3. CASE lost' = lost \cup {call[c].id}
      BY <1>0, <2>3
    <2> QED BY <1>0, <1>2, <2>1, <2>2, <2>3 DEF Load
  <1>3. ASSUME NEW a \in {"ok", "check"},
               Become(c, [call[c] EXCEPT !.at = "storing", !.held = clock, !.answer = a])
        PROVE  Goal
    <2>1. [call[c] EXCEPT !.at = "storing", !.held = clock, !.answer = a] \in Call
      <3>1. clock \in 0..MaxClock
        BY DEF TypeOK
      <3> QED BY <1>0, <3>1 DEF Call, Steps, Answers
    <2>2. call'[c] = [call[c] EXCEPT !.at = "storing", !.held = clock, !.answer = a]
      BY <1>0, <1>3, <2>1, BecomeFacts
    <2>3. call'[c].at = "storing" /\ call'[c].id = i
      BY <1>0, <2>2 DEF Call
    <2> QED BY <2>3 DEF WillCheck
  <1>4. CASE ResolveRefresh(c)
    <2>1. CASE Goto(c, "probing")
      BY <1>0, <2>1, GotoFacts DEF WillCheck, Steps
    <2> QED BY <1>3, <1>4, <2>1 DEF ResolveRefresh
  <1>5. CASE Probe(c)
    BY <1>3, <1>5 DEF Probe
  <1>6. CASE Store(c)
    BY <1>0, <1>6 DEF Store, Shape, At, TypeOK
  <1>7. CASE ResolveAdd(c)
    BY <1>0, <1>7 DEF ResolveAdd, Shape, At
  <1>8. CASE Reply(c) \/ InsertAdd(c) \/ DeleteRow(c) \/ Forget(c) \/ Select(c) \/ Fetch(c)
             \/ FinishRead(c)
    BY <1>0, <1>8 DEF Reply, InsertAdd, DeleteRow, Forget, Select, Fetch, FinishRead, At
  <1>9. CASE c \in Requests /\ Request(c)
    BY <1>0, <1>9, RequestFacts
  <1>10. ASSUME NEW d \in Callers \ {c},
                \/ d \in Requests /\ (Request(d) \/ Proceed(d))
                \/ RefreshSteps(d)
         PROVE  Goal
    BY <1>0, <1>1, <1>10, Locality
  <1>11. CASE BootRefresh
    <2>1. c # Boot
      BY <1>0, <1>11 DEF BootRefresh, At
    <2> QED BY <1>0, <1>1, <1>11, <2>1 DEF BootRefresh, Become
  <1>12. CASE Start \/ StartFails \/ Serve \/ Tick \/ UNCHANGED vars
    BY <1>1, <1>12 DEF Start, StartFails, Serve, Tick, vars
  <1>13. CASE Crash
    BY <1>13 DEF Crash
  <1> HIDE DEF Goal
  <1>14. CASE (c \in Requests /\ Proceed(c)) \/ RefreshSteps(c)
    BY <1>2, <1>4, <1>5, <1>6, <1>7, <1>8, <1>14 DEF Proceed, RefreshSteps
  <1> QED BY <1>0, <1>9, <1>10, <1>11, <1>12, <1>13, <1>14 DEF Next, BootStep

(* An endpoint the startup loop has still to take stays with it.              *)
LEMMA TodoKept ==
    ASSUME TypeOK, [Next]_vars, phase = "starting", NEW i \in todo
    PROVE  \/ phase' = "starting" /\ i \in todo'
           \/ WillCheck(Boot, i)'
           \/ phase' = "down"
  <1> USE ServiceAssumption
  <1>1. CASE BootRefresh
    <2>1. PICK j \in todo : /\ todo' = todo \ {j}
                            /\ Become(Boot, [Idle EXCEPT !.at = "loading", !.id = j])
      BY <1>1 DEF BootRefresh
    <2>2. [Idle EXCEPT !.at = "loading", !.id = j] \in Call
      BY IdleType DEF Call, Steps, TypeOK
    <2>3. call'[Boot] = [Idle EXCEPT !.at = "loading", !.id = j]
      BY <2>1, <2>2, BecomeFacts DEF Callers, TypeOK
    <2>4. WillCheck(Boot, j)'
      BY <2>3 DEF WillCheck, At, Idle
    <2>5. phase' = phase
      BY <1>1 DEF BootRefresh
    <2> QED BY <2>1, <2>4, <2>5
  <1>2. ASSUME NEW c \in Callers, RefreshSteps(c) PROVE UNCHANGED <<phase, todo>>
    BY <1>2 DEF RefreshSteps, Load, ResolveRefresh, Probe, Store, Reply
  <1>3. ASSUME NEW c \in Requests, Request(c) PROVE UNCHANGED <<phase, todo>>
    BY <1>3, RequestFacts
  <1>4. ASSUME NEW c \in Requests, Proceed(c) PROVE UNCHANGED <<phase, todo>>
    <2>1. CASE ResolveAdd(c) \/ InsertAdd(c) \/ DeleteRow(c)
      BY <2>1 DEF ResolveAdd, InsertAdd, DeleteRow
    <2>2. CASE Forget(c) \/ Select(c) \/ Fetch(c) \/ FinishRead(c)
      BY <2>2 DEF Forget, Select, Fetch, FinishRead
    <2> QED BY <1>2, <1>4, <2>1, <2>2 DEF Proceed, Callers
  <1>5. CASE Start \/ StartFails \/ Serve
    BY <1>5 DEF Start, StartFails, Serve
  <1>6. CASE Tick \/ UNCHANGED vars
    BY <1>6 DEF Tick, vars
  <1>7. CASE Crash
    BY <1>7 DEF Crash
  <1> QED BY <1>1, <1>2, <1>3, <1>4, <1>5, <1>6, <1>7 DEF Next, BootStep, Callers

(* Every step leaves every pending endpoint with an owner.                    *)
LEMMA OwnerStep ==
    ASSUME TypeOK, Table, \A c \in Callers : Shape(c), PendingHasOwner, [Next]_vars
    PROVE  PendingHasOwner'
  <1> USE ServiceAssumption
  <1> SUFFICES ASSUME NEW i \in Registered', checks'[i] = 0, phase' # "down"
               PROVE  \/ phase' = "starting" /\ i \in todo'
                      \/ i \in lost'
                      \/ \E c \in Callers : WillCheck(c, i)'
    BY DEF PendingHasOwner
  <1>0. /\ i \in Ids /\ i # NoId /\ Boot \in Callers
        /\ \A c \in Requests : c \in Callers
    BY DEF Registered, Callers
  <1>1. CASE i \notin Registered
    <2>1. rows' # rows
      BY <1>1 DEF Registered
    <2>2. PICK c \in Requests : InsertAdd(c) \/ DeleteRow(c)
      BY <2>1, Writers DEF Forget, Store, Crash, db
    <2>3. ~DeleteRow(c)
      BY <1>0, <1>1, DeleteEffect DEF Registered, TypeOK
    <2>4. InsertAdd(c)
      BY <2>2, <2>3
    <2>5. ASSUME NEW j \in Ids, rows' = [rows EXCEPT ![j] = call[c].url] PROVE i = j
      BY <1>0, <1>1, <2>5 DEF Registered, TypeOK
    <2>6. CASE \E j \in Ids \ drawn : /\ rows' = [rows EXCEPT ![j] = call[c].url]
                                     /\ lost' = lost \cup {j}
      BY <2>5, <2>6
    <2>7. CASE /\ call'[c].at = AfterInsert(c) /\ call'[c].id \in Ids \ drawn
               /\ rows' = [rows EXCEPT ![call'[c].id] = call[c].url]
      <3>1. call'[c].id = i
        BY <2>5, <2>7
      <3>2. WillCheck(c, i)'
        BY <2>7, <3>1 DEF WillCheck, AfterInsert
      <3> QED BY <1>0, <3>2
    <2> QED BY <2>1, <2>4, <2>6, <2>7, InsertFacts
  <1>2. CASE i \in Registered
    <2>1. checks[i] = 0
      BY <1>2, ResultKept DEF Crash
    <2>2. CASE phase = "down" /\ Start
      BY <1>2, <2>2 DEF Start, ToRefresh
    <2>3. CASE phase = "down" /\ ~Start
      <3>1. phase' = phase
        <4>1. ASSUME NEW c \in Callers, RefreshSteps(c) PROVE phase' = phase
          BY <4>1 DEF RefreshSteps, Load, ResolveRefresh, Probe, Store, Reply
        <4>2. ASSUME NEW c \in Requests, Request(c) PROVE phase' = phase
          BY <4>2, RequestFacts
        <4>3. ASSUME NEW c \in Requests, Proceed(c) PROVE phase' = phase
          <5>1. CASE ResolveAdd(c) \/ InsertAdd(c) \/ DeleteRow(c)
            BY <5>1 DEF ResolveAdd, InsertAdd, DeleteRow
          <5>2. CASE Forget(c) \/ Select(c) \/ Fetch(c) \/ FinishRead(c)
            BY <5>2 DEF Forget, Select, Fetch, FinishRead
          <5> QED BY <1>0, <4>1, <4>3, <5>1, <5>2 DEF Proceed
        <4>4. CASE BootRefresh \/ StartFails \/ Serve
          BY <2>3, <4>4 DEF BootRefresh, StartFails, Serve
        <4>5. CASE Crash \/ Tick \/ UNCHANGED vars
          BY <2>3, <4>5 DEF Crash, Tick, vars
        <4> QED BY <1>0, <2>3, <4>1, <4>2, <4>3, <4>4, <4>5 DEF Next, BootStep
      <3> QED BY <2>3, <3>1
    <2>4. CASE phase # "down" /\ i \in lost
      <3>1. ~Start
        BY <2>4 DEF Start
      <3>2. ASSUME NEW c \in Callers, InsertAdd(c) \/ Load(c) PROVE lost \subseteq lost'
        BY <3>2 DEF InsertAdd, Load, db
      <3> QED BY <2>4, <3>1, <3>2, Writers
    <2>5. CASE phase = "starting" /\ i \in todo
      BY <1>0, <2>5, TodoKept
    <2>6. CASE \E c \in Callers : WillCheck(c, i)
      BY <1>2, <2>6, OwnerKept
    <2> QED BY <1>2, <2>1, <2>2, <2>3, <2>4, <2>5, <2>6 DEF PendingHasOwner
  <1> QED BY <1>1, <1>2

-----------------------------------------------------------------------------
(* The invariant and what follows from it.                                    *)

(* The invariant holds when nothing has run yet.                              *)
LEMMA InvInit == Init => Inv
  <1> SUFFICES ASSUME Init PROVE Inv
    OBVIOUS
  <1> USE ServiceAssumption, IdleType DEF Init
  <1>1. TypeOK
    BY DEF TypeOK, View, NoView
  <1>2. Table
    BY DEF Table, Registered
  <1>3. \A c \in Callers : Shape(c) /\ call[c] = Idle
    BY DEF Shape, At, IsAdd, Idle
  <1>4. Adds /\ Readers
    BY <1>3 DEF Adds, Readers, IsAdd, Idle, NoView
  <1>5. PendingHasOwner /\ AnsweredCheckVisible
    BY <1>3 DEF PendingHasOwner, AnsweredCheckVisible, At, Idle, Callers
  <1> QED BY <1>1, <1>2, <1>3, <1>4, <1>5 DEF Inv

(* The invariant is inductive.                                                *)
LEMMA InvStep == Inv /\ [Next]_vars => Inv'
  BY TypeStep, TableStep, ShapeStep, AddsStep, ReadersStep, OwnerStep, VisibleStep DEF Inv, Callers

(* The inductive invariant of the service: the table, the calls in flight, the *)
(* readers and the CheckStore stay consistent through every interleaving.     *)
THEOREM Invariance == Spec => []Inv
  BY InvInit, InvStep, PTL DEF Spec

(* Every variable of the service keeps its type.                              *)
THEOREM TypeCorrect == Spec => []TypeOK
  BY Invariance, PTL DEF Inv

(* At every moment, whatever Adds, Refreshes and RemoveByIDs interleave and   *)
(* wherever the process stopped and restarted, an endpoint that is shown as   *)
(* "Checking" has a caller, or the startup loop, about to check it, unless a  *)
(* failed database call of this run orphaned it.                              *)
THEOREM PendingOwned == Spec => []PendingHasOwner
  BY Invariance, PTL DEF Inv

(* The answer of Add and Refresh never overtakes the CheckStore.              *)
THEOREM AnswerVisible == Spec => []AnsweredCheckVisible
  BY Invariance, PTL DEF Inv

(* Readers show a checked endpoint as unchecked only after its removal.       *)
THEOREM ReadersSound == Spec => []NoFalseChecking
  <1>1. Inv => NoFalseChecking
    BY DEF Inv, Readers, NoFalseChecking
  <1> QED BY <1>1, Invariance, PTL

(* The comment at service.go:83-85: concurrent Adds of one URL cannot all     *)
(* execute the probes.                                                        *)
THEOREM ReservedUrl == Spec => []OneProberPerUrl
  <1>1. Inv => OneProberPerUrl
    <2> SUFFICES ASSUME Inv, NEW c \in Requests, NEW d \in Requests, c # d,
                        IsAdd(c), At(c, "probing"), At(d, "probing"), call[d].url = call[c].url
                 PROVE  \E e \in {c, d} : call[e].id \in drawn \ Registered
      BY DEF OneProberPerUrl
    <2>1. /\ c \in Callers /\ d \in Callers /\ IsAdd(d)
          /\ call[c].id \in drawn /\ call[d].id \in drawn /\ drawn \subseteq Ids
      BY DEF Inv, Shape, At, Callers, IsAdd, TypeOK
    <2>2. call[c].id # call[d].id
      BY <2>1, ServiceAssumption DEF Inv, Adds
    <2>3. ~(call[c].id \in Registered /\ call[d].id \in Registered)
      BY <2>1, <2>2 DEF Inv, Adds, Table
    <2> QED BY <2>1, <2>3
  <1> QED BY <1>1, Invariance, PTL

-----------------------------------------------------------------------------
(* The service implements the registry.                                       *)

Shown == [i \in Ids |-> IF rows[i] = NoUrl THEN 0 ELSE checks[i]]
Retired == drawn \ Registered

(* The variables of the registry, in those of the service.                    *)
LEMMA RegistryVars ==
    ASSUME UNCHANGED <<rows, drawn>>
    PROVE  UNCHANGED rows /\ Retired' = Retired
  BY DEF Retired, Registered

(* Every step of the service is a step of the registry, or none.              *)
LEMMA RegistryStep ==
    ASSUME Inv, [Next]_vars
    PROVE  \/ \E i \in Ids : \/ \E u \in Urls : Registry!Register(i, u)
                            \/ Registry!Observe(i)
                            \/ Registry!Forget(i)
           \/ Registry!Restart
           \/ UNCHANGED <<rows, Shown, Retired>>
  <1> USE ServiceAssumption DEF Shown, Retired
  <1>0. TypeOK /\ Table /\ \A c \in Callers : Shape(c)
    BY DEF Inv
  <1>1. UNCHANGED <<rows, drawn, checks>> => UNCHANGED <<rows, Shown, Retired>>
    BY DEF Registered
  <1>2. ASSUME NEW c \in Requests, InsertAdd(c),
               NEW i \in Ids \ drawn, ~Taken(call[c].url),
               rows' = [rows EXCEPT ![i] = call[c].url], drawn' = drawn \cup {i}
        PROVE  Registry!Register(i, call[c].url) /\ call[c].url \in Urls
    <2>1. call[c].url \in Urls
      BY <1>0, <1>2 DEF InsertAdd, Shape, At, IsAdd, TypeOK, Call, Callers
    <2>2. checks' = checks /\ rows[i] = NoUrl /\ checks[i] = 0
      BY <1>0, <1>2 DEF InsertAdd, Table, Registered
    <2>3. Retired' = Retired
      BY <1>0, <1>2, <2>1, <2>2 DEF Registered, TypeOK
    <2>4. Shown' = Shown
      BY <1>0, <1>2, <2>1, <2>2 DEF TypeOK
    <2> QED BY <1>0, <1>2, <2>1, <2>2, <2>3, <2>4 DEF Registry!Register, Taken, Registered
  <1>3. ASSUME NEW c \in Requests, DeleteRow(c)
        PROVE  \/ UNCHANGED <<rows, Shown, Retired>>
               \/ \E i \in Ids : Registry!Forget(i)
    <2>1. CASE rows' = rows
      BY <1>1, <1>3, <2>1, DeleteEffect, <1>0
    <2>2. CASE rows' # rows
      <3>1. call[c].id \in Ids /\ rows[call[c].id] # NoUrl
        BY <1>0, <1>3, <2>2, DeleteEffect DEF TypeOK
      <3>2. /\ UNCHANGED <<drawn, checks>>
            /\ rows' = [rows EXCEPT ![call[c].id] = NoUrl]
        BY <1>0, <1>3, <2>2, DeleteEffect
      <3>3. Retired' = Retired \cup {call[c].id}
        BY <1>0, <3>1, <3>2 DEF Table, Registered, TypeOK
      <3>4. Shown' = [Shown EXCEPT ![call[c].id] = 0]
        BY <1>0, <3>1, <3>2 DEF TypeOK
      <3> QED BY <3>1, <3>2, <3>3, <3>4 DEF Registry!Forget
    <2> QED BY <2>1, <2>2
  <1>4. ASSUME NEW c \in Requests, Forget(c) PROVE UNCHANGED <<rows, Shown, Retired>>
    <2>1. call[c].id \notin Registered /\ UNCHANGED <<rows, drawn>>
      BY <1>0, <1>4 DEF Forget, Shape, At, Callers, db
    <2>2. Shown' = Shown
      BY <1>0, <1>4, <2>1 DEF Forget, Registered, TypeOK
    <2> QED BY <2>1, <2>2, RegistryVars
  <1>5. ASSUME NEW c \in Callers, Store(c)
        PROVE  \/ UNCHANGED <<rows, Shown, Retired>>
               \/ \E i \in Ids : Registry!Observe(i)
    <2>1. /\ UNCHANGED <<rows, drawn>> /\ call[c].id \in Ids /\ call[c].held # 0
          /\ call[c].held \in Nat
          /\ checks' = [checks EXCEPT ![call[c].id] = call[c].held]
      BY <1>0, <1>5 DEF Store, Shape, At, TypeOK, Call, db
    <2>2. CASE rows[call[c].id] = NoUrl
      <3>1. Shown' = Shown
        BY <1>0, <2>1, <2>2 DEF TypeOK
      <3> QED BY <2>1, <3>1, RegistryVars
    <2>3. CASE rows[call[c].id] # NoUrl
      <3>1. Shown' = [Shown EXCEPT ![call[c].id] = call[c].held]
        BY <1>0, <2>1, <2>3 DEF TypeOK
      <3>2. Shown'[call[c].id] = call[c].held
        BY <2>1, <3>1
      <3> QED BY <2>1, <2>3, <3>1, <3>2, RegistryVars DEF Registry!Observe
    <2> QED BY <2>2, <2>3
  <1>6. CASE Crash
    <2>1. UNCHANGED <<rows, drawn>> /\ checks' = [i \in Ids |-> 0]
      BY <1>6 DEF Crash, db
    <2>2. Shown' = [i \in Ids |-> 0]
      BY <2>1
    <2> QED BY <2>1, <2>2, RegistryVars DEF Registry!Restart
  <1>7. ASSUME NEW c \in Requests, InsertAdd(c)
        PROVE  \/ UNCHANGED <<rows, Shown, Retired>>
               \/ \E i \in Ids : \E u \in Urls : Registry!Register(i, u)
    <2>1. CASE UNCHANGED <<rows, drawn>>
      BY <1>1, <1>7, <2>1 DEF InsertAdd
    <2> QED BY <1>0, <1>2, <1>7, <2>1, InsertEffect
  <1> HIDE DEF Shown, Retired
  <1> QED BY <1>1, <1>3, <1>4, <1>5, <1>6, <1>7, Writers

(* Rows and results, changed in separate steps by concurrent calls, together  *)
(* behave as the registry.                                                    *)
THEOREM Implementation == Spec => ImplementsRegistry
  <1>1. Init => Registry!Init
    BY DEF Init, Registry!Init, Registered
  <1>2. Inv /\ [Next]_vars => [Registry!Next]_(Registry!vars)
    <2> SUFFICES ASSUME Inv, [Next]_vars PROVE [Registry!Next]_(Registry!vars)
      OBVIOUS
    <2> QED BY RegistryStep DEF Registry!Next, Registry!vars, Shown, Retired
  <1> QED BY <1>1, <1>2, Invariance, PTL DEF Spec, ImplementsRegistry, Registry!Spec

-----------------------------------------------------------------------------
(* What the service inherits from the registry it implements.                 *)

Inherited == INSTANCE EndpointRegistryProofs WITH
    registered <- rows,
    latest <- [i \in Ids |-> IF rows[i] = NoUrl THEN 0 ELSE checks[i]],
    retired <- drawn \ Registered

LEMMA IsRegistry == Spec => Inherited!Spec
  <1>1. Registry!Spec => Inherited!Spec
    BY DEF Registry!Spec, Inherited!Spec, Registry!Init, Inherited!Init,
           Registry!Next, Inherited!Next, Registry!vars, Inherited!vars,
           Registry!Register, Inherited!Register, Registry!Observe, Inherited!Observe,
           Registry!Forget, Inherited!Forget, Registry!Restart, Inherited!Restart
  <1> QED BY <1>1, Implementation, PTL DEF ImplementsRegistry

(* Of the rows and results of the service, read at any moment between the     *)
(* steps of its calls: no two rows have the same URL, and no removed endpoint *)
(* has a row or a result to show.                                             *)
THEOREM ServiceConsistent == Spec => []Registry!Consistent
  <1>1. Inherited!Spec => [](Inherited!TypeOK /\ Inherited!Consistent)
    BY Inherited!RegistryConsistent
  <1>2. Inherited!Consistent => Registry!Consistent
    BY DEF Inherited!Consistent, Registry!Consistent
  <1> QED BY <1>1, <1>2, IsRegistry, PTL

(* A reader that looks twice finds every endpoint gone or with the same URL,  *)
(* and with a check if it had one, unless the process has ended in between,   *)
(* whatever the calls of others do step by step.                              *)
THEOREM ServiceLasting == Spec => [][Inherited!Lasting]_(Inherited!vars)
  <1>1. Inherited!Spec => [][Inherited!Lasting]_(Inherited!vars)
    BY Inherited!RegistryLasting
  <1> QED BY <1>1, IsRegistry, PTL

(* RemoveByID is final: no Add or Refresh that was under way, and no restart, *)
(* brings the endpoint back.                                                  *)
THEOREM RemovalFinal ==
    Spec => \A i \in Ids : [](i \in drawn \ Registered => [](i \in drawn \ Registered))
  <1> SUFFICES ASSUME NEW i \in Ids
               PROVE  Spec => [](i \in drawn \ Registered => [](i \in drawn \ Registered))
    OBVIOUS
  <1>1. Inherited!Spec => [](i \in drawn \ Registered => [](i \in drawn \ Registered /\ rows[i] = NoUrl))
    BY Inherited!RemovedForGood
  <1> QED BY <1>1, IsRegistry, PTL

-----------------------------------------------------------------------------
(* Why calls end and the startup loop gets through: the steps that a call has *)
(* left, at most, where it is.  Only a reader stays at a step, as long as it  *)
(* has results to fetch, and only the loop begins another call by itself, for *)
(* which it strikes an endpoint off its list.                                 *)

StepsLeft(s) ==
    CASE s = "loading" -> 6
      [] s = "resolving" -> 5
      [] s = "inserting" -> 4
      [] s \in {"probing", "deleting", "selecting"} -> 3
      [] s \in {"storing", "forgetting", "fetching"} -> 2
      [] s = "done" -> 1
      [] OTHER -> 0

Ahead(c) == StepsLeft(call'[c].at) < StepsLeft(call[c].at)
Fewer(S, T) == S \subseteq T /\ S # T
Fetches(c) == UNCHANGED call[c] /\ Fewer(view'[c].want, view[c].want)
Waits(c) == UNCHANGED call[c] /\ (c \in Requests => UNCHANGED view[c])

(* From where to where a step leads.                                          *)
LEMMA Onward ==
    ASSUME NEW c,
           \/ call[c].at = "loading" /\ call'[c].at \in {"resolving", "done"}
           \/ call[c].at = "resolving" /\ call'[c].at \in {"inserting", "probing", "storing", "done"}
           \/ call[c].at = "inserting" /\ call'[c].at \in {"probing", "storing", "done"}
           \/ call[c].at = "probing" /\ call'[c].at = "storing"
           \/ call[c].at = "deleting" /\ call'[c].at \in {"forgetting", "done"}
           \/ call[c].at = "selecting" /\ call'[c].at \in {"fetching", "done"}
           \/ call[c].at \in {"storing", "forgetting", "fetching"} /\ call'[c].at = "done"
           \/ call[c].at # "idle" /\ call[c].at \in Steps /\ call'[c].at = "idle"
    PROVE  Ahead(c)
  BY DEF Ahead, StepsLeft, Steps

(* The step a call is at, after what the actions do to calls.                 *)
LEMMA Arrives ==
    ASSUME call \in [Callers -> Call], NEW c \in Callers
    PROVE  /\ \A k : Become(c, k) => call'[c] = k
           /\ \A s : Goto(c, s) => call'[c].at = s
           /\ \A a : Finish(c, a) => call'[c].at = "done"
  <1>1. ASSUME NEW k, Become(c, k) PROVE call'[c] = k
    BY <1>1 DEF Become
  <1>2. call[c] \in Call
    OBVIOUS
  <1>3. ASSUME NEW s, Goto(c, s) PROVE call'[c].at = s
    <2>1. call'[c] = [call[c] EXCEPT !.at = s]
      BY <1>3 DEF Goto, Become
    <2> QED BY <1>2, <2>1 DEF Call
  <1>4. ASSUME NEW a, Finish(c, a) PROVE call'[c].at = "done"
    <2>1. call'[c] = [call[c] EXCEPT !.at = "done", !.answer = a]
      BY <1>4 DEF Finish, Become
    <2> QED BY <1>2, <2>1 DEF Call
  <1> QED BY <1>1, <1>3, <1>4

(* ... when it also takes a result along.                                     *)
LEMMA ArrivesWith ==
    ASSUME call \in [Callers -> Call], NEW c \in Callers, NEW s, NEW h, NEW a,
           Become(c, [call[c] EXCEPT !.at = s, !.held = h, !.answer = a])
    PROVE  call'[c].at = s
  <1>1. call'[c] = [call[c] EXCEPT !.at = s, !.held = h, !.answer = a]
    BY Arrives
  <1> QED BY <1>1 DEF Call

LEMMA RefreshAhead ==
    ASSUME TypeOK, NEW c \in Callers, RefreshSteps(c)
    PROVE  Ahead(c)
  <1>0. call \in [Callers -> Call] /\ call[c].at \in Steps
    BY DEF TypeOK, Call
  <1>1. CASE Load(c)
    <2>1. call'[c].at \in {"resolving", "done"}
      BY <1>0, <1>1, Arrives DEF Load
    <2> QED BY <1>1, <2>1, Onward DEF Load, At
  <1>2. CASE ResolveRefresh(c)
    <2>1. Goto(c, "probing")
          \/ Become(c, [call[c] EXCEPT !.at = "storing", !.held = clock, !.answer = "check"])
      BY <1>2 DEF ResolveRefresh
    <2>2. call'[c].at \in {"probing", "storing"}
      <3>1. ASSUME Goto(c, "probing") PROVE call'[c].at = "probing"
        BY <1>0, <3>1, Arrives
      <3>2. ASSUME Become(c, [call[c] EXCEPT !.at = "storing", !.held = clock,
                                             !.answer = "check"])
            PROVE  call'[c].at = "storing"
        BY <1>0, <3>2, ArrivesWith, Zenon
      <3> QED BY <2>1, <3>1, <3>2
    <2> QED BY <1>2, <2>2, Onward DEF ResolveRefresh, At
  <1>3. CASE Probe(c)
    <2>1. PICK a \in {"ok", "check"} :
             Become(c, [call[c] EXCEPT !.at = "storing", !.held = clock, !.answer = a])
      BY <1>3 DEF Probe
    <2>2. call'[c].at = "storing"
      BY <1>0, <2>1, ArrivesWith, Zenon
    <2> QED BY <1>3, <2>2, Onward DEF Probe, At
  <1>4. CASE Store(c)
    <2>1. call'[c].at = "done"
      BY <1>0, <1>4, Arrives DEF Store
    <2> QED BY <1>4, <2>1, Onward DEF Store, At
  <1>5. CASE Reply(c)
    <2>1. call'[c].at = "idle"
      <3>1. call'[c] = Idle
        BY <1>0, <1>5, Arrives DEF Reply
      <3> QED BY <3>1 DEF Idle
    <2> QED BY <1>0, <1>5, <2>1, Onward DEF Reply, At
  <1> QED BY <1>1, <1>2, <1>3, <1>4, <1>5 DEF RefreshSteps

LEMMA ProceedAhead ==
    ASSUME TypeOK, NEW c \in Requests, Proceed(c)
    PROVE  Ahead(c) \/ Fetches(c)
  <1>0. c \in Callers /\ call \in [Callers -> Call]
    BY DEF TypeOK, Callers
  <1>1. CASE RefreshSteps(c)
    BY <1>0, <1>1, RefreshAhead
  <1>2. CASE ResolveAdd(c)
    <2>1. \/ Goto(c, "inserting") \/ Finish(c, "unsafe")
          \/ Become(c, [call[c] EXCEPT !.at = "inserting", !.held = clock, !.answer = "check"])
      BY <1>2 DEF ResolveAdd
    <2>2. call'[c].at \in {"inserting", "done"}
      <3>1. ASSUME Goto(c, "inserting") \/ Finish(c, "unsafe")
            PROVE  call'[c].at \in {"inserting", "done"}
        BY <1>0, <3>1, Arrives
      <3>2. ASSUME Become(c, [call[c] EXCEPT !.at = "inserting", !.held = clock,
                                             !.answer = "check"])
            PROVE  call'[c].at = "inserting"
        BY <1>0, <3>2, ArrivesWith, Zenon
      <3> QED BY <2>1, <3>1, <3>2
    <2> QED BY <1>2, <2>2, Onward DEF ResolveAdd, At
  <1>3. CASE InsertAdd(c)
    <2>1. call'[c].at \in {"probing", "storing", "done"}
      BY <1>3, InsertFacts DEF AfterInsert
    <2>2. call[c].at = "inserting"
      BY <1>3, InsertFacts DEF At
    <2> QED BY <2>1, <2>2, Onward
  <1>4. CASE DeleteRow(c)
    <2>1. call'[c].at \in {"forgetting", "done"}
      BY <1>0, <1>4, Arrives DEF DeleteRow
    <2> QED BY <1>4, <2>1, Onward DEF DeleteRow, At
  <1>5. CASE Forget(c)
    BY <1>0, <1>5, Arrives, Onward DEF Forget, At
  <1>6. CASE Select(c)
    <2>1. call'[c].at \in {"fetching", "done"}
      BY <1>0, <1>6, Arrives DEF Select
    <2> QED BY <1>6, <2>1, Onward DEF Select, At
  <1>7. CASE Fetch(c)
    <2>1. PICK i \in view[c].want :
             view' = [view EXCEPT ![c].want = @ \ {i},
                                  ![c].blank = IF checks[i] = 0 THEN @ \cup {i} ELSE @]
      BY <1>7 DEF Fetch
    <2>2. view \in [Requests -> View] /\ view[c] \in View
      BY DEF TypeOK
    <2>3. view'[c].want = view[c].want \ {i}
      BY <2>1, <2>2 DEF View
    <2> QED BY <1>7, <2>1, <2>3 DEF Fetch, Fetches, Fewer
  <1>8. CASE FinishRead(c)
    BY <1>0, <1>8, Arrives, Onward DEF FinishRead, At
  <1> QED BY <1>1, <1>2, <1>3, <1>4, <1>5, <1>6, <1>7, <1>8 DEF Proceed

(* The steps of others do not touch what a call has read.                     *)
LEMMA OthersWait ==
    ASSUME TypeOK, NEW c \in Callers, NEW d \in Callers, c # d,
           \/ d \in Requests /\ (Request(d) \/ Proceed(d))
           \/ RefreshSteps(d)
    PROVE  Waits(c)
  <1>1. UNCHANGED call[c]
    BY Locality
  <1>2. view \in [Requests -> View]
    BY DEF TypeOK
  <1>3. ASSUME Reply(d) PROVE \A e \in Requests \ {d} : UNCHANGED view[e]
    BY <1>2, <1>3 DEF Reply
  <1>4. ASSUME RefreshSteps(d) PROVE \A e \in Requests \ {d} : UNCHANGED view[e]
    BY <1>3, <1>4 DEF RefreshSteps, Load, ResolveRefresh, Probe, Store
  <1>5. ASSUME d \in Requests, Request(d) PROVE UNCHANGED view
    BY <1>5, RequestFacts
  <1>6. ASSUME Select(d) PROVE \A e \in Requests \ {d} : UNCHANGED view[e]
    BY <1>2, <1>6 DEF Select
  <1>7. ASSUME Fetch(d) PROVE \A e \in Requests \ {d} : UNCHANGED view[e]
    BY <1>2, <1>7 DEF Fetch
  <1>8. ASSUME d \in Requests, Proceed(d) PROVE \A e \in Requests \ {d} : UNCHANGED view[e]
    <2>1. ASSUME d \in Requests,
                 ResolveAdd(d) \/ InsertAdd(d) \/ DeleteRow(d) \/ Forget(d) \/ FinishRead(d)
          PROVE  UNCHANGED view
      BY <2>1, InsertFacts, Zenon DEF ResolveAdd, DeleteRow, Forget, FinishRead
    <2> QED BY <1>4, <1>6, <1>7, <1>8, <2>1 DEF Proceed
  <1> QED BY <1>1, <1>4, <1>5, <1>8 DEF Waits

LEMMA CallAhead ==
    ASSUME TypeOK, [Next]_vars, NEW c \in Callers, ~At(c, "idle")
    PROVE  Ahead(c) \/ (c \in Requests /\ Fetches(c)) \/ Waits(c)
  <1>1. ASSUME NEW d \in Requests, Request(d) \/ Proceed(d), d # c PROVE Waits(c)
    BY <1>1, OthersWait DEF Callers
  <1>2. ASSUME c \in Requests, Request(c) PROVE FALSE
    BY <1>2, RequestFacts DEF At
  <1>3. CASE c \in Requests /\ Proceed(c)
    BY <1>3, ProceedAhead
  <1>4. CASE BootStep
    <2>1. Boot \in Callers
      BY DEF Callers
    <2>2. ASSUME RefreshSteps(Boot), c = Boot PROVE Ahead(c)
      BY <2>1, <2>2, RefreshAhead
    <2>3. ASSUME RefreshSteps(Boot), c # Boot PROVE Waits(c)
      BY <2>1, <2>3, OthersWait
    <2>4. ASSUME BootRefresh PROVE Waits(c)
      BY <2>1, <2>4 DEF BootRefresh, Become, At, Waits, TypeOK
    <2> QED BY <1>4, <2>2, <2>3, <2>4 DEF BootStep
  <1>5. CASE Crash
    <2>1. call'[c].at = "idle" /\ call[c].at \in Steps
      BY <1>5 DEF Crash, Idle, TypeOK, Call
    <2> QED BY <2>1, Onward DEF At
  <1>6. CASE Start \/ StartFails \/ Serve \/ Tick \/ UNCHANGED vars
    BY <1>6 DEF Start, StartFails, Serve, Tick, vars, Waits
  <1> QED BY <1>1, <1>2, <1>3, <1>4, <1>5, <1>6 DEF Next

(* Every call ends after finitely many steps of its own: each leads on, or    *)
(* fetches one of the results that a reader still wants; nothing that others  *)
(* do, and no failure, sets it back.                                          *)
THEOREM CallAdvances ==
    Spec => [][\A c \in Callers : ~At(c, "idle") =>
                  Ahead(c) \/ (c \in Requests /\ Fetches(c)) \/ Waits(c)]_vars
  <1>1. TypeOK /\ [Next]_vars
          => [\A c \in Callers : ~At(c, "idle") =>
                 Ahead(c) \/ (c \in Requests /\ Fetches(c)) \/ Waits(c)]_vars
    BY CallAhead
  <1> QED BY <1>1, TypeCorrect, PTL DEF Spec

(* What a step may do to the check of an endpoint that a caller is to make,   *)
(* and to an endpoint on the list of the startup loop.                        *)
Pursues(c, i) ==
    \/ WillCheck(c, i)' /\ (Ahead(c) \/ UNCHANGED call[c])
    \/ checks'[i] # 0 \/ i \in lost' \/ phase' = "down"
Remembers(i) ==
    \/ phase' = "starting" /\ i \in todo'
    \/ WillCheck(Boot, i)' \/ phase' = "down"

(* Whoever is to check an endpoint does not pass it on and does not wait for  *)
(* others: with each step of its own a check is nearer, until there is one or *)
(* the process ends or a failed read orphans it; and what the startup loop    *)
(* has on its list only the loop takes from it, to check it.  As a pending    *)
(* endpoint always has someone (PendingOwned), this is why "Checking" passes. *)
THEOREM OwnersAdvance ==
    Spec => [][\A i \in Registered :
                  /\ \A c \in Callers : WillCheck(c, i) => Pursues(c, i)
                  /\ phase = "starting" /\ i \in todo => Remembers(i)]_vars
  <1>1. Inv /\ [Next]_vars =>
          [\A i \in Registered :
              /\ \A c \in Callers : WillCheck(c, i) => Pursues(c, i)
              /\ phase = "starting" /\ i \in todo => Remembers(i)]_vars
    <2> SUFFICES ASSUME Inv, [Next]_vars, NEW i \in Registered
                 PROVE  /\ \A c \in Callers : WillCheck(c, i) => Pursues(c, i)
                        /\ phase = "starting" /\ i \in todo => Remembers(i)
      OBVIOUS
    <2>1. TypeOK /\ \A c \in Callers : Shape(c)
      BY DEF Inv
    <2>2. ASSUME NEW c \in Callers, WillCheck(c, i) PROVE Pursues(c, i)
      <3>1. ~At(c, "idle")
        BY <2>2 DEF WillCheck, At
      <3>2. Ahead(c) \/ UNCHANGED call[c]
        BY <2>1, <3>1, CallAhead DEF Fetches, Waits
      <3>3. WillCheck(c, i)' \/ i \in lost' \/ checks'[i] # 0 \/ phase' = "down"
        BY <2>1, <2>2, OwnerKept
      <3> QED BY <3>2, <3>3 DEF Pursues
    <2>3. phase = "starting" /\ i \in todo => Remembers(i)
      BY <2>1, TodoKept DEF Remembers
    <2> QED BY <2>2, <2>3
  <1> QED BY <1>1, Invariance, PTL DEF Spec

(* Before the server listens, the startup loop has an endpoint less to check  *)
(* with each call it begins, and each of its calls ends: no endpoint, however *)
(* its check fails, keeps the loop from the next one, or the server from      *)
(* listening (run.go:82).                                                     *)
THEOREM StartupAdvances ==
    Spec => [][phase = "starting" =>
                  \/ phase' # "starting"
                  \/ Fewer(todo', todo)
                  \/ UNCHANGED todo /\ (Ahead(Boot) \/ UNCHANGED call[Boot])]_vars
  <1>1. TypeOK /\ [Next]_vars =>
          [phase = "starting" =>
              \/ phase' # "starting"
              \/ Fewer(todo', todo)
              \/ UNCHANGED todo /\ (Ahead(Boot) \/ UNCHANGED call[Boot])]_vars
    <2> SUFFICES ASSUME TypeOK, [Next]_vars, phase = "starting", phase' = "starting"
                 PROVE  \/ Fewer(todo', todo)
                        \/ UNCHANGED todo /\ (Ahead(Boot) \/ UNCHANGED call[Boot])
      OBVIOUS
    <2>0. Boot \in Callers /\ Boot \notin Requests
      BY ServiceAssumption DEF Callers
    <2>1. CASE BootRefresh
      BY <2>1 DEF BootRefresh, Fewer
    <2>2. CASE ~BootRefresh
      <3>1. UNCHANGED todo
        <4>1. ASSUME NEW c \in Requests, Request(c) PROVE UNCHANGED todo
          BY <4>1, RequestFacts
        <4>2. ASSUME NEW c, RefreshSteps(c) PROVE UNCHANGED todo
          BY <4>2 DEF RefreshSteps, Load, ResolveRefresh, Probe, Store, Reply
        <4>3. ASSUME NEW c \in Requests, Proceed(c) PROVE UNCHANGED todo
          <5>1. ASSUME ResolveAdd(c) \/ InsertAdd(c) \/ DeleteRow(c) \/ Forget(c)
                          \/ FinishRead(c)
                PROVE  UNCHANGED todo
            BY <5>1, InsertFacts, Zenon DEF ResolveAdd, DeleteRow, Forget, FinishRead
          <5>2. ASSUME Select(c) \/ Fetch(c) PROVE UNCHANGED todo
            BY <5>2 DEF Select, Fetch
          <5> QED BY <4>2, <4>3, <5>1, <5>2 DEF Proceed
        <4>4. CASE Start \/ StartFails \/ Serve \/ Crash \/ Tick \/ UNCHANGED vars
          BY <4>4 DEF Start, StartFails, Serve, Crash, Tick, vars
        <4> QED BY <2>2, <4>1, <4>2, <4>3, <4>4 DEF Next, BootStep
      <3>2. CASE At(Boot, "idle")
        <4>1. ASSUME NEW c \in Requests, Request(c) \/ Proceed(c) PROVE UNCHANGED call[Boot]
          BY <2>0, <4>1, Locality DEF Callers
        <4>2. ASSUME RefreshSteps(Boot) PROVE FALSE
          BY <3>2, <4>2 DEF RefreshSteps, Load, ResolveRefresh, Probe, Store, Reply, At
        <4>3. CASE Start \/ StartFails \/ Serve \/ Crash \/ Tick \/ UNCHANGED vars
          BY <4>3 DEF Start, StartFails, Serve, Crash, Tick, vars
        <4> QED BY <2>2, <3>1, <4>1, <4>2, <4>3 DEF Next, BootStep
      <3>3. CASE ~At(Boot, "idle")
        BY <2>0, <3>1, <3>3, CallAhead DEF Waits
      <3> QED BY <3>2, <3>3
    <2> QED BY <2>1, <2>2
  <1> QED BY <1>1, TypeCorrect, PTL DEF Spec

=============================================================================
