----------------------- MODULE EndpointRegistryProofs -----------------------
(* What every implementation of the registry inherits.                        *)
EXTENDS EndpointRegistry, TLAPS

(* No URL is registered twice, a removed ID is registered no more, and only   *)
(* registered endpoints have a result.                                        *)
THEOREM RegistryConsistent == Spec => [](TypeOK /\ Consistent)
  <1>1. Init => TypeOK /\ Consistent
    BY DEF Init, TypeOK, Consistent
  <1>2. TypeOK /\ Consistent /\ [Next]_vars => (TypeOK /\ Consistent)'
    <2> SUFFICES ASSUME TypeOK, Consistent, [Next]_vars PROVE (TypeOK /\ Consistent)'
      OBVIOUS
    <2>1. ASSUME NEW i \in Ids, NEW u \in Urls, Register(i, u) PROVE (TypeOK /\ Consistent)'
      BY <2>1 DEF Register, TypeOK, Consistent
    <2>2. ASSUME NEW i \in Ids, Observe(i) PROVE (TypeOK /\ Consistent)'
      BY <2>2 DEF Observe, TypeOK, Consistent
    <2>3. ASSUME NEW i \in Ids, Forget(i) PROVE (TypeOK /\ Consistent)'
      BY <2>3 DEF Forget, TypeOK, Consistent
    <2>4. CASE Restart
      BY <2>4 DEF Restart, TypeOK, Consistent
    <2>5. CASE UNCHANGED vars
      BY <2>5 DEF vars, TypeOK, Consistent
    <2> QED BY <2>1, <2>2, <2>3, <2>4, <2>5 DEF Next
  <1> QED BY <1>1, <1>2, PTL DEF Spec

-----------------------------------------------------------------------------
(* What a user who looks at the registry twice can rely on: an endpoint that  *)
(* is gone does not return, one that is still there has its URL, and the      *)
(* check of one that is still there is not lost but in a restart, which loses *)
(* them all.                                                                  *)

Lasting ==
    /\ retired \subseteq retired'
    /\ \A i \in Ids : registered[i] # NoUrl =>
          \/ registered'[i] = registered[i]
          \/ registered'[i] = NoUrl /\ i \in retired'
    /\ \A i \in Ids : latest[i] # 0 /\ latest'[i] = 0 =>
          i \in retired' \/ \A j \in Ids : latest'[j] = 0

(* Every step is lasting in this sense.                                       *)
THEOREM RegistryLasting == Spec => [][Lasting]_vars
  <1>1. TypeOK /\ [Next]_vars => [Lasting]_vars
    <2> SUFFICES ASSUME TypeOK, Next PROVE Lasting
      OBVIOUS
    <2>1. ASSUME NEW i \in Ids, NEW u \in Urls, Register(i, u) PROVE Lasting
      BY <2>1 DEF Register, TypeOK, Lasting
    <2>2. ASSUME NEW i \in Ids, Observe(i) PROVE Lasting
      BY <2>2 DEF Observe, TypeOK, Lasting
    <2>3. ASSUME NEW i \in Ids, Forget(i) PROVE Lasting
      BY <2>3 DEF Forget, TypeOK, Lasting
    <2>4. CASE Restart
      BY <2>4 DEF Restart, TypeOK, Lasting
    <2> QED BY <2>1, <2>2, <2>3, <2>4 DEF Next
  <1> QED BY <1>1, RegistryConsistent, PTL DEF Spec

(* A removed endpoint is gone for good.                                       *)
THEOREM RemovedForGood ==
    Spec => \A i \in Ids : [](i \in retired => [](i \in retired /\ registered[i] = NoUrl))
  <1> SUFFICES ASSUME NEW i \in Ids
               PROVE  Spec => [](i \in retired => [](i \in retired /\ registered[i] = NoUrl))
    OBVIOUS
  <1>1. i \in retired /\ [Lasting]_vars => (i \in retired)'
    BY DEF Lasting, vars
  <1>2. Consistent => (i \in retired => registered[i] = NoUrl)
    BY DEF Consistent
  <1> QED BY <1>1, <1>2, RegistryConsistent, RegistryLasting, PTL

=============================================================================
