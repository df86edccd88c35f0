---------------------------- MODULE UrlTableProofs -----------------------------
(* ParseURL is idempotent, keeps the target and tells targets apart, and so   *)
(* the table has one row per target, each of which parses to itself: for any  *)
(* names, literals, ports, paths and queries.                                 *)
EXTENDS UrlTable, TLAPS

(* The port that is left is normal, and stands for the same number.           *)
LEMMA NormalPortFacts ==
    ASSUME NEW t \in Text, Valid(t)
    PROVE  /\ NormalPort(t) \in Port
           /\ NormalPort(t).form \in {"none", "digits"}
           /\ Written(NormalPort(t)) =>
                 /\ NormalPort(t).number \in 1..MaxPort
                 /\ NormalPort(t).number # DefaultPort(t.scheme)
           /\ (IF Written(NormalPort(t)) THEN NormalPort(t).number ELSE DefaultPort(t.scheme))
                 = (IF Written(t.port) THEN t.port.number ELSE DefaultPort(t.scheme))
<1> DEFINE n == NormalPort(t)
<1>1. /\ t.port.form \in {"none", "empty", "junk", "digits", "zeros"}
      /\ t.port.number \in Numbers
    BY UrlAssumption DEF Text, Port
<1>2. CASE Written(t.port) /\ t.port.number # DefaultPort(t.scheme)
  <2>1. n = [form |-> "digits", number |-> t.port.number]
      BY <1>2 DEF NormalPort, Written
  <2>2. t.port.number \in 1..MaxPort
      BY <1>2 DEF Valid
  <2>3. n \in Port /\ n.form = "digits" /\ n.number = t.port.number
      BY <1>1, <2>1 DEF Port
  <2> HIDE DEF n
  <2> QED BY <1>2, <2>2, <2>3 DEF Written, n
<1>3. CASE ~(Written(t.port) /\ t.port.number # DefaultPort(t.scheme))
  <2>1. n = [form |-> "none", number |-> 0]
      BY <1>3 DEF NormalPort, NoPort, Written
  <2>2. n \in Port /\ n.form = "none"
      BY <2>1 DEF Port
  <2> HIDE DEF n
  <2> QED BY <1>3, <2>2 DEF Written, n
<1> QED BY <1>2, <1>3

(* A port that is normal stays as it is.                                      *)
LEMMA NormalPortStays ==
    ASSUME NEW t \in Text,
           \/ t.port = NoPort
           \/ t.port.form = "digits" /\ t.port.number # DefaultPort(t.scheme)
    PROVE  NormalPort(t) = t.port
BY DEF NormalPort, NoPort, Written, Port, Text

(* The components of the result.                                              *)
LEMMA ParseFields ==
    ASSUME NEW t \in Text
    PROVE  /\ Parse(t).scheme = t.scheme /\ Parse(t).host = t.host
           /\ Parse(t).user = t.user /\ Parse(t).query = t.query
           /\ Parse(t).capitals = FALSE /\ Parse(t).fragment = FALSE
           /\ Parse(t).port = NormalPort(t) /\ Parse(t).brackets = (t.host \in Literals)
           /\ Parse(t).path = NormalPath(t.path)
BY DEF Parse, Text, Brackets

LEMMA ParseInText ==
    ASSUME NEW t \in Text, Valid(t)
    PROVE  Parse(t) \in Text /\ Parse(t).path # NoPath
<1>1. NormalPort(t) \in Port
    BY NormalPortFacts
<1>2. NormalPath(t.path) \in Paths /\ NormalPath(t.path) # NoPath
    BY UrlAssumption DEF Text, NormalPath
<1>3. Brackets(t) \in BOOLEAN
    BY DEF Brackets
<1>4. Parse(t) \in Text
    BY <1>1, <1>2, <1>3 DEF Parse, Text
<1>5. Parse(t).path = NormalPath(t.path)
    BY ParseFields
<1> QED BY <1>2, <1>4, <1>5

(* ParseURL accepts what it returned, and returns it again.                   *)
THEOREM ParseIdempotent ==
    ASSUME NEW t \in Text, Valid(t)
    PROVE  Valid(Parse(t)) /\ Parse(Parse(t)) = Parse(t)
<1> DEFINE u == Parse(t)
<1>1. u \in Text /\ u.path # NoPath
    BY ParseInText
<1>2. Valid(u)
    BY ParseFields, NormalPortFacts DEF Valid
<1>3. NormalPort(u) = u.port
  <2>1. \/ NormalPort(t) = NoPort
        \/ /\ NormalPort(t).form = "digits"
           /\ NormalPort(t).number # DefaultPort(t.scheme)
      BY DEF NormalPort
  <2>2. u.port = NormalPort(t) /\ u.scheme = t.scheme
      BY ParseFields
  <2>3. \/ u.port = NoPort
        \/ u.port.form = "digits" /\ u.port.number # DefaultPort(u.scheme)
      BY <2>1, <2>2
  <2> HIDE DEF u
  <2> QED BY <1>1, <2>3, NormalPortStays
<1>4. Brackets(u) = u.brackets /\ NormalPath(u.path) = u.path
    BY <1>1, ParseFields DEF Brackets, NormalPath
<1>5. u.capitals = FALSE /\ u.fragment = FALSE
    BY ParseFields
<1> HIDE DEF u
<1>6. Parse(u) = u
    BY <1>1, <1>3, <1>4, <1>5 DEF Parse, Text
<1> QED BY <1>2, <1>6 DEF u

(* ParseURL changes the spelling, never the target.                           *)
THEOREM ParseKeepsTarget ==
    ASSUME NEW t \in Text, Valid(t)
    PROVE  Target(Parse(t)) = Target(t)
<1>1. NormalPath(t.path) # NoPath
    BY UrlAssumption DEF NormalPath
<1>2. (IF NormalPath(t.path) = NoPath THEN Root ELSE NormalPath(t.path))
         = (IF t.path = NoPath THEN Root ELSE t.path)
    BY <1>1 DEF NormalPath
<1>3. /\ Parse(t).scheme = t.scheme /\ Parse(t).host = t.host /\ Parse(t).query = t.query
      /\ Parse(t).port = NormalPort(t) /\ Parse(t).path = NormalPath(t.path)
    BY ParseFields
<1>4. (IF Written(NormalPort(t)) THEN NormalPort(t).number ELSE DefaultPort(t.scheme))
         = (IF Written(t.port) THEN t.port.number ELSE DefaultPort(t.scheme))
    BY NormalPortFacts
<1> QED BY <1>2, <1>3, <1>4, Zenon DEF Target

(* Two texts that parse to themselves and have one target are one text.       *)
THEOREM NormalFormUnique ==
    ASSUME NEW t \in Text, NEW u \in Text, Valid(t), Valid(u),
           Parse(t) = t, Parse(u) = u, Target(t) = Target(u)
    PROVE  t = u
<1>1. /\ t.scheme = u.scheme /\ t.host = u.host /\ t.query = u.query
      /\ (IF t.path = NoPath THEN Root ELSE t.path) = (IF u.path = NoPath THEN Root ELSE u.path)
      /\ (IF Written(t.port) THEN t.port.number ELSE DefaultPort(t.scheme))
            = (IF Written(u.port) THEN u.port.number ELSE DefaultPort(u.scheme))
    BY DEF Target
<1>2. /\ t.capitals = u.capitals /\ t.fragment = u.fragment /\ t.brackets = u.brackets
      /\ t.port = NormalPort(t) /\ u.port = NormalPort(u)
  <2>1. /\ t.capitals = FALSE /\ t.fragment = FALSE
        /\ t.port = NormalPort(t) /\ t.brackets = (t.host \in Literals)
      BY ParseFields, Zenon
  <2>2. /\ u.capitals = FALSE /\ u.fragment = FALSE
        /\ u.port = NormalPort(u) /\ u.brackets = (u.host \in Literals)
      BY ParseFields, Zenon
  <2> QED BY <1>1, <2>1, <2>2
<1>3. t.path # NoPath /\ u.path # NoPath
    BY ParseInText
<1>4. t.user = u.user
    BY DEF Valid, Text
<1>5. t.port = u.port
  <2>1. t.port \in Port /\ u.port \in Port
      BY DEF Text
  <2>2. Written(t.port) <=> Written(u.port)
      BY <1>1, <1>2, NormalPortFacts
  <2>3. t.port.form = u.port.form
      BY <1>2, <2>2, NormalPortFacts DEF Written
  <2>4. t.port.number = u.port.number
      BY <1>1, <2>1, <2>2 DEF Written, Port
  <2> QED BY <2>1, <2>3, <2>4 DEF Port
<1> QED BY <1>1, <1>2, <1>3, <1>4, <1>5 DEF Text

-----------------------------------------------------------------------------
(* The table.                                                                 *)

Inv == TypeOK /\ StoredParsesToItself /\ AddedAsAsked

LEMMA TargetTyped ==
    ASSUME NEW t \in Text
    PROVE  Target(t) \in [scheme : {"http", "https", "other"},
                          host : Names \cup Literals \cup {NoHost},
                          port : Nat, path : Paths, query : Queries]
<1>1. t.port.number \in Nat
  <2>1. t.port \in Port
      BY DEF Text
  <2>2. t.port.number \in Numbers
      BY <2>1, UrlAssumption DEF Port
  <2> QED BY <2>2, UrlAssumption
<1>2. DefaultPort(t.scheme) \in Nat
    BY DEF DefaultPort
<1> QED BY <1>1, <1>2, UrlAssumption DEF Text, Target

LEMMA InitInv == Init => Inv
BY UrlAssumption DEF Init, Inv, TypeOK, StoredParsesToItself, AddedAsAsked, Nothing

LEMMA StepInv == Inv /\ [Next]_vars => Inv'
<1> SUFFICES ASSUME Inv, [Next]_vars PROVE Inv'
    OBVIOUS
<1> USE DEF Inv
<1>1. ASSUME NEW t \in Text, Add(t) PROVE Inv'
  <2>1. CASE ~Valid(t) /\ answer' = "invalid" /\ UNCHANGED <<rows, asked>>
      BY <2>1 DEF TypeOK, StoredParsesToItself, AddedAsAsked
  <2>2. CASE Valid(t) /\ Parse(t) \in rows /\ asked' = Target(t) /\ answer' = "duplicate"
             /\ UNCHANGED rows
      BY <2>2, TargetTyped, ParseKeepsTarget DEF TypeOK, StoredParsesToItself, AddedAsAsked
  <2>3. CASE Valid(t) /\ rows' = rows \cup {Parse(t)} /\ asked' = Target(t)
             /\ answer' = "added"
    <3>1. TypeOK'
      <4>1. Parse(t) \in Text /\ Parse(t).path # NoPath
          BY <2>3, ParseInText
      <4>2. ~Parse(t).capitals /\ ~Parse(t).fragment
          BY ParseFields
      <4> QED BY <2>3, <4>1, <4>2, TargetTyped DEF TypeOK
    <3>2. StoredParsesToItself'
        BY <2>3, ParseIdempotent DEF StoredParsesToItself
    <3>3. AddedAsAsked'
        BY <2>3, ParseKeepsTarget DEF AddedAsAsked
    <3> QED BY <3>1, <3>2, <3>3
  <2> QED BY <1>1, <2>1, <2>2, <2>3 DEF Add
<1>2. ASSUME NEW t \in rows, Refresh(t) \/ Remove(t) PROVE Inv'
    BY <1>2 DEF Refresh, Remove, TypeOK, StoredParsesToItself, AddedAsAsked
<1>3. CASE UNCHANGED vars
    BY <1>3 DEF vars, TypeOK, StoredParsesToItself, AddedAsAsked
<1> QED BY <1>1, <1>2, <1>3 DEF Next

LEMMA Invariance == Spec => []Inv
BY InitInv, StepInv, PTL DEF Spec

(* Rows are normal texts.                                                     *)
THEOREM TypeCorrect == Spec => []TypeOK
<1>1. Inv => TypeOK
    BY DEF Inv
<1> QED BY <1>1, Invariance, PTL

(* Refresh can parse every row, and checks what Add checked.                  *)
THEOREM StoredParses == Spec => []StoredParsesToItself
<1>1. Inv => StoredParsesToItself
    BY DEF Inv
<1> QED BY <1>1, Invariance, PTL

(* What is added is what was asked for.                                       *)
THEOREM AddedFaithful == Spec => []AddedAsAsked
<1>1. Inv => AddedAsAsked
    BY DEF Inv
<1> QED BY <1>1, Invariance, PTL

(* The UNIQUE constraint on texts is one on targets.                          *)
THEOREM UniqueTargets == Spec => []OneRowPerTarget
<1>1. Inv => OneRowPerTarget
  <2> SUFFICES ASSUME Inv, NEW t \in rows, NEW u \in rows, Target(t) = Target(u)
               PROVE  t = u
      BY DEF OneRowPerTarget
  <2>1. t \in Text /\ u \in Text
      BY DEF Inv, TypeOK
  <2>2. Valid(t) /\ Parse(t) = t /\ Valid(u) /\ Parse(u) = u
      BY DEF Inv, StoredParsesToItself
  <2> QED BY <2>1, <2>2, NormalFormUnique
<1> QED BY <1>1, Invariance, PTL

=============================================================================
