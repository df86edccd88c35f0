-------------------------- MODULE EndpointCheckProofs --------------------------
(* For any hosts, addresses and lookups, any timeouts and any number of       *)
(* redirects: where a check connects to, how long it takes, what it stores,   *)
(* what the admin is told, and that every step brings the end nearer.         *)
EXTENDS EndpointCheck, SequenceTheorems, TLAPS

-----------------------------------------------------------------------------
(* Lookups and outcomes.                                                      *)

LEMMA LookupErrorFacts ==
    ASSUME NEW l \in Lookups \cup {Failed}
    PROVE  /\ LookupError(l) \in {Nil, {"failed"}, {"probe-unsafe"}}
           /\ HostError(LookupError(l)) \in {Nil, {"failed"}, {"unsafe"}}
           /\ HostError(LookupError(l)) = Nil => LookupError(l) = Nil
           /\ LookupError(l) = Nil => /\ l \in Lookups /\ l # <<>>
                                      /\ Elements(l) \cap Internal = {}
BY DEF LookupError, HostError, Nil

LEMMA RepliesKnown ==
    ASSUME NEW l \in Replies
    PROVE  l \in Lookups \cup {Failed}
BY DEF Replies, CalmLookups, Literals

LEMMA ListFacts ==
    ASSUME NEW l \in Lookups, l # <<>>
    PROVE  /\ Len(l) \in Nat /\ 1 <= Len(l)
           /\ \A n \in 1..Len(l) : l[n] \in Addrs /\ l[n] \in Elements(l)
<1>1. l \in Seq(Addrs)
    BY CheckAssumption
<1>2. Len(l) \in Nat /\ DOMAIN l = 1..Len(l) /\ Len(l) # 0
    BY <1>1, EmptySeq, LenProperties
<1> QED BY <1>1, <1>2, ElementOfSeq DEF Elements

LEMMA TakesNat ==
    ASSUME NEW m \in Nat, NEW d \in Takes(m)
    PROVE  d \in Nat /\ d <= m
BY DEF Takes

LEMMA RemainingNat ==
    ASSUME TypeOK
    PROVE  Remaining \in Nat
BY DEF TypeOK, Remaining

(* A dial takes no longer than is left.                                       *)
LEMMA DialTimes ==
    ASSUME TypeOK, NEW b, NEW d \in DialTime(b)
    PROVE  d \in Nat /\ d <= Remaining
BY RemainingNat, TakesNat DEF DialTime

LEMMA Timeouts ==
    /\ ResolverTimeout \in Nat /\ RequestTimeout \in Nat /\ TLSTimeout \in Nat
    /\ RequestTimeout > 0 /\ TLSTimeout > 0
BY CheckAssumption

LEMMA TLSDeadline ==
    ASSUME NEW n \in Nat, NEW d, d = n + TLSTimeout, n <= 2 * ResolverTimeout + RequestTimeout
    PROVE  /\ d \in Nat /\ n <= d /\ d > 0
           /\ d <= 2 * ResolverTimeout + RequestTimeout + TLSTimeout
           /\ n <= 2 * ResolverTimeout + RequestTimeout + TLSTimeout
BY Timeouts

LEMMA RequestDeadline ==
    ASSUME NEW n \in Nat, NEW d, d = n + RequestTimeout, n <= ResolverTimeout
    PROVE  /\ d \in Nat /\ n <= d /\ d > 0 /\ n <= d + ResolverTimeout
           /\ d <= ResolverTimeout + RequestTimeout
           /\ n <= 2 * ResolverTimeout + RequestTimeout + TLSTimeout
BY Timeouts

(* The end of the HTTP probe, field by field.                                 *)
LEMMA HTTPEndsFacts ==
    ASSUME TypeOK, NEW r \in BOOLEAN, NEW e \in SUBSET Sentinels, HTTPEnds(r, e)
    PROVE  /\ result' \in CheckResult
           /\ result'.http.responded = r
           /\ result'.http.checked = (ips # <<>>)
           /\ result'.tls.enabled <=> https /\ ips # <<>>
           /\ result'.tls.valid = result.tls.valid
           /\ result'.tls.expires = result.tls.expires
           /\ failures' \in Failures /\ failures'.host = failures.host
           /\ failures'.http = e /\ failures'.tls = failures.tls
           /\ try' = 1 /\ deadline' = now' + TLSTimeout
           /\ at' = IF https THEN "handshaking" ELSE "storing"
<1>1. /\ result \in [http : HTTPResult, tls : TLSResult]
      /\ failures \in [host : SUBSET Sentinels, http : SUBSET Sentinels, tls : SUBSET Sentinels]
    BY DEF TypeOK, CheckResult, Failures
<1>2. result' = [http |-> [responded |-> r, checked |-> ips # <<>>],
                 tls |-> [result.tls EXCEPT !.enabled = https /\ ips # <<>>]]
    BY <1>1 DEF HTTPEnds
<1>3. result.tls \in [enabled : BOOLEAN, valid : BOOLEAN, expires : BOOLEAN]
    BY <1>1 DEF TLSResult
<1>4. /\ result'.http = [responded |-> r, checked |-> ips # <<>>]
      /\ result'.tls = [result.tls EXCEPT !.enabled = https /\ ips # <<>>]
    BY <1>2
<1>5. failures' = [failures EXCEPT !.http = e]
    BY DEF HTTPEnds
<1>6. /\ failures' \in Failures /\ failures'.host = failures.host
      /\ failures'.http = e /\ failures'.tls = failures.tls
    BY <1>1, <1>5 DEF Failures
<1>7. result' \in CheckResult
    BY <1>2, <1>3 DEF CheckResult, HTTPResult, TLSResult
<1>8. result'.http.responded = r /\ result'.http.checked = (ips # <<>>)
    BY <1>4
<1>9. /\ result'.tls.enabled <=> https /\ ips # <<>>
      /\ result'.tls.valid = result.tls.valid
      /\ result'.tls.expires = result.tls.expires
    BY <1>3, <1>4
<1> QED BY <1>6, <1>7, <1>8, <1>9 DEF HTTPEnds, Goto

-----------------------------------------------------------------------------
(* The inductive invariant.                                                   *)

Early == at \in {"validating", "inserting"}
Probing == at \in {"dialing", "awaiting", "redirecting"}

(* What has been validated, and where the call is in its lists and its row.   *)
Shape ==
    /\ \A h \in Hosts : Elements(pinned[h]) \cap Internal = {}
    /\ Elements(ips) \cap Internal = {}
    /\ conn \notin Internal
    /\ stored => at = "answered"
    /\ kind = "refresh" => row /\ at # "inserting"
    /\ Early => target.host = Origin /\ try = 1
    /\ Early /\ kind = "add" => ~row
    /\ ~Early /\ at # "answered" => row
    /\ Probing \/ at = "handshaking" => ips # <<>>
    /\ at = "inserting" => ips # <<>> \/ failures.host # Nil
    /\ at = "dialing" => pinned[target.host] # <<>> /\ try <= Len(pinned[target.host])
    /\ at = "handshaking" => try <= Len(ips)

(* The failures and the result belong together, as far as they are known:     *)
(* which failures there are, what a failure of the host, the HTTP probe and   *)
(* the TLS probe leave as the result, and what that makes of the properties.  *)
Kinds ==
    /\ "exists" \notin failures.http /\ "unsafe" \notin failures.http
    /\ "exists" \notin failures.tls /\ "unsafe" \notin failures.tls
    /\ failures.host \in {Nil, {"failed"}, {"unsafe"}}
    /\ kind = "add" => "unsafe" \notin failures.host
HostFailed ==
    failures.host # Nil =>
        /\ result = HostFailure(https) /\ failures.http = Nil /\ failures.tls = Nil
        /\ at \in {"inserting", "storing", "answered"}
NotProbed ==
    Early \/ Probing => failures.host # Nil \/ (failures = NoFailure /\ result = ZeroResult)
Probed ==
    at \in {"handshaking", "storing"} /\ failures.host = Nil =>
        /\ result.http.checked
        /\ result.tls.enabled <=> https
        /\ result.http.responded \/ failures.http # Nil
Shaken ==
    /\ at = "handshaking" => https /\ failures.tls = Nil /\ ~result.tls.valid
    /\ at = "storing" /\ failures.host = Nil =>
          /\ failures.tls # Nil => https /\ ~result.tls.valid
          /\ failures.tls = Nil /\ https => result.tls.valid
Said == StoredNeverPending /\ AddedIffSaid /\ MessageAgreesWithPage

Outcome == Kinds /\ HostFailed /\ NotProbed /\ Probed /\ Shaken /\ Said

(* How late it may be.                                                        *)
Clock ==
    /\ at = "validating" => now <= ResolverTimeout /\ (connected => now = 0)
    /\ at = "inserting" => now <= ResolverTimeout
    /\ Probing => deadline <= ResolverTimeout + RequestTimeout
    /\ at = "awaiting" => now <= deadline
    /\ at = "redirecting" =>
          now <= deadline + ResolverTimeout /\ (connected => now <= deadline)
    /\ at = "dialing" => now <= deadline + ResolverTimeout
    /\ at = "handshaking" =>
          now <= deadline /\ deadline <= 2 * ResolverTimeout + RequestTimeout + TLSTimeout
    /\ now <= 2 * ResolverTimeout + RequestTimeout + TLSTimeout

(* When all is calm, an address that works is still to come.                  *)
Working(list) == \E n \in try..Len(list) : list[n] \in Up

Calm ==
    /\ connected /\ now = 0 /\ failures = NoFailure
    /\ Probing \/ at = "handshaking" => deadline > 0
    /\ ips \in CalmLookups \cup {<<>>}
    /\ \A h \in Hosts : pinned[h] \in CalmLookups \cup {<<>>}
    /\ at = "dialing" => Working(pinned[target.host])
    /\ at = "handshaking" => Working(ips)
    /\ at \in {"handshaking", "storing"} => result.http.responded
    /\ stored => State(result) = "Responding" /\ answer \in {"added", "refreshed"}

Inv == TypeOK /\ Shape /\ Outcome /\ Clock /\ (calm => Calm)

LEMMA InitInv == Init => Inv
<1> SUFFICES ASSUME Init PROVE Inv
    OBVIOUS
<1> USE CheckAssumption
<1>1. ZeroResult \in CheckResult /\ NoFailure \in Failures
    BY DEF ZeroResult, ZeroHTTP, ZeroTLS, CheckResult, HTTPResult, TLSResult, NoFailure,
           Failures, Nil
<1>2. TypeOK
  <2>1. pinned \in [Hosts -> Lookups \cup {<<>>}]
      BY DEF Init
  <2>2. target \in Target
      BY DEF Init, Target
  <2>3. hops \in 0..MaxRedirects /\ row \in BOOLEAN /\ try \in Nat \ {0}
      BY DEF Init
  <2> QED BY <1>1, <2>1, <2>2, <2>3 DEF Init, TypeOK, Steps
<1>3. Elements(<<>>) = {}
    BY DEF Elements
<1>4. Shape
    BY <1>3 DEF Init, Shape, Early, Probing
<1>5. Outcome
    BY DEF Init, Outcome, Kinds, HostFailed, NotProbed, Probed, Shaken, Said, Early, Probing,
           NoFailure, Nil, StoredNeverPending, AddedIffSaid, MessageAgreesWithPage
<1>6. Clock
    BY DEF Init, Clock, Probing
<1>7. Calm
    BY DEF Init, Calm, Probing
<1> QED BY <1>2, <1>4, <1>5, <1>6, <1>7 DEF Inv

LEMMA WorksFirst ==
    ASSUME NEW l \in CalmLookups
    PROVE  l # <<>> /\ \E n \in 1..Len(l) : l[n] \in Up
<1>1. l \in Lookups /\ Elements(l) \cap Up # {}
    BY DEF CalmLookups
<1>2. PICK n \in DOMAIN l : l[n] \in Up
    BY <1>1 DEF Elements
<1>3. DOMAIN l = 1..Len(l)
    BY <1>1, CheckAssumption, LenProperties
<1>4. l # <<>>
    BY <1>2
<1> QED BY <1>2, <1>3, <1>4

-----------------------------------------------------------------------------
(* The end of the HTTP probe.                                                 *)

LEMMA EndsInv ==
    ASSUME Inv, Probing, NEW r \in BOOLEAN,
           NEW e \in {Nil, {"failed"}, {"probe-unsafe"}, {"certificate"}, {"redirect"}},
           r \/ e # Nil, HTTPEnds(r, e),
           UNCHANGED <<call, connected, ips, pinned, target, hops, end>>,
           conn' \in Addrs \cup {NoAddr}, conn' \notin Internal,
           now' \in Nat, now' <= 2 * ResolverTimeout + RequestTimeout,
           calm => r /\ e = Nil /\ now' = 0
    PROVE  Inv'
<1>1. e \in SUBSET Sentinels /\ {"exists", "unsafe"} \cap e = {}
    BY DEF Sentinels, Nil
<1>2. TypeOK
    BY DEF Inv
<1>3. /\ result' \in CheckResult
      /\ result'.http.responded = r
      /\ result'.http.checked = (ips # <<>>)
      /\ result'.tls.enabled <=> https /\ ips # <<>>
      /\ result'.tls.valid = result.tls.valid
      /\ failures' \in Failures /\ failures'.host = failures.host
      /\ failures'.http = e /\ failures'.tls = failures.tls
      /\ try' = 1 /\ deadline' = now' + TLSTimeout
      /\ at' = IF https THEN "handshaking" ELSE "storing"
    BY <1>1, <1>2, HTTPEndsFacts
<1>4. /\ kind' = kind /\ https' = https /\ calm' = calm /\ connected' = connected
      /\ ips' = ips /\ pinned' = pinned /\ target' = target /\ hops' = hops
      /\ row' = row /\ stored' = stored /\ answer' = answer
    BY DEF call, end
<1>5. ips # <<>> /\ row /\ ~stored
    BY DEF Inv, Shape, Probing, Early
<1>6. failures = NoFailure /\ result = ZeroResult
    BY DEF Inv, Outcome, HostFailed, NotProbed, Probing
<1>7. failures.host = Nil /\ failures.tls = Nil /\ ~result.tls.valid
    BY <1>6 DEF NoFailure, ZeroResult, ZeroTLS
<1>8. TypeOK'
  <2>1. deadline' \in Nat /\ try' \in Nat \ {0} /\ at' \in Steps
      BY <1>3, CheckAssumption DEF Steps
  <2>2. result' \in CheckResult /\ failures' \in Failures
      BY <1>3
  <2> QED BY <1>2, <1>4, <2>1, <2>2 DEF TypeOK
<1>9. Shape'
  <2>1. ips \in Lookups
      BY <1>2, <1>5 DEF TypeOK
  <2>2. 1 <= Len(ips)
      BY <1>5, <2>1, ListFacts
  <2> QED BY <1>3, <1>4, <1>5, <2>2 DEF Inv, Shape, Early, Probing
<1>10. Outcome'
  <2>1. at' \in {"handshaking", "storing"} /\ failures'.host = Nil /\ failures'.tls = Nil
      BY <1>3, <1>7
  <2>2. ~Early' /\ ~Probing'
      BY <2>1 DEF Early, Probing
  <2>3. Kinds'
      BY <1>1, <1>3, <2>1 DEF Kinds, Nil
  <2>4. HostFailed' /\ NotProbed'
      BY <2>1, <2>2 DEF HostFailed, NotProbed
  <2>5. Probed'
    <3>1. result'.http.checked
        BY <1>3, <1>5
    <3>2. result'.tls.enabled <=> https'
        BY <1>3, <1>4, <1>5
    <3>3. result'.http.responded \/ failures'.http # Nil
        BY <1>3
    <3> QED BY <3>1, <3>2, <3>3 DEF Probed
  <2>6. Shaken'
    <3>1. at' = "handshaking" => https'
        BY <1>3, <1>4
    <3>2. at' = "storing" => ~https'
        BY <1>3, <1>4
    <3>3. ~result'.tls.valid
        BY <1>3, <1>7
    <3> QED BY <2>1, <3>1, <3>2, <3>3 DEF Shaken
  <2>7. Said'
      BY <1>4, <1>5, <2>1 DEF Said, StoredNeverPending, AddedIffSaid, MessageAgreesWithPage
  <2> QED BY <2>3, <2>4, <2>5, <2>6, <2>7 DEF Outcome
<1>11. Clock'
  <2>1. at' \in {"handshaking", "storing"}
      BY <1>3
  <2>2. deadline' = now' + TLSTimeout
      BY <1>3
  <2>3. /\ now' <= deadline' /\ deadline' <= 2 * ResolverTimeout + RequestTimeout + TLSTimeout
        /\ now' <= 2 * ResolverTimeout + RequestTimeout + TLSTimeout
      BY <2>2, TLSDeadline
  <2> QED BY <2>1, <2>3 DEF Clock, Probing
<1>12. ASSUME calm PROVE Calm'
  <2>1. Calm
      BY <1>12 DEF Inv
  <2>2. ips \in CalmLookups
      BY <1>5, <2>1 DEF Calm
  <2>3. Working(ips)'
    <3>1. \E n \in 1..Len(ips) : ips[n] \in Up
        BY <2>2, WorksFirst
    <3> QED BY <1>3, <1>4, <3>1 DEF Working
  <2>4. failures' = NoFailure
    <3>1. failures' = [host |-> failures'.host, http |-> failures'.http, tls |-> failures'.tls]
        BY <1>3 DEF Failures
    <3> QED BY <1>3, <1>7, <1>12, <3>1 DEF NoFailure
  <2>5. at' \notin {"dialing", "awaiting", "redirecting"} /\ ~stored'
      BY <1>3, <1>4, <1>5
  <2>6. deadline' > 0 /\ now' = 0
      BY <1>3, <1>12, CheckAssumption
  <2>7. result'.http.responded
      BY <1>3, <1>12
  <2>8. connected' /\ ips' \in CalmLookups
      BY <1>4, <2>1, <2>2 DEF Calm
  <2>9. \A h \in Hosts : pinned'[h] \in CalmLookups \cup {<<>>}
      BY <1>4, <2>1 DEF Calm
  <2> QED BY <2>3, <2>4, <2>5, <2>6, <2>7, <2>8, <2>9 DEF Calm, Probing
<1> QED BY <1>4, <1>8, <1>9, <1>10, <1>11, <1>12 DEF Inv

-----------------------------------------------------------------------------
(* The client leaves.                                                         *)

LEMMA RemainingBound ==
    ASSUME TypeOK, NEW d \in Nat, d <= Remaining
    PROVE  now + d \in Nat /\ (d = 0 \/ now + d <= deadline)
BY DEF TypeOK, Remaining

LEMMA LeaveInv ==
    ASSUME Inv, Leave
    PROVE  Inv'
<1>1. /\ connected /\ ~calm /\ connected' = FALSE
      /\ kind' = kind /\ https' = https /\ calm' = calm /\ at' = at /\ deadline' = deadline
      /\ ips' = ips /\ pinned' = pinned /\ target' = target /\ conn' = conn /\ hops' = hops
      /\ try' = try /\ result' = result /\ failures' = failures
      /\ row' = row /\ stored' = stored /\ answer' = answer
    BY DEF Leave, call, http, outcome, end
<1>3. TypeOK
    BY DEF Inv
<1>2. PICK d \in Nat :
         /\ now' = now + d
         /\ at \in {"validating", "redirecting"} => d <= ResolverTimeout
         /\ at \in {"dialing", "awaiting", "handshaking"} => d <= Remaining
         /\ at \in {"inserting", "storing", "answered"} => d = 0
  <2>1. at \in Steps /\ Remaining \in Nat
      BY <1>3, RemainingNat DEF TypeOK
  <2>2. CASE at \in {"validating", "redirecting"}
    <3>1. PICK d \in 0..ResolverTimeout : now' = now + d
        BY <2>2 DEF Leave
    <3> QED BY <2>2, <3>1, Timeouts
  <2>3. CASE at \in {"dialing", "awaiting", "handshaking"}
    <3>1. PICK d \in 0..Remaining : now' = now + d
        BY <2>3 DEF Leave
    <3> QED BY <2>1, <2>3, <3>1
  <2>4. CASE at \in {"inserting", "storing", "answered"}
    <3>1. PICK d \in {0} : now' = now + d
        BY <2>4 DEF Leave
    <3> QED BY <2>4, <3>1
  <2> QED BY <2>1, <2>2, <2>3, <2>4 DEF Steps
<1>5. now' \in Nat
    BY <1>2, <1>3 DEF TypeOK
<1>6. TypeOK'
    BY <1>1, <1>3, <1>5 DEF TypeOK
<1>7. Shape'
    BY <1>1 DEF Inv, Shape, Early, Probing
<1>8. Outcome'
  <2>1. Kinds' /\ HostFailed'
      BY <1>1 DEF Inv, Outcome, Kinds, HostFailed
  <2>2. NotProbed'
      BY <1>1 DEF Inv, Outcome, NotProbed, Early, Probing
  <2>3. Probed' /\ Shaken'
      BY <1>1 DEF Inv, Outcome, Probed, Shaken
  <2>4. StoredNeverPending'
      BY <1>1 DEF Inv, Outcome, Said, StoredNeverPending
  <2>5. AddedIffSaid'
      BY <1>1 DEF Inv, Outcome, Said, AddedIffSaid
  <2>6. MessageAgreesWithPage'
      BY <1>1 DEF Inv, Outcome, Said, MessageAgreesWithPage, RefusedRedirect
  <2> QED BY <2>1, <2>2, <2>3, <2>4, <2>5, <2>6 DEF Outcome, Said
<1>9. Clock'
  <2>1. Clock /\ now \in Nat /\ deadline \in Nat
      BY DEF Inv, TypeOK
  <2>2. CASE at = "validating"
      BY <1>1, <1>2, <1>5, <2>1, <2>2, Timeouts DEF Clock, Probing
  <2>3. CASE at = "redirecting"
      BY <1>1, <1>2, <1>5, <2>1, <2>3, Timeouts DEF Clock, Probing
  <2>4. CASE at \in {"dialing", "awaiting", "handshaking"}
    <3>1. now' = now \/ now' <= deadline
      <4>1. PICK e \in Nat : now' = now + e /\ e <= Remaining
          BY <1>2, <2>4
      <4>2. e = 0 \/ now + e <= deadline
          BY <1>3, <4>1, RemainingBound
      <4> QED BY <2>1, <4>1, <4>2
    <3> QED BY <1>1, <1>2, <1>5, <2>1, <2>4, <3>1, Timeouts DEF Clock, Probing
  <2>5. CASE at \in {"inserting", "storing", "answered"}
    <3>1. now' = now
        BY <1>2, <2>1, <2>5
    <3> QED BY <1>1, <2>1, <2>5, <3>1 DEF Clock, Probing
  <2> QED BY <1>3, <2>2, <2>3, <2>4, <2>5 DEF TypeOK, Steps
<1> QED BY <1>1, <1>6, <1>7, <1>8, <1>9 DEF Inv

-----------------------------------------------------------------------------
(* The beginning of the call.                                                 *)

LEMMA AtFacts ==
    /\ Early <=> at = "validating" \/ at = "inserting"
    /\ Probing <=> at = "dialing" \/ at = "awaiting" \/ at = "redirecting"
BY DEF Early, Probing

LEMMA BeginsInv ==
    ASSUME Inv, Early, NEW l \in Lookups, l # <<>>, Elements(l) \cap Internal = {},
           calm => l \in CalmLookups /\ now' = 0, failures = NoFailure, result = ZeroResult,
           HTTPBegins(l), ips' = l, row' = TRUE, now' \in Nat, now' <= ResolverTimeout,
           UNCHANGED <<call, connected, target, try, conn, hops, outcome, stored, answer>>
    PROVE  Inv'
<1>1. /\ kind' = kind /\ https' = https /\ calm' = calm /\ connected' = connected
      /\ target' = target /\ conn' = conn /\ hops' = hops
      /\ try' = try /\ result' = result /\ failures' = failures
      /\ stored' = stored /\ answer' = answer
    BY DEF call, outcome
<1>2. /\ pinned' = [pinned EXCEPT ![Origin] = l]
      /\ deadline' = now' + RequestTimeout
      /\ at' = "dialing"
    BY DEF HTTPBegins, Goto
<1>3. TypeOK
    BY DEF Inv
<1>4. target.host = Origin /\ try = 1
    BY DEF Inv, Shape
<1>5. pinned'[Origin] = l /\ \A h \in Hosts \ {Origin} : pinned'[h] = pinned[h]
    BY <1>2, <1>3, CheckAssumption DEF TypeOK
<1>6. 1 <= Len(l)
    BY ListFacts
<1>7. ~stored
    BY DEF Inv, Shape, Early
<1>8. TypeOK'
  <2>1. pinned' \in [Hosts -> Lookups \cup {<<>>}]
      BY <1>2, <1>3 DEF TypeOK
  <2>2. deadline' \in Nat /\ at' \in Steps /\ row' \in BOOLEAN
      BY <1>2, RequestDeadline DEF Steps
  <2> QED BY <1>1, <1>3, <2>1, <2>2 DEF TypeOK
<1>9. Shape'
  <2>1. \A h \in Hosts : Elements(pinned'[h]) \cap Internal = {}
      BY <1>5 DEF Inv, Shape
  <2>2. ~Early' /\ at' # "handshaking"
      BY <1>2 DEF Early
  <2>3. conn' \notin Internal
      BY <1>1 DEF Inv, Shape
  <2>4. pinned'[target'.host] = l /\ try' = 1
      BY <1>1, <1>4, <1>5
  <2> QED BY <1>1, <1>2, <1>6, <1>7, <2>1, <2>2, <2>3, <2>4 DEF Shape
<1>10. Outcome'
  <2>1. failures'.host = Nil /\ failures'.http = Nil /\ failures'.tls = Nil
      BY <1>1 DEF NoFailure
  <2>2. Kinds' /\ HostFailed' /\ NotProbed'
      BY <1>1, <2>1 DEF Kinds, HostFailed, NotProbed, Nil
  <2>3. Probed' /\ Shaken' /\ Said'
      BY <1>1, <1>2, <1>7 DEF Probed, Shaken, Said, StoredNeverPending, AddedIffSaid,
                              MessageAgreesWithPage
  <2> QED BY <2>2, <2>3 DEF Outcome
<1>11. Clock'
  <2>1. deadline' \in Nat /\ deadline' <= ResolverTimeout + RequestTimeout /\ now' <= deadline'
        /\ now' <= 2 * ResolverTimeout + RequestTimeout + TLSTimeout
        /\ now' <= deadline' + ResolverTimeout
      BY <1>2, RequestDeadline
  <2> QED BY <1>2, <2>1 DEF Clock
<1>12. ASSUME calm PROVE Calm'
  <2>1. Calm /\ l \in CalmLookups
      BY <1>12 DEF Inv
  <2>2. Working(pinned[target.host])'
    <3>1. pinned'[target'.host] = l /\ try' = 1
        BY <1>1, <1>4, <1>5
    <3>2. \E n \in 1..Len(l) : l[n] \in Up
        BY <2>1, WorksFirst
    <3> QED BY <3>1, <3>2 DEF Working
  <2>3. deadline' > 0 /\ now' = 0
      BY <1>2, <1>12, Timeouts
  <2>4. \A h \in Hosts : pinned'[h] \in CalmLookups \cup {<<>>}
      BY <1>5, <2>1 DEF Calm
  <2>5. connected' /\ failures' = NoFailure
      BY <1>1, <2>1 DEF Calm
  <2> QED BY <1>1, <1>2, <1>7, <2>1, <2>2, <2>3, <2>4, <2>5 DEF Calm
<1> QED BY <1>1, <1>8, <1>9, <1>10, <1>11, <1>12 DEF Inv

(* The call is answered, with nothing stored.                                 *)
LEMMA AnsweredInv ==
    ASSUME Inv, Early, kind = "add",
           NEW a \in {"duplicate", "unsafe", "internal-error"}, calm => now' = 0,
           Answered(a), row' \in BOOLEAN, a # "internal-error" => row' = row,
           now' \in Nat, now' <= ResolverTimeout,
           UNCHANGED <<call, connected, deadline, ips, pinned, target, try, conn, hops, outcome,
                       stored>>
    PROVE  Inv'
<1>1. /\ kind' = kind /\ https' = https /\ calm' = calm /\ connected' = connected
      /\ deadline' = deadline /\ ips' = ips /\ pinned' = pinned
      /\ target' = target /\ conn' = conn /\ hops' = hops
      /\ try' = try /\ result' = result /\ failures' = failures
      /\ stored' = stored /\ answer' = a /\ at' = "answered"
    BY DEF call, outcome, Answered, Goto
<1>2. ~stored /\ ~row
    BY DEF Inv, Shape, Early
<1>3. TypeOK'
    BY <1>1 DEF Inv, TypeOK, Steps, Answers, SaysAdded, SaysNotAdded
<1>4. Shape'
    BY <1>1, <1>2 DEF Inv, Shape, Early, Probing
<1>5. Outcome'
  <2>1. Kinds'
      BY <1>1 DEF Inv, Outcome, Kinds
  <2>2. HostFailed'
      BY <1>1 DEF Inv, Outcome, HostFailed
  <2>3. NotProbed' /\ Probed' /\ Shaken'
      BY <1>1 DEF NotProbed, Probed, Shaken, Early, Probing
  <2>4. a \notin SaysAdded /\ (a \in SaysNotAdded => ~row')
      BY <1>2 DEF SaysAdded, SaysNotAdded
  <2>5. Said'
      BY <1>1, <1>2, <2>4 DEF Said, StoredNeverPending, AddedIffSaid, MessageAgreesWithPage
  <2> QED BY <2>1, <2>2, <2>3, <2>5 DEF Outcome
<1>6. Clock'
  <2>1. now' <= 2 * ResolverTimeout + RequestTimeout + TLSTimeout
      BY RequestDeadline, Timeouts
  <2> QED BY <1>1, <2>1 DEF Clock, Probing
<1>7. ASSUME calm PROVE Calm'
    BY <1>1, <1>2, <1>7 DEF Inv, Calm, Probing
<1> QED BY <1>1, <1>3, <1>4, <1>5, <1>6, <1>7 DEF Inv

LEMMA ValidateInv ==
    ASSUME Inv, Validate
    PROVE  Inv'
<1>1. PICK l \in Replies, d \in Takes(ResolverTimeout) :
         LET err == HostError(LookupError(l)) IN
         /\ now' = now + d
         /\ \/ /\ err # Nil /\ kind = "add" /\ "unsafe" \in err
               /\ Answered(AddAnswer(err, NoFailure, ZeroResult))
               /\ UNCHANGED <<deadline, ips, pinned, outcome>>
            \/ /\ err # Nil /\ ~(kind = "add" /\ "unsafe" \in err)
               /\ result' = HostFailure(https)
               /\ failures' = [failures EXCEPT !.host = err]
               /\ Goto(IF kind = "add" THEN "inserting" ELSE "storing")
               /\ UNCHANGED <<deadline, ips, pinned, answer>>
            \/ /\ err = Nil
               /\ ips' = l
               /\ IF kind = "add"
                  THEN Goto("inserting") /\ UNCHANGED <<deadline, pinned>>
                  ELSE HTTPBegins(l)
               /\ UNCHANGED <<outcome, answer>>
    BY DEF Validate
<1> DEFINE err == HostError(LookupError(l))
<1>2. /\ at = "validating" /\ kind' = kind /\ https' = https /\ calm' = calm
      /\ connected' = connected /\ target' = target /\ try' = try /\ conn' = conn
      /\ hops' = hops /\ row' = row /\ stored' = stored
    BY DEF Validate, call
<1>3. /\ err \in {Nil, {"failed"}, {"unsafe"}}
      /\ err = Nil => l \in Lookups /\ l # <<>> /\ Elements(l) \cap Internal = {}
    BY RepliesKnown, LookupErrorFacts
<1>4. TypeOK
    BY DEF Inv
<1>5. now' \in Nat /\ now' <= ResolverTimeout
  <2>1. d \in Nat /\ d <= ResolverTimeout
      BY TakesNat, Timeouts
  <2>2. connected \/ d = 0
      BY DEF Takes
  <2>3. now \in Nat /\ now <= ResolverTimeout /\ (connected => now = 0)
      BY <1>2, <1>4 DEF Inv, Clock, TypeOK
  <2> QED BY <1>1, <2>1, <2>2, <2>3, Timeouts
<1>6. calm => l \in CalmLookups /\ now' = 0 /\ err = Nil
  <2> SUFFICES ASSUME calm PROVE l \in CalmLookups /\ now' = 0 /\ err = Nil
      OBVIOUS
  <2>1. l \in CalmLookups
      BY DEF Replies
  <2>2. d = 0 /\ now = 0
      BY DEF Takes, Inv, Calm
  <2>3. l \in Lookups /\ l # <<>> /\ Elements(l) \cap Internal = {}
      BY <2>1, WorksFirst DEF CalmLookups
  <2>4. l # Failed
      BY <2>3, CheckAssumption
  <2>5. err = Nil
      BY <2>3, <2>4 DEF LookupError, HostError, Nil
  <2> QED BY <1>1, <2>1, <2>2, <2>5
<1>7. Early /\ ~stored /\ failures = NoFailure /\ result = ZeroResult
  <2>1. Early /\ ~stored
      BY <1>2 DEF Inv, Shape, Early
  <2>2. failures.host = Nil
      BY <1>2 DEF Inv, Outcome, HostFailed
  <2> QED BY <2>1, <2>2 DEF Inv, Outcome, NotProbed
<1>8. target.host = Origin /\ try = 1 /\ (kind = "add" <=> ~row)
    BY <1>2, <1>4 DEF Inv, Shape, Early, TypeOK
<1>9. CASE /\ err # Nil /\ kind = "add" /\ "unsafe" \in err
           /\ Answered(AddAnswer(err, NoFailure, ZeroResult))
           /\ UNCHANGED <<deadline, ips, pinned, outcome>>
  <2>1. AddAnswer(err, NoFailure, ZeroResult) = "unsafe"
      BY <1>3, <1>9 DEF AddAnswer, Nil
  <2>2. Answered("unsafe") /\ ~calm
      BY <1>6, <1>9, <2>1
  <2> HIDE DEF err
  <2> QED BY <1>2, <1>4, <1>5, <1>7, <1>9, <2>2, AnsweredInv DEF call, TypeOK
<1>10. CASE /\ err # Nil /\ ~(kind = "add" /\ "unsafe" \in err)
            /\ result' = HostFailure(https)
            /\ failures' = [failures EXCEPT !.host = err]
            /\ Goto(IF kind = "add" THEN "inserting" ELSE "storing")
            /\ UNCHANGED <<deadline, ips, pinned, answer>>
  <2> HIDE DEF err
  <2>1. /\ at' = (IF kind = "add" THEN "inserting" ELSE "storing")
        /\ deadline' = deadline /\ ips' = ips /\ pinned' = pinned /\ answer' = answer
      BY <1>10 DEF Goto
  <2>2. failures' = [host |-> err, http |-> Nil, tls |-> Nil]
      BY <1>7, <1>10 DEF NoFailure
  <2>3. ~calm
      BY <1>6, <1>10
  <2>4. TypeOK'
    <3>1. result' \in CheckResult
        BY <1>4, <1>10 DEF TypeOK, HostFailure, ZeroHTTP, ZeroTLS, CheckResult, HTTPResult, TLSResult
    <3>2. failures' \in Failures
        BY <1>3, <2>2 DEF Failures, Sentinels, Nil
    <3> QED BY <1>2, <1>4, <1>5, <2>1, <3>1, <3>2 DEF TypeOK, Steps
  <2>5. Shape'
    <3>1. failures'.host # Nil
        BY <1>10, <2>2
    <3> QED BY <1>2, <1>4, <1>7, <1>8, <2>1, <3>1 DEF Inv, Shape, Early, Probing, TypeOK
  <2>6. Outcome'
    <3>1. failures'.host = err /\ failures'.http = Nil /\ failures'.tls = Nil
        BY <2>2
    <3>2. Kinds'
        BY <1>2, <1>3, <1>10, <3>1 DEF Kinds, Nil
    <3>3. HostFailed'
        BY <1>2, <1>10, <2>1, <3>1 DEF HostFailed
    <3>4. NotProbed' /\ Probed' /\ Shaken'
        BY <1>10, <2>1, <3>1 DEF NotProbed, Probed, Shaken
    <3>5. Said'
        BY <1>2, <1>7, <2>1 DEF Said, StoredNeverPending, AddedIffSaid, MessageAgreesWithPage
    <3> QED BY <3>2, <3>3, <3>4, <3>5 DEF Outcome
  <2>7. Clock'
    <3>1. now' <= 2 * ResolverTimeout + RequestTimeout + TLSTimeout
        BY <1>5, Timeouts
    <3> QED BY <1>5, <2>1, <3>1 DEF Clock, Probing
  <2> QED BY <1>2, <2>3, <2>4, <2>5, <2>6, <2>7 DEF Inv
<1>11. CASE /\ err = Nil /\ ips' = l
            /\ kind = "add" /\ Goto("inserting") /\ UNCHANGED <<deadline, pinned>>
            /\ UNCHANGED <<outcome, answer>>
  <2> HIDE DEF err
  <2>1. /\ at' = "inserting" /\ deadline' = deadline /\ pinned' = pinned /\ answer' = answer
        /\ result' = result /\ failures' = failures
      BY <1>11 DEF Goto, outcome
  <2>2. TypeOK'
      BY <1>2, <1>3, <1>4, <1>5, <1>11, <2>1 DEF TypeOK, Steps
  <2>3. Shape'
      BY <1>2, <1>3, <1>7, <1>8, <1>11, <2>1 DEF Inv, Shape, Early, Probing
  <2>4. Outcome'
    <3>1. failures.host = Nil /\ failures.http = Nil /\ failures.tls = Nil
        BY <1>7 DEF NoFailure
    <3>2. Kinds' /\ HostFailed' /\ NotProbed'
        BY <1>2, <1>7, <2>1, <3>1 DEF Kinds, HostFailed, NotProbed, Nil
    <3>3. Probed' /\ Shaken' /\ Said'
        BY <1>2, <1>7, <2>1 DEF Probed, Shaken, Said, StoredNeverPending, AddedIffSaid,
                                MessageAgreesWithPage
    <3> QED BY <3>2, <3>3 DEF Outcome
  <2>5. Clock'
    <3>1. now' <= 2 * ResolverTimeout + RequestTimeout + TLSTimeout
        BY <1>5, Timeouts
    <3> QED BY <1>5, <2>1, <3>1 DEF Clock, Probing
  <2>6. ASSUME calm PROVE Calm'
      BY <1>2, <1>6, <1>7, <1>11, <2>1, <2>6 DEF Inv, Calm, Probing
  <2> QED BY <1>2, <2>2, <2>3, <2>4, <2>5, <2>6 DEF Inv
<1>12. CASE err = Nil /\ ips' = l /\ kind # "add" /\ HTTPBegins(l) /\ UNCHANGED <<outcome, answer>>
  <2> HIDE DEF err
  <2>1. row' = TRUE
      BY <1>2, <1>4, <1>8, <1>12 DEF TypeOK
  <2> QED BY <1>2, <1>3, <1>5, <1>6, <1>7, <1>12, <2>1, BeginsInv DEF call
<1> QED BY <1>1, <1>9, <1>10, <1>11, <1>12

LEMMA InsertInv ==
    ASSUME Inv, Insert
    PROVE  Inv'
<1>1. /\ at = "inserting" /\ kind' = kind /\ https' = https /\ calm' = calm
      /\ connected' = connected /\ now' = now /\ ips' = ips /\ target' = target /\ try' = try
      /\ conn' = conn /\ hops' = hops /\ result' = result /\ failures' = failures
      /\ stored' = stored
    BY DEF Insert, call, outcome
<1>2. TypeOK
    BY DEF Inv
<1>3. kind = "add" /\ ~row /\ ~stored /\ Early
    BY <1>1, <1>2 DEF Inv, Shape, Early, TypeOK
<1>4. now \in Nat /\ now <= ResolverTimeout
    BY <1>1, <1>2 DEF Inv, Clock, TypeOK
<1>5. CASE row' = TRUE /\ failures.host # Nil /\ Goto("storing") /\ UNCHANGED <<deadline, pinned>>
           /\ UNCHANGED answer
  <2>1. at' = "storing" /\ deadline' = deadline /\ pinned' = pinned /\ answer' = answer
      BY <1>5 DEF Goto
  <2>2. TypeOK'
      BY <1>1, <1>2, <1>5, <2>1 DEF TypeOK, Steps
  <2>3. Shape'
      BY <1>1, <1>3, <1>5, <2>1 DEF Inv, Shape, Early, Probing
  <2>4. Outcome'
    <3>1. Kinds' /\ HostFailed'
        BY <1>1, <2>1 DEF Inv, Outcome, Kinds, HostFailed
    <3>2. NotProbed' /\ Probed' /\ Shaken'
        BY <1>1, <1>5, <2>1 DEF NotProbed, Probed, Shaken
    <3>3. Said'
        BY <1>1, <1>3, <2>1 DEF Said, StoredNeverPending, AddedIffSaid, MessageAgreesWithPage
    <3> QED BY <3>1, <3>2, <3>3 DEF Outcome
  <2>5. Clock'
      BY <1>1, <2>1 DEF Inv, Clock, Probing
  <2>6. ~calm
      BY <1>5 DEF Inv, Calm, NoFailure
  <2> QED BY <1>1, <2>2, <2>3, <2>4, <2>5, <2>6 DEF Inv
<1>6. CASE row' = TRUE /\ failures.host = Nil /\ HTTPBegins(ips) /\ UNCHANGED answer
  <2>1. ips # <<>> /\ ips \in Lookups /\ Elements(ips) \cap Internal = {}
      BY <1>1, <1>2, <1>6 DEF Inv, Shape, TypeOK
  <2>2. calm => ips \in CalmLookups /\ now' = 0
      BY <1>1, <2>1 DEF Inv, Calm
  <2>3. failures = NoFailure /\ result = ZeroResult
      BY <1>3, <1>6 DEF Inv, Outcome, NotProbed
  <2> QED BY <1>1, <1>3, <1>4, <1>6, <2>1, <2>2, <2>3, BeginsInv DEF call, outcome
<1>7. CASE Answered(AddAnswer({"exists"}, NoFailure, ZeroResult)) /\ UNCHANGED <<row, deadline, pinned>>
  <2>1. AddAnswer({"exists"}, NoFailure, ZeroResult) = "duplicate"
      BY DEF AddAnswer, Nil
  <2>2. Answered("duplicate")
      BY <1>7, <2>1
  <2>3. calm => now' = 0
      BY <1>1 DEF Inv, Calm
  <2> QED BY <1>1, <1>2, <1>3, <1>4, <1>7, <2>2, <2>3, AnsweredInv DEF call, outcome, TypeOK
<1>8. CASE ~calm /\ row' \in BOOLEAN /\ Answered(AddAnswer({"failed"}, NoFailure, ZeroResult))
           /\ UNCHANGED <<deadline, pinned>>
  <2>1. AddAnswer({"failed"}, NoFailure, ZeroResult) = "internal-error"
      BY DEF AddAnswer, Nil
  <2>2. Answered("internal-error")
      BY <1>8, <2>1
  <2> QED BY <1>1, <1>3, <1>4, <1>8, <2>2, AnsweredInv DEF call, outcome
<1> QED BY <1>5, <1>6, <1>7, <1>8 DEF Insert

-----------------------------------------------------------------------------
(* The HTTP probe.                                                            *)

(* What the current address does when all is calm, while one that works is    *)
(* still to come: it accepts, or refuses at once and is not the last.         *)
LEMMA CalmDial ==
    ASSUME TypeOK, calm, connected, NEW l \in CalmLookups, Working(l), try <= Len(l),
           NEW b \in Behaviour(l[try])
    PROVE  /\ b = "good" \/ (b = "refuses" /\ try + 1 <= Len(l) /\ \E n \in try + 1 .. Len(l) : l[n] \in Up)
           /\ DialTime(b) = {0}
<1>1. l \in Lookups /\ l # <<>> /\ Elements(l) \subseteq Up \cup Down
    BY WorksFirst DEF CalmLookups
<1>2. Len(l) \in Nat /\ try \in Nat /\ 1 <= try /\ try \in 1..Len(l)
    BY <1>1, ListFacts DEF TypeOK
<1>3. l[try] \in Up \cup Down
    BY <1>1, <1>2, ListFacts
<1>4. CASE l[try] \in Up
    BY <1>4 DEF Behaviour, DialTime, Takes
<1>5. CASE l[try] \notin Up
  <2>1. b = "refuses"
      BY <1>3, <1>5 DEF Behaviour
  <2>2. PICK n \in try..Len(l) : l[n] \in Up
      BY DEF Working
  <2>3. n \in try + 1 .. Len(l) /\ try + 1 <= Len(l)
      BY <1>2, <1>5, <2>2
  <2> QED BY <2>1, <2>2, <2>3 DEF DialTime, Takes
<1> QED BY <1>4, <1>5

LEMMA DialInv ==
    ASSUME Inv, Dial
    PROVE  Inv'
<1> DEFINE l == pinned[target.host]
<1>1. /\ at = "dialing" /\ kind' = kind /\ https' = https /\ calm' = calm
      /\ connected' = connected /\ ips' = ips /\ pinned' = pinned /\ target' = target
      /\ hops' = hops /\ row' = row /\ stored' = stored /\ answer' = answer
      /\ UNCHANGED <<call, connected, ips, pinned, target, hops, end>>
    BY DEF Dial, call, end
<1>2. TypeOK /\ Shape /\ Clock /\ Outcome /\ Probing
    BY <1>1 DEF Inv, Probing
<1>3. l \in Lookups /\ l # <<>> /\ try <= Len(l) /\ Elements(l) \cap Internal = {}
    BY <1>1, <1>2 DEF TypeOK, Shape, Target
<1>4. Len(l) \in Nat /\ try \in 1..Len(l) /\ l[try] \in Addrs /\ l[try] \in Elements(l)
    BY <1>2, <1>3, ListFacts DEF TypeOK
<1>5. now \in Nat /\ deadline \in Nat
    BY <1>2 DEF TypeOK
<1>6. now <= deadline + ResolverTimeout /\ deadline <= ResolverTimeout + RequestTimeout
    BY <1>1, <1>2 DEF Clock
<1>7. now <= 2 * ResolverTimeout + RequestTimeout
    BY <1>5, <1>6, Timeouts
<1>8. calm => connected /\ now = 0 /\ deadline > 0 /\ l \in CalmLookups /\ Working(l)
    BY <1>1, <1>2, <1>3 DEF Inv, Calm, Probing, TypeOK, Target
<1>9. CASE (~connected \/ Remaining = 0) /\ UNCHANGED <<now, conn>> /\ HTTPEnds(FALSE, {"failed"})
  <2>1. ~calm
      BY <1>5, <1>8, <1>9 DEF Remaining
  <2>2. conn' \in Addrs \cup {NoAddr} /\ conn' \notin Internal
      BY <1>2, <1>9 DEF TypeOK, Shape
  <2> HIDE DEF l
  <2> QED BY <1>1, <1>2, <1>5, <1>7, <1>9, <2>1, <2>2, EndsInv DEF Nil
<1> DEFINE Dialed == conn' \in Addrs /\ conn' \notin Internal
<1>10. ASSUME connected, Remaining # 0, NEW b \in Behaviour(l[try]), NEW d \in DialTime(b),
              now' = now + d
       PROVE  /\ now' \in Nat /\ now' <= deadline
              /\ calm => /\ now' = 0
                         /\ \/ b = "good"
                            \/ /\ b = "refuses" /\ Another(l)
                               /\ \E n \in try + 1 .. Len(l) : l[n] \in Up
  <2>1. d \in Nat /\ d <= Remaining
      BY <1>2, DialTimes
  <2>2. Remaining = deadline - now
      BY <1>5, <1>10 DEF Remaining
  <2>3. now' \in Nat /\ now' <= deadline
      BY <1>5, <1>10, <2>1, <2>2
  <2>4. ASSUME calm
        PROVE  /\ d = 0
               /\ \/ b = "good"
                  \/ /\ b = "refuses" /\ Another(l)
                     /\ \E n \in try + 1 .. Len(l) : l[n] \in Up
    <3>1. l \in CalmLookups /\ Working(l)
        BY <1>8, <2>4
    <3> HIDE DEF l
    <3>2. \/ b = "good"
          \/ b = "refuses" /\ try + 1 <= Len(l) /\ \E n \in try + 1 .. Len(l) : l[n] \in Up
        BY <1>2, <1>3, <1>8, <1>10, <2>4, <3>1, CalmDial
    <3>3. DialTime(b) = {0}
        BY <1>2, <1>3, <1>8, <1>10, <2>4, <3>1, CalmDial
    <3>4. try + 1 <= Len(l) => Another(l)
        BY <1>4 DEF Another
    <3> QED BY <1>10, <3>2, <3>3, <3>4
  <2> HIDE DEF l
  <2> QED BY <1>8, <1>10, <2>3, <2>4
<1>11. ASSUME now' \in Nat, now' <= deadline, calm => now' = 0, Dialed, Goto("awaiting"),
              UNCHANGED <<deadline, try, outcome>>
       PROVE  Inv'
  <2>1. at' = "awaiting" /\ deadline' = deadline /\ try' = try /\ result' = result /\ failures' = failures
      BY <1>11 DEF Goto, outcome
  <2> HIDE DEF l
  <2>2. TypeOK'
      BY <1>1, <1>2, <1>11, <2>1 DEF TypeOK, Steps
  <2>3. conn' \notin Internal
      BY <1>11
  <2>4. Shape'
      BY <1>1, <1>2, <2>1, <2>3 DEF Shape, Early, Probing
  <2>5. Outcome'
    <3>1. Kinds' /\ HostFailed' /\ NotProbed'
        BY <1>1, <1>2, <2>1 DEF Outcome, Kinds, HostFailed, NotProbed, Probing
    <3>2. ~stored
        BY <1>1, <1>2 DEF Shape
    <3>3. Probed' /\ Shaken' /\ Said'
        BY <1>1, <2>1, <3>2 DEF Probed, Shaken, Said, StoredNeverPending, AddedIffSaid,
                                MessageAgreesWithPage
    <3> QED BY <3>1, <3>3 DEF Outcome
  <2>6. Clock'
    <3>1. now' <= 2 * ResolverTimeout + RequestTimeout + TLSTimeout
        BY <1>5, <1>6, <1>11, Timeouts
    <3> QED BY <1>6, <1>11, <2>1, <3>1 DEF Clock
  <2>7. ASSUME calm PROVE Calm'
      BY <1>1, <1>2, <1>8, <1>11, <2>1, <2>7 DEF Inv, Calm, Shape
  <2> QED BY <1>1, <2>2, <2>4, <2>5, <2>6, <2>7 DEF Inv
<1>12. ASSUME now' \in Nat, now' <= deadline, Another(l), try' = try + 1, Dialed,
              calm => now' = 0 /\ \E n \in try + 1 .. Len(l) : l[n] \in Up,
              UNCHANGED <<at, deadline, outcome>>
       PROVE  Inv'
  <2>1. at' = "dialing" /\ deadline' = deadline /\ result' = result /\ failures' = failures
      BY <1>1, <1>12 DEF outcome
  <2>2. TypeOK'
      BY <1>1, <1>2, <1>12, <2>1 DEF TypeOK, Steps
  <2>3. try' <= Len(l)
      BY <1>4, <1>12 DEF Another
  <2>4. Shape'
      BY <1>1, <1>2, <1>12, <2>1, <2>3 DEF Shape, Early, Probing
  <2>5. Outcome'
    <3>1. Kinds' /\ HostFailed' /\ NotProbed'
        BY <1>1, <1>2, <2>1 DEF Outcome, Kinds, HostFailed, NotProbed, Probing
    <3>2. ~stored
        BY <1>1, <1>2 DEF Shape
    <3>3. Probed' /\ Shaken' /\ Said'
        BY <1>1, <2>1, <3>2 DEF Probed, Shaken, Said, StoredNeverPending, AddedIffSaid,
                                MessageAgreesWithPage
    <3> QED BY <3>1, <3>3 DEF Outcome
  <2>6. Clock'
    <3>1. /\ now' <= 2 * ResolverTimeout + RequestTimeout + TLSTimeout
          /\ now' <= deadline + ResolverTimeout
        BY <1>5, <1>6, <1>12, Timeouts
    <3> QED BY <1>6, <2>1, <3>1 DEF Clock
  <2>7. ASSUME calm PROVE Calm'
    <3>1. Working(l)'
        BY <1>1, <1>12, <2>7 DEF Working
    <3> HIDE DEF l
    <3>2. ~stored
        BY <1>1, <1>2 DEF Shape
    <3> QED BY <1>1, <1>8, <1>12, <2>1, <2>7, <3>1, <3>2 DEF Inv, Calm, l
  <2> QED BY <1>1, <2>2, <2>4, <2>5, <2>6, <2>7 DEF Inv
<1>13. ASSUME connected, Remaining # 0, NEW b \in Behaviour(l[try]), NEW d \in DialTime(b),
              now' = now + d, conn' = l[try],
              \/ /\ b = "good" \/ (b = "bad-certificate" /\ ~target.https)
                 /\ Goto("awaiting")
                 /\ UNCHANGED <<deadline, try, outcome>>
              \/ /\ b = "bad-certificate" /\ target.https
                 /\ HTTPEnds(FALSE, {"certificate"})
              \/ /\ b \in {"refuses", "silent"} /\ Another(l)
                 /\ try' = try + 1
                 /\ UNCHANGED <<at, deadline, outcome>>
              \/ /\ b \in {"refuses", "silent"} /\ ~Another(l)
                 /\ HTTPEnds(FALSE, {"failed"})
       PROVE  Inv'
  <2>1. /\ now' \in Nat /\ now' <= deadline
        /\ calm => /\ now' = 0
                   /\ \/ b = "good"
                      \/ /\ b = "refuses" /\ Another(l)
                         /\ \E n \in try + 1 .. Len(l) : l[n] \in Up
      BY <1>10, <1>13
  <2>2. now' <= 2 * ResolverTimeout + RequestTimeout
      BY <1>5, <1>6, <2>1, Timeouts
  <2> HIDE DEF l
  <2>3. Dialed
      BY <1>3, <1>4, <1>13
  <2>4. CASE Goto("awaiting") /\ UNCHANGED <<deadline, try, outcome>>
      BY <1>11, <2>1, <2>4, <2>3
  <2>5. CASE b = "bad-certificate" /\ HTTPEnds(FALSE, {"certificate"})
    <3>1. ~calm
        BY <2>1, <2>5
    <3> QED BY <1>1, <1>2, <2>1, <2>2, <2>5, <2>3, <3>1, EndsInv DEF Nil
  <2>6. CASE b \in {"refuses", "silent"} /\ Another(l) /\ try' = try + 1
             /\ UNCHANGED <<at, deadline, outcome>>
      BY <1>12, <2>1, <2>6, <2>3
  <2>7. CASE b \in {"refuses", "silent"} /\ ~Another(l) /\ HTTPEnds(FALSE, {"failed"})
    <3>1. ~calm
        BY <2>1, <2>7
    <3> QED BY <1>1, <1>2, <2>1, <2>2, <2>7, <2>3, <3>1, EndsInv DEF Nil
  <2> QED BY <1>13, <2>4, <2>5, <2>6, <2>7
<1> HIDE DEF l
<1>14. Dialable(target.host) = {l}
    BY DEF Dialable, l
<1>15. PICK k \in Dialable(target.host) :
          IF k = <<>> \/ ~connected \/ Remaining = 0
          THEN /\ UNCHANGED <<now, conn>>
               /\ HTTPEnds(FALSE, IF k = <<>> THEN {"probe-unsafe"} ELSE {"failed"})
          ELSE \E b \in Behaviour(k[try]) : \E d \in DialTime(b) :
                  /\ now' = now + d
                  /\ conn' = k[try]
                  /\ \/ /\ b = "good" \/ (b = "bad-certificate" /\ ~target.https)
                        /\ Goto("awaiting")
                        /\ UNCHANGED <<deadline, try, outcome>>
                     \/ /\ b = "bad-certificate" /\ target.https
                        /\ HTTPEnds(FALSE, {"certificate"})
                     \/ /\ b \in {"refuses", "silent"} /\ Another(k)
                        /\ try' = try + 1
                        /\ UNCHANGED <<at, deadline, outcome>>
                     \/ /\ b \in {"refuses", "silent"} /\ ~Another(k)
                        /\ HTTPEnds(FALSE, {"failed"})
    BY DEF Dial
<1>16. k = l
    BY <1>14
<1> QED BY <1>3, <1>9, <1>13, <1>15, <1>16

(* A step from one request to the next leaves the outcome open.               *)
LEMMA StillOpen ==
    ASSUME Inv, Probing, Probing', UNCHANGED <<kind, stored>>, UNCHANGED <<outcome, answer>>
    PROVE  Outcome'
<1>1. kind' = kind /\ stored' = stored /\ result' = result /\ failures' = failures
    BY DEF outcome
<1>2. at' \in {"dialing", "awaiting", "redirecting"} /\ ~stored
    BY DEF Inv, Shape, Probing
<1>3. Kinds' /\ HostFailed' /\ NotProbed'
    BY <1>1 DEF Inv, Outcome, Kinds, HostFailed, NotProbed, Probing
<1>4. Probed' /\ Shaken' /\ Said'
    BY <1>1, <1>2 DEF Probed, Shaken, Said, StoredNeverPending, AddedIffSaid,
                      MessageAgreesWithPage
<1> QED BY <1>3, <1>4 DEF Outcome

LEMMA AwaitInv ==
    ASSUME Inv, Await
    PROVE  Inv'
<1>1. /\ at = "awaiting" /\ conn' = NoAddr /\ kind' = kind /\ https' = https /\ calm' = calm
      /\ connected' = connected /\ ips' = ips /\ pinned' = pinned /\ row' = row
      /\ stored' = stored /\ answer' = answer
      /\ UNCHANGED <<call, connected, ips, pinned, end>>
    BY DEF Await, call, end
<1>2. TypeOK /\ Shape /\ Clock /\ Probing /\ ~stored
    BY <1>1 DEF Inv, Probing, Shape
<1>3. now \in Nat /\ deadline \in Nat /\ now <= deadline
      /\ deadline <= ResolverTimeout + RequestTimeout
    BY <1>1, <1>2 DEF TypeOK, Clock
<1>4. calm => connected /\ now = 0
    BY DEF Inv, Calm
<1>5. ASSUME NEW d \in Nat, d <= Remaining, now' = now + d
      PROVE  now' \in Nat /\ now' <= deadline /\ now' <= 2 * ResolverTimeout + RequestTimeout
  <2>1. now' \in Nat /\ now' <= deadline
      BY <1>2, <1>3, <1>5, RemainingBound
  <2> QED BY <1>3, <2>1, Timeouts
<1>6. ASSUME NEW r \in BOOLEAN, NEW e \in {Nil, {"failed"}, {"redirect"}}, r \/ e # Nil,
              calm => r /\ e = Nil /\ now' = 0, NEW d \in Nat, d <= Remaining, now' = now + d,
              HTTPEnds(r, e), UNCHANGED <<target, hops>>
       PROVE  Inv'
    BY <1>1, <1>2, <1>5, <1>6, EndsInv, CheckAssumption
<1>7. ASSUME now' \in Nat, now' <= deadline, calm => now' = 0, target' \in Target,
              hops' = Counted, Counted < MaxRedirects, Goto("redirecting"),
              UNCHANGED <<deadline, try, outcome>>
       PROVE  Inv'
  <2>1. at' = "redirecting" /\ deadline' = deadline /\ try' = try /\ result' = result
        /\ failures' = failures
      BY <1>7 DEF Goto, outcome
  <2>2. TypeOK'
    <3>1. hops' \in 0..MaxRedirects
        BY <1>2, <1>7, CheckAssumption DEF TypeOK, Counted
    <3> QED BY <1>1, <1>2, <1>7, <2>1, <3>1 DEF TypeOK, Steps
  <2>3. Shape'
      BY <1>1, <1>2, <2>1, CheckAssumption DEF Shape, Early, Probing
  <2>4. Outcome'
      BY <1>1, <1>2, <1>7, <2>1, StillOpen DEF Probing
  <2>5. Clock'
    <3>1. /\ now' <= 2 * ResolverTimeout + RequestTimeout + TLSTimeout
          /\ now' <= deadline + ResolverTimeout
        BY <1>3, <1>7, Timeouts
    <3> QED BY <1>3, <1>7, <2>1, <3>1 DEF Clock
  <2>6. ASSUME calm PROVE Calm'
      BY <1>1, <1>2, <1>7, <2>1, <2>6 DEF Inv, Calm, Probing
  <2> QED BY <1>1, <2>2, <2>3, <2>4, <2>5, <2>6 DEF Inv
<1>8. PICK d \in Takes(Remaining) :
          \/ connected /\ now' = now + d /\ HTTPEnds(TRUE, Nil) /\ UNCHANGED <<target, hops>>
          \/ /\ connected /\ now' = now + d
             /\ ~calm \/ Counted < MaxRedirects
             /\ IF Counted >= MaxRedirects
                THEN HTTPEnds(TRUE, {"redirect"}) /\ UNCHANGED <<target, hops>>
                ELSE /\ target' \in Target
                     /\ hops' = Counted
                     /\ Goto("redirecting")
                     /\ UNCHANGED <<deadline, try, outcome>>
          \/ /\ connected /\ ~calm /\ now' = now + d
             /\ HTTPEnds(TRUE, {"redirect"}) /\ UNCHANGED <<target, hops>>
          \/ /\ ~calm /\ now' = now + d
             /\ HTTPEnds(FALSE, {"failed"}) /\ UNCHANGED <<target, hops>>
    BY DEF Await
<1>9. Remaining \in Nat
    BY <1>2, RemainingNat
<1>10. d \in Nat /\ d <= Remaining /\ (calm => d = 0)
    BY <1>9, TakesNat DEF Takes
<1>11. calm => (now' = now + d => now' = 0)
    BY <1>4, <1>10
<1>12. Counted \in Nat /\ MaxRedirects \in Nat
    BY <1>2, CheckAssumption DEF TypeOK, Counted
<1>13. CASE now' = now + d /\ HTTPEnds(TRUE, Nil) /\ UNCHANGED <<target, hops>>
    BY <1>6, <1>10, <1>11, <1>13
<1>14. CASE /\ now' = now + d /\ ~calm
            /\ HTTPEnds(TRUE, {"redirect"}) /\ UNCHANGED <<target, hops>>
    BY <1>6, <1>10, <1>14
<1>15. CASE /\ now' = now + d /\ Counted < MaxRedirects
            /\ target' \in Target /\ hops' = Counted /\ Goto("redirecting")
            /\ UNCHANGED <<deadline, try, outcome>>
    BY <1>5, <1>7, <1>10, <1>11, <1>15
<1>16. CASE /\ ~calm /\ now' = now + d
            /\ HTTPEnds(FALSE, {"failed"}) /\ UNCHANGED <<target, hops>>
    BY <1>6, <1>10, <1>16 DEF Nil
<1>17. CASE /\ now' = now + d
            /\ ~calm \/ Counted < MaxRedirects
            /\ IF Counted >= MaxRedirects
               THEN HTTPEnds(TRUE, {"redirect"}) /\ UNCHANGED <<target, hops>>
               ELSE /\ target' \in Target
                    /\ hops' = Counted
                    /\ Goto("redirecting")
                    /\ UNCHANGED <<deadline, try, outcome>>
  <2>1. CASE Counted >= MaxRedirects
    <3>1. ~calm
        BY <1>12, <1>17, <2>1
    <3> QED BY <1>14, <1>17, <2>1, <3>1
  <2>2. CASE ~(Counted >= MaxRedirects)
    <3>1. Counted < MaxRedirects
        BY <1>12, <2>2
    <3> QED BY <1>15, <1>17, <2>2, <3>1
  <2> QED BY <2>1, <2>2
<1> QED BY <1>8, <1>13, <1>14, <1>16, <1>17

LEMMA RedirectInv ==
    ASSUME Inv, Redirect
    PROVE  Inv'
<1>1. /\ at = "redirecting" /\ kind' = kind /\ https' = https /\ calm' = calm
      /\ connected' = connected /\ ips' = ips /\ target' = target /\ conn' = conn
      /\ hops' = hops /\ row' = row /\ stored' = stored /\ answer' = answer
      /\ UNCHANGED <<call, connected, ips, target, conn, hops, end>>
    BY DEF Redirect, call, end
<1>2. TypeOK /\ Shape /\ Clock /\ Probing /\ ~stored
    BY <1>1 DEF Inv, Probing, Shape
<1>3. now \in Nat /\ deadline \in Nat /\ deadline <= ResolverTimeout + RequestTimeout
      /\ now <= deadline + ResolverTimeout /\ (connected => now <= deadline)
    BY <1>1, <1>2 DEF TypeOK, Clock, Probing
<1>4. PICK l \in Replies, d \in Takes(ResolverTimeout) :
          /\ now' = now + d
          /\ \/ /\ LookupError(l) # Nil
                /\ HTTPEnds(TRUE, LookupError(l))
                /\ UNCHANGED pinned
             \/ /\ LookupError(l) = Nil
                /\ pinned' = [pinned EXCEPT ![target.host] = l]
                /\ try' = 1
                /\ Goto("dialing")
                /\ UNCHANGED <<deadline, outcome>>
    BY DEF Redirect
<1>5. /\ LookupError(l) \in {Nil, {"failed"}, {"probe-unsafe"}}
      /\ LookupError(l) = Nil => /\ l \in Lookups /\ l # <<>>
                                 /\ Elements(l) \cap Internal = {}
    BY RepliesKnown, LookupErrorFacts
<1>6. now' \in Nat /\ now' <= deadline + ResolverTimeout
  <2>1. d \in Nat /\ d <= ResolverTimeout /\ (connected \/ d = 0)
      BY TakesNat, Timeouts DEF Takes
  <2> QED BY <1>3, <1>4, <2>1, Timeouts
<1>7. now' <= 2 * ResolverTimeout + RequestTimeout
    BY <1>3, <1>6, Timeouts
<1>8. calm => l \in CalmLookups /\ now' = 0 /\ LookupError(l) = Nil
  <2> SUFFICES ASSUME calm PROVE l \in CalmLookups /\ now' = 0 /\ LookupError(l) = Nil
      OBVIOUS
  <2>1. l \in CalmLookups
      BY DEF Replies
  <2>2. d = 0 /\ now = 0
      BY DEF Takes, Inv, Calm
  <2>3. l \in Lookups /\ l # <<>> /\ Elements(l) \cap Internal = {}
      BY <2>1, WorksFirst DEF CalmLookups
  <2>4. l # Failed
      BY <2>3, CheckAssumption
  <2>5. LookupError(l) = Nil
      BY <2>3, <2>4 DEF LookupError, Nil
  <2> QED BY <1>4, <2>1, <2>2, <2>5
<1>9. CASE LookupError(l) # Nil /\ HTTPEnds(TRUE, LookupError(l)) /\ UNCHANGED pinned
  <2>1. conn' \in Addrs \cup {NoAddr} /\ conn' \notin Internal
      BY <1>1, <1>2 DEF TypeOK, Shape
  <2> QED BY <1>1, <1>2, <1>5, <1>6, <1>7, <1>8, <1>9, <2>1, EndsInv
<1>10. CASE /\ LookupError(l) = Nil
            /\ pinned' = [pinned EXCEPT ![target.host] = l]
            /\ try' = 1
            /\ Goto("dialing")
            /\ UNCHANGED <<deadline, outcome>>
  <2>1. at' = "dialing" /\ deadline' = deadline /\ result' = result /\ failures' = failures
      BY <1>10 DEF Goto, outcome
  <2>2. l \in Lookups /\ l # <<>> /\ Elements(l) \cap Internal = {} /\ 1 <= Len(l)
      BY <1>5, <1>10, ListFacts
  <2>3. target.host \in Hosts
      BY <1>2 DEF TypeOK, Target
  <2>4. /\ pinned'[target.host] = l
        /\ \A h \in Hosts : pinned'[h] = l \/ pinned'[h] = pinned[h]
      BY <1>2, <1>10, <2>3 DEF TypeOK
  <2>5. TypeOK'
    <3>1. pinned' \in [Hosts -> Lookups \cup {<<>>}]
        BY <1>2, <1>10, <2>2 DEF TypeOK
    <3> QED BY <1>1, <1>2, <1>6, <1>10, <2>1, <3>1 DEF TypeOK, Steps
  <2>6. Shape'
    <3>1. \A h \in Hosts : Elements(pinned'[h]) \cap Internal = {}
        BY <1>2, <2>2, <2>4 DEF Shape
    <3> QED BY <1>1, <1>2, <1>10, <2>1, <2>2, <2>4, <3>1 DEF Shape, Early, Probing
  <2>7. Outcome'
      BY <1>1, <1>2, <1>10, <2>1, StillOpen DEF Probing
  <2>8. Clock'
    <3>1. now' <= 2 * ResolverTimeout + RequestTimeout + TLSTimeout
        BY <1>6, <1>7, Timeouts
    <3> QED BY <1>3, <1>6, <2>1, <3>1 DEF Clock
  <2>9. ASSUME calm PROVE Calm'
    <3>1. Calm /\ l \in CalmLookups
        BY <1>8, <2>9 DEF Inv
    <3>2. Working(pinned[target.host])'
      <4>1. \E n \in 1..Len(l) : l[n] \in Up
          BY <3>1, WorksFirst
      <4> QED BY <1>1, <1>10, <2>4, <4>1 DEF Working
    <3>3. \A h \in Hosts : pinned'[h] \in CalmLookups \cup {<<>>}
        BY <2>4, <3>1 DEF Calm
    <3>4. deadline' > 0 /\ now' = 0
        BY <1>2, <1>8, <2>1, <2>9, <3>1 DEF Calm
    <3> QED BY <1>1, <1>2, <2>1, <3>1, <3>2, <3>3, <3>4 DEF Calm
  <2> QED BY <1>1, <2>5, <2>6, <2>7, <2>8, <2>9 DEF Inv
<1> QED BY <1>4, <1>9, <1>10

-----------------------------------------------------------------------------
(* The TLS probe.                                                             *)

(* It ends, with a certificate that was verified (v) or a failure.            *)
LEMMA ShakesInv ==
    ASSUME Inv, at = "handshaking", NEW v \in BOOLEAN,
           NEW e \in {Nil, {"failed"}, {"certificate"}}, v <=> e = Nil,
           calm => v /\ now' = 0,
           result' \in CheckResult, result'.http = result.http,
           result'.tls.enabled = result.tls.enabled, result'.tls.valid = v,
           failures' = [failures EXCEPT !.tls = e],
           at' = "storing", try' \in Nat \ {0}, now' \in Nat,
           conn' \in Addrs \cup {NoAddr}, conn' \notin Internal,
           now' <= 2 * ResolverTimeout + RequestTimeout + TLSTimeout,
           UNCHANGED <<call, connected, deadline, ips, http, end>>
    PROVE  Inv'
<1>1. /\ kind' = kind /\ https' = https /\ calm' = calm /\ connected' = connected
      /\ deadline' = deadline /\ ips' = ips /\ pinned' = pinned
      /\ target' = target /\ hops' = hops
      /\ row' = row /\ stored' = stored /\ answer' = answer
    BY DEF call, http, end
<1>2. TypeOK
    BY DEF Inv
<1>3. row /\ ~stored
    BY DEF Inv, Shape, Early
<1>4. failures.host = Nil /\ https
    BY DEF Inv, Outcome, HostFailed, Shaken
<1>5. /\ failures' \in Failures /\ failures'.host = Nil
      /\ failures'.http = failures.http /\ failures'.tls = e
  <2>1. failures \in [host : SUBSET Sentinels, http : SUBSET Sentinels, tls : SUBSET Sentinels]
      BY <1>2 DEF TypeOK, Failures
  <2>2. e \in SUBSET Sentinels
      BY DEF Sentinels, Nil
  <2> QED BY <1>4, <2>1, <2>2 DEF Failures
<1>6. TypeOK'
    BY <1>1, <1>2, <1>5 DEF TypeOK, Steps
<1>7. Shape'
    BY <1>1, <1>3 DEF Inv, Shape, Early, Probing
<1>8. Outcome'
  <2>1. Kinds'
      BY <1>1, <1>5 DEF Inv, Outcome, Kinds, Nil
  <2>2. HostFailed' /\ NotProbed'
      BY <1>5 DEF HostFailed, NotProbed, Early, Probing
  <2>3. Probed'
      BY <1>1, <1>4, <1>5 DEF Inv, Outcome, Probed
  <2>4. Shaken'
      BY <1>1, <1>4, <1>5 DEF Shaken
  <2>5. Said'
      BY <1>1, <1>3 DEF Said, StoredNeverPending, AddedIffSaid, MessageAgreesWithPage
  <2> QED BY <2>1, <2>2, <2>3, <2>4, <2>5 DEF Outcome
<1>9. Clock'
    BY DEF Clock, Probing
<1>10. ASSUME calm PROVE Calm'
  <2>1. Calm /\ e = Nil /\ now' = 0
      BY <1>10 DEF Inv
  <2>2. failures' = NoFailure
      BY <2>1 DEF Calm, NoFailure
  <2>3. result'.http.responded
      BY <2>1 DEF Calm
  <2> QED BY <1>1, <1>3, <2>1, <2>2, <2>3 DEF Calm, Probing
<1> QED BY <1>1, <1>6, <1>7, <1>8, <1>9, <1>10 DEF Inv

LEMMA HandshakeInv ==
    ASSUME Inv, Handshake
    PROVE  Inv'
<1>1. /\ at = "handshaking" /\ kind' = kind /\ https' = https /\ calm' = calm
      /\ connected' = connected /\ deadline' = deadline /\ ips' = ips /\ pinned' = pinned
      /\ target' = target /\ hops' = hops
      /\ row' = row /\ stored' = stored /\ answer' = answer
      /\ UNCHANGED <<call, connected, deadline, ips, http, end>>
    BY DEF Handshake, call, http, end
<1>2. TypeOK /\ Shape /\ Clock /\ Outcome
    BY DEF Inv
<1>3. ips \in Lookups /\ ips # <<>> /\ try <= Len(ips)
    BY <1>1, <1>2 DEF TypeOK, Shape
<1>4. Len(ips) \in Nat /\ try \in 1..Len(ips) /\ try \in Nat \ {0}
    BY <1>2, <1>3, ListFacts DEF TypeOK
<1>5. /\ now \in Nat /\ deadline \in Nat /\ now <= deadline
      /\ deadline <= 2 * ResolverTimeout + RequestTimeout + TLSTimeout
    BY <1>1, <1>2 DEF TypeOK, Clock
<1>6. calm => connected /\ now = 0 /\ deadline > 0 /\ ips \in CalmLookups /\ Working(ips)
    BY <1>1, <1>3 DEF Inv, Calm
<1>7. /\ result \in [http : HTTPResult, tls : [enabled : BOOLEAN, valid : BOOLEAN, expires : BOOLEAN]]
      /\ failures \in [host : SUBSET Sentinels, http : SUBSET Sentinels, tls : SUBSET Sentinels]
    BY <1>2 DEF TypeOK, CheckResult, TLSResult, Failures
<1>8. failures.tls = Nil /\ result.tls.valid = FALSE /\ https
  <2>1. failures.tls = Nil /\ ~result.tls.valid /\ https
      BY <1>1, <1>2 DEF Outcome, Shaken
  <2> QED BY <1>7, <2>1
<1>9. ASSUME NEW d \in Nat, d <= Remaining, now' = now + d
      PROVE  /\ now' \in Nat /\ now' <= deadline
             /\ now' <= 2 * ResolverTimeout + RequestTimeout + TLSTimeout
  <2>1. now' \in Nat /\ now' <= deadline
      BY <1>2, <1>5, <1>9, RemainingBound
  <2> QED BY <1>5, <2>1, Timeouts
<1> DEFINE Dialed == conn' \in Addrs \cup {NoAddr} /\ conn' \notin Internal
<1>10. ASSUME ~calm, Dialed, now' \in Nat, now' <= deadline,
              now' <= 2 * ResolverTimeout + RequestTimeout + TLSTimeout,
              failures' = [failures EXCEPT !.tls = {"failed"}], Goto("storing"),
              UNCHANGED <<try, result>>
       PROVE  Inv'
    BY <1>1, <1>2, <1>4, <1>7, <1>8, <1>10, ShakesInv DEF TypeOK, Goto, Nil
<1>11. ASSUME Dialed, now' \in Nat, now' <= 2 * ResolverTimeout + RequestTimeout + TLSTimeout,
              calm => now' = 0,
              result' = [result EXCEPT !.tls.valid = TRUE, !.tls.expires = TRUE],
              Goto("storing"), UNCHANGED <<try, failures>>
       PROVE  Inv'
  <2>1. /\ result' \in CheckResult /\ result'.http = result.http
        /\ result'.tls.enabled = result.tls.enabled /\ result'.tls.valid = TRUE
      BY <1>7, <1>11 DEF CheckResult, TLSResult
  <2>2. failures' = [failures EXCEPT !.tls = Nil]
      BY <1>7, <1>8, <1>11
  <2> QED BY <1>1, <1>4, <1>11, <2>1, <2>2, ShakesInv DEF Goto
<1>12. ASSUME ~calm, Dialed, now' \in Nat,
              now' <= 2 * ResolverTimeout + RequestTimeout + TLSTimeout,
              result' = [result EXCEPT !.tls.expires = TRUE],
              failures' = [failures EXCEPT !.tls = {"certificate"}],
              Goto("storing"), UNCHANGED try
       PROVE  Inv'
  <2>1. /\ result' \in CheckResult /\ result'.http = result.http
        /\ result'.tls.enabled = result.tls.enabled /\ result'.tls.valid = FALSE
      BY <1>7, <1>8, <1>12 DEF CheckResult, TLSResult
  <2> QED BY <1>1, <1>4, <1>12, <2>1, ShakesInv DEF Goto, Nil
<1>13. ASSUME Dialed, now' \in Nat, now' <= deadline, Another(ips), try' = try + 1,
              calm => now' = 0 /\ \E n \in try + 1 .. Len(ips) : ips[n] \in Up,
              UNCHANGED <<at, outcome>>
       PROVE  Inv'
  <2>1. at' = "handshaking" /\ result' = result /\ failures' = failures
      BY <1>1, <1>13 DEF outcome
  <2>2. TypeOK'
      BY <1>1, <1>2, <1>13, <2>1 DEF TypeOK, Steps
  <2>3. try' <= Len(ips)
      BY <1>4, <1>13 DEF Another
  <2>4. Shape'
      BY <1>1, <1>2, <1>13, <2>1, <2>3 DEF Shape, Early, Probing
  <2>5. Outcome'
    <3>1. ~stored
        BY <1>1, <1>2 DEF Shape
    <3>2. Kinds' /\ HostFailed' /\ NotProbed' /\ Probed' /\ Shaken'
        BY <1>1, <1>2, <2>1 DEF Outcome, Kinds, HostFailed, NotProbed, Probed, Shaken, Early,
                                Probing
    <3>3. Said'
        BY <1>1, <2>1, <3>1 DEF Said, StoredNeverPending, AddedIffSaid, MessageAgreesWithPage
    <3> QED BY <3>2, <3>3 DEF Outcome
  <2>6. Clock'
    <3>1. now' <= 2 * ResolverTimeout + RequestTimeout + TLSTimeout
        BY <1>5, <1>13, Timeouts
    <3> QED BY <1>1, <1>5, <1>13, <2>1, <3>1 DEF Clock, Probing
  <2>7. ASSUME calm PROVE Calm'
    <3>1. Working(ips)'
        BY <1>1, <1>13, <2>7 DEF Working
    <3>2. ~stored
        BY <1>1, <1>2 DEF Shape
    <3> QED BY <1>1, <1>13, <2>1, <2>7, <3>1, <3>2 DEF Inv, Calm, Probing
  <2> QED BY <1>1, <2>2, <2>4, <2>5, <2>6, <2>7 DEF Inv
<1>14. CASE ips = <<>> \/ ~connected \/ Remaining = 0
  <2>1. /\ failures' = [failures EXCEPT !.tls = {"failed"}]
        /\ Goto("storing") /\ UNCHANGED <<now, try, conn, result>>
      BY <1>14 DEF Handshake
  <2>2. ~calm
      BY <1>3, <1>5, <1>6, <1>14 DEF Remaining
  <2>3. Dialed
      BY <1>2, <2>1 DEF TypeOK, Shape
  <2> HIDE DEF Dialed
  <2> QED BY <1>5, <1>10, <2>1, <2>2, <2>3, Timeouts
<1>15. CASE ~(ips = <<>> \/ ~connected \/ Remaining = 0)
  <2> DEFINE Shakes(b, d) ==
               /\ now' = now + d
               /\ conn' = ips[try]
               /\ \/ /\ b = "good"
                     /\ result' = [result EXCEPT !.tls.valid = TRUE, !.tls.expires = TRUE]
                     /\ Goto("storing")
                     /\ UNCHANGED <<try, failures>>
                  \/ /\ b = "bad-certificate"
                     /\ result' = [result EXCEPT !.tls.expires = TRUE]
                     /\ failures' = [failures EXCEPT !.tls = {"certificate"}]
                     /\ Goto("storing")
                     /\ UNCHANGED try
                  \/ /\ b \in {"refuses", "silent"} /\ Another(ips)
                     /\ try' = try + 1
                     /\ UNCHANGED <<at, outcome>>
                  \/ /\ b \in {"refuses", "silent"} /\ ~Another(ips)
                     /\ failures' = [failures EXCEPT !.tls = {"failed"}]
                     /\ Goto("storing")
                     /\ UNCHANGED <<try, result>>
  <2>0. PICK b \in Behaviour(ips[try]) : \E d \in DialTime(b) : Shakes(b, d)
      BY <1>15 DEF Handshake
  <2>1. PICK d \in DialTime(b) : Shakes(b, d)
      BY <2>0
  <2>2. Dialed
    <3>1. ips[try] \in Addrs /\ ips[try] \in Elements(ips)
        BY <1>3, <1>4, ListFacts
    <3> QED BY <1>2, <2>1, <3>1 DEF Shape
  <2> HIDE DEF Dialed
  <2>3. d \in Nat /\ d <= Remaining
      BY <1>2, DialTimes
  <2>4. /\ now' \in Nat /\ now' <= deadline
        /\ now' <= 2 * ResolverTimeout + RequestTimeout + TLSTimeout
      BY <1>9, <2>1, <2>3
  <2>5. ASSUME calm
        PROVE  /\ now' = 0
               /\ \/ b = "good"
                  \/ /\ b = "refuses" /\ Another(ips)
                     /\ \E n \in try + 1 .. Len(ips) : ips[n] \in Up
    <3>1. \/ b = "good"
          \/ b = "refuses" /\ try + 1 <= Len(ips) /\ \E n \in try + 1 .. Len(ips) : ips[n] \in Up
        BY <1>2, <1>3, <1>6, <2>5, CalmDial
    <3>2. DialTime(b) = {0}
        BY <1>2, <1>3, <1>6, <2>5, CalmDial
    <3>3. try + 1 <= Len(ips) => Another(ips)
        BY <1>4 DEF Another
    <3>4. now' = 0
        BY <1>6, <2>1, <2>5, <3>2
    <3> QED BY <3>1, <3>3, <3>4
  <2>6. CASE /\ b = "good" /\ result' = [result EXCEPT !.tls.valid = TRUE, !.tls.expires = TRUE]
             /\ Goto("storing") /\ UNCHANGED <<try, failures>>
      BY <1>11, <2>4, <2>5, <2>6, <2>2
  <2>7. CASE /\ b = "bad-certificate" /\ result' = [result EXCEPT !.tls.expires = TRUE]
             /\ failures' = [failures EXCEPT !.tls = {"certificate"}]
             /\ Goto("storing") /\ UNCHANGED try
    <3>1. ~calm
        BY <2>5, <2>7
    <3> QED BY <1>12, <2>4, <2>7, <2>2, <3>1
  <2>8. CASE /\ b \in {"refuses", "silent"} /\ Another(ips) /\ try' = try + 1
             /\ UNCHANGED <<at, outcome>>
    <3>1. calm => now' = 0 /\ \E n \in try + 1 .. Len(ips) : ips[n] \in Up
        BY <2>5, <2>8
    <3> QED BY <1>13, <2>4, <2>8, <2>2, <3>1
  <2>9. CASE /\ b \in {"refuses", "silent"} /\ ~Another(ips)
             /\ failures' = [failures EXCEPT !.tls = {"failed"}]
             /\ Goto("storing") /\ UNCHANGED <<try, result>>
    <3>1. ~calm
        BY <2>5, <2>9
    <3> QED BY <1>10, <2>4, <2>9, <2>2, <3>1
  <2> QED BY <2>1, <2>6, <2>7, <2>8, <2>9
<1> QED BY <1>14, <1>15

-----------------------------------------------------------------------------
(* The end of the call.                                                       *)

(* A result that is to be stored: the page shows that the endpoint responds   *)
(* if nothing failed, and otherwise does so for a refused redirect alone.     *)
LEMMA ShownState ==
    ASSUME Inv, at = "storing"
    PROVE  /\ result.http.checked
           /\ failures = NoFailure => State(result) = "Responding"
           /\ State(result) = "Responding" => failures = NoFailure \/ RefusedRedirect
           /\ failures.host # Nil => State(result) = "NoResponse"
           /\ failures.host = Nil /\ failures.http # Nil =>
                 State(result) = "NoResponse" \/ RefusedRedirect
           /\ failures.host = Nil /\ failures.tls # Nil =>
                 result.tls.enabled /\ ~result.tls.valid
<1>1. failures = [host |-> failures.host, http |-> failures.http, tls |-> failures.tls]
    BY DEF Inv, TypeOK, Failures
<1>2. CASE failures.host # Nil
  <2>1. result = HostFailure(https) /\ failures.http = Nil /\ failures.tls = Nil
      BY <1>2 DEF Inv, Outcome, HostFailed
  <2>2. result.http = [ZeroHTTP EXCEPT !.checked = TRUE]
      BY <2>1 DEF HostFailure
  <2>3. result.http.checked /\ ~result.http.responded
      BY <2>2 DEF ZeroHTTP
  <2>4. State(result) = "NoResponse"
      BY <2>3 DEF State
  <2>5. failures # NoFailure
      BY <1>2 DEF NoFailure
  <2> QED BY <1>2, <2>3, <2>4, <2>5
<1>3. CASE failures.host = Nil
  <2>1. /\ result.http.checked /\ (result.tls.enabled <=> https)
        /\ result.http.responded \/ failures.http # Nil
        /\ failures.tls # Nil => https /\ ~result.tls.valid
        /\ failures.tls = Nil /\ https => result.tls.valid
      BY <1>3 DEF Inv, Outcome, Probed, Shaken
  <2>2. failures = NoFailure <=> failures.http = Nil /\ failures.tls = Nil
      BY <1>1, <1>3 DEF NoFailure
  <2>3. failures = NoFailure => State(result) = "Responding"
      BY <2>1, <2>2 DEF State
  <2>4. State(result) = "Responding" => result.http.responded /\ failures.tls = Nil
      BY <2>1 DEF State
  <2>5. failures.http # Nil => State(result) = "NoResponse" \/ RefusedRedirect
      BY <2>1 DEF State, RefusedRedirect
  <2> QED BY <1>3, <2>1, <2>2, <2>3, <2>4, <2>5 DEF RefusedRedirect
<1> QED BY <1>2, <1>3

LEMMA StoreInv ==
    ASSUME Inv, Store
    PROVE  Inv'
<1>1. /\ at = "storing" /\ at' = "answered" /\ kind' = kind /\ https' = https /\ calm' = calm
      /\ connected' = connected /\ now' = now /\ deadline' = deadline /\ ips' = ips
      /\ pinned' = pinned /\ target' = target /\ conn' = conn /\ hops' = hops /\ try' = try
      /\ result' = result /\ failures' = failures /\ row' = row /\ stored' = TRUE
      /\ answer' = IF kind = "add" THEN AddAnswer(Unwrapped(failures), failures, result)
                   ELSE RefreshAnswer(Unwrapped(failures))
    BY DEF Store, Answered, Goto, call, http, outcome
<1>2. TypeOK /\ Shape /\ Clock /\ row /\ Kinds /\ HostFailed
    BY <1>1 DEF Inv, Shape, Early, Outcome
<1>3. /\ result.http.checked
      /\ failures = NoFailure => State(result) = "Responding"
      /\ State(result) = "Responding" => failures = NoFailure \/ RefusedRedirect
      /\ failures.host # Nil => State(result) = "NoResponse"
      /\ failures.host = Nil /\ failures.http # Nil =>
            State(result) = "NoResponse" \/ RefusedRedirect
      /\ failures.host = Nil /\ failures.tls # Nil =>
            result.tls.enabled /\ ~result.tls.valid
    BY <1>1, ShownState
<1>4. failures # NoFailure =>
          failures.host # Nil \/ failures.http # Nil \/ failures.tls # Nil
    BY <1>2 DEF TypeOK, Failures, NoFailure
<1>5. ASSUME kind = "add"
      PROVE  /\ AddedIffSaid' /\ MessageAgreesWithPage'
             /\ answer' \in SaysAdded \cup {"refreshed"}
             /\ failures = NoFailure => answer' \in {"added", "refreshed"}
  <2>1. /\ failures = NoFailure => Unwrapped(failures) = Nil
        /\ failures # NoFailure => /\ Unwrapped(failures) # Nil
                                   /\ "check-error" \in Unwrapped(failures)
        /\ "exists" \notin Unwrapped(failures) /\ "unsafe" \notin Unwrapped(failures)
      BY <1>2, <1>5 DEF Unwrapped, Kinds, Nil
  <2>2. answer' = IF failures = NoFailure THEN "added" ELSE CheckAnswer(failures, result)
      BY <1>1, <1>5, <2>1 DEF AddAnswer
  <2> DEFINE a == CheckAnswer(failures, result)
  <2>3. a \in {"unreachable", "tls-invalid", "check-failed"}
      BY DEF CheckAnswer
  <2>4. failures # NoFailure /\ a = "unreachable" =>
            State(result) = "NoResponse" \/ RefusedRedirect
      BY <1>3 DEF CheckAnswer
  <2>5. failures # NoFailure /\ a = "tls-invalid" =>
            TLSState(result) \in {"Invalid", "Unavailable"}
      BY <1>3, <1>4 DEF CheckAnswer, TLSState
  <2>6. failures # NoFailure /\ a = "check-failed" => State(result) # "Responding"
      BY <1>3 DEF CheckAnswer, State
  <2> HIDE DEF a
  <2>7. answer' \in SaysAdded
      BY <2>2, <2>3 DEF SaysAdded, a
  <2>8. answer' \notin SaysNotAdded
      BY <2>7 DEF SaysAdded, SaysNotAdded
  <2>9. AddedIffSaid'
      BY <1>1, <1>2, <2>7, <2>8 DEF AddedIffSaid
  <2>10. /\ answer' = "added" => State(result) = "Responding"
         /\ State(result) = "Responding" => answer' = "added" \/ RefusedRedirect
         /\ answer' = "unreachable" => State(result) = "NoResponse" \/ RefusedRedirect
         /\ answer' = "tls-invalid" => TLSState(result) \in {"Invalid", "Unavailable"}
         /\ answer' = "check-failed" => State(result) # "Responding"
      BY <1>3, <2>2, <2>3, <2>4, <2>5, <2>6 DEF a
  <2>11. MessageAgreesWithPage'
      BY <1>1, <2>10 DEF MessageAgreesWithPage, RefusedRedirect
  <2>12. failures = NoFailure => answer' = "added"
      BY <2>2
  <2> QED BY <2>7, <2>9, <2>11, <2>12
<1>6. ASSUME kind # "add"
      PROVE  /\ AddedIffSaid' /\ MessageAgreesWithPage'
             /\ answer' \in SaysAdded \cup {"refreshed"}
             /\ failures = NoFailure => answer' \in {"added", "refreshed"}
  <2>1. Unwrapped(failures) = Nil \/ "check-error" \in Unwrapped(failures)
      BY DEF Unwrapped
  <2>2. answer' = "refreshed"
      BY <1>1, <1>6, <2>1 DEF RefreshAnswer
  <2> QED BY <1>1, <1>6, <2>2 DEF AddedIffSaid, MessageAgreesWithPage
<1>7. /\ AddedIffSaid' /\ MessageAgreesWithPage'
      /\ answer' \in SaysAdded \cup {"refreshed"}
      /\ failures = NoFailure => answer' \in {"added", "refreshed"}
    BY <1>5, <1>6
<1>8. TypeOK'
    BY <1>1, <1>2, <1>7 DEF TypeOK, Steps, Answers
<1>9. Shape'
    BY <1>1, <1>2 DEF Shape, Early, Probing
<1>10. Outcome'
  <2>1. Kinds' /\ HostFailed'
      BY <1>1, <1>2 DEF Kinds, HostFailed
  <2>2. NotProbed' /\ Probed' /\ Shaken'
      BY <1>1 DEF NotProbed, Probed, Shaken, Early, Probing
  <2>3. StoredNeverPending'
      BY <1>1, <1>3 DEF StoredNeverPending, State
  <2> QED BY <1>7, <2>1, <2>2, <2>3 DEF Outcome, Said
<1>11. Clock'
    BY <1>1, <1>2 DEF Clock, Probing
<1>12. ASSUME calm PROVE Calm'
    BY <1>1, <1>2, <1>3, <1>7, <1>12 DEF Inv, Calm, Probing
<1> QED BY <1>1, <1>8, <1>9, <1>10, <1>11, <1>12 DEF Inv

-----------------------------------------------------------------------------
(* The theorems.                                                              *)

LEMMA StepInv == Inv /\ [Next]_vars => Inv'
<1> SUFFICES ASSUME Inv, [Next]_vars PROVE Inv'
    OBVIOUS
<1>1. CASE Leave
    BY <1>1, LeaveInv
<1>2. CASE Validate
    BY <1>2, ValidateInv
<1>3. CASE Insert
    BY <1>3, InsertInv
<1>4. CASE Dial
    BY <1>4, DialInv
<1>5. CASE Await
    BY <1>5, AwaitInv
<1>6. CASE Redirect
    BY <1>6, RedirectInv
<1>7. CASE Handshake
    BY <1>7, HandshakeInv
<1>8. CASE Store
    BY <1>8, StoreInv
<1>9. CASE UNCHANGED vars
  <2>1. /\ kind' = kind /\ https' = https /\ calm' = calm /\ connected' = connected
        /\ at' = at /\ now' = now /\ deadline' = deadline /\ ips' = ips
        /\ pinned' = pinned /\ target' = target /\ try' = try /\ conn' = conn /\ hops' = hops
        /\ result' = result /\ failures' = failures
        /\ row' = row /\ stored' = stored /\ answer' = answer
      BY <1>9 DEF vars, call, http, outcome, end
  <2>2. TypeOK' /\ Shape' /\ Clock'
      BY <2>1 DEF Inv, TypeOK, Shape, Clock, Early, Probing
  <2>3. Kinds' /\ HostFailed' /\ NotProbed' /\ Probed' /\ Shaken'
      BY <2>1 DEF Inv, Outcome, Kinds, HostFailed, NotProbed, Probed, Shaken, Early, Probing
  <2>4. Said'
      BY <2>1 DEF Inv, Outcome, Said, StoredNeverPending, AddedIffSaid, MessageAgreesWithPage,
                  RefusedRedirect
  <2>5. calm => Calm'
      BY <2>1 DEF Inv, Calm, Working, CalmLookups, Probing
  <2> QED BY <2>1, <2>2, <2>3, <2>4, <2>5 DEF Inv, Outcome
<1> QED BY <1>1, <1>2, <1>3, <1>4, <1>5, <1>6, <1>7, <1>8, <1>9 DEF Next, Step

LEMMA Invariance == Spec => []Inv
BY InitInv, StepInv, PTL DEF Spec

(* The variables keep their types: Redirect and Dial stay within the limit of *)
(* redirects and the lists of addresses (http.go:58-141).                     *)
THEOREM TypeCorrect == Spec => []TypeOK
<1>1. Inv => TypeOK
    BY DEF Inv
<1> QED BY <1>1, Invariance, PTL

(* However names resolve and wherever redirects lead, the HTTP and the TLS    *)
(* probe of a check dial only addresses that isUnsafeAddr accepts.            *)
THEOREM Connects == Spec => []ConnectsToValidated
<1>1. Inv => ConnectsToValidated
    BY DEF Inv, Shape, ConnectsToValidated
<1> QED BY <1>1, Invariance, PTL

(* What is stored never looks like an endpoint that was not checked.          *)
THEOREM NeverPending == Spec => []StoredNeverPending
<1>1. Inv => StoredNeverPending
    BY DEF Inv, Outcome, Said
<1> QED BY <1>1, Invariance, PTL

(* "Added" is said of what is in the table and in the CheckStore, "not added" *)
(* of what is not in the table, whatever error the check ended with.          *)
THEOREM SaidIsDone == Spec => []AddedIffSaid
<1>1. Inv => AddedIffSaid
    BY DEF Inv, Outcome, Said
<1> QED BY <1>1, Invariance, PTL

(* The message of handlePostEndpoint and the state on the page agree.         *)
THEOREM SaidIsShown == Spec => []MessageAgreesWithPage
<1>1. Inv => MessageAgreesWithPage
    BY DEF Inv, Outcome, Said
<1> QED BY <1>1, Invariance, PTL

(* A call ends before WriteTimeout for any timeouts that leave two lookups    *)
(* beside the two probes, any number of addresses and of redirects.           *)
THEOREM Budget == Spec => []WithinBudget
<1>1. Inv => WithinBudget
  <2> SUFFICES ASSUME Inv PROVE WithinBudget
      OBVIOUS
  <2>1. now \in Nat /\ now <= 2 * ResolverTimeout + RequestTimeout + TLSTimeout
      BY DEF Inv, TypeOK, Clock
  <2>2. now <= WriteTimeout
      BY <2>1, CheckAssumption
  <2> QED BY <2>1, <2>2 DEF WithinBudget
<1> QED BY <1>1, Invariance, PTL

(* An endpoint that works is found to respond, if one of its addresses does   *)
(* and the others refuse, in any order.                                       *)
THEOREM NoFalseAlarm == Spec => []CalmMeansResponding
<1>1. Inv => CalmMeansResponding
    BY DEF Inv, Calm, CalmMeansResponding
<1> QED BY <1>1, Invariance, PTL

-----------------------------------------------------------------------------
(* Why every call is answered.  Each of its steps brings it nearer to the end *)
(* by a measure that cannot fall for ever: it gets to a later stage, or it    *)
(* has a redirect less to follow, or within one request it gets on, or it has *)
(* an address less to dial.  A client that leaves does not raise it.          *)

Stage ==
    CASE at = "validating" -> 5
      [] at = "inserting" -> 4
      [] Probing -> 3
      [] at = "handshaking" -> 2
      [] at = "storing" -> 1
      [] OTHER -> 0
RedirectsLeft == MaxRedirects - hops
Turn == CASE at = "redirecting" -> 2 [] at = "dialing" -> 1 [] OTHER -> 0
AddressesLeft ==
    CASE at = "dialing" -> Len(pinned[target.host]) - try
      [] at = "handshaking" -> Len(ips) - try
      [] OTHER -> 0

Measure == <<Stage, RedirectsLeft, Turn, AddressesLeft>>
Bounded == Stage \in Nat /\ RedirectsLeft \in Nat /\ Turn \in Nat /\ AddressesLeft \in Nat

Falls ==
    \/ Stage' < Stage
    \/ Stage' = Stage /\ RedirectsLeft' < RedirectsLeft
    \/ Stage' = Stage /\ RedirectsLeft' = RedirectsLeft /\ Turn' < Turn
    \/ /\ Stage' = Stage /\ RedirectsLeft' = RedirectsLeft /\ Turn' = Turn
       /\ AddressesLeft' < AddressesLeft

LEMMA BoundedInv == Inv => Bounded
<1> SUFFICES ASSUME Inv PROVE Bounded
    OBVIOUS
<1>1. Stage \in Nat /\ Turn \in Nat
    BY DEF Stage, Turn
<1>2. RedirectsLeft \in Nat
    BY CheckAssumption DEF Inv, TypeOK, RedirectsLeft
<1>3. AddressesLeft \in Nat
  <2>1. CASE at = "dialing"
    <3>1. pinned[target.host] \in Lookups /\ pinned[target.host] # <<>>
        BY <2>1 DEF Inv, TypeOK, Shape, Target
    <3> QED BY <2>1, <3>1, ListFacts DEF Inv, TypeOK, Shape, AddressesLeft
  <2>2. CASE at = "handshaking"
    <3>1. ips \in Lookups /\ ips # <<>>
        BY <2>2 DEF Inv, TypeOK, Shape
    <3> QED BY <2>2, <3>1, ListFacts DEF Inv, TypeOK, Shape, AddressesLeft
  <2> QED BY <2>1, <2>2 DEF AddressesLeft
<1> QED BY <1>1, <1>2, <1>3 DEF Bounded

(* Stages are passed in one direction.                                        *)
LEMMA LaterStage ==
    \/ at = "validating" /\ at' \in {"inserting", "storing", "answered", "dialing"}
    \/ at = "inserting" /\ at' \in {"storing", "answered", "dialing"}
    \/ Probing /\ at' \in {"handshaking", "storing"}
    \/ at = "handshaking" /\ at' = "storing"
    \/ at = "storing" /\ at' = "answered"
    => Falls
BY DEF Falls, Stage, Probing

LEMMA ProbeOver == ASSUME Probing, NEW r, NEW e, HTTPEnds(r, e) PROVE Falls
BY LaterStage DEF HTTPEnds, Goto

LEMMA StepFalls == Inv /\ Step => Falls
<1> SUFFICES ASSUME Inv, Step PROVE Falls
    OBVIOUS
<1>1. CASE Validate
    BY <1>1, LaterStage DEF Validate, Answered, HTTPBegins, Goto
<1>2. CASE Insert
    BY <1>2, LaterStage DEF Insert, Answered, HTTPBegins, Goto
<1>3. CASE Dial
  <2>1. at = "dialing" /\ Probing
      BY <1>3 DEF Dial, Probing
  <2>2. PICK list \in {pinned[target.host]} :
           \/ \E e : HTTPEnds(FALSE, e)
           \/ Goto("awaiting")
           \/ Another(list) /\ try' = try + 1 /\ UNCHANGED at
      BY <1>3, Zenon DEF Dial, Dialable
  <2>3. UNCHANGED <<pinned, target, hops>>
      BY <1>3 DEF Dial
  <2>4. CASE \E e : HTTPEnds(FALSE, e)
      BY <2>1, <2>4, ProbeOver
  <2>5. CASE Goto("awaiting")
      BY <2>1, <2>3, <2>5 DEF Goto, Falls, Stage, Probing, RedirectsLeft, Turn
  <2>6. CASE try < Len(list) /\ try' = try + 1 /\ UNCHANGED at
    <3>1. list \in Lookups /\ list # <<>>
        BY <2>1 DEF Inv, TypeOK, Shape, Target
    <3>2. Len(list) \in Nat /\ try \in Nat
        BY <3>1, ListFacts DEF Inv, TypeOK
    <3>3. /\ AddressesLeft = Len(list) - try
          /\ AddressesLeft' = Len(list) - (try + 1)
        BY <2>1, <2>3, <2>6 DEF AddressesLeft
    <3>4. UNCHANGED <<Stage, RedirectsLeft, Turn>>
        BY <2>3, <2>6 DEF Stage, Probing, RedirectsLeft, Turn
    <3> QED BY <3>2, <3>3, <3>4 DEF Falls
  <2> QED BY <2>2, <2>4, <2>5, <2>6 DEF Another
<1>4. CASE Await
  <2>1. at = "awaiting" /\ Probing
      BY <1>4 DEF Await, Probing
  <2>2. \/ HTTPEnds(TRUE, Nil) \/ HTTPEnds(TRUE, {"redirect"}) \/ HTTPEnds(FALSE, {"failed"})
        \/ hops' = Counted /\ Goto("redirecting")
      BY <1>4, Zenon DEF Await
  <2>3. CASE \E r, e : HTTPEnds(r, e)
      BY <2>1, <2>3, ProbeOver
  <2>4. CASE hops' = Counted /\ Goto("redirecting")
    <3>1. Stage' = Stage
        BY <2>1, <2>4 DEF Goto, Stage, Probing
    <3>2. RedirectsLeft' < RedirectsLeft
        BY <2>4, CheckAssumption DEF Inv, TypeOK, Counted, RedirectsLeft
    <3> QED BY <3>1, <3>2 DEF Falls
  <2> QED BY <2>2, <2>3, <2>4
<1>5. CASE Redirect
  <2>1. at = "redirecting" /\ Probing
      BY <1>5 DEF Redirect, Probing
  <2>2. UNCHANGED hops /\ ((\E r, e : HTTPEnds(r, e)) \/ Goto("dialing"))
      BY <1>5, Zenon DEF Redirect
  <2>3. CASE \E r, e : HTTPEnds(r, e)
      BY <2>1, <2>3, ProbeOver
  <2>4. CASE Goto("dialing")
      BY <2>1, <2>2, <2>4 DEF Goto, Falls, Stage, Probing, RedirectsLeft, Turn
  <2> QED BY <2>2, <2>3, <2>4
<1>6. CASE Handshake
  <2>1. at = "handshaking"
      BY <1>6 DEF Handshake
  <2>2. \/ Goto("storing")
        \/ Another(ips) /\ try' = try + 1 /\ UNCHANGED at
      BY <1>6, Zenon DEF Handshake
  <2>3. UNCHANGED <<ips, hops>>
      BY <1>6 DEF Handshake, http
  <2>4. CASE Goto("storing")
      BY <2>1, <2>4, LaterStage DEF Goto
  <2>5. CASE try < Len(ips) /\ try' = try + 1 /\ UNCHANGED at
    <3>1. ips \in Lookups /\ ips # <<>>
        BY <2>1 DEF Inv, TypeOK, Shape
    <3>2. Len(ips) \in Nat /\ try \in Nat
        BY <3>1, ListFacts DEF Inv, TypeOK
    <3>3. /\ AddressesLeft = Len(ips) - try
          /\ AddressesLeft' = Len(ips) - (try + 1)
        BY <2>1, <2>3, <2>5 DEF AddressesLeft
    <3>4. UNCHANGED <<Stage, RedirectsLeft, Turn>>
        BY <2>3, <2>5 DEF Stage, Probing, RedirectsLeft, Turn
    <3> QED BY <3>2, <3>3, <3>4 DEF Falls
  <2> QED BY <2>2, <2>4, <2>5 DEF Another
<1>7. CASE Store
    BY <1>7, LaterStage DEF Store, Answered, Goto
<1> QED BY <1>1, <1>2, <1>3, <1>4, <1>5, <1>6, <1>7 DEF Step

(* However many addresses names have and wherever servers redirect to, a call *)
(* takes finitely many steps: each makes the measure fall, and nothing makes  *)
(* it rise.                                                                   *)
THEOREM CallAdvances ==
    Spec => []Bounded /\ [][(Step => Falls) /\ (Leave => UNCHANGED Measure)]_vars
<1>1. Inv /\ [Next]_vars => [(Step => Falls) /\ (Leave => UNCHANGED Measure)]_vars
  <2>1. Leave => UNCHANGED Measure
      BY DEF Leave, http, Measure, Stage, Probing, RedirectsLeft, Turn, AddressesLeft
  <2> QED BY <2>1, StepFalls
<1> QED BY <1>1, BoundedInv, Invariance, PTL DEF Spec

=============================================================================
