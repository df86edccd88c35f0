-------------------------- MODULE EndpointRegistry --------------------------
(* What the endpoint service promises its callers, with every step atomic: a *)
(* set of registered endpoints, no two with the same URL, each with at most   *)
(* one latest check result.  An ID is registered once and, after removal,     *)
(* never again.  A registered endpoint that has a result keeps having one     *)
(* until it is removed or the process, whose memory holds the results,        *)
(* restarts.  A result is abstracted to the time it was taken; 0 is the zero  *)
(* CheckResult of an endpoint that was never checked.                         *)
EXTENDS Naturals

CONSTANTS Ids, Urls, NoUrl   \* NoUrl: not registered

VARIABLES
    registered,     \* [Ids -> Urls \cup {NoUrl}]: the configured endpoints
    latest,         \* [Ids -> Nat]: the result a reader gets, 0 if none
    retired         \* the IDs of the endpoints that were removed

vars == <<registered, latest, retired>>

TypeOK ==
    /\ registered \in [Ids -> Urls \cup {NoUrl}]
    /\ latest \in [Ids -> Nat]
    /\ retired \subseteq Ids

Init ==
    /\ registered = [i \in Ids |-> NoUrl]
    /\ latest = [i \in Ids |-> 0]
    /\ retired = {}

(* A new endpoint appears under a fresh ID, unless its URL is registered.     *)
Register(i, u) ==
    /\ registered[i] = NoUrl
    /\ i \notin retired
    /\ \A j \in Ids : registered[j] # u
    /\ registered' = [registered EXCEPT ![i] = u]
    /\ UNCHANGED <<latest, retired>>

(* A check of a registered endpoint completes.                                *)
Observe(i) ==
    /\ registered[i] # NoUrl
    /\ latest'[i] \in Nat \ {0}
    /\ latest' = [latest EXCEPT ![i] = latest'[i]]
    /\ UNCHANGED <<registered, retired>>

(* The endpoint and its result disappear together.                            *)
Forget(i) ==
    /\ registered[i] # NoUrl
    /\ registered' = [registered EXCEPT ![i] = NoUrl]
    /\ latest' = [latest EXCEPT ![i] = 0]
    /\ retired' = retired \cup {i}

(* The results live in memory only.                                           *)
Restart ==
    /\ latest' = [i \in Ids |-> 0]
    /\ UNCHANGED <<registered, retired>>

Next ==
    \/ \E i \in Ids : \/ \E u \in Urls : Register(i, u)
                      \/ Observe(i)
                      \/ Forget(i)
    \/ Restart

Spec == Init /\ [][Next]_vars

-----------------------------------------------------------------------------

(* No URL is registered twice, a removed ID never returns, and only           *)
(* registered endpoints have a result.                                        *)
Consistent ==
    /\ \A i, j \in Ids :
          registered[i] # NoUrl /\ registered[i] = registered[j] => i = j
    /\ \A i \in retired : registered[i] = NoUrl
    /\ \A i \in Ids : latest[i] # 0 => registered[i] # NoUrl

=============================================================================
