----------------------------- MODULE EndpointCheck -----------------------------
(* One call of Service.Add or Service.Refresh from the validation of the host *)
(* to the answer of the handler: packages probe and endpoint against a name   *)
(* server whose answers may change from one lookup to the next, servers that  *)
(* accept, refuse, drop or redirect, and a client that may disconnect, which  *)
(* cancels the request's context and with it whatever is going on.            *)
(*                                                                            *)
(* Each step takes some of the call's time, in seconds.  EndpointService has  *)
(* the same call among others, with all of this in its Probe step.            *)
EXTENDS Naturals, Sequences, CheckOutcome

CONSTANTS
    Hosts, Origin,          \* host names; the one of the endpoint's URL
    Addrs, NoAddr,          \* IP addresses
    Internal,               \* those isUnsafeAddr rejects
    Up,                     \* those that always accept, with a good certificate
    Down,                   \* those that always refuse; any others do as they like
    Lookups,                \* the lists of addresses a lookup may return
    ResolverTimeout, RequestTimeout, TLSTimeout, WriteTimeout, MaxRedirects

Failed == <<"failed">>      \* what a lookup that fails returns

ASSUME CheckAssumption ==
    /\ Origin \in Hosts
    /\ NoAddr \notin Addrs
    /\ Internal \subseteq Addrs /\ Up \subseteq Addrs /\ Down \subseteq Addrs
    /\ Lookups \subseteq Seq(Addrs) /\ Failed \notin Lookups
    /\ ResolverTimeout \in Nat /\ RequestTimeout \in Nat \ {0} /\ TLSTimeout \in Nat \ {0}
    /\ WriteTimeout \in Nat
    /\ 2 * ResolverTimeout + RequestTimeout + TLSTimeout <= WriteTimeout
    /\ MaxRedirects \in Nat \ {0}

VARIABLES
    kind,       \* "add" or "refresh"
    https,      \* the scheme of the endpoint's URL
    calm,       \* nothing goes wrong in this behaviour, but at Down addresses
    connected,  \* the client has not disconnected
    at,         \* where the call is
    now,        \* seconds since it began
    deadline,   \* of the HTTP request, or of the TLS probe
    ips,        \* the addresses that validateEndpointHost returned
    pinned,     \* validatedIPs of the HTTP client: [Hosts -> Seq(Addrs)]
    target,     \* where the current HTTP request goes: host and scheme
    try,        \* the index of the address to dial next
    conn,       \* the address dialed last, by either probe, until there is a response
    hops,       \* the requests that were answered with a redirect
    result, failures,   \* the CheckResult and the CheckError, as far as they are known
    row, stored,        \* the endpoint is in the table, the result in the CheckStore
    answer              \* of the handler

call == <<kind, https, calm>>
http == <<pinned, target, hops>>
outcome == <<result, failures>>
end == <<row, stored, answer>>
vars == <<call, connected, at, now, deadline, ips, http, try, conn, outcome, end>>

Steps == {"validating", "inserting", "dialing", "awaiting", "redirecting", "handshaking",
          "storing", "answered"}
Target == [host : Hosts, https : BOOLEAN]

TypeOK ==
    /\ kind \in {"add", "refresh"} /\ https \in BOOLEAN /\ calm \in BOOLEAN
    /\ connected \in BOOLEAN
    /\ at \in Steps
    /\ now \in Nat /\ deadline \in Nat
    /\ ips \in Lookups \cup {<<>>}
    /\ pinned \in [Hosts -> Lookups \cup {<<>>}]
    /\ target \in Target
    /\ try \in Nat \ {0}
    /\ conn \in Addrs \cup {NoAddr}
    /\ hops \in 0..MaxRedirects
    /\ result \in CheckResult /\ failures \in Failures
    /\ row \in BOOLEAN /\ stored \in BOOLEAN
    /\ answer \in Answers \cup {"none"}

Init ==
    /\ kind \in {"add", "refresh"}
    /\ https \in BOOLEAN
    /\ calm \in BOOLEAN
    /\ connected = TRUE
    /\ at = "validating"
    /\ now = 0
    /\ deadline = 0
    /\ ips = <<>>
    /\ pinned = [h \in Hosts |-> <<>>]
    /\ target = [host |-> Origin, https |-> https]
    /\ try = 1
    /\ conn = NoAddr
    /\ hops = 0
    /\ result = ZeroResult
    /\ failures = NoFailure
    /\ row = (kind = "refresh")
    /\ stored = FALSE
    /\ answer = "none"

-----------------------------------------------------------------------------
(* The world outside.                                                         *)

Elements(list) == {list[n] : n \in DOMAIN list}

(* What a dialed address does: accept with a good certificate or with a bad   *)
(* one, refuse, or drop all packets.                                          *)
Behaviours == {"good", "bad-certificate", "refuses", "silent"}
Behaviour(a) ==
    IF a \in Up THEN {"good"} ELSE IF a \in Down THEN {"refuses"} ELSE Behaviours

(* Addresses in the order a lookup returned them, or the lookup's failure.    *)
(* When the client has left every lookup fails, but a host that is itself an  *)
(* address needs none (host.go:37).                                           *)
CalmLookups ==
    {l \in Lookups : /\ Elements(l) \subseteq (Up \cup Down) \ Internal
                     /\ Elements(l) \cap Up # {}}
Literals == {l \in Lookups : Len(l) = 1}
Replies ==
    IF calm THEN CalmLookups ELSE {Failed} \cup (IF connected THEN Lookups ELSE Literals)

(* validateHost: one internal address is enough to reject the host.           *)
(* (Mutants: it does not look for an empty list; nor at the lookup's error.)  *)
LookupErrorNoneFound(l) ==
    IF l = Failed THEN {"failed"}
    ELSE IF Elements(l) \cap Internal # {} THEN {"probe-unsafe"} ELSE Nil
LookupErrorIgnored(l) ==
    IF l = <<>> THEN {"failed"}
    ELSE IF Elements(l) \cap Internal # {} THEN {"probe-unsafe"} ELSE Nil
LookupError(l) ==
    IF l \in {Failed, <<>>} THEN {"failed"}
    ELSE IF Elements(l) \cap Internal # {} THEN {"probe-unsafe"} ELSE Nil

(* The time a step may take, up to a limit: none when all is calm, or when its *)
(* context is cancelled.                                                      *)
Takes(limit) == IF calm \/ ~connected THEN {0} ELSE 0..limit
Remaining == IF now < deadline THEN deadline - now ELSE 0

(* The client disconnects in the middle of a step: the server cancels the     *)
(* request's context.                                                         *)
Leave ==
    /\ connected /\ ~calm /\ at # "answered"
    /\ connected' = FALSE
    /\ \E d \in CASE at \in {"validating", "redirecting"} -> 0..ResolverTimeout
                 [] at \in {"dialing", "awaiting", "handshaking"} -> 0..Remaining
                 [] OTHER -> {0} : now' = now + d
    /\ UNCHANGED <<call, at, deadline, ips, http, try, conn, outcome, end>>

-----------------------------------------------------------------------------
(* The HTTP and the TLS probe.                                                *)

Goto(step) == at' = step

(* probe.HTTP returns, and probe.TLS begins; an endpoint without TLS is done. *)
(* The deadline of the TLS probe is one for all its addresses.                *)
HTTPEnds(responded, err) ==
    /\ result' = [result EXCEPT !.http = [responded |-> responded, checked |-> ips # <<>>],
                                !.tls.enabled = https /\ ips # <<>>]
    /\ failures' = [failures EXCEPT !.http = err]
    /\ try' = 1
    /\ deadline' = now' + TLSTimeout
    /\ Goto(IF https THEN "handshaking" ELSE "storing")

(* What a dial consumes of the time: all of it at a silent address.  (Mutant: *)
(* the TLS probe has a timeout per address.)                                  *)
DialTimePerAddress(b) == IF b = "silent" THEN {TLSTimeout} ELSE Takes(Remaining)
DialTime(b) == IF b = "silent" THEN {Remaining} ELSE Takes(Remaining)

(* The addresses that DialContext tries: those pinned to the host.  (Mutant:  *)
(* whatever a new lookup returns.)                                            *)
ResolvedAnew(h) ==
    {l \in IF calm THEN CalmLookups ELSE Lookups : try <= Len(l)}
Dialable(h) == {pinned[h]}

(* Whether a dial that failed is followed by one of the next address.         *)
(* (Mutant: it never is.)                                                     *)
OnlyFirst(list) == FALSE
Another(list) == try < Len(list)

(* DialContext, and the TLS handshake on the connection it returns.  The      *)
(* dialer's own timeout is as long as the request's, so never first.          *)
Dial ==
    /\ at = "dialing"
    /\ UNCHANGED <<call, connected, ips, pinned, target, hops, end>>
    /\ \E list \in Dialable(target.host) :
          IF list = <<>> \/ ~connected \/ Remaining = 0
          THEN /\ UNCHANGED <<now, conn>>
               /\ HTTPEnds(FALSE, IF list = <<>> THEN {"probe-unsafe"} ELSE {"failed"})
          ELSE \E b \in Behaviour(list[try]) : \E d \in DialTime(b) :
                  /\ now' = now + d
                  /\ conn' = list[try]
                  /\ \/ /\ b = "good" \/ (b = "bad-certificate" /\ ~target.https)
                        /\ Goto("awaiting")
                        /\ UNCHANGED <<deadline, try, outcome>>
                     \/ /\ b = "bad-certificate" /\ target.https
                        /\ HTTPEnds(FALSE, {"certificate"})
                     \/ /\ b \in {"refuses", "silent"} /\ Another(list)
                        /\ try' = try + 1
                        /\ UNCHANGED <<at, deadline, outcome>>
                     \/ /\ b \in {"refuses", "silent"} /\ ~Another(list)
                        /\ HTTPEnds(FALSE, {"failed"})

(* Requests that count against MaxRedirects: those sent so far.  (Mutant:     *)
(* they are not counted.)                                                     *)
Uncounted == 0
Counted == hops + 1

(* The server answers, redirects, or is silent.  A redirect is refused when   *)
(* there were too many, and for its scheme or credentials; the response that  *)
(* asked for it counts as one all the same.                                   *)
Await ==
    /\ at = "awaiting"
    /\ conn' = NoAddr
    /\ UNCHANGED <<call, connected, ips, pinned, end>>
    /\ \E d \in Takes(Remaining) :
          \/ connected /\ now' = now + d /\ HTTPEnds(TRUE, Nil) /\ UNCHANGED <<target, hops>>
          \/ /\ connected /\ now' = now + d
             /\ ~calm \/ Counted < MaxRedirects
             /\ IF Counted >= MaxRedirects
                THEN HTTPEnds(TRUE, {"redirect"}) /\ UNCHANGED <<target, hops>>
                ELSE /\ target' \in Target
                     /\ hops' = Counted
                     /\ Goto("redirecting")
                     /\ UNCHANGED <<deadline, try, outcome>>
          \/ /\ connected /\ ~calm /\ now' = now + d
             /\ HTTPEnds(TRUE, {"redirect"}) /\ UNCHANGED <<target, hops>>
          \/ /\ ~calm /\ now' = now + d
             /\ HTTPEnds(FALSE, {"failed"}) /\ UNCHANGED <<target, hops>>

(* CheckRedirect validates the host of a redirect and pins it.  The lookup is *)
(* not bound by the request's deadline.                                       *)
Redirect ==
    /\ at = "redirecting"
    /\ UNCHANGED <<call, connected, ips, target, conn, hops, end>>
    /\ \E l \in Replies, d \in Takes(ResolverTimeout) :
          /\ now' = now + d
          /\ \/ /\ LookupError(l) # Nil
                /\ HTTPEnds(TRUE, LookupError(l))
                /\ UNCHANGED pinned
             \/ /\ LookupError(l) = Nil
                /\ pinned' = [pinned EXCEPT ![target.host] = l]
                /\ try' = 1
                /\ Goto("dialing")
                /\ UNCHANGED <<deadline, outcome>>

(* tlsProbe: the first address with which a handshake succeeds.               *)
Handshake ==
    /\ at = "handshaking"
    /\ UNCHANGED <<call, connected, deadline, ips, http, end>>
    /\ IF ips = <<>> \/ ~connected \/ Remaining = 0
       THEN /\ failures' = [failures EXCEPT !.tls = {"failed"}]
            /\ Goto("storing")
            /\ UNCHANGED <<now, try, conn, result>>
       ELSE \E b \in Behaviour(ips[try]) : \E d \in DialTime(b) :
               /\ now' = now + d
               /\ conn' = ips[try]
               /\ \/ /\ b = "good"
                     /\ result' = [result EXCEPT !.tls.valid = TRUE, !.tls.expires = TRUE]
                     /\ Goto("storing")
                     /\ UNCHANGED <<try, failures>>
                  \/ /\ b = "bad-certificate"
                     /\ result' = [result EXCEPT !.tls.expires = TRUE]
                     /\ failures' = [failures EXCEPT !.tls = {"certificate"}]
                     /\ Goto("storing")
                     /\ UNCHANGED try
                  \/ /\ b \in {"refuses", "silent"} /\ Another(ips)
                     /\ try' = try + 1
                     /\ UNCHANGED <<at, outcome>>
                  \/ /\ b \in {"refuses", "silent"} /\ ~Another(ips)
                     /\ failures' = [failures EXCEPT !.tls = {"failed"}]
                     /\ Goto("storing")
                     /\ UNCHANGED <<try, result>>

-----------------------------------------------------------------------------
(* Service.Add and Service.Refresh.                                           *)

HTTPBegins(list) ==
    /\ pinned' = [pinned EXCEPT ![Origin] = list]
    /\ deadline' = now' + RequestTimeout
    /\ Goto("dialing")

Answered(a) == Goto("answered") /\ answer' = a

(* The host of the endpoint is looked up.  Add gives up an unsafe one; every  *)
(* other failure is a result to store.                                        *)
Validate ==
    /\ at = "validating"
    /\ UNCHANGED <<call, connected, target, try, conn, hops, row, stored>>
    /\ \E l \in Replies, d \in Takes(ResolverTimeout) :
          LET err == HostError(LookupError(l)) IN
          /\ now' = now + d
          /\ \/ /\ err # Nil /\ kind = "add" /\ "unsafe" \in err
                /\ Answered(AddAnswer(err, NoFailure, ZeroResult))
                /\ UNCHANGED <<deadline, ips, pinned, outcome>>
             \/ /\ err # Nil /\ ~(kind = "add" /\ "unsafe" \in err)
                /\ result' = HostFailure(https)
                /\ failures' = [failures EXCEPT !.host = err]
                /\ Goto(IF kind = "add" THEN "inserting" ELSE "storing")
                /\ UNCHANGED <<deadline, ips, pinned, answer>>
             \/ /\ err = Nil
                /\ ips' = l
                /\ IF kind = "add"
                   THEN Goto("inserting") /\ UNCHANGED <<deadline, pinned>>
                   ELSE HTTPBegins(l)
                /\ UNCHANGED <<outcome, answer>>

(* Repository.Insert: it succeeds, finds the URL taken, or fails, whether it  *)
(* was applied or not.  It takes no time here: pool.Exec has no timeout of    *)
(* its own.                                                                   *)
Insert ==
    /\ at = "inserting"
    /\ UNCHANGED <<call, connected, now, ips, target, try, conn, hops, outcome, stored>>
    /\ \/ /\ connected
          /\ row' = TRUE
          /\ IF failures.host # Nil
             THEN Goto("storing") /\ UNCHANGED <<deadline, pinned>>
             ELSE HTTPBegins(ips)
          /\ UNCHANGED answer
       \/ /\ connected
          /\ Answered(AddAnswer({"exists"}, NoFailure, ZeroResult))
          /\ UNCHANGED <<row, deadline, pinned>>
       \/ /\ ~calm
          /\ row' \in BOOLEAN
          /\ Answered(AddAnswer({"failed"}, NoFailure, ZeroResult))
          /\ UNCHANGED <<deadline, pinned>>

(* CheckStore.Set, and the answer of the handler.                             *)
Store ==
    /\ at = "storing"
    /\ stored' = TRUE
    /\ Answered(IF kind = "add" THEN AddAnswer(Unwrapped(failures), failures, result)
                ELSE RefreshAnswer(Unwrapped(failures)))
    /\ UNCHANGED <<call, connected, now, deadline, ips, http, try, conn, outcome, row>>

Step == Validate \/ Insert \/ Dial \/ Await \/ Redirect \/ Handshake \/ Store

Next == Leave \/ Step

Spec == Init /\ [][Next]_vars

(* A step that has begun ends: every one has a deadline, and PostgreSQL       *)
(* answers.                                                                   *)
FairSpec == Spec /\ WF_vars(Step)

-----------------------------------------------------------------------------
(* Properties.                                                                *)

(* An admin who is told that the endpoint was added finds it in the table     *)
(* with the result of its first check, and one who is told that it was not    *)
(* does not: whichever errors the check wrapped (endpoint_handlers.go:91).    *)
AddedIffSaid ==
    at = "answered" /\ kind = "add" =>
        /\ answer \in SaysAdded <=> row /\ stored
        /\ answer \in SaysNotAdded => ~row

(* A redirect that was followed as far as its refusal: the server responded,  *)
(* and the check failed.                                                      *)
RefusedRedirect == result.http.responded /\ failures.http # Nil

(* What the admin is told of a new endpoint and what the page shows of it say *)
(* the same, with two exceptions.  Of a refused redirect the message is       *)
(* "unreachable" while the page says that it responds, and "certificate is    *)
(* invalid" is also said when no TLS connection came about, where the page    *)
(* says "Unavailable" (endpoint_handlers.go:94, 122, view.go:93).             *)
MessageAgreesWithPage ==
    at = "answered" /\ kind = "add" /\ answer \in SaysAdded =>
        /\ answer = "added" => State(result) = "Responding"
        /\ State(result) = "Responding" => answer = "added" \/ RefusedRedirect
        /\ answer = "unreachable" => State(result) = "NoResponse" \/ RefusedRedirect
        /\ answer = "tls-invalid" => TLSState(result) \in {"Invalid", "Unavailable"}
        /\ answer = "check-failed" => State(result) # "Responding"

(* A result that was stored does not look like no result: CheckedAt is set    *)
(* however the check ended, also on the paths that never got to a probe       *)
(* (service.go:202, http.go:23), or the page would say "Checking" for good    *)
(* (view.go:61).                                                              *)
StoredNeverPending == stored => State(result) # "Checking"

(* Both probes only dial addresses that passed isUnsafeAddr, although names   *)
(* may resolve differently at each lookup and redirects may lead to any host  *)
(* (http.go:76, 135, tls.go:50).                                              *)
ConnectsToValidated == conn \notin Internal

(* However many addresses and redirects there are, a call ends before the     *)
(* server's WriteTimeout: two lookups' time beyond the timeouts of the two    *)
(* probes at most (tls.go:38, http.go:110, run.go:96).  This is the time the  *)
(* network takes; that of PostgreSQL is not in it.                            *)
WithinBudget ==
    now <= 2 * ResolverTimeout + RequestTimeout + TLSTimeout /\ now <= WriteTimeout

(* No false alarm: when the client stays and names resolve to validated       *)
(* addresses of which one works and the others refuse, the endpoint is found  *)
(* to respond, in whichever order the addresses come (http.go:93, tls.go:50). *)
CalmMeansResponding ==
    calm /\ stored => State(result) = "Responding" /\ answer \in {"added", "refreshed"}

(* Every call is answered, whatever servers and name servers do: the number   *)
(* of redirects is limited, and each address is dialed once per request.      *)
EveryCallAnswered == <>(at = "answered")

=============================================================================
