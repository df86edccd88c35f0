----------------------------- MODULE CheckOutcome ------------------------------
(* What the program makes of the result of a check: the error that Add and    *)
(* Refresh return, the answer of the handler to the admin who asked for the   *)
(* check, and the state that the pages show of the endpoint from then on.     *)
(*                                                                            *)
(* An error is the set of the sentinel errors found by unwrapping it, so that *)
(* errors.Is(err, e) is e \in err; {} is nil.  Errors nobody looks for are    *)
(* "failed".                                                                  *)

Nil == {}

(* probe.ErrUnsafeHost and endpoint.ErrUnsafeHost are different values.       *)
Sentinels == {"probe-unsafe", "unsafe", "failed", "redirect", "certificate", "exists",
              "check-error"}

(* A CheckResult.  Of times only whether they are zero is kept: checked is    *)
(* ~CheckedAt.IsZero(), expires is ~ExpiresAt.IsZero().                       *)
HTTPResult == [responded : BOOLEAN, checked : BOOLEAN]
TLSResult == [enabled : BOOLEAN, valid : BOOLEAN, expires : BOOLEAN]
CheckResult == [http : HTTPResult, tls : TLSResult]

ZeroHTTP == [responded |-> FALSE, checked |-> FALSE]
ZeroTLS == [enabled |-> FALSE, valid |-> FALSE, expires |-> FALSE]
ZeroResult == [http |-> ZeroHTTP, tls |-> ZeroTLS]

HostFailure(https) ==
    [http |-> [ZeroHTTP EXCEPT !.checked = TRUE], tls |-> [ZeroTLS EXCEPT !.enabled = https]]

(* CheckError: the failures of the host, HTTP and TLS checks.                 *)
Failures == [host : SUBSET Sentinels, http : SUBSET Sentinels, tls : SUBSET Sentinels]
NoFailure == [host |-> Nil, http |-> Nil, tls |-> Nil]

(* What errors.Is finds in it: CheckError.Unwrap returns all three.  (Mutant: *)
(* the packages share one ErrUnsafeHost.)                                     *)
OneUnsafeHost(f) ==
    LET all == f.host \cup f.http \cup f.tls
    IN  IF f = NoFailure THEN Nil
        ELSE {"check-error"} \cup all \cup (IF "probe-unsafe" \in all THEN {"unsafe"} ELSE {})
Unwrapped(f) ==
    IF f = NoFailure THEN Nil ELSE {"check-error"} \cup f.host \cup f.http \cup f.tls

(* validateEndpointHost.                                                      *)
HostError(err) == IF "probe-unsafe" \in err THEN {"unsafe"} ELSE err

-----------------------------------------------------------------------------
(* The answers of the handlers.                                               *)

(* handlePostEndpoint, for a CheckError.                                      *)
CheckAnswer(f, result) ==
    IF f.tls # Nil /\ result.tls.enabled /\ ~result.tls.valid /\ result.tls.expires
    THEN "tls-invalid"
    ELSE IF f.host # Nil THEN "unreachable"
    ELSE IF f.http # Nil /\ f.tls # Nil THEN "check-failed"
    ELSE IF f.http # Nil THEN "unreachable"
    ELSE "tls-invalid"

(* handlePostEndpoint: the cases in their order.                              *)
AddAnswer(err, f, result) ==
    IF err = Nil THEN "added"
    ELSE IF "exists" \in err THEN "duplicate"
    ELSE IF "unsafe" \in err THEN "unsafe"
    ELSE IF "check-error" \in err THEN CheckAnswer(f, result)
    ELSE "internal-error"

(* handleRefreshEndpoint, for an endpoint that ByID has found: a check that   *)
(* failed is as good as another.                                              *)
RefreshAnswer(err) ==
    IF err = Nil \/ "check-error" \in err THEN "refreshed" ELSE "internal-error"

(* What the index page says of each of them (handleGetIndex).                 *)
SaysAdded == {"added", "unreachable", "tls-invalid", "check-failed"}
SaysNotAdded == {"duplicate", "unsafe"}
Answers == SaysAdded \cup SaysNotAdded \cup {"refreshed", "internal-error"}

-----------------------------------------------------------------------------
(* The state on the pages: newEndpointListItem.                               *)

(* (Mutant: State does not look at the certificate.)                          *)
StateOfHTTP(result) ==
    IF ~result.http.checked THEN "Checking"
    ELSE IF ~result.http.responded THEN "NoResponse" ELSE "Responding"

State(result) ==
    IF ~result.http.checked THEN "Checking"
    ELSE IF ~result.http.responded THEN "NoResponse"
    ELSE IF result.tls.enabled /\ ~result.tls.valid THEN "TLSIssue"
    ELSE "Responding"

TLSState(result) ==
    IF ~result.http.checked THEN "Checking"
    ELSE IF ~result.tls.enabled THEN "NotEnabled"
    ELSE IF result.tls.valid THEN "Valid"
    ELSE IF result.tls.expires THEN "Invalid"
    ELSE "Unavailable"

=============================================================================
