------------------------------- MODULE UrlTable --------------------------------
(* ParseURL, and the table of endpoints that identifies them by its results:  *)
(* Add inserts the normalized text under a UNIQUE constraint, and Refresh     *)
(* parses the stored text again.                                              *)
(*                                                                            *)
(* A text is a record of the components that url.Parse splits it into, each   *)
(* with the spellings that the code tells apart or makes equal.               *)
EXTENDS Naturals, FiniteSets

CONSTANTS
    Names, Literals, NoHost,    \* host names and IPv6 addresses, in lower case
    Numbers,                    \* port numbers, legal or not
    Paths, NoPath, Root,        \* paths: among them the empty one, and "/"
    Queries, NoQuery,
    MaxRows                     \* a bound on the table

ASSUME UrlAssumption ==
    /\ Names \cap Literals = {} /\ NoHost \notin Names \cup Literals
    /\ Numbers \subseteq Nat /\ 0 \in Numbers
    /\ {NoPath, Root} \subseteq Paths /\ NoPath # Root /\ NoQuery \in Queries
    /\ MaxRows \in Nat

(* A port is missing, missing after its colon, not a number, or a number      *)
(* without or with leading zeros.                                             *)
Port ==
    [form : {"none", "empty", "junk"}, number : {0}]
        \cup [form : {"digits", "zeros"}, number : Numbers]
NoPort == [form |-> "none", number |-> 0]
Written(port) == port.form \in {"digits", "zeros"}

Text ==
    [scheme : {"http", "https", "other"}, capitals : BOOLEAN, user : BOOLEAN,
     host : Names \cup Literals \cup {NoHost}, brackets : BOOLEAN, port : Port,
     path : Paths, query : Queries, fragment : BOOLEAN]

-----------------------------------------------------------------------------
(* ParseURL.                                                                  *)

MaxPort == 65535

(* What it accepts.  The first two are url.Parse's conditions.                *)
Valid(t) ==
    /\ t.brackets <=> t.host \in Literals
    /\ t.port.form # "junk"
    /\ t.scheme \in {"http", "https"}
    /\ t.host # NoHost
    /\ ~t.user
    /\ t.port.form # "empty"
    /\ Written(t.port) => t.port.number \in 1..MaxPort

DefaultPort(scheme) == IF scheme = "http" THEN 80 ELSE 443

(* The default port of the scheme is left out, any other is written without   *)
(* leading zeros.  (Mutants: either port is left out of either scheme; the    *)
(* digits stay as they are.)                                                  *)
NormalPortAnyDefault(t) ==
    IF Written(t.port) /\ t.port.number \notin {80, 443}
    THEN [form |-> "digits", number |-> t.port.number] ELSE NoPort
NormalPortAsWritten(t) ==
    IF Written(t.port) /\ t.port.number # DefaultPort(t.scheme) THEN t.port ELSE NoPort
NormalPort(t) ==
    IF Written(t.port) /\ t.port.number # DefaultPort(t.scheme)
    THEN [form |-> "digits", number |-> t.port.number] ELSE NoPort

(* JoinHostPort brackets a literal; without a port the code has to.  (Mutant: *)
(* it does not.)                                                              *)
BracketsByJoin(t) == t.host \in Literals /\ NormalPort(t) # NoPort
Brackets(t) == t.host \in Literals

(* (Mutant: an empty path stays empty.)                                       *)
NormalPathKept(path) == path
NormalPath(path) == IF path = NoPath THEN Root ELSE path

Parse(t) ==
    [t EXCEPT !.capitals = FALSE, !.port = NormalPort(t), !.brackets = Brackets(t),
              !.path = NormalPath(t.path), !.fragment = FALSE]

-----------------------------------------------------------------------------
(* What an HTTP client asks for, and of whom, when given the text: the        *)
(* reference that ParseURL must not change and must tell apart.               *)
Target(t) ==
    [scheme |-> t.scheme, host |-> t.host,
     port |-> IF Written(t.port) THEN t.port.number ELSE DefaultPort(t.scheme),
     path |-> IF t.path = NoPath THEN Root ELSE t.path, query |-> t.query]

-----------------------------------------------------------------------------
(* The table, and the requests.                                               *)

VARIABLES
    rows,       \* the column url
    asked,      \* what the last request with a valid URL asked for
    answer      \* of the last request

vars == <<rows, asked, answer>>

Nothing == [scheme |-> "other", host |-> NoHost, port |-> 0, path |-> NoPath, query |-> NoQuery]

Init == rows = {} /\ asked = Nothing /\ answer = "removed"

(* Service.Add, without the check.                                            *)
Add(t) ==
    \/ /\ ~Valid(t)
       /\ answer' = "invalid"
       /\ UNCHANGED <<rows, asked>>
    \/ /\ Valid(t) /\ Parse(t) \in rows
       /\ asked' = Target(t)
       /\ answer' = "duplicate"
       /\ UNCHANGED rows
    \/ /\ Valid(t) /\ Parse(t) \notin rows
       /\ Cardinality(rows) < MaxRows
       /\ rows' = rows \cup {Parse(t)}
       /\ asked' = Target(t)
       /\ answer' = "added"

(* Service.Refresh parses what the table has.                                 *)
Refresh(t) ==
    /\ answer' = IF Valid(t) THEN "refreshed" ELSE "internal-error"
    /\ UNCHANGED <<rows, asked>>

(* Service.RemoveByID.                                                        *)
Remove(t) ==
    /\ rows' = rows \ {t}
    /\ answer' = "removed"
    /\ UNCHANGED asked

Next == (\E t \in Text : Add(t)) \/ (\E t \in rows : Refresh(t) \/ Remove(t))

Spec == Init /\ [][Next]_vars

-----------------------------------------------------------------------------
(* Properties.                                                                *)

TypeOK ==
    /\ rows \subseteq {t \in Text : ~t.capitals /\ t.path # NoPath /\ ~t.fragment}
    /\ asked \in [scheme : {"http", "https", "other"}, host : Names \cup Literals \cup {NoHost},
                  port : Nat, path : Paths, query : Queries]
    /\ answer \in {"invalid", "duplicate", "added", "refreshed", "internal-error", "removed"}

(* A stored URL parses, to itself: Refresh never fails on a row, and checks   *)
(* what Add checked (service.go:106).                                         *)
StoredParsesToItself ==
    /\ \A t \in rows : Valid(t) /\ Parse(t) = t
    /\ answer # "internal-error"

(* No two rows are the same endpoint spelled differently (url.go:61): the     *)
(* UNIQUE constraint compares texts.                                          *)
OneRowPerTarget == \A t, u \in rows : Target(t) = Target(u) => t = u

(* What is added, or said to be there already, is what was asked for.         *)
AddedAsAsked ==
    answer \in {"added", "duplicate"} => \E t \in rows : Target(t) = asked

=============================================================================
