------------------------------ MODULE MCUrlTable -------------------------------
(* An instance of UrlTable for TLC: one host name and one IPv6 address, ports *)
(* that are the default of either scheme or of none, or out of range.         *)
EXTENDS UrlTable

CONSTANTS name, literal, noPath, root, noQuery

AllNames == {name}
AllLiterals == {literal}
AllNumbers == {0, 80, 443, 65535, 65536}
AllPaths == {noPath, root}
AllQueries == {noQuery}

=============================================================================
