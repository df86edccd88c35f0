---------------------------- MODULE MCAccessControl ----------------------------
(* AccessControl on small sets; users, tokens and requests are alike.         *)
EXTENDS AccessControl, TLC

Symmetry == Permutations(Users) \cup Permutations(Tokens) \cup Permutations(Requests)

=============================================================================
