------------------------- MODULE MCEndpointService -------------------------
(* Instances of EndpointService for TLC.  The IDs, URLs and requests are      *)
(* interchangeable model values.                                              *)
EXTENDS EndpointService, TLC

Symmetry == Permutations(Ids) \cup Permutations(Urls) \cup Permutations(Requests)

=============================================================================
