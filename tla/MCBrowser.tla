------------------------------- MODULE MCBrowser -------------------------------
(* Instances of Browser for TLC.                                              *)
EXTENDS Browser

=============================================================================
