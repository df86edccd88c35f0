---------------------------- MODULE MCEndpointCheck ----------------------------
(* An instance of EndpointCheck for TLC: an address that works, one that      *)
(* refuses, one that does as it likes and one that is internal, and the lists *)
(* of them that lookups may return.                                           *)
EXTENDS EndpointCheck

CONSTANTS works, refuses, varies, internal

AllAddrs == {works, refuses, varies, internal}
InternalAddrs == {internal}
UpAddrs == {works}
DownAddrs == {refuses}
AllLookups ==
    {<<>>, <<varies>>, <<refuses, works>>, <<varies, refuses, varies>>, <<works, internal>>}

=============================================================================
