--------------------------- MODULE MCVolumeShares ---------------------------
(* An instance of VolumeShares for TLC: the volumes a and a-b mean the same   *)
(* share by a-b-c.                                                           *)
EXTENDS VolumeShares, TLC

MCParts   == {"a", "b", "c"}
MCVolumes == {<<"a">>, <<"a", "b">>}
MCNames   == {<<"c">>, <<"b", "c">>}

Symmetry == Permutations(Ops)
=============================================================================
