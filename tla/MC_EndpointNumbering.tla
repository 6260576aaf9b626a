------------------------ MODULE MC_EndpointNumbering ------------------------
(* Instantiation of EndpointNumbering for TLC.                              *)
EXTENDS EndpointNumbering, TLC

CONSTANTS u1, u2, u3

MCUids == {u1, u2, u3}
MCAnyUid == {u1, u2, u3, NoUid}
MCPresetOne == {0, 1}
=============================================================================
