----------------------- MODULE MC_EndpointClusterData -----------------------
(* Instance of EndpointClusterData for TLC: three unique ids and one      *)
(* written attribute value.                                                *)
EXTENDS EndpointClusterData, TLC

CONSTANTS u1, u2, u3, w1, w2

MCUids == {u1, u2, u3}
MCNoPresets == {0}
MCAnyUid == {u1, u2, u3, NoUid}
MCPresetOne == {0, 1}
MCValues == {w1}
\* A written value and the cleared attribute.
MCValuesClear == {w1, Undefined}
====
