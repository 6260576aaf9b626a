------------------------ MODULE MC_ControllerConnect ------------------------
(* Instantiation of ControllerConnect for TLC: one fabric peer with two     *)
(* possible operational addresses.                                         *)
EXTENDS ControllerConnect, TLC

CONSTANTS c1, c2, n1, a1, a2

MCCallsOne == {c1}
MCCallsTwo == {c1, c2}
MCNodes == {n1}
MCAddresses == {a1, a2}
\* a2 is an IPv4 address.
MCV4Addrs == {a2}
MCTimeoutsAll == {"bounded", "unbounded"}
MCTimeoutsBounded == {"bounded"}
MCAppOpsAll == {"disconnect", "removeNode"}
MCAppOpsNone == {}
=============================================================================
