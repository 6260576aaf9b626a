----------------------- MODULE MC_ControllerCommission -----------------------
(* Instance of ControllerCommission for TLC: an IPv4, an IPv6 and a BLE    *)
(* address; commissionableDevice address lists mixing UDP and BLE.         *)
EXTENDS ControllerCommission, TLC

CONSTANTS u4, u6, b1

MCAddresses == {u4, u6, b1}
MCAddrType == (u4 :> "udp4") @@ (u6 :> "udp6") @@ (b1 :> "ble")
MCDeviceAddrs == {{u4, b1}, {u6, b1}, {b1}, {u4, u6}}
====
