------------------------ MODULE ControllerCommission ------------------------
(***************************************************************************)
(* One commission() call of MatterController                              *)
(* (src/packages/matter.js/src/MatterController.ts): the choice of the     *)
(* known address (commissionableDevice addresses, UDP first), device      *)
(* discovery, iterateServerAddresses() over initializePaseSecureChannel(), *)
(* the fallback from a failed known address to full discovery (a          *)
(* recursive commission() call), and commissionDevice() with the          *)
(* ControllerCommissioner steps and its CASE callback.                     *)
(*                                                                         *)
(* The steps of one call are sequential; the peer device is the           *)
(* environment and can go offline or change the address it answers on.   *)
(* The connect() run by the CASE callback is reduced to its outcome: on   *)
(* success it has stored the node in commissionedNodes (its inside is the *)
(* module ControllerConnect).  ControllerDiscovery, the exchange layer and *)
(* ControllerCommissioner are not under src/; they are taken from the     *)
(* specification (sections 4.3-4.5) and marked so in the map.            *)
(***************************************************************************)
EXTENDS Naturals, Sequences

CONSTANTS
    Addresses,    \* commissionable addresses (model values)
    AddrType,     \* address -> "udp4" | "udp6" | "ble"
    NoAddr,       \* model value: no known address
    DeviceAddrs,  \* address sets a caller may pass as commissionableDevice.addresses
    OtherErrors,  \* TRUE: PASE may fail with an error other than retransmission
    MaxChannels,  \* bound on channels opened in one behaviour
    MaxDepth      \* bound on nested commission() frames

ASSUME NoAddr \notin Addresses
ASSUME AddrType \in [Addresses -> {"udp4", "udp6", "ble"}]
ASSUME DeviceAddrs \subseteq (SUBSET Addresses \ {{}})
ASSUME OtherErrors \in BOOLEAN
ASSUME MaxChannels \in Nat /\ MaxDepth \in Nat \ {0}

VARIABLES
    depth,        \* nested commission() frames (1 for the caller's call)
    known,        \* knownAddress of the current frame
    bleCap,       \* discoveryCapabilities.ble of the current frame
    pc,           \* where the call is
    cands,        \* candidates of iterateServerAddresses()
    cidx,         \* next candidate
    refreshed,    \* the candidates were refreshed once
    cur,          \* channel of the running initializePaseSecureChannel() (NoChan: none)
    chan,         \* channel id -> "unused" | "open" | "closed"
    unsecure,     \* channels whose unsecure session is still allocated
    exch,         \* channels whose PASE exchange is still open
    nextChan,     \* next channel id
    paseCh,       \* channel of the established PASE secure session (NoChan: none)
    bleIf,        \* netInterfaceBle / bleScanner set by collectScanners()
    bleScan,      \* scannersToUse of the current frame includes the BLE scanner
    registry,     \* the peer node is in commissionedNodes
    fabricStored, \* the fabric was stored after commissioning
    err,          \* error the call ended with ("none" on success)
    devUp,        \* the device answers
    devAddr,      \* the address the device answers on
    hasIpv4,      \* the controller was created with an IPv4 interface
    bleAvailable  \* Ble.get() provides a BLE central (no NoProviderError)

vars == <<depth, known, bleCap, pc, cands, cidx, refreshed, cur, chan, unsecure,
          exch, nextChan, paseCh, bleIf, bleScan, registry, fabricStored, err, devUp, devAddr,
          hasIpv4, bleAvailable>>

NoChan == 0
ChanIds == 1..MaxChannels
PaseErrors == {"Retrans"} \cup (IF OtherErrors THEN {"Other"} ELSE {})
Errors == {"PairRetrans", "Discovery", "Retrans", "Other", "Commissioning"}
Pcs == {"idle", "discover", "iterate", "pase", "commissioning", "case",
        "complete", "done", "failed", "crashed"}
\* The call has returned, or the process running it has stopped.
Ended == {"done", "failed", "crashed"}

TypeOK ==
    /\ depth \in 0..MaxDepth /\ known \in Addresses \cup {NoAddr} /\ bleCap \in BOOLEAN
    /\ pc \in Pcs
    /\ cands \in Seq(Addresses) /\ cidx \in Nat /\ refreshed \in BOOLEAN
    /\ cur \in ChanIds \cup {NoChan} /\ paseCh \in ChanIds \cup {NoChan}
    /\ chan \in [ChanIds -> {"unused", "open", "closed"}]
    /\ unsecure \subseteq ChanIds /\ exch \subseteq ChanIds
    /\ nextChan \in 1..(MaxChannels + 1)
    /\ bleIf \in BOOLEAN /\ bleScan \in BOOLEAN /\ registry \in BOOLEAN /\ fabricStored \in BOOLEAN
    /\ err \in Errors \cup {"none"}
    /\ devUp \in BOOLEAN /\ devAddr \in Addresses
    /\ hasIpv4 \in BOOLEAN /\ bleAvailable \in BOOLEAN

-----------------------------------------------------------------------------
(* commission(): the known address and the scanners.                      *)

\* A commissionableDevice's addresses: BLE ones are dropped when capabilities
\* are given without ble; after the sort UDP addresses come first (the
\* one-argument comparator only orders UDP against BLE, so which UDP address
\* is first is left open); knownAddress = addresses[0], undefined when empty.
KnownAddressChoices(addrs, caps) ==
    LET usable == IF caps = "ip"
                  THEN {a \in addrs : AddrType[a] # "ble"} ELSE addrs
        udp == {a \in usable : AddrType[a] # "ble"}
    IN IF udp # {} THEN udp ELSE IF usable # {} THEN usable ELSE {NoAddr}

\* discoveryCapabilities.ble after commission() has filled it in: undefined
\* capabilities become {onIpNetwork, ble: some address is BLE}.
BleCapability(addrs, caps) ==
    IF caps = "undef" THEN \E a \in addrs : AddrType[a] = "ble" ELSE caps = "ble"

\* collectScanners(): a BLE scanner and interface are created once, when ble
\* is requested and the platform provides BLE.  The scanner is pushed to the
\* returned list only inside the branch that creates it (MatterController.ts:
\* 214-220): a later call asking for BLE gets the mDNS scanner alone.
CollectScanners(ble) ==
    /\ bleIf' = (bleIf \/ (ble /\ bleAvailable))
    /\ bleScan' = (ble /\ bleAvailable /\ ~bleIf)

\* The first frame of commission(options); with a known address the
\* candidates are just that address, otherwise the device is discovered.
StartFrame(k, ble) ==
    /\ known' = k
    /\ bleCap' = ble
    /\ CollectScanners(ble)
    /\ IF k # NoAddr
       THEN /\ pc' = "iterate" /\ cands' = <<k>>
       ELSE /\ pc' = "discover" /\ cands' = <<>>
    /\ cidx' = 1 /\ refreshed' = FALSE

commission ==
    /\ pc = "idle"
    /\ depth' = 1
    /\ \/ \E k \in Addresses \cup {NoAddr}, caps \in {"undef", "ip", "ble"} :
             StartFrame(k, caps = "ble")
       \/ \E addrs \in DeviceAddrs, caps \in {"undef", "ip", "ble"} :
             \E k \in KnownAddressChoices(addrs, caps) :
                StartFrame(k, BleCapability(addrs, caps))
    /\ UNCHANGED <<cur, chan, unsecure, exch, nextChan, paseCh, registry,
                   fabricStored, err, devUp, devAddr, hasIpv4, bleAvailable>>

\* The addresses the frame's scanners report for the device: the device's
\* address when it announces itself and the frame scans its transport.
Reported == IF devUp /\ (AddrType[devAddr] # "ble" \/ bleScan) THEN {devAddr} ELSE {}

\* ControllerDiscovery.discoverDeviceAddressesByIdentifier(): the reported
\* addresses, or DiscoveryError once the timeout (30 s by default) elapses.
\* The error is thrown outside the try block and ends the call.
DiscoverDevice ==
    /\ pc = "discover"
    /\ \/ /\ Reported # {}
          /\ pc' = "iterate" /\ cands' = <<devAddr>>
          /\ UNCHANGED err
       \/ /\ Reported = {}
          /\ pc' = "failed" /\ err' = "Discovery"
          /\ UNCHANGED cands
    /\ UNCHANGED <<depth, known, bleCap, cidx, refreshed, cur, chan, unsecure, exch,
                   nextChan, paseCh, bleIf, bleScan, registry, fabricStored, devUp, devAddr, hasIpv4, bleAvailable>>

-----------------------------------------------------------------------------
(* iterateServerAddresses() over initializePaseSecureChannel().            *)

\* The interface initializePaseSecureChannel() would open a channel on.
HasInterface(a) ==
    CASE AddrType[a] = "udp4" -> hasIpv4
      [] AddrType[a] = "udp6" -> TRUE
      [] AddrType[a] = "ble"  -> bleIf

\* No interface for the candidate: PairRetransmissionLimitReachedError is
\* thrown before any channel is opened; it matches the iteration's error
\* type, so the next candidate is tried.
PaseNoInterface ==
    /\ pc = "iterate" /\ cidx <= Len(cands)
    /\ ~HasInterface(cands[cidx])
    /\ cidx' = cidx + 1
    /\ UNCHANGED <<depth, known, bleCap, pc, cands, refreshed, cur, chan, unsecure,
                   exch, nextChan, paseCh, bleIf, bleScan, registry, fabricStored, err, devUp, devAddr, hasIpv4, bleAvailable>>

\* Open the channel, create the unsecure session and the PASE exchange.
PaseBegin ==
    /\ pc = "iterate" /\ cidx <= Len(cands)
    /\ HasInterface(cands[cidx])
    /\ nextChan <= MaxChannels
    /\ pc' = "pase"
    /\ cur' = nextChan
    /\ chan' = [chan EXCEPT ![nextChan] = "open"]
    /\ unsecure' = unsecure \cup {nextChan}
    /\ exch' = exch \cup {nextChan}
    /\ nextChan' = nextChan + 1
    /\ UNCHANGED <<depth, known, bleCap, cands, cidx, refreshed, paseCh, bleIf, bleScan,
                   registry, fabricStored, err, devUp, devAddr, hasIpv4, bleAvailable>>

\* PASE succeeds with a device answering on the address: the unsecure
\* message channel is closed and the session destroyed; the channel now
\* carries the PASE secure session and commissionDevice() starts.
PaseSucceeded ==
    /\ pc = "pase"
    /\ devUp /\ cands[cidx] = devAddr
    /\ pc' = "commissioning"
    /\ paseCh' = cur /\ cur' = NoChan
    /\ unsecure' = unsecure \ {cur}
    /\ exch' = exch \ {cur}
    /\ UNCHANGED <<depth, known, bleCap, cands, cidx, refreshed, chan, nextChan, bleIf, bleScan,
                   registry, fabricStored, err, devUp, devAddr, hasIpv4, bleAvailable>>

\* Mutant of PaseFailed: the catch handler rethrows without closing the exchange.
PaseFailedKeepsExchange ==
    /\ pc = "pase"
    /\ cur' = NoChan
    /\ \E e \in PaseErrors :
          IF e = "Retrans"
          THEN /\ pc' = "iterate" /\ cidx' = cidx + 1 /\ UNCHANGED err
          ELSE /\ pc' = "failed" /\ err' = e /\ UNCHANGED cidx
    /\ UNCHANGED <<depth, known, bleCap, cands, refreshed, chan, unsecure, exch, nextChan,
                   paseCh, bleIf, bleScan, registry, fabricStored, devUp, devAddr, hasIpv4, bleAvailable>>

\* PASE throws: the exchange is closed and the error rethrown.  A
\* retransmission failure moves to the next candidate, any other error
\* aborts the iteration and ends commission().
PaseFailed ==
    /\ pc = "pase"
    /\ exch' = exch \ {cur}
    /\ cur' = NoChan
    /\ \E e \in PaseErrors :
          IF e = "Retrans"
          THEN /\ pc' = "iterate" /\ cidx' = cidx + 1 /\ UNCHANGED err
          ELSE /\ pc' = "failed" /\ err' = e /\ UNCHANGED cidx
    /\ UNCHANGED <<depth, known, bleCap, cands, refreshed, chan, unsecure, nextChan,
                   paseCh, bleIf, bleScan, registry, fabricStored, devUp, devAddr, hasIpv4, bleAvailable>>

\* Mutant of Exhausted: the candidates are refreshed after every exhausted
\* pass, with no limit on the refreshes.
ExhaustedRefreshAlways ==
    /\ pc = "iterate" /\ cidx > Len(cands)
    /\ \E s \in {<<>>} \cup {<<a>> : a \in Reported} :
          cands' = s /\ cidx' = 1 /\ refreshed' = TRUE
    /\ UNCHANGED <<depth, known, pc, err, bleIf, bleScan, bleCap, cur, chan, unsecure, exch,
                   nextChan, paseCh, registry, fabricStored, devUp, devAddr, hasIpv4, bleAvailable>>

\* Every candidate failed: the candidates are refreshed once from the
\* scanners, then PairRetransmissionLimitReachedError is thrown.  commission()
\* catches it: with a known address it calls itself once more without one
\* (same identifier and capabilities), otherwise it rethrows.
Exhausted ==
    /\ pc = "iterate" /\ cidx > Len(cands)
    /\ \/ /\ ~refreshed
          /\ \E s \in {<<>>} \cup {<<a>> : a \in Reported} :
                cands' = s /\ cidx' = 1 /\ refreshed' = TRUE
          /\ UNCHANGED <<depth, known, pc, err, bleIf, bleScan>>
       \/ /\ refreshed /\ known # NoAddr /\ depth < MaxDepth
          /\ depth' = depth + 1
          /\ known' = NoAddr /\ pc' = "discover"
          /\ cands' = <<>> /\ cidx' = 1 /\ refreshed' = FALSE
          /\ CollectScanners(bleCap)
          /\ UNCHANGED err
       \/ /\ refreshed /\ known = NoAddr
          /\ pc' = "failed" /\ err' = "PairRetrans"
          /\ UNCHANGED <<depth, known, cands, cidx, refreshed, bleIf, bleScan>>
    /\ UNCHANGED <<bleCap, cur, chan, unsecure, exch, nextChan, paseCh, registry,
                   fabricStored, devUp, devAddr, hasIpv4, bleAvailable>>

-----------------------------------------------------------------------------
(* commissionDevice(): ControllerCommissioner.executeCommissioning().      *)

\* The steps before the CASE reconnection (arm fail-safe, regulatory and
\* network configuration, credential installation) over the PASE session.
\* A failure propagates out of commissionDevice(), which has no handler.
CommissioningSteps ==
    /\ pc = "commissioning"
    /\ \/ pc' = "case" /\ UNCHANGED err
       \/ pc' = "failed" /\ err' = "Commissioning"
    /\ UNCHANGED <<depth, known, bleCap, cands, cidx, refreshed, cur, chan, unsecure,
                   exch, nextChan, paseCh, bleIf, bleScan, registry, fabricStored, devUp, devAddr, hasIpv4, bleAvailable>>

\* The CASE callback: close the PASE channel, then connect(peerNodeId, 120).
\* A successful connect() has paired and stored the node's operational
\* address with setOperationalServerAddress(); a failed one throws.
CaseCallback ==
    /\ pc = "case"
    /\ chan' = [chan EXCEPT ![paseCh] = "closed"]
    /\ \/ /\ devUp
          /\ registry' = TRUE /\ pc' = "complete"
          /\ UNCHANGED err
       \/ /\ pc' = "failed" /\ err' = "Discovery"
          /\ UNCHANGED registry
    /\ UNCHANGED <<depth, known, bleCap, cands, cidx, refreshed, cur, unsecure, exch,
                   nextChan, paseCh, bleIf, bleScan, fabricStored, devUp, devAddr, hasIpv4, bleAvailable>>

\* CommissioningComplete over CASE; on success commissionDevice() stores the
\* fabric and returns the node id.
CommissioningComplete ==
    /\ pc = "complete"
    /\ \/ /\ pc' = "done" /\ fabricStored' = TRUE
          /\ UNCHANGED err
       \/ /\ pc' = "failed" /\ err' = "Commissioning"
          /\ UNCHANGED fabricStored
    /\ UNCHANGED <<depth, known, bleCap, cands, cidx, refreshed, cur, chan, unsecure,
                   exch, nextChan, paseCh, bleIf, bleScan, registry, devUp, devAddr, hasIpv4, bleAvailable>>

\* The controller process stops during the call and is created again:
\* sockets and BLE connections die with it, and the new controller loads the
\* commissioned nodes and the fabric from storage.  Only what was stored
\* survives: commissionedNodes (stored by setOperationalServerAddress()) and
\* the fabric (stored at the end of commissionDevice()).
Crash ==
    /\ pc \notin {"idle"} \cup Ended
    /\ pc' = "crashed"
    /\ chan' = [i \in ChanIds |-> IF chan[i] = "open" THEN "closed" ELSE chan[i]]
    /\ cur' = NoChan /\ paseCh' = NoChan
    /\ unsecure' = {} /\ exch' = {}
    /\ bleIf' = FALSE /\ bleScan' = FALSE
    /\ UNCHANGED <<depth, known, bleCap, cands, cidx, refreshed, nextChan, registry,
                   fabricStored, err, devUp, devAddr, hasIpv4, bleAvailable>>

\* The environment: the device goes offline or online, or changes address.
DeviceToggle ==
    /\ devUp' = ~devUp
    /\ UNCHANGED <<depth, known, bleCap, pc, cands, cidx, refreshed, cur, chan, unsecure,
                   exch, nextChan, paseCh, bleIf, bleScan, registry, fabricStored, err, devAddr, hasIpv4, bleAvailable>>

DeviceMove ==
    /\ \E a \in Addresses \ {devAddr} : devAddr' = a
    /\ UNCHANGED <<depth, known, bleCap, pc, cands, cidx, refreshed, cur, chan, unsecure,
                   exch, nextChan, paseCh, bleIf, bleScan, registry, fabricStored, err, devUp, hasIpv4, bleAvailable>>

-----------------------------------------------------------------------------

\* A created controller, with or without a fabric stored by an earlier
\* commissioning: no BLE scanner yet, the (random) peer node id is not
\* commissioned, nothing is open.
Init ==
    /\ depth = 0 /\ known = NoAddr /\ bleCap = FALSE /\ pc = "idle"
    /\ cands = <<>> /\ cidx = 1 /\ refreshed = FALSE
    /\ cur = NoChan /\ chan = [i \in ChanIds |-> "unused"]
    /\ unsecure = {} /\ exch = {} /\ nextChan = 1 /\ paseCh = NoChan
    /\ bleIf = FALSE /\ bleScan = FALSE /\ registry = FALSE /\ fabricStored \in BOOLEAN /\ err = "none"
    /\ devUp \in BOOLEAN /\ devAddr \in Addresses
    /\ hasIpv4 \in BOOLEAN /\ bleAvailable \in BOOLEAN

CallStep ==
    \/ DiscoverDevice
    \/ PaseNoInterface
    \/ PaseBegin
    \/ PaseSucceeded
    \/ PaseFailed
    \/ Exhausted
    \/ CommissioningSteps
    \/ CaseCallback
    \/ CommissioningComplete

Next ==
    \/ commission
    \/ CallStep
    \/ Crash
    \/ DeviceToggle
    \/ DeviceMove

\* The suspended call is resumed once what it awaits is ready; every await
\* of the flow is bounded (discovery 30 s, PASE and CASE retransmissions,
\* connect() 120 s).
Spec == Init /\ [][Next]_vars /\ WF_vars(CallStep)

-----------------------------------------------------------------------------
(* Properties.                                                             *)

\* Spec 4.3: the PASE exchange never outlives its handshake; the catch
\* handler of initializePaseSecureChannel() closes it before rethrowing.
PaseExchangeClosed == \A i \in exch : i = cur

\* commission() always returns (unless the process stops): the discovery timeout, the single refresh of
\* candidates and the single fallback bound every path of the call.
CommissionReturns == pc \notin {"idle"} \cup Ended ~> pc \in Ended

\* Spec 4.3 and 8: a failed PASE attempt leaves no channel open, and
\* commission() ends with no channel of its own open: the only open channels
\* are the one of the running PASE attempt and the PASE session while the
\* commissioning steps use it.
PaseFailureReleasesChannel ==
    \A i \in ChanIds :
        chan[i] = "open" => \/ i = cur
                            \/ i = paseCh /\ pc \in {"commissioning", "case"}

\* Spec 4.5: the commissioned-node registry holds the node only once
\* commissioning has completed (or while its last step runs): a commission()
\* that fails, or whose process stops, leaves no trace in the registry.
NoPartialCommit == registry => pc \in {"complete", "done"}

\* Spec 4.5: commission() discovers the device respecting the requested
\* discovery capabilities, and the fallback after a failed known address
\* restarts full discovery for the same identifier.  While a frame asked for
\* BLE on a platform that has it, its scanners (used for discovery and for
\* the candidate refresh) include the BLE scanner.
ScansRequestedTransports ==
    (pc \in {"discover", "iterate"} /\ bleCap /\ bleAvailable) => bleScan
====
