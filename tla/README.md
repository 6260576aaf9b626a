# TLA+ models of the matter.js controller and commissioning server

This directory holds TLA+ specifications of the stateful parts of
`src/packages/matter.js/src/MatterController.ts` and
`src/packages/matter.js/src/CommissioningServer.ts`. The TLC configurations here
check those specifications. `PROJECT.json` lists the components, the runs, the
mutants that show each checked property can fail, the mapping from every
definition to the source lines it translates, the findings, and the hazards.

## 1. Inventory of the system

The code under `src/` has eight TypeScript files. Two of them carry all of the
behaviour that changes state over time.

**MatterController** (controller side):

| State | Meaning |
|---|---|
| `commissionedNodes` | node id → last operational address; persisted by `storeCommisionedNodes` |
| ChannelManager | one message channel per (fabric, node) |
| SessionManager | unsecure sessions, secure sessions, resumption records |
| exchanges | open exchanges on channels |
| polling timer | the reconnection timer of each pending connect |
| `bleScanner`, transports | set up once in `create()` |

**Operations of MatterController:**
- `commission` → `initializePaseSecureChannel` → `commissionDevice`.
  - `commission` has a one-time fallback from a known address to full discovery.
- `connect` → `resume` → `connectOrDiscoverNode`. This races a periodic reconnection poll against operational discovery through `anyPromise()`.
  - Both branches call `reconnectLastKnownAddress` or `iterateServerAddresses`, then `pair`.
- The ExchangeProvider reconnect callback of `connect`.
- `disconnect`, `removeNode`, `setOperationalServerAddress`, `close`.

Every method is `async`. Any number of calls can be suspended at the same time
at channel opening, at a CASE round trip, at discovery, or at a timer tick.
The event loop resumes them in any order.

**CommissioningServer** (device side):

| State | Meaning |
|---|---|
| `nextEndpointId` | counter for automatic endpoint numbers |
| `EndpointStructure` storage context | endpoint key → number, and `nextEndpointId` |
| endpoint list | numbers of the child endpoints of the root |
| data version | per-cluster version counter |

**Operations of CommissioningServer:**
- `initializeEndpoints` and `updateStructure`. `updateStructure` is the structure-changed callback of the root endpoint. Both run `assignEndpointIds`:
  1. `initializeEndpointIdsFromStorage`, which restores numbers and moves `nextEndpointId` forward;
  2. `fillAndStoreEndpointIds`, which assigns and stores new numbers.
- `getNextEndpointId`.
- `increaseVersion` of the cluster datasource.
- The constructor's option checks and `getPairingCode`.

**Interactions:**
- The controller's connection path uses ChannelManager, SessionManager, the exchange layer, ControllerDiscovery and `anyPromise`. None of these are under `src/`, so their contracts are taken from `spec.md` sections 4.1, 4.2, 4.4 and 5 and marked `spec_modelled` in the map.
- The server's numbering interacts with the application, which adds and removes endpoints and may preset numbers, and with persistent storage across restarts.

**Hard behaviours:**
- concurrent connects for one node;
- the loser of the race that keeps running;
- a timer stopped by one branch while the other branch fails;
- resources left behind by a failed handshake;
- a channel replaced or removed while another call uses it;
- a reconnect that must terminate;
- a failed resume removing the session a concurrent call has just registered;
- a BLE scanner that only the call creating it gets to use;
- endpoint numbers keyed by position;
- preset numbers at the counter boundary;
- restart with persisted counters;
- the 32-bit data-version wrap;
- an attribute change the datasource does not persist, so a restart restores an older value.

The properties these need are in the hazard list of `PROJECT.json`.

**Not modelled**, with reasons:
- `NetworkReactNative.ts`: platform I/O.
- `AttributeId.ts`: a pure range check.
- The generated `Label`, `BindingBehavior` and `TemperatureMeasurementBehavior` files: no behaviour.
- Passcode and pairing-code handling: pure validation and formatting, which unit tests reach.
- Nested endpoints: EndpointNumbering numbers a flat list of the root's
  children. A child's storage key is its parent's prefix plus its own, so a
  child with a unique id below an index-keyed parent changes key when the
  parent's position shifts; this hazard is listed without a property.
- `close`: one-shot shutdown. It closes the exchange, session and channel
  managers and the interfaces, none of which are under `src/`, and nothing
  specifies what a call still pending does with closed collaborators.
- `create`: loading the stored fabric or building a new one is not
  translated. The restart (`Crash` in ControllerCommission) models only what
  the new controller's construction reloads, `commissionedNodes` (lines
  184-194), and keeps `fabricStored` as storage holds it. `collectScanners`
  is part of the `commission` action.

## 2. Modules

### ControllerConnect (`ControllerConnect.tla`, `MC_ControllerConnect.tla`)

Models the operational connection path. A call of `connect()` or of the
reconnect callback is an element of `Calls`. `call[c]` holds:
- where the call is suspended (`pc`);
- its timeout kind (bounded or undefined);
- the address read at `resume()`;
- the state of the polling timer and its promise;
- the state of the discovery branch and its promise;
- the candidate list of `iterateServerAddresses`.

`hs[c][b]` is the `pair()` running on branch `b` (`main` for the direct
reconnect, `poll`, `disc`). The resources are:
- transport channels (`chan`);
- unsecure sessions (`unsecure`);
- handshake exchanges (`exch`);
- secure sessions (`secure`);
- the ChannelManager map (`channelMgr`);
- resumption records;
- the commissioned-node registry (`opAddr`).

`devUp` and `devAddr` are the peer, which can go offline or move.
`removing[n]` is where a `removeNode(n)` call is suspended. The constant
`AppOps` names the application calls besides `connect()` that the model
makes (`disconnect`, `removeNode`); every run enables both, and leaving
them out lets TLC show a race between connect() calls alone.

How the actions correspond to the code:

| Action | Code |
|---|---|
| `connect` | the NoChannelError path of `connect()` and the start of `resume()` |
| `ReconnectChannel` | the ExchangeProvider callback: `removeChannel`, then `resume(…, 60)` |
| `DirectPairBegin`, `PollFire`, `DiscPairBegin` | the start of `pair()` (`PairBegin`: the PairRetransmissionLimitReachedError thrown at once for an IPv4 address without IPv4 interface, or open channel, unsecure session, exchange), called by `reconnectLastKnownAddress`, the timer callback and `iterateServerAddresses` |
| `DiscScan` | `discoverOperationalDevice` and the timer stop after it |
| `DiscRefresh` | the exhausted-candidates refresh |
| `PairSucceeded` | the end of `pair()` (close, destroy, `setChannel`) together with the caller's `setOperationalServerAddress` |
| `PairFailed` | `pair()`'s catch handlers |
| `removeNode`, `RemoveNodeChannel`, `RemoveNodeEntry` | `removeNode()` split at its awaits: sessions and resumption record; channel; registry entry and store |
| `disconnect` | `disconnect()` |

`AfterPairSuccess` and `AfterPairFailure` say how each caller continues.
`ResumeReturn` settles `anyPromise` and runs `resume()`'s catch. `Return`
returns, or throws the reconnect callback's NoChannelError.

### ControllerCommission (`ControllerCommission.tla`, `MC_ControllerCommission.tla`)

Models one `commission()` call against a device that can go offline and can
move between an IPv4, an IPv6 and a BLE address. The state:
- `pc`: the step of the call;
- `depth`: the number of nested `commission()` frames; the fallback is a recursive call;
- `known` and `bleCap`: the frame's known address and BLE capability;
- the candidate list of `iterateServerAddresses`;
- the resources of the PASE attempt: `chan`, `unsecure`, `exch`, `cur`, `paseCh`;
- `bleIf`: whether `collectScanners` created the BLE interface;
- `bleScan`: whether the current frame's scanner list includes the BLE scanner. `collectScanners` pushes it only on the call that creates it, so the fallback frame and any later call scan mDNS alone;
- `hasIpv4` and `bleAvailable`: whether the controller was created with an IPv4 interface, and whether the platform has BLE. Both are chosen in the initial state and never change;
- `registry`: whether the peer is in `commissionedNodes` (stored at once);
- `fabricStored`: whether the fabric is in storage (an earlier commissioning
  may have stored it, so both values are initial states).

How the actions correspond to the code:

| Action | Code |
|---|---|
| `commission` | the option handling: commissionableDevice filter and sort, capabilities, `collectScanners`, known address or discovery |
| `DiscoverDevice` | `discoverDeviceAddressesByIdentifier` |
| `PaseNoInterface` | the missing-interface errors of `initializePaseSecureChannel` |
| `PaseBegin`, `PaseSucceeded`, `PaseFailed` | the rest of `initializePaseSecureChannel` |
| `Exhausted` | the candidate refresh, and `commission()`'s catch with its one-time recursive fallback |
| `CommissioningSteps` | the ControllerCommissioner steps before the CASE callback, run by `executeCommissioning()` (line 461); ControllerCommissioner is not under `src/`, so this is modelled from the spec |
| `CaseCallback` | closes the PASE channel and runs `connect(peer, 120)`, reduced to its outcome |
| `CommissioningComplete` | the last step and the fabric store |
| `Crash` | the process stops mid-call; sockets and BLE links are gone, and the new controller's construction reloads `commissionedNodes` from storage (the fabric stays as stored) |

### EndpointNumbering (`EndpointNumbering.tla`, `MC_EndpointNumbering.tla`)

Models the numbering of the root's child endpoints. Both endpoint runs
check it through `MC_EndpointClusterData`, which extends it;
`MC_EndpointNumbering` instantiates the numbering alone. The state:
- `eps`: the endpoint list, each with a uid or none, an application preset, and a number;
- `store`: the EndpointStructure context;
- `storedNext`;
- `nextId`;
- the phase before and after `initializeEndpoints()`.

The two passes of `assignEndpointIds` are the recursive operators `RestoreFrom`
and `FillFrom`. They are translated loop iteration by loop iteration.
`AddEndpoint`, `RemoveEndpoint` and `initializeEndpoints` run the whole
`assignEndpointIds` in one step, as the code does synchronously. `Restart`
rebuilds the endpoints with only their presets and resets `nextEndpointId` to
the option. `firstNum` is a history variable: it records the first number each
uid got.

### EndpointClusterData (`EndpointClusterData.tla`, `MC_EndpointClusterData.tla`)

Extends EndpointNumbering with the cluster datasources. The endpointStructure
change handler creates a new `CommissioningServerClusterDatasource` for every
endpoint on every structure change. The datasource constructor works in the
storage context `Cluster-<number>-<cluster>`:
- it takes the stored data version; if there is none, the old datasource's
  version; otherwise a random one;
- it stores that version;
- it restores every attribute that storage holds.

So the version and the attribute values an endpoint gets back depend on the
number the numbering gives it. One cluster with one attribute per endpoint is
modelled. The state:
- `vstore` and `astore`: the stored version and value per number;
- `ds` and `av`: the version and value of each endpoint's cluster.

Each numbering action is wrapped by a `Data…` action that also runs the
handler. `initializeEndpoints` itself does not call `updateStructure`: it
runs `assignEndpointIds` and registers `updateStructure` as the
structure-changed callback. The model assumes that the interaction
structure built at start (by the node server, outside `src/`) emits the
change event once the numbers are assigned, so `DataInitializeEndpoints`
creates the datasources.

`AttributeChanged(i, v)` is one write of the attribute. The cluster calls
`increaseVersion()` (32-bit wrap, scaled to `VersionBits` bits; the version is
stored) and `changed()`. `Changed` stores the value unless it is undefined:
`changed()` returns before touching storage then. `Undefined` is the model
value for an optional attribute the application clears; whether a cluster
passes undefined to `changed()` is decided by ClusterServer, outside this
repository's src, so the passing run writes only defined values and the
`endpoint_ids` run adds the clear.

### EndpointStore (`EndpointStore.tla`): the abstract specification

States what the storage promises the application for endpoints with a unique
id, without positions, prefixes or datasource objects. Each uid has:
- a number, given once, never one another uid holds, and never changed;
- a data version, first set when the uid has a number;
- an attribute value.

The version and the value change only together, by a write to a present
endpoint, and the version advances by one modulo `VersionRange`. Restarts are
invisible.

EndpointClusterData instantiates it as `Abstract` with a refinement mapping:
- `present`: the uids among the endpoints;
- `num[u]`: the number stored under `u`'s prefix;
- `ver[u]` and `val[u]`: those of `u`'s live cluster when it has a datasource,
  else those stored under its number.

The run checks `Abstract!StoreSpec` as the PROPERTY `EndpointStoreRefined`.

## 3. Runs

| Run | Expect | Checks | Bounds | Result |
|---|---|---|---|---|
| connect_safety | pass | `NoLeakedExchange` | 2 calls, 1 node, 2 addresses (one IPv4, no IPv4 interface), both timeout kinds, 3 channels, all error kinds, removeNode at its awaits | 6.3M distinct states, about 2.5 min |
| connect_liveness | pass | `BoundedCallReturns` | 1 call with timeout, 3 channels | every bounded call returns |
| concurrent_connect | violation | `NoPairOverRegisteredChannel` | 2 bounded calls | a second connect() for one node pairs after the first registered its channel (spec section 8); with `Calls <- MCCallsOne` and `Timeouts <- MCTimeoutsAll` the same cfg shows discovery pairing after the poll won the race (spec sections 5, 9) |
| handshake_leak | violation | `FailedHandshakeReleasesSession` | | a failed CASE attempt keeps its unsecure session (spec sections 4.3, 8) |
| race_hang | violation | `PendingRaceHasLiveBranch` | | discovery stops the timer, then fails; the race never settles |
| remove_node_race | violation | `RegisteredChannelBacked` | 1 call | a connect() completing while removeNode() awaits removeChannel() leaves a registered channel for a removed node; with `AppOps <- MCAppOpsNone` and `Calls <- MCCallsTwo` the same cfg shows a resume() whose discovery timed out destroying the session of a channel another call has just registered (MatterController.ts:574) |
| commission_safety | pass | `PaseExchangeClosed`, `CommissionReturns` | 3 addresses (v4, v6, BLE), with and without an IPv4 interface, with and without BLE support, 4 channels, 4 commissionableDevice address sets, nesting depth 3, one restart | 34,470 distinct states |
| pase_leak | violation | `PaseFailureReleasesChannel` | | a failed PASE attempt keeps its channel and unsecure session; a failed commissioning step returns with the PASE channel open |
| partial_commit | violation | `NoPartialCommit` | | a failure at CommissioningComplete, or a restart before it, leaves the node registered (spec section 4.5) |
| ble_fallback | violation | `ScansRequestedTransports` | | a device with a UDP and a BLE address: the UDP known address fails, and the fallback discovery runs without the BLE scanner (MatterController.ts:214-220, spec section 4.5) |
| endpoint_data | pass | `UniqueEndpointNumbers`, `UidEndpointKeepsNumber`, `EndpointStoreRefined`, `ClusterContextCurrent` | 3 uids, 2 endpoints present, numbers up to 3, restarts, 1-bit versions, one written value | 192,474 distinct states, about 50 s |
| endpoint_ids | violation | `ClusterContextCurrent` | | a live cluster's storage context stops holding what the cluster holds. The reported trace (4 states): a preset equal to `nextEndpointId` is handed out again (line 601 uses `>`), so two endpoints share one context. With `Presets <- MCNoPresets` and `Values <- MCValues`, the same cfg shows an index-keyed endpoint taking its shifted neighbour's number after a removal (7 states). With `UidChoices <- MCUids` and `Presets <- MCNoPresets`, it shows a cleared attribute that `changed()` does not store (line 749, 4 states) |

**Why the bounds are enough:**
- Two calls are the smallest number that can interleave.
- Two addresses let the peer move away from the stored address.
- Three channels allow a failed direct attempt, a poll and a discovery attempt in one behaviour. With four channels the safety run grows to 3.4M states with no new action firing.
- For endpoints, two present out of three uids allows removal and re-adding of a different uid. Numbers up to 3 cover a restart after two assignments. With numbers up to 4 the run takes over two minutes and fires nothing new.
- One written value tells a restored attribute from one reset to its initial value, which is what the restore and the refinement are about; two values give the same distinct states for three times the time.
- A 1-bit data version wraps after two increments. This is the 0xffffffff → 0 step of `increaseVersion()` that 32 bits never reach in a test.
- `connect_liveness` checks one call. With two calls the finite channel bound runs out, a discovery attempt can no longer open its channel, and the call is stuck in a way the code cannot be.

**Fairness.** Each step of a call is weakly fair, because the event loop
resumes every task whose awaited promise is ready. The periodic timer keeps
firing while it runs. Nothing is fair for the environment: the peer, and the
application calling `disconnect` or `removeNode`, and the process stopping
(`Crash`). `CommissionReturns` therefore says the call returns or its process
stops.

**Mutants.** Each property of a passing run is broken by a plausible bug,
defined in the module just before the definition it replaces:

| Mutant | Breaks |
|---|---|
| a catch handler that does not close the exchange | `NoLeakedExchange` |
| an unbounded candidate refresh | `BoundedCallReturns` |
| `initializeEndpoints` ignoring the stored `nextEndpointId` | `UniqueEndpointNumbers` |
| `fillAndStoreEndpointIds` not storing the number | `UidEndpointKeepsNumber` |
| PASE's catch handler not closing the exchange | `PaseExchangeClosed` |
| an unbounded candidate refresh in `commission()` | `CommissionReturns` |
| the datasource constructor not restoring stored attributes | `EndpointStoreRefined` |
| `changed()` never storing the value | `ClusterContextCurrent` |

`TypeOK` is defined in each module as documentation of the state space.

## 4. Abstractions

- A successful `pair()` and the caller's following `setOperationalServerAddress()` are one step. No other call's step between them reads the address in a way the properties distinguish.
- Opening the channel, creating the unsecure session and initiating the exchange are one step. They are synchronous after `openChannel`.
- The error of an exhausted `iterateServerAddresses` is PairRetransmissionLimitReachedError, after one refresh. This is taken from spec section 4.4 and the doc comment of `commission()`.
- Retransmissions inside a CASE handshake are one nondeterministic failure.
- Addresses, nodes and calls are model values.
- The first two awaits of `removeNode()` (sessions, then resumption record) are one step. Every other suspension point of it is kept.
- A stored attribute that fails to restore (the catch at CommissioningServer.ts:720) is not modelled: it needs a corrupt storage entry.

## 5. Plan for the next modules

1. **ControllerCommission**: `commission()` running concurrently with `connect()` or `removeNode()` for the same node, and the new fabric a restart builds.
2. **An abstract one-channel-per-node connection spec** for ControllerConnect, with the refinement shown where it holds.
3. **Nested endpoints** in EndpointNumbering, with prefix concatenation, and several clusters per endpoint; UidEndpointKeepsNumber is the property that would then catch the child re-keying at CommissioningServer.ts:588.
