------------------------- MODULE ControllerConnect -------------------------
(***************************************************************************)
(* The operational-connection path of MatterController                    *)
(* (src/packages/matter.js/src/MatterController.ts): connect(), the        *)
(* ExchangeProvider reconnect callback, resume(), connectOrDiscoverNode(), *)
(* reconnectLastKnownAddress(), pair(), setOperationalServerAddress(),     *)
(* disconnect() and removeNode().                                          *)
(*                                                                         *)
(* Every call of connect() is a task (an element of Calls) that suspends   *)
(* at each await.  Inside connectOrDiscoverNode() a call forks up to two   *)
(* branches that race through anyPromise(): the periodic reconnection     *)
(* poll ("poll") and operational discovery ("disc"); the direct reconnect *)
(* to the last known address runs on the branch "main".  A branch that    *)
(* runs pair() holds a handshake slot hs[c][b] naming the transport       *)
(* channel it opened and the address it pairs with.                       *)
(*                                                                         *)
(* ChannelManager, SessionManager, the exchange layer, ControllerDiscovery *)
(* and anyPromise are not under src/; their behaviour is taken from the   *)
(* specification (sections 4.1, 4.2, 4.4, 5) and marked so in the map.    *)
(***************************************************************************)
EXTENDS Naturals, Sequences, FiniteSets

CONSTANTS
    Calls,        \* concurrent invocations of connect() / the reconnect callback
    Nodes,        \* peer node ids of the fabric
    Addresses,    \* operational (UDP) server addresses a peer can have
    NoAddr,       \* model value: no operational address known
    Timeouts,     \* timeout kinds a caller may pass: "bounded" (a number) or "unbounded" (undefined)
    V4Addrs,      \* the addresses of Addresses that are IPv4
    HasIpv4,      \* the controller was created with an IPv4 interface
    MaxChannels,  \* bound on transport channels opened in one behaviour
    OtherErrors,  \* TRUE: a CASE attempt may also fail with an error other than retransmission/EHOSTUNREACH
    AppOps        \* the calls the application makes besides connect(): "disconnect", "removeNode"

ASSUME NoAddr \notin Addresses
ASSUME Timeouts \subseteq {"bounded", "unbounded"} /\ Timeouts # {}
ASSUME V4Addrs \subseteq Addresses /\ HasIpv4 \in BOOLEAN
ASSUME MaxChannels \in Nat /\ OtherErrors \in BOOLEAN
ASSUME AppOps \subseteq {"disconnect", "removeNode"}

VARIABLES
    opAddr,       \* commissionedNodes (MatterController.ts:161): n's operationalServerAddress,
                  \* NoAddr when n has no entry (every entry carries an address)
    channelMgr,   \* ChannelManager entry of (fabric, n): a channel id or NoChan
    resumption,   \* nodes with a stored resumption record
    chan,         \* transport channel id -> "unused" | "open" | "closed"
    chanNode,     \* transport channel id -> peer it was opened to
    unsecure,     \* channel ids whose unsecure session is still allocated
    exch,         \* channel ids whose handshake exchange is still open
    secure,       \* channel ids carrying a live secure (CASE) session
    nextChan,     \* next transport channel id
    devAddr,      \* address the peer currently answers on
    devUp,        \* the peer is online
    call,         \* state of each connect() invocation
    hs,           \* hs[c][b]: the pair() running on branch b of call c
    removing      \* removing[n]: where a removeNode(n) call is suspended ("none": no call)

vars == <<opAddr, channelMgr, resumption, chan, chanNode, unsecure,
          exch, secure, nextChan, devAddr, devUp, call, hs, removing>>

Branches == {"main", "poll", "disc"}
ChanIds == 1..MaxChannels
NoChan == 0
PairErrors == {"PairRetrans", "HostUnreach"} \cup (IF OtherErrors THEN {"Other"} ELSE {})
Errors == PairErrors \cup {"Discovery", "NoChannel"}

NoPair == [id |-> NoChan, addr |-> NoAddr]

IdleCall == [pc |-> "idle", kind |-> "connect", node |-> CHOOSE n \in Nodes : TRUE,
             tmo |-> "bounded", addr |-> NoAddr, poll |-> "off", pollP |-> "none",
             disc |-> "off", discP |-> "none", cands |-> <<>>, cidx |-> 1,
             refreshed |-> FALSE, result |-> NoChan, err |-> "none"]

CallRec == [pc : {"idle", "direct", "race", "resolved", "returned"},
            kind : {"connect", "reconnect"}, node : Nodes, tmo : {"bounded", "unbounded"},
            addr : Addresses \cup {NoAddr}, poll : {"off", "running", "stopped"},
            pollP : {"none", "pending", "fulfilled", "rejected"},
            disc : {"off", "scanning", "iterating", "settled"},
            discP : {"none", "pending", "fulfilled", "rejected"},
            cands : Seq(Addresses), cidx : Nat, refreshed : BOOLEAN,
            result : ChanIds \cup {NoChan}, err : Errors \cup {"none"}]

TypeOK ==
    /\ opAddr \in [Nodes -> Addresses \cup {NoAddr}]
    /\ channelMgr \in [Nodes -> ChanIds \cup {NoChan}]
    /\ resumption \subseteq Nodes
    /\ chan \in [ChanIds -> {"unused", "open", "closed"}]
    /\ chanNode \in [ChanIds -> Nodes]
    /\ unsecure \subseteq ChanIds /\ exch \subseteq ChanIds /\ secure \subseteq ChanIds
    /\ nextChan \in 1..(MaxChannels + 1)
    /\ devAddr \in Addresses /\ devUp \in BOOLEAN
    /\ call \in [Calls -> CallRec]
    /\ hs \in [Calls -> [Branches -> [id : ChanIds \cup {NoChan}, addr : Addresses \cup {NoAddr}]]]
    /\ removing \in [Nodes -> {"none", "channel", "entry"}]

-----------------------------------------------------------------------------
(* Helpers translated from the code and from the collaborators' contracts. *)

\* The secure sessions SessionManager holds for a peer.
SessionsOf(n) == {i \in secure : chanNode[i] = n}

\* ChannelManager.removeChannel(fabric, n): close and forget the channel (spec 4.1).
RemoveChannel(n) ==
    /\ chan' = IF channelMgr[n] = NoChan THEN chan ELSE [chan EXCEPT ![channelMgr[n]] = "closed"]
    /\ channelMgr' = [channelMgr EXCEPT ![n] = NoChan]

\* anyPromise(): settled by the first fulfilled branch, rejected once every
\* branch promise has rejected (spec 5, "first-to-succeed wins").
AllRejected(r) == r.discP = "rejected" /\ r.pollP \in {"none", "rejected"}
RaceSettled(r) == r.pollP = "fulfilled" \/ r.discP = "fulfilled" \/ AllRejected(r)

Fulfil(r, p, id) ==
    [r EXCEPT ![p] = "fulfilled", !.result = IF RaceSettled(r) THEN r.result ELSE id]
Reject(r, p, e) ==
    [r EXCEPT ![p] = "rejected", !.err = IF RaceSettled(r) THEN r.err ELSE e]

\* resume() reads the last operational address (MatterController.ts:563) and
\* connectOrDiscoverNode() either reconnects to it first or starts discovery.
ResumeStart(r, n, t, k) ==
    LET base == [IdleCall EXCEPT !.kind = k, !.node = n, !.tmo = t, !.addr = opAddr[n]]
    IN IF opAddr[n] # NoAddr
       THEN [base EXCEPT !.pc = "direct"]
       ELSE [base EXCEPT !.pc = "race", !.disc = "scanning", !.discP = "pending"]

\* reconnectLastKnownAddress() returned undefined: poll the old address when no
\* timeout was given, and discover the node in parallel.
StartRace(r) ==
    [r EXCEPT !.pc = "race",
              !.poll = IF r.tmo = "unbounded" THEN "running" ELSE "off",
              !.pollP = IF r.tmo = "unbounded" THEN "pending" ELSE "none",
              !.disc = "scanning", !.discP = "pending"]

-----------------------------------------------------------------------------
(* Operations of the controller.                                           *)

\* connect(n, timeout) when ChannelManager has no channel: getChannel throws
\* NoChannelError and the call resumes.  (With a channel it returns at once
\* and changes no state.)
connect(c, n, t) ==
    /\ call[c].pc = "idle"
    /\ channelMgr[n] = NoChan
    /\ call' = [call EXCEPT ![c] = ResumeStart(@, n, t, "connect")]
    /\ UNCHANGED <<removing, opAddr, channelMgr, resumption, chan, chanNode,
                   unsecure, exch, secure, nextChan, devAddr, devUp, hs>>

\* The ExchangeProvider reconnect callback: remove the channel, then resume
\* with a 60 s timeout.
ReconnectChannel(c, n) ==
    /\ call[c].pc = "idle"
    /\ channelMgr[n] # NoChan
    /\ RemoveChannel(n)
    /\ call' = [call EXCEPT ![c] = ResumeStart(@, n, "bounded", "reconnect")]
    /\ UNCHANGED <<removing, opAddr, resumption, chanNode, unsecure, exch, secure,
                   nextChan, devAddr, devUp, hs>>

\* ControllerDiscovery.discoverOperationalDevice(): finds the announced
\* address, or raises DiscoveryError when a timeout was given.  Afterwards the
\* discovery branch stops the polling timer.
DiscScan(c) ==
    /\ call[c].disc = "scanning"
    /\ \/ /\ devUp
          /\ call' = [call EXCEPT ![c].disc = "iterating", ![c].cands = <<devAddr>>,
                                  ![c].cidx = 1,
                                  ![c].poll = IF @ = "running" THEN "stopped" ELSE @]
       \/ /\ call[c].tmo = "bounded"
          /\ call' = [call EXCEPT ![c] = [Reject(@, "discP", "Discovery") EXCEPT !.disc = "settled"]]
    /\ UNCHANGED <<removing, opAddr, channelMgr, resumption, chan, chanNode, unsecure,
                   exch, secure, nextChan, devAddr, devUp, hs>>

\* Mutant of DiscRefresh: the candidates are refreshed after every exhausted
\* pass, with no limit on the refreshes.
DiscRefreshUnbounded(c) ==
    /\ call[c].disc = "iterating"
    /\ call[c].cidx > Len(call[c].cands)
    /\ hs[c]["disc"].id = NoChan
    /\ \E s \in {<<>>, <<devAddr>>} :
          call' = [call EXCEPT ![c].cands = s, ![c].cidx = 1, ![c].refreshed = TRUE]
    /\ UNCHANGED <<removing, opAddr, channelMgr, resumption, chan, chanNode, unsecure,
                   exch, secure, nextChan, devAddr, devUp, hs>>

\* iterateServerAddresses(): every candidate failed; refresh the candidates
\* from the scanner once, then give up with PairRetransmissionLimitReachedError.
DiscRefresh(c) ==
    /\ call[c].disc = "iterating"
    /\ call[c].cidx > Len(call[c].cands)
    /\ hs[c]["disc"].id = NoChan
    /\ \/ /\ ~call[c].refreshed
          /\ \E s \in {<<>>, <<devAddr>>} :
                call' = [call EXCEPT ![c].cands = s, ![c].cidx = 1, ![c].refreshed = TRUE]
       \/ /\ call[c].refreshed
          /\ call' = [call EXCEPT ![c] = [Reject(@, "discP", "PairRetrans") EXCEPT !.disc = "settled"]]
    /\ UNCHANGED <<removing, opAddr, channelMgr, resumption, chan, chanNode, unsecure,
                   exch, secure, nextChan, devAddr, devUp, hs>>

\* How the caller of pair() continues after a successful CASE handshake on
\* branch b (the channel id is id): reconnectLastKnownAddress() returns it
\* ("main"); the timer callback resolves the race only while the timer is
\* still running ("poll"); iterateServerAddresses() returns it ("disc").
AfterPairSuccess(r, b, id) ==
    CASE b = "main" -> [r EXCEPT !.pc = "resolved", !.result = id]
      [] b = "poll" -> IF r.poll = "running"
                       THEN [Fulfil(r, "pollP", id) EXCEPT !.poll = "stopped"]
                       ELSE r
      [] b = "disc" -> [Fulfil(r, "discP", id) EXCEPT !.disc = "settled"]

\* How the caller of pair() continues after it threw e on branch b.
\* reconnectLastKnownAddress() swallows retransmission and EHOSTUNREACH errors
\* and rethrows the rest; iterateServerAddresses() moves to the next candidate
\* only on PairRetransmissionLimitReachedError and aborts on anything else.
AfterPairFailure(r, b, e) ==
    CASE b = "main" -> IF e = "Other" THEN [r EXCEPT !.pc = "returned", !.err = e]
                       ELSE StartRace(r)
      [] b = "poll" -> IF e = "Other" /\ r.poll = "running"
                       THEN [Reject(r, "pollP", e) EXCEPT !.poll = "stopped"]
                       ELSE r
      [] b = "disc" -> IF e = "PairRetrans" THEN [r EXCEPT !.cidx = @ + 1]
                       ELSE [Reject(r, "discP", e) EXCEPT !.disc = "settled"]

\* pair(n, a) up to the CASE handshake: without an interface for the
\* address family it throws PairRetransmissionLimitReachedError at once and
\* the caller continues; otherwise it opens the transport channel, creates
\* an unsecure session and the secure-channel exchange on it.
PairBegin(c, b, a) ==
    /\ hs[c][b].id = NoChan
    /\ \/ /\ a \in V4Addrs /\ ~HasIpv4
          /\ call' = [call EXCEPT ![c] = AfterPairFailure(@, b, "PairRetrans")]
          /\ UNCHANGED <<chan, chanNode, unsecure, exch, hs, nextChan>>
       \/ /\ a \notin V4Addrs \/ HasIpv4
          /\ nextChan <= MaxChannels
          /\ chan' = [chan EXCEPT ![nextChan] = "open"]
          /\ chanNode' = [chanNode EXCEPT ![nextChan] = call[c].node]
          /\ unsecure' = unsecure \cup {nextChan}
          /\ exch' = exch \cup {nextChan}
          /\ hs' = [hs EXCEPT ![c][b] = [id |-> nextChan, addr |-> a]]
          /\ nextChan' = nextChan + 1
          /\ UNCHANGED call

\* Direct reconnection to the last known address (reconnectLastKnownAddress).
DirectPairBegin(c) ==
    /\ call[c].pc = "direct"
    /\ PairBegin(c, "main", call[c].addr)
    /\ UNCHANGED <<removing, opAddr, channelMgr, resumption, secure, devAddr, devUp>>

\* A tick of the "Controller reconnect" periodic timer: its callback calls
\* reconnectLastKnownAddress() for the old address.  The interval is ten
\* minutes, longer than any CASE attempt, so ticks do not overlap.
PollFire(c) ==
    /\ call[c].poll = "running"
    /\ PairBegin(c, "poll", call[c].addr)
    /\ UNCHANGED <<removing, opAddr, channelMgr, resumption, secure, devAddr, devUp>>

\* iterateServerAddresses(): try the next candidate with pair().
DiscPairBegin(c) ==
    /\ call[c].disc = "iterating"
    /\ call[c].cidx <= Len(call[c].cands)
    /\ PairBegin(c, "disc", call[c].cands[call[c].cidx])
    /\ UNCHANGED <<removing, opAddr, channelMgr, resumption, secure, devAddr, devUp>>

\* pair() completes: the CASE session is established, the unsecure message
\* channel and session are closed, ChannelManager.setChannel() replaces (and
\* closes) the node's previous channel, and the caller stores the address
\* with setOperationalServerAddress().
PairSucceeded(c, b) ==
    LET id == hs[c][b].id
        a == hs[c][b].addr
        n == call[c].node
        old == channelMgr[n]
    IN /\ id # NoChan
       /\ devUp /\ a = devAddr
       /\ unsecure' = unsecure \ {id}
       /\ exch' = exch \ {id}
       /\ secure' = secure \cup {id}
       /\ resumption' = resumption \cup {n}
       /\ chan' = IF old = NoChan THEN chan ELSE [chan EXCEPT ![old] = "closed"]
       /\ channelMgr' = [channelMgr EXCEPT ![n] = id]
       /\ opAddr' = [opAddr EXCEPT ![n] = a]
       /\ hs' = [hs EXCEPT ![c][b] = NoPair]
       /\ call' = [call EXCEPT ![c] = AfterPairSuccess(@, b, id)]
       /\ UNCHANGED <<removing, chanNode, nextChan, devAddr, devUp>>

\* Mutant of PairFailed: the catch handler rethrows without closing the exchange.
PairFailedKeepsExchange(c, b) ==
    LET id == hs[c][b].id
        a == hs[c][b].addr
    IN /\ id # NoChan
       /\ \E e \in PairErrors :
            /\ e = "HostUnreach" => ~(devUp /\ a = devAddr)
            /\ call' = [call EXCEPT ![c] = AfterPairFailure(@, b, e)]
       /\ hs' = [hs EXCEPT ![c][b] = NoPair]
       /\ UNCHANGED <<removing, opAddr, channelMgr, resumption, chan, chanNode, unsecure, exch, secure,
                      nextChan, devAddr, devUp>>

\* The CASE handshake throws: the exchange is closed and the error rethrown,
\* converted to PairRetransmissionLimitReachedError when it was a
\* retransmission failure.  EHOSTUNREACH only occurs when nothing answers at
\* the address; retransmission failures can occur at any time.
PairFailed(c, b) ==
    LET id == hs[c][b].id
        a == hs[c][b].addr
    IN /\ id # NoChan
       /\ \E e \in PairErrors :
            /\ e = "HostUnreach" => ~(devUp /\ a = devAddr)
            /\ call' = [call EXCEPT ![c] = AfterPairFailure(@, b, e)]
       /\ exch' = exch \ {id}
       /\ hs' = [hs EXCEPT ![c][b] = NoPair]
       /\ UNCHANGED <<removing, opAddr, channelMgr, resumption, chan, chanNode, unsecure, secure,
                      nextChan, devAddr, devUp>>

\* anyPromise() settles and resume() continues: on DiscoveryError or
\* PairRetransmissionLimitReachedError for a commissioned node it removes all
\* sessions of the node (dropping its resumption record) before rethrowing.
ResumeReturn(c) ==
    LET r == call[c]
        n == r.node
    IN /\ r.pc = "race"
       /\ RaceSettled(r)
       /\ IF r.pollP = "fulfilled" \/ r.discP = "fulfilled"
          THEN /\ call' = [call EXCEPT ![c].pc = "resolved"]
               /\ UNCHANGED <<secure, resumption>>
          ELSE /\ call' = [call EXCEPT ![c].pc = "returned"]
               /\ IF r.err \in {"Discovery", "PairRetrans"} /\ opAddr[n] # NoAddr
                  THEN /\ secure' = secure \ SessionsOf(n)
                       /\ resumption' = resumption \ {n}
                  ELSE UNCHANGED <<secure, resumption>>
       /\ UNCHANGED <<removing, opAddr, channelMgr, chan, chanNode, unsecure, exch, nextChan,
                      devAddr, devUp, hs>>

\* The call returns its channel.  The reconnect callback instead reads the
\* channel back with getChannel(), which throws NoChannelError when it is gone.
Return(c) ==
    /\ call[c].pc = "resolved"
    /\ call' = [call EXCEPT ![c].pc = "returned",
                            ![c].err = IF call[c].kind = "reconnect" /\ channelMgr[call[c].node] = NoChan
                                       THEN "NoChannel" ELSE "none"]
    /\ UNCHANGED <<removing, opAddr, channelMgr, resumption, chan, chanNode, unsecure, exch, secure,
                   nextChan, devAddr, devUp, hs>>

\* disconnect(n): remove the node's sessions, keeping the resumption record,
\* and its channel.
disconnect(n) ==
    /\ secure' = secure \ SessionsOf(n)
    /\ RemoveChannel(n)
    /\ UNCHANGED <<removing, opAddr, resumption, chanNode, unsecure, exch, nextChan, devAddr, devUp, call, hs>>

\* removeNode(n), split at its awaits: remove the node's sessions and its
\* resumption record and suspend (the two awaits are one step here); remove
\* its channel and suspend; then delete the commissioned-node entry and
\* store the registry.  Other calls run at each suspension.
removeNode(n) ==
    /\ removing[n] = "none"
    /\ secure' = secure \ SessionsOf(n)
    /\ resumption' = resumption \ {n}
    /\ removing' = [removing EXCEPT ![n] = "channel"]
    /\ UNCHANGED <<opAddr, channelMgr, chan, chanNode, unsecure, exch, nextChan,
                   devAddr, devUp, call, hs>>

RemoveNodeChannel(n) ==
    /\ removing[n] = "channel"
    /\ RemoveChannel(n)
    /\ removing' = [removing EXCEPT ![n] = "entry"]
    /\ UNCHANGED <<opAddr, resumption, chanNode, unsecure, exch, secure, nextChan,
                   devAddr, devUp, call, hs>>

RemoveNodeEntry(n) ==
    /\ removing[n] = "entry"
    /\ opAddr' = [opAddr EXCEPT ![n] = NoAddr]
    /\ removing' = [removing EXCEPT ![n] = "none"]
    /\ UNCHANGED <<channelMgr, resumption, chan, chanNode, unsecure, exch, secure, nextChan,
                   devAddr, devUp, call, hs>>

\* The environment: the peer goes offline or online, or changes its address.
DeviceToggle ==
    /\ devUp' = ~devUp
    /\ UNCHANGED <<removing, opAddr, channelMgr, resumption, chan, chanNode, unsecure, exch, secure,
                   nextChan, devAddr, call, hs>>

DeviceMove ==
    /\ \E a \in Addresses \ {devAddr} : devAddr' = a
    /\ UNCHANGED <<removing, opAddr, channelMgr, resumption, chan, chanNode, unsecure, exch, secure,
                   nextChan, devUp, call, hs>>

-----------------------------------------------------------------------------

\* The controller starts from storage: commissioned nodes with their last
\* operational address and resumption records, no channel or session open.
Init ==
    /\ opAddr \in [Nodes -> Addresses \cup {NoAddr}]
    /\ resumption \in SUBSET {n \in Nodes : opAddr[n] # NoAddr}
    /\ channelMgr = [n \in Nodes |-> NoChan]
    /\ chan = [i \in ChanIds |-> "unused"]
    /\ chanNode = [i \in ChanIds |-> CHOOSE n \in Nodes : TRUE]
    /\ unsecure = {} /\ exch = {} /\ secure = {}
    /\ nextChan = 1
    /\ devAddr \in Addresses /\ devUp \in BOOLEAN
    /\ call = [c \in Calls |-> IdleCall]
    /\ hs = [c \in Calls |-> [b \in Branches |-> NoPair]]
    /\ removing = [n \in Nodes |-> "none"]

CallStep(c) ==
    \/ DirectPairBegin(c)
    \/ PollFire(c)
    \/ DiscScan(c)
    \/ DiscPairBegin(c)
    \/ DiscRefresh(c)
    \/ \E b \in Branches : PairSucceeded(c, b) \/ PairFailed(c, b)
    \/ ResumeReturn(c)
    \/ Return(c)

Next ==
    \/ \E c \in Calls, n \in Nodes :
          \/ \E t \in Timeouts : connect(c, n, t)
          \/ ReconnectChannel(c, n)
    \/ \E c \in Calls : CallStep(c)
    \/ \E n \in Nodes : /\ "disconnect" \in AppOps /\ disconnect(n)
    \/ \E n \in Nodes : /\ "removeNode" \in AppOps /\ removeNode(n)
    \/ \E n \in Nodes : RemoveNodeChannel(n) \/ RemoveNodeEntry(n)
    \/ DeviceToggle
    \/ DeviceMove

\* Every suspended call is resumed by the event loop once what it awaits is
\* ready; the reconnection timer keeps firing while it runs.
Fairness ==
    \A c \in Calls :
        /\ WF_vars(DirectPairBegin(c)) /\ WF_vars(PollFire(c))
        /\ WF_vars(DiscScan(c)) /\ WF_vars(DiscPairBegin(c)) /\ WF_vars(DiscRefresh(c))
        /\ \A b \in Branches : WF_vars(PairSucceeded(c, b) \/ PairFailed(c, b))
        /\ WF_vars(ResumeReturn(c)) /\ WF_vars(Return(c))

Spec == Init /\ [][Next]_vars /\ Fairness

-----------------------------------------------------------------------------
(* Properties.                                                             *)

\* The handshake exchange never outlives its pair(): both on success (the
\* unsecure message channel is closed) and on failure (the catch handler of
\* pair() closes it before rethrowing), no exchange stays open once the
\* handshake that created it has ended, whichever branch of whichever call ran it.
NoLeakedExchange ==
    \A i \in exch : \E c \in Calls, b \in Branches : hs[c][b].id = i

\* A connect() or reconnect with a timeout always returns (a channel or an
\* error): discovery times out, iterateServerAddresses() refreshes only once,
\* and anyPromise() settles once every branch has settled.
BoundedCallReturns ==
    \A c \in Calls :
        (call[c].tmo = "bounded" /\ call[c].pc \in {"direct", "race", "resolved"})
            ~> call[c].pc = "returned"

\* Spec 5 and 8: operations on one peer reuse or replace its channel entry,
\* never duplicate it.  Once a channel is registered for n, no pair() for n
\* opens another: a concurrent connect() reuses the channel the first one
\* registered (spec 8), and the losing branch of the reconnect race is
\* cancelled once the winner has registered its channel (spec 5 and 9).
NoPairOverRegisteredChannel ==
    [][\A c \in Calls, b \in Branches :
          (hs[c][b].id = NoChan /\ hs'[c][b].id # NoChan)
              => channelMgr[call[c].node] = NoChan]_vars

\* Spec 4.3 and 8: a failed handshake never leaves an allocated session
\* behind; an unsecure session is allocated only while its pair() runs.
FailedHandshakeReleasesSession ==
    \A i \in unsecure : \E c \in Calls, b \in Branches : hs[c][b].id = i

\* Spec 5: a connect() without timeout retries until it succeeds; while its
\* race is pending, some branch that can still settle it is alive (the timer
\* is running, or discovery has not settled).
PendingRaceHasLiveBranch ==
    \A c \in Calls :
        (call[c].pc = "race" /\ ~RaceSettled(call[c]))
            => \/ call[c].pollP = "pending" /\ call[c].poll = "running"
               \/ call[c].discP = "pending"
\* Spec 3, 4.6 and 5: the channel ChannelManager keeps for a peer is the one
\* channel of a commissioned node and is bound to that node's live CASE
\* session.  Whenever no removeNode(n) is suspended, a registered channel
\* carries a secure session SessionManager still holds and n has a registry
\* entry: neither resume() removing all of n's sessions after its own race
\* failed (MatterController.ts:574) nor removeNode() deleting the entry
\* (341) may strand a channel another connect() registered meanwhile.
RegisteredChannelBacked ==
    \A n \in Nodes :
        (removing[n] = "none" /\ channelMgr[n] # NoChan)
            => channelMgr[n] \in secure /\ opAddr[n] # NoAddr

=============================================================================
