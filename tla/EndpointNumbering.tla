------------------------- MODULE EndpointNumbering -------------------------
(***************************************************************************)
(* Endpoint number assignment of CommissioningServer                       *)
(* (src/packages/matter.js/src/CommissioningServer.ts): assignEndpointIds, *)
(* initializeEndpointIdsFromStorage, fillAndStoreEndpointIds,             *)
(* initializeEndpoints, updateStructure and getNextEndpointId.             *)
(*                                                                         *)
(* The endpoints are the children of the root endpoint, in order.  An      *)
(* endpoint is keyed in the EndpointStructure storage context by its       *)
(* unique id when it has one, and by "index_<position>" otherwise.  The   *)
(* storage survives restarts; endpoint objects are rebuilt by the          *)
(* application on every start and only keep a number it set itself.      *)
(***************************************************************************)
EXTENDS Naturals, Sequences

CONSTANTS
    Uids,          \* unique ids endpoints may report (determineUniqueID())
    NoUid,         \* model value: determineUniqueID() returned undefined
    UidChoices,    \* the uid values endpoints are built with: a subset of Uids \cup {NoUid}
    Presets,       \* numbers the application may set before adding (0: none)
    InitialNext,   \* options.nextEndpointId ?? 1
    MaxEndpoints,  \* bound on child endpoints present at once
    MaxNumber      \* bound on nextEndpointId for adding endpoints

ASSUME NoUid \notin Uids /\ UidChoices \subseteq Uids \cup {NoUid}
ASSUME InitialNext \in Nat \ {0} /\ Presets \subseteq Nat

\* Endpoint numbers are positive; 0 stands for "number undefined" here.
NoNumber == 0

VARIABLES
    eps,          \* child endpoints of the root: [uid, preset, number]
    store,        \* EndpointStructure storage: prefix -> number (NoNumber: absent)
    storedNext,   \* EndpointStructure storage "nextEndpointId" (NoNumber: absent)
    nextId,       \* this.nextEndpointId
    phase,        \* "config" before initializeEndpoints(), "running" after
    firstNum      \* history: the first number each unique id was given

vars == <<eps, store, storedNext, nextId, phase, firstNum>>

Prefixes == {<<"index", k>> : k \in 0..(MaxEndpoints - 1)} \cup {<<"uid", u>> : u \in Uids}

Endpoint == [uid : Uids \cup {NoUid}, preset : Presets, number : Nat]

TypeOK ==
    /\ eps \in Seq(Endpoint) /\ Len(eps) <= MaxEndpoints
    /\ store \in [Prefixes -> Nat]
    /\ storedNext \in Nat /\ nextId \in Nat
    /\ phase \in {"config", "running"}
    /\ firstNum \in [Uids -> Nat]

-----------------------------------------------------------------------------

\* The storage key of the endpoint at 1-based position i.
Prefix(e, i) == IF e.uid = NoUid THEN <<"index", i - 1>> ELSE <<"uid", e.uid>>

\* initializeEndpointIdsFromStorage over positions i..Len(es): restore an
\* undefined number from storage, and move next past a number above it.
RECURSIVE RestoreFrom(_, _, _, _)
RestoreFrom(es, st, next, i) ==
    IF i > Len(es) THEN <<es, next>>
    ELSE LET p == Prefix(es[i], i)
             num == IF es[i].number = NoNumber /\ st[p] # NoNumber THEN st[p] ELSE es[i].number
             nx == IF num # NoNumber /\ num > next THEN num + 1 ELSE next
         IN RestoreFrom([es EXCEPT ![i].number = num], st, nx, i + 1)

\* Mutant of FillFrom: a new number is assigned but not written to storage.
RECURSIVE FillFromNoStore(_, _, _, _)
FillFromNoStore(es, st, next, i) ==
    IF i > Len(es) THEN <<es, st, next>>
    ELSE IF es[i].number = NoNumber
         THEN FillFromNoStore([es EXCEPT ![i].number = next], st, next + 1, i + 1)
         ELSE FillFromNoStore(es, st, next, i + 1)

\* fillAndStoreEndpointIds over positions i..Len(es): give every endpoint
\* still without a number nextEndpointId++ and store it under its prefix.
RECURSIVE FillFrom(_, _, _, _)
FillFrom(es, st, next, i) ==
    IF i > Len(es) THEN <<es, st, next>>
    ELSE IF es[i].number = NoNumber
         THEN FillFrom([es EXCEPT ![i].number = next],
                       [st EXCEPT ![Prefix(es[i], i)] = next], next + 1, i + 1)
         ELSE FillFrom(es, st, next, i + 1)

\* Record the number each unique id is first given.
Remember(es, fn) ==
    [u \in Uids |-> IF fn[u] = NoNumber /\ \E i \in DOMAIN es : es[i].uid = u /\ es[i].preset = NoNumber
                    THEN es[CHOOSE i \in DOMAIN es : es[i].uid = u].number
                    ELSE fn[u]]

\* assignEndpointIds() applied to the endpoint list es with next = n: restore,
\* fill, then store nextEndpointId.
AssignFrom(es, n) ==
    LET r == RestoreFrom(es, store, n, 1)
        f == FillFrom(r[1], store, r[2], 1)
    IN /\ eps' = f[1]
       /\ store' = f[2]
       /\ nextId' = f[3]
       /\ storedNext' = f[3]
       /\ firstNum' = Remember(f[1], firstNum)

-----------------------------------------------------------------------------

\* The application adds a child endpoint; once the server runs, the
\* structure-changed callback calls updateStructure(), which assigns ids.
\* Unique ids, and numbers the application sets, are distinct among the
\* endpoints present.
AddEndpoint(u, p) ==
    /\ Len(eps) < MaxEndpoints
    /\ nextId <= MaxNumber
    /\ u # NoUid => \A i \in DOMAIN eps : eps[i].uid # u
    /\ p # NoNumber => \A i \in DOMAIN eps : eps[i].number # p
    /\ LET es == Append(eps, [uid |-> u, preset |-> p, number |-> p])
       IN IF phase = "running"
          THEN AssignFrom(es, nextId)
          ELSE /\ eps' = es
               /\ UNCHANGED <<store, storedNext, nextId, firstNum>>
    /\ UNCHANGED phase

\* The application removes the child endpoint at position i (updateStructure
\* runs again when the server is running).
RemoveEndpoint(i) ==
    /\ i \in DOMAIN eps
    /\ LET es == [j \in 1..(Len(eps) - 1) |-> IF j < i THEN eps[j] ELSE eps[j + 1]]
       IN IF phase = "running"
          THEN AssignFrom(es, nextId)
          ELSE /\ eps' = es
               /\ UNCHANGED <<store, storedNext, nextId, firstNum>>
    /\ UNCHANGED phase

\* Mutant of initializeEndpoints: the stored nextEndpointId is not loaded.
initializeEndpointsIgnoreStoredNext ==
    /\ phase = "config"
    /\ phase' = "running"
    /\ AssignFrom(eps, nextId)

\* initializeEndpoints(): load nextEndpointId from storage (keeping the
\* current value when absent) and assign ids.
initializeEndpoints ==
    /\ phase = "config"
    /\ phase' = "running"
    /\ AssignFrom(eps, IF storedNext # NoNumber THEN storedNext ELSE nextId)

\* getNextEndpointId(true): increase nextEndpointId and return it.
getNextEndpointId ==
    /\ nextId <= MaxNumber
    /\ nextId' = nextId + 1
    /\ UNCHANGED <<eps, store, storedNext, phase, firstNum>>

\* The process restarts: storage survives, the application rebuilds the same
\* endpoints, which only carry the numbers it sets itself, and the server
\* is constructed with nextEndpointId = options.nextEndpointId ?? 1.
Restart ==
    /\ phase = "running"
    /\ phase' = "config"
    /\ eps' = [i \in DOMAIN eps |-> [eps[i] EXCEPT !.number = eps[i].preset]]
    /\ nextId' = InitialNext
    /\ UNCHANGED <<store, storedNext, firstNum>>

Init ==
    /\ eps = <<>>
    /\ store = [p \in Prefixes |-> NoNumber]
    /\ storedNext = NoNumber
    /\ nextId = InitialNext
    /\ phase = "config"
    /\ firstNum = [u \in Uids |-> NoNumber]

Next ==
    \/ \E u \in UidChoices, p \in Presets : AddEndpoint(u, p)
    \/ \E i \in DOMAIN eps : RemoveEndpoint(i)
    \/ initializeEndpoints
    \/ getNextEndpointId
    \/ Restart

Spec == Init /\ [][Next]_vars

-----------------------------------------------------------------------------
(* Properties.                                                             *)

\* updateStructure() (CommissioningServer.ts:554) "makes sure to have unique
\* endpoint ids": no two endpoints present carry the same number.
UniqueEndpointNumbers ==
    \A i, j \in DOMAIN eps :
        (i # j /\ eps[i].number # NoNumber) => eps[i].number # eps[j].number

\* The EndpointStructure storage makes numbers persistent: an endpoint with
\* a unique id gets back, after removals, re-additions and restarts, the
\* number it was first given.
UidEndpointKeepsNumber ==
    phase = "running" =>
        \A i \in DOMAIN eps :
            (eps[i].uid # NoUid /\ eps[i].preset = NoNumber)
                => eps[i].number = firstNum[eps[i].uid]
=============================================================================
