------------------------- MODULE EndpointClusterData -------------------------
(***************************************************************************)
(* Endpoint numbering composed with the cluster data versions of          *)
(* CommissioningServer (src/packages/matter.js/src/CommissioningServer.ts). *)
(*                                                                         *)
(* Every change of the endpoint structure makes the server create a new   *)
(* CommissioningServerClusterDatasource for each cluster of each endpoint *)
(* (the endpointStructure.change handler).  The datasource's storage      *)
(* context is "Cluster-<endpoint number>-<cluster id>", so the data       *)
(* version an endpoint gets back depends on the number the numbering      *)
(* gives it, and so do the attribute values it restores.  One cluster     *)
(* with one attribute per endpoint is modelled; data versions are          *)
(* VersionBits wide (the code's 32 bits scaled down), wrapping as          *)
(* increaseVersion() does.  The module is shown to implement the abstract  *)
(* EndpointStore.                                                          *)
(***************************************************************************)
EXTENDS EndpointNumbering, Integers, FiniteSets

CONSTANTS
    VersionBits,   \* width of the data version (32 in the code)
    Values,        \* values the application writes to the attribute
    InitialValue,  \* the attribute's value in a newly built cluster
    NoValue,       \* model value: storage holds no value for the attribute
    Undefined      \* model value: the attribute is cleared (set to undefined)

ASSUME VersionBits \in Nat \ {0}
ASSUME InitialValue \notin Values /\ NoValue \notin Values \cup {InitialValue}
ASSUME Undefined \notin {InitialValue, NoValue}

\* 2^VersionBits: the code's 0xffffffff + 1.
VersionRange == 2^VersionBits
Versions == 0..(VersionRange - 1)
\* No version: storage holds no "_clusterDataVersion" / the cluster has no datasource.
NoVersion == VersionRange

\* Numbers an endpoint can get: getNextEndpointId() and additions stop at
\* MaxNumber in memory, but after a restart the stored nextEndpointId is
\* reloaded, so each unique id and each position may still take one more
\* number above it.
VNumbers == 1..(MaxNumber + 1 + MaxEndpoints + Cardinality(Uids))

VARIABLES
    vstore,    \* "_clusterDataVersion" of context Cluster-<n>-<id>, per number n
    ds,        \* version of the datasource of each endpoint's cluster (aligned with eps)
    astore,    \* the attribute's entry in context Cluster-<n>-<id>, per number n
    av         \* the attribute's value in each endpoint's cluster (aligned with eps)

dataVars == <<vstore, ds, astore, av>>
allVars == <<vars, dataVars>>

DataTypeOK ==
    /\ TypeOK
    /\ vstore \in [VNumbers -> Versions \cup {NoVersion}]
    /\ ds \in Seq(Versions \cup {NoVersion}) /\ Len(ds) = Len(eps)
    /\ astore \in [VNumbers -> Values \cup {NoValue}]
    /\ av \in Seq(Values \cup {InitialValue}) /\ Len(av) = Len(eps)

-----------------------------------------------------------------------------

\* Mutant of IncreaseVersion: the wrap resets to 0 before the increment.
IncreaseVersionWrapToZero(v) == (IF v = VersionRange - 1 THEN 0 ELSE v) + 1

\* increaseVersion(): 0xffffffff becomes -1, then the version is incremented.
IncreaseVersion(v) == (IF v = VersionRange - 1 THEN -1 ELSE v) + 1

\* The datasource constructor for the endpoint at position i of es, whose
\* cluster currently has datasource version old: the stored version, else
\* the previous datasource's version, else a random 32-bit value (rnd).
DatasourceVersion(es, i, old, rnd) ==
    LET stored == vstore[es[i].number]
    IN IF stored # NoVersion THEN stored ELSE IF old # NoVersion THEN old ELSE rnd

\* Mutant of RestoredValue: the constructor does not restore stored attributes.
RestoredValueKeepOld(es, i, old) == old

\* The value the datasource constructor leaves in the attribute of the
\* endpoint at position i of es, whose cluster holds the value old: the
\* stored value when the storage has one, else old.
RestoredValue(es, i, old) ==
    IF astore[es[i].number] # NoValue THEN astore[es[i].number] ELSE old

\* The endpointStructure.change handler after the numbering produced es and
\* the clusters carry the datasource versions olds and attribute values
\* oldv: a datasource for every endpoint, each storing its version under its
\* number and restoring the attribute.
CreateDatasources(es, olds, oldv) ==
    \E rnd \in [DOMAIN es -> Versions] :
        LET nv == [i \in DOMAIN es |-> DatasourceVersion(es, i, olds[i], rnd[i])]
        IN /\ ds' = nv
           /\ vstore' = [n \in VNumbers |->
                           IF \E i \in DOMAIN es : es[i].number = n
                           THEN nv[CHOOSE i \in DOMAIN es : es[i].number = n]
                           ELSE vstore[n]]
           /\ av' = [i \in DOMAIN es |-> RestoredValue(es, i, oldv[i])]
           /\ UNCHANGED astore

-----------------------------------------------------------------------------

\* A new endpoint object has a cluster without datasource; once the server
\* runs, updateStructure() renumbers and the change handler runs.
DataAddEndpoint(u, p) ==
    /\ AddEndpoint(u, p)
    /\ IF phase = "running"
       THEN CreateDatasources(eps', Append(ds, NoVersion), Append(av, InitialValue))
       ELSE /\ ds' = Append(ds, NoVersion) /\ av' = Append(av, InitialValue)
            /\ UNCHANGED <<vstore, astore>>

DataRemoveEndpoint(i) ==
    /\ RemoveEndpoint(i)
    /\ LET Drop(s) == [j \in 1..(Len(s) - 1) |-> IF j < i THEN s[j] ELSE s[j + 1]]
       IN IF phase = "running"
          THEN CreateDatasources(eps', Drop(ds), Drop(av))
          ELSE /\ ds' = Drop(ds) /\ av' = Drop(av)
               /\ UNCHANGED <<vstore, astore>>

\* The start of the server: numbers are assigned and the structure is
\* initialised, which creates the datasources.
DataInitializeEndpoints ==
    /\ initializeEndpoints
    /\ CreateDatasources(eps', ds, av)

DataGetNextEndpointId ==
    /\ getNextEndpointId
    /\ UNCHANGED dataVars

\* A restart rebuilds endpoint objects and clusters: no datasource survives,
\* and attributes have their initial value.
DataRestart ==
    /\ Restart
    /\ ds' = [i \in DOMAIN ds |-> NoVersion]
    /\ av' = [i \in DOMAIN av |-> InitialValue]
    /\ UNCHANGED <<vstore, astore>>

\* Mutant of Changed: the value is never stored.
ChangedNotStored(n, v) == astore' = astore

\* changed(): the value is stored under context number n, unless it is
\* undefined, which returns before touching storage.
Changed(n, v) ==
    astore' = IF v = Undefined THEN astore ELSE [astore EXCEPT ![n] = v]

\* The attribute of the cluster of endpoint i is set to v (Undefined when
\* the application clears an optional attribute): the cluster calls
\* increaseVersion(), which stores the new version, and changed().
AttributeChanged(i, v) ==
    /\ phase = "running"
    /\ i \in DOMAIN eps
    /\ ds[i] # NoVersion
    /\ ds' = [ds EXCEPT ![i] = IncreaseVersion(@)]
    /\ vstore' = [vstore EXCEPT ![eps[i].number] = IncreaseVersion(ds[i])]
    /\ av' = [av EXCEPT ![i] = v]
    /\ Changed(eps[i].number, v)
    /\ UNCHANGED vars

DataInit ==
    /\ Init
    /\ vstore = [n \in VNumbers |-> NoVersion]
    /\ ds = <<>>
    /\ astore = [n \in VNumbers |-> NoValue]
    /\ av = <<>>

DataNext ==
    \/ \E u \in UidChoices, p \in Presets : DataAddEndpoint(u, p)
    \/ \E i \in DOMAIN eps : DataRemoveEndpoint(i) \/ \E v \in Values : AttributeChanged(i, v)
    \/ DataInitializeEndpoints
    \/ DataGetNextEndpointId
    \/ DataRestart

DataSpec == DataInit /\ [][DataNext]_allVars

-----------------------------------------------------------------------------
(* Refinement: the storage as the application sees it.                     *)

UidNumber(u) == store[<<"uid", u>>]

\* Positions of the endpoint with unique id u whose cluster has a datasource.
Live(u) == {i \in DOMAIN eps : eps[i].uid = u /\ ds[i] # NoVersion}

\* A unique id's version and value: those of its live cluster, else those
\* stored under its number.
UidVersion(u) ==
    IF Live(u) # {} THEN ds[CHOOSE i \in Live(u) : TRUE]
    ELSE IF UidNumber(u) = NoNumber THEN NoVersion ELSE vstore[UidNumber(u)]
UidValue(u) ==
    IF Live(u) # {} THEN av[CHOOSE i \in Live(u) : TRUE]
    ELSE IF UidNumber(u) = NoNumber \/ astore[UidNumber(u)] = NoValue THEN InitialValue
    ELSE astore[UidNumber(u)]

Abstract == INSTANCE EndpointStore WITH
    Numbers <- VNumbers,
    present <- {eps[i].uid : i \in DOMAIN eps} \ {NoUid},
    num <- [u \in Uids |-> UidNumber(u)],
    ver <- [u \in Uids |-> UidVersion(u)],
    val <- [u \in Uids |-> UidValue(u)]

-----------------------------------------------------------------------------
(* Properties.                                                             *)

\* CommissioningServer implements EndpointStore for endpoints with a unique
\* id: across the re-creation of every datasource on each structure change
\* (constructor of CommissioningServerClusterDatasource), removals,
\* re-additions and restarts, a unique id keeps its number, its data version
\* and its attribute value, and both change only together, by one
\* increaseVersion() and one changed(), when the attribute is written.
EndpointStoreRefined == Abstract!StoreSpec

\* What a restart or the next datasource re-creation would restore is what
\* the cluster holds: while an endpoint's cluster has a datasource, the
\* storage context Cluster-<number>-<id> holds its data version
\* (increaseVersion()) and its attribute value (changed()), or no value while
\* the attribute has its initial one.  Broken by two live endpoints sharing a
\* number, and by a change that is not stored.
ClusterContextCurrent ==
    \A i \in DOMAIN eps :
        ds[i] # NoVersion =>
            LET n == eps[i].number
            IN /\ vstore[n] = ds[i]
               /\ av[i] = IF astore[n] = NoValue THEN InitialValue ELSE astore[n]
====
