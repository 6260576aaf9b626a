---------------------------- MODULE EndpointStore ----------------------------
(***************************************************************************)
(* What the persistent endpoint storage of CommissioningServer promises   *)
(* the application for endpoints with a unique id, stated without         *)
(* positions, prefixes, storage contexts or datasource objects.           *)
(*                                                                         *)
(* Each unique id u has a number num[u] (0 before it has one), the data   *)
(* version ver[u] of its cluster and the value val[u] of one attribute of *)
(* that cluster.  The application adds and removes endpoints freely; the  *)
(* server                                                                  *)
(*   - gives u a number once, never one another unique id holds, and      *)
(*     never changes it;                                                  *)
(*   - gives u's cluster a first data version when u first has a number;  *)
(*   - changes the version and the value only together, when the          *)
(*     attribute of a present endpoint is written: the version advances   *)
(*     by one, wrapping at VersionRange.                                   *)
(* Restarts are invisible: nothing here changes when the process restarts. *)
(***************************************************************************)
EXTENDS Naturals

CONSTANTS
    Uids,          \* unique ids of endpoints
    Numbers,       \* endpoint numbers the server may hand out
    VersionRange,  \* 2^32 in the code
    NoVersion,     \* the cluster has no data version yet
    Values,        \* values the application writes to the attribute
    InitialValue   \* the attribute's value before any write

Versions == 0..(VersionRange - 1)

VARIABLES present, num, ver, val

storeVars == <<present, num, ver, val>>

StoreTypeOK ==
    /\ present \subseteq Uids
    /\ num \in [Uids -> Numbers \cup {0}]
    /\ ver \in [Uids -> Versions \cup {NoVersion}]
    /\ val \in [Uids -> Values \cup {InitialValue}]

StoreInit ==
    /\ present = {}
    /\ num = [u \in Uids |-> 0]
    /\ ver = [u \in Uids |-> NoVersion]
    /\ val = [u \in Uids |-> InitialValue]

\* u keeps its number, or a present u without one is given a number no other
\* unique id holds.
Numbered(u) ==
    \/ num'[u] = num[u]
    \/ /\ num[u] = 0 /\ u \in present'
       /\ num'[u] \in Numbers
       /\ \A w \in Uids \ {u} : num'[w] # num'[u]

\* u's cluster gets its first data version, with u numbered.
FirstVersion(u) ==
    /\ ver[u] = NoVersion /\ ver'[u] \in Versions
    /\ num'[u] # 0
    /\ val'[u] = val[u]

\* The attribute of present endpoint u is written: a new value and the next
\* data version.
Written(u) ==
    /\ u \in present /\ ver[u] # NoVersion
    /\ ver'[u] = (ver[u] + 1) % VersionRange
    /\ val'[u] \in Values

Unchanged(u) == ver'[u] = ver[u] /\ val'[u] = val[u]

\* One step of the server and the application: any endpoints are added or
\* removed, and every unique id takes one of the steps above.
StoreNext ==
    /\ present' \subseteq Uids
    /\ \A u \in Uids : Numbered(u)
    /\ \A u \in Uids : Unchanged(u) \/ FirstVersion(u) \/ Written(u)

StoreSpec == StoreInit /\ [][StoreNext]_storeVars
=============================================================================
