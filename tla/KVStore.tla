------------------------------ MODULE KVStore ------------------------------
(***************************************************************************)
(* What the placement engine promises to the workload: a map from keys to  *)
(* the size of their current value.  A value is known by its size only,    *)
(* as in the simulator; size 0 stands for a key that is not stored.        *)
(***************************************************************************)
EXTENDS Naturals

CONSTANTS
    Keys,         \* the keys a workload names
    ValueSizes    \* the sizes a stored value may have, all positive

VARIABLE store    \* the map

Absent == 0

TypeOK == store \in [Keys -> ValueSizes \cup {Absent}]

Init == store = [k \in Keys |-> Absent]

\* ADD_KV and MODIFY_KV: the key now has a value of size v.
Put(k, v) == store' = [store EXCEPT ![k] = v]

\* DELETE_KV: the key is gone.
Delete(k) == /\ store[k] # Absent
             /\ store' = [store EXCEPT ![k] = Absent]

Next == \E k \in Keys : Delete(k) \/ \E v \in ValueSizes : Put(k, v)

Spec == Init /\ [][Next]_store
=============================================================================
