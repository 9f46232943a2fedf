------------------------------- MODULE Container -------------------------------
(* The lock-free registry of ports and nodes that lives in shared memory        *)
(* (iceoryx2-bb/lock-free/src/mpmc/container.rs).  Every process keeps a        *)
(* ContainerState, a private copy that update_state() brings up to date slot    *)
(* by slot; a slot is in use while its active_index is odd.                     *)
(*                                                                              *)
(* The indices come from a UniqueIndexSet, used here through what it promises:  *)
(* acquire takes a free index, release gives it back, and a release in mode     *)
(* LockIfLastIndex that leaves no index borrowed locks the set.  Writers are    *)
(* threads of processes that may die between any two accesses.  An element is   *)
(* removed once, by any writer: a living process removes what a dead one left.  *)
(*                                                                              *)
(* A definition named <definition>_<fault> is a faulty variant of the one that  *)
(* follows it; it shows which property notices the fault.                       *)
EXTENDS Naturals, FiniteSets

CONSTANTS capacity,   \* number of slots
          Writers,    \* threads that add and remove elements
          MaxAdd,     \* bound: number of elements added
          TornEntry        \* content of a slot while it is written

ASSUME SlotsAssumption == capacity \in Nat \ {0}
ASSUME MaxAddAssumption == MaxAdd \in Nat
ASSUME TornEntryAssumption == TornEntry \notin Nat

Slots == 1..capacity

VARIABLES
    free, locked,       \* the index set: free indices, no more acquisitions
    active_index,       \* generation of each slot
    data_ptr,               \* content of each slot
    change_counter,
    w_pc, w_slot,       \* per writer: next access, slot worked on
    r_pc, r_slot,       \* reader: next access, slot worked on
    r_count,            \* reader: generation loaded last
    state,              \* reader: its ContainerState
    handles,            \* history: slots whose element may still be removed
    dirty,              \* history: slots changed since the last change was counted
    total               \* history: number of elements added

shared == <<free, locked, active_index, data_ptr, change_counter>>
writer == <<w_pc, w_slot>>
reader == <<r_pc, r_slot, r_count, state>>
history == <<handles, dirty, total>>
containerVars == <<shared, writer, reader, history>>

Odd(n) == n % 2 = 1

ContainerInit ==
    /\ free = Slots /\ locked = FALSE
    /\ active_index = [i \in Slots |-> 0]
    /\ data_ptr = [i \in Slots |-> 0]
    /\ change_counter = 0
    /\ w_pc = [w \in Writers |-> "idle"] /\ w_slot = [w \in Writers |-> 0]
    /\ r_pc = "idle" /\ r_slot = 0 /\ r_count = 0
    /\ state = [counter |-> 0, active |-> [i \in Slots |-> 0], data |-> [i \in Slots |-> 0]]
    /\ handles = {} /\ dirty = {} /\ total = 0

Goto(w, label) == w_pc' = [w_pc EXCEPT ![w] = label]

------------------------------------------------------------------------------
(* add(value); without a free index, or when the set is locked, it fails and    *)
(* changes nothing                                                              *)

AddAcquire_ignores_lock(w, i) ==
    /\ w_pc[w] = "idle" /\ total < MaxAdd
    /\ i \in free
    /\ free' = free \ {i}
    /\ w_slot' = [w_slot EXCEPT ![w] = i]
    /\ total' = total + 1
    /\ Goto(w, "add_copy")
    /\ UNCHANGED <<locked, active_index, data_ptr, change_counter, reader, handles, dirty>>

AddAcquire(w, i) ==
    /\ w_pc[w] = "idle" /\ total < MaxAdd
    /\ ~ locked /\ i \in free
    /\ free' = free \ {i}
    /\ w_slot' = [w_slot EXCEPT ![w] = i]
    /\ total' = total + 1
    /\ Goto(w, "add_copy")
    /\ UNCHANGED <<locked, active_index, data_ptr, change_counter, reader, handles, dirty>>

AddBeginCopy(w) ==
    /\ w_pc[w] = "add_copy"
    /\ data_ptr' = [data_ptr EXCEPT ![w_slot[w]] = TornEntry]
    /\ Goto(w, "add_copying")
    /\ UNCHANGED <<free, locked, active_index, change_counter, w_slot, reader, history>>

(* Every value added differs from the others of its slot: it stands for the     *)
(* generation it is added in.                                                   *)
AddEndCopy(w) ==
    /\ w_pc[w] = "add_copying"
    /\ data_ptr' = [data_ptr EXCEPT ![w_slot[w]] = active_index[w_slot[w]] + 1]
    /\ Goto(w, "add_activate")
    /\ UNCHANGED <<free, locked, active_index, change_counter, w_slot, reader, history>>

AddActivate(w) ==
    /\ w_pc[w] = "add_activate"
    /\ active_index' = [active_index EXCEPT ![w_slot[w]] = @ + 1]
    /\ dirty' = dirty \cup {w_slot[w]}
    /\ Goto(w, "add_count")
    /\ UNCHANGED <<free, locked, data_ptr, change_counter, w_slot, reader, handles, total>>

AddCount(w) ==
    /\ w_pc[w] = "add_count"
    /\ change_counter' = change_counter + 1
    /\ handles' = handles \cup {w_slot[w]} /\ dirty' = {}
    /\ w_slot' = [w_slot EXCEPT ![w] = 0]
    /\ Goto(w, "idle")
    /\ UNCHANGED <<free, locked, active_index, data_ptr, reader, total>>

------------------------------------------------------------------------------
(* remove(handle, mode)                                                         *)

RemoveDeactivate(w, i) ==
    /\ w_pc[w] = "idle" /\ i \in handles
    /\ handles' = handles \ {i}
    /\ active_index' = [active_index EXCEPT ![i] = @ + 1]
    /\ dirty' = dirty \cup {i}
    /\ w_slot' = [w_slot EXCEPT ![w] = i]
    /\ Goto(w, "remove_release")
    /\ UNCHANGED <<free, locked, data_ptr, change_counter, reader, total>>

(* release_raw_index(index, mode)                                               *)
RemoveRelease_locks_one_early(w, mode) ==
    /\ w_pc[w] = "remove_release"
    /\ free' = free \cup {w_slot[w]}
    /\ locked' = (locked \/ (mode = "LockIfLastIndex" /\ Cardinality(Slots \ free) <= 2))
    /\ Goto(w, "remove_count")
    /\ UNCHANGED <<active_index, data_ptr, change_counter, w_slot, reader, history>>

RemoveRelease(w, mode) ==
    /\ w_pc[w] = "remove_release"
    /\ free' = free \cup {w_slot[w]}
    /\ locked' = (locked \/ (mode = "LockIfLastIndex" /\ free' = Slots))
    /\ Goto(w, "remove_count")
    /\ UNCHANGED <<active_index, data_ptr, change_counter, w_slot, reader, history>>

RemoveCount_forgotten(w) ==
    /\ w_pc[w] = "remove_count"
    /\ dirty' = {}
    /\ w_slot' = [w_slot EXCEPT ![w] = 0]
    /\ Goto(w, "idle")
    /\ UNCHANGED <<shared, reader, handles, total>>

RemoveCount(w) ==
    /\ w_pc[w] = "remove_count"
    /\ change_counter' = change_counter + 1
    /\ dirty' = {}
    /\ w_slot' = [w_slot EXCEPT ![w] = 0]
    /\ Goto(w, "idle")
    /\ UNCHANGED <<free, locked, active_index, data_ptr, reader, handles, total>>

(* The process of the writer dies.  The element it has just made visible is     *)
(* removed by the process that cleans up; a slot it had not made visible, or    *)
(* not given back, stays with it.                                               *)
Die(w) ==
    /\ w_pc[w] # "dead"
    /\ handles' = IF w_pc[w] = "add_count" THEN handles \cup {w_slot[w]} ELSE handles
    /\ w_slot' = IF w_pc[w] \in {"add_count", "remove_count"}
                 THEN [w_slot EXCEPT ![w] = 0] ELSE w_slot
    /\ w_pc' = [w_pc EXCEPT ![w] = "dead"]
    /\ UNCHANGED <<shared, reader, dirty, total>>

------------------------------------------------------------------------------
(* update_state(previous_state)                                                 *)

UpdateBegin ==
    /\ r_pc = "idle" /\ state.counter # change_counter
    /\ state' = [state EXCEPT !.counter = change_counter]
    /\ r_slot' = 1
    /\ r_pc' = "load"
    /\ UNCHANGED <<shared, writer, r_count, history>>

(* Continue with the next slot, or return.                                      *)
NextSlot ==
    IF r_slot = capacity
    THEN r_pc' = "idle" /\ r_slot' = 0 /\ r_count' = 0
    ELSE r_pc' = "load" /\ r_slot' = r_slot + 1 /\ r_count' = 0

UpdateLoad_ignores_removed ==
    /\ r_pc = "load"
    /\ IF ~ Odd(active_index[r_slot])
       THEN NextSlot
       ELSE /\ r_count' = active_index[r_slot]
            /\ r_pc' = "copy"
            /\ UNCHANGED r_slot
    /\ UNCHANGED <<shared, writer, state, history>>

UpdateLoad ==
    /\ r_pc = "load"
    /\ IF active_index[r_slot] = state.active[r_slot]
       THEN NextSlot
       ELSE /\ r_count' = active_index[r_slot]
            /\ r_pc' = "copy"
            /\ UNCHANGED r_slot
    /\ UNCHANGED <<shared, writer, state, history>>

(* The generation is recorded and, of an active slot, the content copied.  What *)
(* is written during the copy makes it torn.                                    *)
UpdateBeginCopy ==
    /\ r_pc = "copy"
    /\ state' = [state EXCEPT !.active[r_slot] = r_count,
                              !.data[r_slot] = IF Odd(r_count) THEN data_ptr[r_slot] ELSE @]
    /\ r_pc' = IF Odd(r_count) THEN "copying" ELSE "confirm"
    /\ UNCHANGED <<shared, writer, r_slot, r_count, history>>

UpdateEndCopy ==
    /\ r_pc = "copying"
    /\ state' = [state EXCEPT !.data[r_slot] = IF @ = data_ptr[r_slot] THEN @ ELSE TornEntry]
    /\ r_pc' = "confirm"
    /\ UNCHANGED <<shared, writer, r_slot, r_count, history>>

UpdateConfirm_without_check ==
    /\ r_pc = "confirm"
    /\ NextSlot
    /\ UNCHANGED <<shared, writer, state, history>>

(* The exchange of the generation by itself; after a failure the slot is copied *)
(* again.                                                                       *)
UpdateConfirm ==
    /\ r_pc = "confirm"
    /\ IF active_index[r_slot] = r_count
       THEN NextSlot
       ELSE /\ r_count' = active_index[r_slot]
            /\ r_pc' = "copy"
            /\ UNCHANGED r_slot
    /\ UNCHANGED <<shared, writer, state, history>>

------------------------------------------------------------------------------
Add(w) == \/ \E i \in Slots : AddAcquire(w, i)
          \/ AddBeginCopy(w) \/ AddEndCopy(w) \/ AddActivate(w) \/ AddCount(w)

Remove(w) == \/ \E i \in Slots : RemoveDeactivate(w, i)
             \/ \E mode \in {"Default", "LockIfLastIndex"} : RemoveRelease(w, mode)
             \/ RemoveCount(w)

UpdateState == \/ UpdateBegin \/ UpdateLoad \/ UpdateBeginCopy \/ UpdateEndCopy
               \/ UpdateConfirm

ContainerNext == (\E w \in Writers : Add(w) \/ Remove(w) \/ Die(w)) \/ UpdateState

ContainerSpec == ContainerInit /\ [][ContainerNext]_containerVars

(* A port updates its copy again and again: with every send and receive.        *)
ContainerFairness == WF_containerVars(UpdateState)

ContainerFairSpec == ContainerSpec /\ ContainerFairness

------------------------------------------------------------------------------
(* Properties                                                                   *)

ContainerTypeOK ==
    /\ free \subseteq Slots /\ locked \in BOOLEAN
    /\ active_index \in [Slots -> Nat]
    /\ data_ptr \in [Slots -> Nat \cup {TornEntry}]
    /\ change_counter \in Nat
    /\ w_pc \in [Writers -> {"idle", "add_copy", "add_copying", "add_activate", "add_count",
                             "remove_release", "remove_count", "dead"}]
    /\ w_slot \in [Writers -> 0..capacity]
    /\ r_pc \in {"idle", "load", "copy", "copying", "confirm"}
    /\ r_slot \in 0..capacity /\ r_count \in Nat
    /\ state \in [counter: Nat, active: [Slots -> Nat], data: [Slots -> Nat \cup {TornEntry}]]
    /\ handles \subseteq Slots /\ total \in Nat

(* for_each() passes the value that was added in the generation the copy has    *)
(* recorded: never a torn value, never that of an earlier or later element of   *)
(* the same slot, although add() and remove() ran during the copy.              *)
SnapshotNeverTorn ==
    \A i \in Slots :
        (Odd(state.active[i]) /\ ~ (r_pc \in {"copy", "copying", "confirm"} /\ r_slot = i))
        => state.data[i] = state.active[i]

(* A copy whose counter is current misses nothing that was counted, so          *)
(* update_state() may return early: it differs from the registry only in slots  *)
(* changed since the last change was counted.  A change whose process died      *)
(* before counting it becomes visible with the next one.                        *)
SnapshotExact ==
    (r_pc = "idle" /\ state.counter = change_counter)
    => \A i \in Slots : state.active[i] = active_index[i] \/ i \in dirty

(* A slot in use is not free; a slot neither free nor in use belongs to one     *)
(* writer, that works on it or died with it; a locked registry is empty.        *)
SlotsAccounted ==
    /\ ContainerTypeOK
    /\ \A i \in handles : Odd(active_index[i]) /\ i \notin free
    /\ Slots \ (free \cup handles) =
           {w_slot[w] : w \in {v \in Writers : w_pc[v] # "remove_count"}} \ {0}
    /\ locked => free = Slots

(* A locked container, the mark of a service that is being destroyed, never     *)
(* gets a new element.                                                          *)
LockedStaysEmpty ==
    [][locked => locked' /\ handles' = {} /\ active_index' = active_index]_containerVars

(* When changes stop, and the last one was counted, the copy eventually equals  *)
(* the registry.                                                                *)
EventuallyExact ==
    <>[](dirty = {}) => <>[](state.active = active_index)

==============================================================================
