----------------------------- MODULE UniqueIndexSet -----------------------------
(* The lock-free set of unique indices: a free list threaded through an array,  *)
(* whose head carries an ABA tag and the number of borrowed indices             *)
(* (iceoryx2-bb/lock-free/src/mpmc/unique_index_set.rs).  It hands out the      *)
(* chunks of every data segment and the slots of every Container.               *)
(*                                                                              *)
(* One action is one access to shared memory.  The threads belong to different  *)
(* processes: each may die between any two accesses, and an index may be        *)
(* released by another thread than the one that acquired it.                    *)
(*                                                                              *)
(* The tag has 16 bits.  AbaModulus is the number of its values; the model      *)
(* assumes that a thread does not sleep between its load of head and its        *)
(* exchange while head changes AbaModulus times (WindowsStayOpen).              *)
(*                                                                              *)
(* A definition named <definition>_<fault> is a faulty variant of the one that  *)
(* follows it; it shows which property notices the fault.                       *)
EXTENDS Naturals, Sequences

CONSTANTS Capacity,    \* number of indices
          Threads,     \* the threads that use the set
          AbaModulus   \* number of values of the ABA tag, 2^16 in the code

(* HeadDetails has 24 bits for borrowed_indices; all ones mean locked.          *)
LOCK_ACQUIRE == 16777215

ASSUME CapacityAssumption == Capacity \in Nat \ {0} /\ Capacity < LOCK_ACQUIRE
ASSUME AbaAssumption == AbaModulus \in Nat /\ AbaModulus > 1

Indices == 0..(Capacity - 1)

VARIABLES
    head,      \* the atomic: [head, aba, borrowed_indices]
    next,      \* the free list: next[i] follows index i
    pc, old,   \* per thread: next access, last value loaded from head
    index,     \* per thread: the index it takes out or puts back
    nxt,       \* per thread: the successor read by acquire_raw_index
    acquired,  \* history: indices handed out and not yet passed to release
    leaked,    \* history: indices a thread died with
    free,      \* history: the free list in order
    win        \* history: changes of head since the thread loaded it

vars == <<head, next, pc, old, index, nxt, acquired, leaked, free, win>>

NewHead == [head |-> 0, aba |-> 0, borrowed_indices |-> 0]

Init ==
    /\ head = NewHead
    /\ next = [i \in 0..Capacity |-> i + 1]
    /\ pc = [t \in Threads |-> "idle"]
    /\ old = [t \in Threads |-> NewHead]
    /\ index = [t \in Threads |-> 0] /\ nxt = [t \in Threads |-> 0]
    /\ acquired = {} /\ leaked = {}
    /\ free = [i \in 1..Capacity |-> i - 1]
    /\ win = [t \in Threads |-> 0]

------------------------------------------------------------------------------
wrapping_add_forgotten(aba) == aba

wrapping_add(aba) == (aba + 1) % AbaModulus

(* Between the load of head and the compare_exchange on it.                     *)
Window == {"read_next", "acquire_cas", "write_next", "release_cas"}

(* A thread between two operations; the last one may have failed.               *)
Ready == {"idle", "OutOfIndices", "IsLocked"}

(* The bound under which the tag detects every change of head.                  *)
WindowsStayOpen(t) ==
    \A u \in Threads \ {t} : pc[u] \in Window => win[u] < AbaModulus - 1

(* A successful exchange is noticed by every other thread in its window.        *)
Exchange(t, value) ==
    /\ WindowsStayOpen(t)
    /\ head = old[t]
    /\ head' = value
    /\ win' = [u \in Threads |-> IF u # t /\ pc[u] \in Window THEN win[u] + 1 ELSE 0]

(* The value of head a thread works on, from a load or a failed exchange.       *)
Load(t) ==
    /\ old' = [old EXCEPT ![t] = head]
    /\ win' = [win EXCEPT ![t] = 0]

(* A call returned, or will never return: its local variables are gone.         *)
Forget(t) ==
    /\ old' = [old EXCEPT ![t] = NewHead]
    /\ index' = [index EXCEPT ![t] = 0] /\ nxt' = [nxt EXCEPT ![t] = 0]

------------------------------------------------------------------------------
(* acquire_raw_index()                                                          *)

Examine_without_lock(value) ==
    IF value.head >= Capacity THEN "OutOfIndices" ELSE "read_next"

(* The head of the loop: no index left, no index to be given out any more, or   *)
(* an index to try.                                                             *)
Examine(value) ==
    IF value.head >= Capacity THEN "OutOfIndices"
    ELSE IF value.borrowed_indices = LOCK_ACQUIRE THEN "IsLocked" ELSE "read_next"

AcquireLoad(t) ==
    /\ pc[t] \in Ready
    /\ Load(t)
    /\ pc' = [pc EXCEPT ![t] = Examine(head)]
    /\ UNCHANGED <<head, next, index, nxt, acquired, leaked, free>>

AcquireReadNext(t) ==
    /\ pc[t] = "read_next"
    /\ nxt' = [nxt EXCEPT ![t] = next[old[t].head]]
    /\ pc' = [pc EXCEPT ![t] = "acquire_cas"]
    /\ UNCHANGED <<head, next, old, index, acquired, leaked, free, win>>

AcquireExchange(t) ==
    /\ pc[t] = "acquire_cas"
    /\ Exchange(t, [head |-> nxt[t], aba |-> wrapping_add(old[t].aba),
                    borrowed_indices |-> old[t].borrowed_indices + 1])
    /\ free' = Tail(free)
    /\ index' = [index EXCEPT ![t] = old[t].head]
    /\ old' = [old EXCEPT ![t] = NewHead] /\ nxt' = [nxt EXCEPT ![t] = 0]
    /\ pc' = [pc EXCEPT ![t] = "mark"]
    /\ UNCHANGED <<next, acquired, leaked>>

AcquireExchangeFailed(t) ==
    /\ pc[t] = "acquire_cas" /\ head # old[t]
    /\ Load(t)
    /\ nxt' = [nxt EXCEPT ![t] = 0]
    /\ pc' = [pc EXCEPT ![t] = Examine(head)]
    /\ UNCHANGED <<head, next, index, acquired, leaked, free>>

AcquireMark(t) ==
    /\ pc[t] = "mark"
    /\ next' = [next EXCEPT ![index[t]] = Capacity + 1]
    /\ acquired' = acquired \cup {index[t]}
    /\ pc' = [pc EXCEPT ![t] = "idle"]
    /\ Forget(t)
    /\ UNCHANGED <<head, leaked, free, win>>

------------------------------------------------------------------------------
(* release_raw_index(index, mode) of an acquired index, at most once            *)

ReleaseLoad(t, i) ==
    /\ pc[t] \in Ready /\ i \in acquired
    /\ Load(t)
    /\ index' = [index EXCEPT ![t] = i]
    /\ acquired' = acquired \ {i}
    /\ pc' = [pc EXCEPT ![t] = "write_next"]
    /\ UNCHANGED <<head, next, nxt, leaked, free>>

ReleaseWriteNext(t) ==
    /\ pc[t] = "write_next"
    /\ next' = [next EXCEPT ![index[t]] = old[t].head]
    /\ pc' = [pc EXCEPT ![t] = "release_cas"]
    /\ UNCHANGED <<head, old, index, nxt, acquired, leaked, free, win>>

ReleaseExchange_locks_one_early(t, mode) ==
    /\ pc[t] = "release_cas"
    /\ Exchange(t, [head |-> index[t], aba |-> wrapping_add(old[t].aba),
                    borrowed_indices |->
                       IF mode = "LockIfLastIndex" /\ old[t].borrowed_indices - 1 = 1
                       THEN LOCK_ACQUIRE ELSE old[t].borrowed_indices - 1])
    /\ free' = <<index[t]>> \o free
    /\ pc' = [pc EXCEPT ![t] = "idle"]
    /\ Forget(t)
    /\ UNCHANGED <<next, acquired, leaked>>

ReleaseExchange(t, mode) ==
    /\ pc[t] = "release_cas"
    /\ Exchange(t, [head |-> index[t], aba |-> wrapping_add(old[t].aba),
                    borrowed_indices |->
                       IF mode = "LockIfLastIndex" /\ old[t].borrowed_indices = 1
                       THEN LOCK_ACQUIRE ELSE old[t].borrowed_indices - 1])
    /\ free' = <<index[t]>> \o free
    /\ pc' = [pc EXCEPT ![t] = "idle"]
    /\ Forget(t)
    /\ UNCHANGED <<next, acquired, leaked>>

ReleaseExchangeFailed_keeps_old_head(t) ==
    /\ pc[t] = "release_cas" /\ head # old[t]
    /\ pc' = [pc EXCEPT ![t] = "write_next"]
    /\ UNCHANGED <<head, next, old, index, nxt, acquired, leaked, free, win>>

ReleaseExchangeFailed(t) ==
    /\ pc[t] = "release_cas" /\ head # old[t]
    /\ Load(t)
    /\ pc' = [pc EXCEPT ![t] = "write_next"]
    /\ UNCHANGED <<head, next, index, nxt, acquired, leaked, free>>

------------------------------------------------------------------------------
(* The index a thread has taken out of the list or not yet put back.            *)
InFlight(t) == IF pc[t] \in {"mark", "write_next", "release_cas"} THEN {index[t]} ELSE {}

(* The process of the thread dies; the index it works on is lost.               *)
Die(t) ==
    /\ pc[t] # "dead"
    /\ leaked' = leaked \cup InFlight(t)
    /\ pc' = [pc EXCEPT ![t] = "dead"]
    /\ Forget(t)
    /\ UNCHANGED <<head, next, acquired, free, win>>

Step(t) ==
    \/ AcquireReadNext(t) \/ AcquireExchange(t) \/ AcquireExchangeFailed(t) \/ AcquireMark(t)
    \/ ReleaseWriteNext(t) \/ ReleaseExchangeFailed(t)
    \/ \E mode \in {"Default", "LockIfLastIndex"} : ReleaseExchange(t, mode)

Next == \E t \in Threads :
    \/ AcquireLoad(t)
    \/ \E i \in Indices : ReleaseLoad(t, i)
    \/ Step(t)
    \/ Die(t)

Spec == Init /\ [][Next]_vars

(* A thread that is inside an operation is eventually scheduled again.          *)
FairSpec == Spec /\ \A t \in Threads : WF_vars(Step(t))

------------------------------------------------------------------------------
(* Properties                                                                   *)

HeadDetails == [head: 0..Capacity, aba: 0..(AbaModulus - 1),
                borrowed_indices: (0..Capacity) \cup {LOCK_ACQUIRE}]

TypeOK ==
    /\ head \in HeadDetails
    /\ next \in [0..Capacity -> 0..(Capacity + 1)]
    /\ pc \in [Threads -> Ready \cup Window \cup {"mark", "dead"}]
    /\ old \in [Threads -> HeadDetails]
    /\ index \in [Threads -> Indices]
    /\ nxt \in [Threads -> 0..(Capacity + 1)]
    /\ acquired \subseteq Indices /\ leaked \subseteq Indices
    /\ free \in Seq(Indices)
    /\ win \in [Threads -> 0..(AbaModulus - 1)]

Free == {free[i] : i \in 1..Len(free)}

(* The list reachable from head through next is the list of the free indices,   *)
(* whatever acquire and release read before somebody else changed it, and       *)
(* borrowed_indices() counts the others; the set is locked only when all of     *)
(* them came back.                                                              *)
FreeListIntact ==
    /\ TypeOK
    /\ head.head = IF free = <<>> THEN Capacity ELSE free[1]
    /\ \A i \in 1..Len(free) : next[free[i]] = IF i = Len(free) THEN Capacity ELSE free[i + 1]
    /\ \A i, j \in 1..Len(free) : free[i] = free[j] => i = j
    /\ \/ head.borrowed_indices = Capacity - Len(free)
       \/ head.borrowed_indices = LOCK_ACQUIRE /\ Len(free) = Capacity

(* Every index has one place: free, with one user, on its way in or out with    *)
(* one thread, or lost with a dead thread.  No index is handed out twice.       *)
UniqueOwner ==
    /\ Free \cap acquired = {} /\ Free \cap leaked = {} /\ acquired \cap leaked = {}
    /\ \A t \in Threads : InFlight(t) \cap (Free \cup acquired \cup leaked) = {}
    /\ \A t, u \in Threads : t # u => InFlight(t) \cap InFlight(u) = {}

(* acquire_raw_index() refuses for a reason that holds at that moment: with     *)
(* OutOfIndices only when no index is free.  Once a release returned Locked no  *)
(* index is handed out any more, although acquire_raw_index() may have examined *)
(* the set before.                                                              *)
RefusalsJustified ==
    [][/\ \A t \in Threads : pc[t] # "OutOfIndices" /\ pc'[t] = "OutOfIndices" => free = <<>>
       /\ head.borrowed_indices = LOCK_ACQUIRE => head' = head /\ acquired' = {}]_vars

(* The set is lock-free: as long as a thread is kept in its loop, operations of *)
(* others complete.  Threads that died in the middle do not block anybody.      *)
LockFree ==
    \A t \in Threads :
        <>[](pc[t] \notin Ready \cup {"dead"})
        => []<><<\E u \in Threads : pc[u] \notin Ready /\ pc'[u] \in Ready>>_vars

==============================================================================
