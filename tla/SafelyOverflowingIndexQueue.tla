------------------------ MODULE SafelyOverflowingIndexQueue ------------------------
(* The single-producer single-consumer queue of indices behind every            *)
(* submission channel                                                           *)
(* (iceoryx2-bb/lock-free/src/spsc/safely_overflowing_index_queue.rs).          *)
(* A push into a full queue recycles the oldest index: the producer then        *)
(* competes with the consumer for read_position.                                *)
(*                                                                              *)
(* One action is one access to a shared location.  A load, Relaxed or Acquire,  *)
(* and the load of a failed exchange may return any value that is not older     *)
(* than the last one the same thread observed.  A slot is a plain u64: it holds *)
(* Torn while it is being written.                                              *)
(*                                                                              *)
(* A definition named <definition>_<fault> is a faulty variant of the one that  *)
(* follows it; it shows which property notices the fault.                       *)
EXTENDS Naturals, Sequences

CONSTANTS Capacity,      \* capacity of the queue, at least 1
          MaxPush,       \* bound: number of pushes explored
          Torn           \* content of a slot while it is written

ASSUME CapacityAssumption == Capacity \in Nat \ {0}
ASSUME MaxPushAssumption == MaxPush \in Nat
ASSUME TornAssumption == Torn \notin Nat

VARIABLES
    write_position, read_position,
    data,              \* the Capacity + 1 slots
    p_pc, p_rp,        \* push(): next access, last observed read_position
    c_pc, c_rp, c_wp,  \* pop(): next access, last observed positions
    c_val,             \* pop(): value read from the slot
    popped, evicted    \* history: values returned by pop() and by push()

producerVars == <<p_pc, p_rp>>
consumerVars == <<c_pc, c_rp, c_wp, c_val>>
history      == <<popped, evicted>>
vars == <<write_position, read_position, data, producerVars, consumerVars, history>>

at_without_spare_slot(position) == position % Capacity

at(position) == position % (Capacity + 1)

(* The index pushed at a position; 0 is what init() leaves in the slots.        *)
Val(position) == position + 1

Init ==
    /\ write_position = 0 /\ read_position = 0
    /\ data = [s \in 0..Capacity |-> 0]
    /\ p_pc = "idle" /\ p_rp = 0
    /\ c_pc = "idle" /\ c_rp = 0 /\ c_wp = 0 /\ c_val = 0
    /\ popped = <<>> /\ evicted = <<>>

------------------------------------------------------------------------------
(* push()                                                                       *)

(* write_position is only written by the producer: loading it is not a step.    *)
PushLoadReadPosition ==
    /\ p_pc \in {"idle", "not_full"} /\ write_position < MaxPush
    /\ \E rp \in p_rp..read_position : p_rp' = rp
    /\ p_pc' = "write"
    /\ UNCHANGED <<write_position, read_position, data, consumerVars, history>>

PushBeginWrite ==
    /\ p_pc = "write"
    /\ data' = [data EXCEPT ![at(write_position)] = Torn]
    /\ p_pc' = "writing"
    /\ UNCHANGED <<write_position, read_position, p_rp, consumerVars, history>>

PushEndWrite ==
    /\ p_pc = "writing"
    /\ data' = [data EXCEPT ![at(write_position)] = Val(write_position)]
    /\ p_pc' = "publish"
    /\ UNCHANGED <<write_position, read_position, p_rp, consumerVars, history>>

(* is_full was computed from the two loaded positions.                          *)
PushPublish ==
    /\ p_pc = "publish"
    /\ write_position' = write_position + 1
    /\ p_pc' = IF write_position = p_rp + Capacity THEN "evict" ELSE "idle"
    /\ UNCHANGED <<read_position, data, p_rp, consumerVars, history>>

PushEvict ==
    /\ p_pc = "evict" /\ read_position = p_rp
    /\ read_position' = read_position + 1
    /\ p_pc' = "read_old"
    /\ UNCHANGED <<write_position, data, p_rp, consumerVars, history>>

PushEvictFailed_ignored ==
    /\ p_pc = "evict" /\ read_position # p_rp
    /\ p_pc' = "read_old"
    /\ UNCHANGED <<write_position, read_position, data, p_rp, consumerVars, history>>

(* The exchange failed: the consumer was faster, nothing has to be recycled.    *)
PushEvictFailed ==
    /\ p_pc = "evict" /\ read_position # p_rp
    /\ p_rp' = p_rp + 1
    /\ p_pc' = "idle"
    /\ UNCHANGED <<write_position, read_position, data, consumerVars, history>>

PushReadOld ==
    /\ p_pc = "read_old"
    /\ evicted' = Append(evicted, data[at(p_rp)])
    /\ p_rp' = p_rp + 1
    /\ p_pc' = "idle"
    /\ UNCHANGED <<write_position, read_position, data, consumerVars, popped>>

------------------------------------------------------------------------------
(* pop()                                                                        *)

PopLoadReadPosition ==
    /\ c_pc \in {"idle", "has_data"}
    /\ \E rp \in c_rp..read_position : c_rp' = rp
    /\ c_pc' = "load_write"
    /\ UNCHANGED <<write_position, read_position, data, producerVars, c_wp, c_val, history>>

(* The read_position of a recycling push was loaded Relaxed, so its publication *)
(* need not be visible: the value may be as old as the last one seen, and even  *)
(* below c_rp.                                                                  *)
PopLoadWritePosition ==
    /\ c_pc = "load_write"
    /\ \E wp \in c_wp..write_position :
          /\ c_wp' = wp
          /\ c_pc' = IF c_rp = wp THEN "idle" ELSE "read"
    /\ UNCHANGED <<write_position, read_position, data, producerVars, c_rp, c_val, history>>

(* With c_wp below c_rp nothing orders this read after the write of the slot.   *)
(* The read depends on the loaded read_position, which was stored after the     *)
(* slot, so the machine returns the content of the slot all the same.           *)
PopReadSlot ==
    /\ c_pc = "read"
    /\ c_val' = data[at(c_rp)]
    /\ c_pc' = "cas"
    /\ UNCHANGED <<write_position, read_position, data, producerVars, c_rp, c_wp, history>>

PopExchange_plain_store ==
    /\ c_pc = "cas"
    /\ read_position' = c_rp + 1
    /\ c_rp' = c_rp + 1
    /\ popped' = Append(popped, c_val)
    /\ c_val' = 0
    /\ c_pc' = "idle"
    /\ UNCHANGED <<write_position, data, producerVars, c_wp, evicted>>

(* A c_rp above c_wp was stored by a recycling push that had published c_rp +   *)
(* Capacity indices.  The exchange that reads it is compiled with the stronger  *)
(* of its two orderings, Acquire, which makes that publication visible.         *)
PopExchange ==
    /\ c_pc = "cas" /\ read_position = c_rp
    /\ read_position' = read_position + 1
    /\ c_rp' = c_rp + 1
    /\ c_wp' = IF c_wp < c_rp THEN c_rp + Capacity ELSE c_wp
    /\ popped' = Append(popped, c_val)
    /\ c_val' = 0
    /\ c_pc' = "idle"
    /\ UNCHANGED <<write_position, data, producerVars, evicted>>

(* The retry does not look at write_position again.  The Acquire load of the    *)
(* value the recycling push stored makes its publication visible.               *)
PopExchangeFailed ==
    /\ c_pc = "cas" /\ read_position # c_rp
    /\ \E rp \in (c_rp + 1)..read_position :
          /\ c_rp' = rp
          /\ c_wp' = IF c_wp < rp + Capacity THEN rp + Capacity ELSE c_wp
    /\ c_val' = 0
    /\ c_pc' = "read"
    /\ UNCHANGED <<write_position, read_position, data, producerVars, history>>

------------------------------------------------------------------------------
(* is_full() and is_empty(), asked by the threads that push and pop.  The loop  *)
(* in acquire_read_and_write_position() ends with two equal Relaxed reads of    *)
(* either position: any pair of values not older than those already observed.   *)

IsFull_ignores_last_slot ==
    /\ p_pc \in {"idle", "not_full"}
    /\ \E rp \in p_rp..read_position :
          /\ p_rp' = rp
          /\ p_pc' = IF write_position = rp + Capacity + 1 THEN "idle" ELSE "not_full"
    /\ UNCHANGED <<write_position, read_position, data, consumerVars, history>>

IsFull ==
    /\ p_pc \in {"idle", "not_full"}
    /\ \E rp \in p_rp..read_position :
          /\ p_rp' = rp
          /\ p_pc' = IF write_position = rp + Capacity THEN "idle" ELSE "not_full"
    /\ UNCHANGED <<write_position, read_position, data, consumerVars, history>>

IsEmpty ==
    /\ c_pc \in {"idle", "has_data"}
    /\ \E rp \in c_rp..read_position, wp \in c_wp..write_position :
          /\ c_rp' = rp /\ c_wp' = wp
          /\ c_pc' = IF wp = rp THEN "idle" ELSE "has_data"
    /\ UNCHANGED <<write_position, read_position, data, producerVars, c_val, history>>

------------------------------------------------------------------------------
Push == \/ PushLoadReadPosition \/ PushBeginWrite \/ PushEndWrite \/ PushPublish
        \/ PushEvict \/ PushEvictFailed \/ PushReadOld

Pop == \/ PopLoadReadPosition \/ PopLoadWritePosition \/ PopReadSlot
       \/ PopExchange \/ PopExchangeFailed

Next == Push \/ Pop \/ IsFull \/ IsEmpty

Spec == Init /\ [][Next]_vars

------------------------------------------------------------------------------
(* Properties                                                                   *)

TypeOK ==
    /\ write_position \in Nat /\ read_position \in Nat
    /\ data \in [0..Capacity -> Nat \cup {Torn}]
    /\ p_pc \in {"idle", "not_full", "write", "writing", "publish", "evict", "read_old"}
    /\ p_rp \in Nat
    /\ c_pc \in {"idle", "has_data", "load_write", "read", "cas"}
    /\ c_rp \in Nat /\ c_wp \in Nat /\ c_val \in Nat \cup {Torn}
    /\ popped \in Seq(Nat) /\ evicted \in Seq(Nat)

(* pop() never runs past push() although a retry after a lost exchange does not *)
(* check for an empty queue again, and the queue exceeds its capacity, by one,  *)
(* only between the publication of a value and the recycling of the oldest one. *)
PositionsBounded ==
    /\ read_position <= write_position
    /\ write_position <= read_position + Capacity + (IF p_pc = "evict" THEN 1 ELSE 0)

(* push() never overwrites a slot whose value was neither popped nor recycled,  *)
(* even when it decided on a stale read_position.                               *)
UnreadSlotsIntact ==
    \A p \in read_position..(write_position - 1) : data[at(p)] = Val(p)

(* The values push() still has to hand back: the exchange succeeded, the slot   *)
(* is not read yet.                                                             *)
PendingEviction == IF p_pc = "read_old" THEN {p_rp} ELSE {}

Increasing(s) == \A i, j \in 1..Len(s) : i < j => s[i] < s[j]

Returned(s, p) == \E i \in 1..Len(s) : s[i] = Val(p)

(* Every index that left the queue was returned exactly once, either by pop()   *)
(* or as a recycled index by push(), uncorrupted, and each side sees them in    *)
(* the order in which they were pushed.                                         *)
ReturnedExactlyOnce ==
    /\ Increasing(popped) /\ Increasing(evicted)
    /\ \A i \in 1..Len(popped) : popped[i] \in 1..read_position
    /\ \A i \in 1..Len(evicted) : evicted[i] \in 1..read_position
    /\ \A p \in 0..(read_position - 1) :
          IF p \in PendingEviction
          THEN ~ Returned(popped, p) /\ ~ Returned(evicted, p)
          ELSE Returned(popped, p) <=> ~ Returned(evicted, p)

(* After is_full() answered false the next push recycles nothing, although the  *)
(* read_position it compared may be stale: a full queue is never missed.        *)
NotFullLeavesRoom ==
    p_pc = "not_full" => write_position < read_position + Capacity

(* After is_empty() answered false the queue is not empty, and a pop() that has *)
(* passed its own check has an index to return until its exchange succeeds:     *)
(* both positions may be stale, the producer may recycle meanwhile, and a       *)
(* failed exchange is retried without a look at write_position.                 *)
HasDataNotEmpty ==
    c_pc \in {"has_data", "read", "cas"} => read_position < write_position

(* The negative answers of is_full() and is_empty(), and the check for an empty *)
(* queue in pop(), hold although they compare stale positions.  The positive    *)
(* ones do not: pop() may return None for a queue that is not empty.            *)
AnswersReliable == NotFullLeavesRoom /\ HasDataNotEmpty

------------------------------------------------------------------------------
(* Refinement: the queue is an overflowing FIFO.  A value enters it with the    *)
(* publication and leaves it with the successful exchange of read_position.     *)

Fifo == INSTANCE OverflowingFifo WITH
    queue <- [i \in 1..(write_position - read_position) |-> data[at(read_position + i - 1)]],
    pushed <- write_position,
    overfull <- p_pc = "evict" /\ read_position = p_rp,
    taken <- popped,
    recycled <- IF p_pc = "read_old" THEN Append(evicted, data[at(p_rp)]) ELSE evicted

(* push() and pop() together implement the overflowing FIFO.                    *)
ImplementsFifo == Fifo!Spec

==============================================================================
