------------------------------- MODULE IndexQueue -------------------------------
(* The bounded single-producer single-consumer queue of indices behind every    *)
(* completion channel (iceoryx2-bb/lock-free/src/spsc/index_queue.rs).          *)
(*                                                                              *)
(* One action is one access to a shared location.  A load, Relaxed or Acquire,  *)
(* of a location that the other side writes may return any value not older than *)
(* the last one observed; a slot is Torn while it is written.  The right to     *)
(* push and the right to pop are handed from thread to thread through           *)
(* has_producer and has_consumer, both accessed Relaxed.  HandoffSynchronizes   *)
(* says whether something else orders the old holder before the new one: it     *)
(* always does when both are the same thread.                                   *)
(*                                                                              *)
(* A definition named <definition>_<fault> is a faulty variant of the one that  *)
(* follows it; it shows which property notices the fault.                       *)
EXTENDS Naturals, Sequences

CONSTANTS Capacity,             \* capacity of the queue, at least 1
          MaxPush,              \* bound: number of pushes explored
          Torn,                 \* content of a slot while it is written
          HandoffSynchronizes   \* a new holder sees what the last one did

ASSUME CapacityAssumption == Capacity \in Nat \ {0}
ASSUME MaxPushAssumption == MaxPush \in Nat
ASSUME TornAssumption == Torn \notin Nat
ASSUME HandoffAssumption == HandoffSynchronizes \in BOOLEAN

VARIABLES
    write_position, read_position,
    data,                     \* the Capacity slots
    p_pc, p_wp, p_rp,         \* producer: next access, last observed positions
    c_pc, c_wp, c_rp, c_val,  \* consumer: next access, last observed positions, value
    popped                    \* history: values returned by pop()

producerVars == <<p_pc, p_wp, p_rp>>
consumerVars == <<c_pc, c_wp, c_rp, c_val>>
vars == <<write_position, read_position, data, producerVars, consumerVars, popped>>

at(position) == position % Capacity

(* The index pushed at a position; 0 is what init() leaves in the slots.        *)
Val(position) == position + 1

(* "none": the Producer (Consumer) is available, has_producer is true.          *)
Init ==
    /\ write_position = 0 /\ read_position = 0
    /\ data = [s \in 0..(Capacity - 1) |-> 0]
    /\ p_pc = "none" /\ p_wp = 0 /\ p_rp = 0
    /\ c_pc = "none" /\ c_wp = 0 /\ c_rp = 0 /\ c_val = 0
    /\ popped = <<>>

------------------------------------------------------------------------------
(* The Producer: acquire_producer(), drop, push() and is_full()                 *)

AcquireProducer ==
    /\ p_pc = "none"
    /\ p_pc' = "idle"
    /\ IF HandoffSynchronizes
       THEN UNCHANGED <<p_wp, p_rp>>
       ELSE p_wp' \in 0..write_position /\ p_rp' \in 0..read_position
    /\ UNCHANGED <<write_position, read_position, data, consumerVars, popped>>

DropProducer ==
    /\ p_pc \in {"idle", "not_full"}
    /\ p_pc' = "none"
    /\ UNCHANGED <<write_position, read_position, data, p_wp, p_rp, consumerVars, popped>>

PushLoadPositions_full_one_late ==
    /\ p_pc \in {"idle", "not_full"} /\ write_position < MaxPush
    /\ \E wp \in p_wp..write_position, rp \in p_rp..read_position :
          /\ p_wp' = wp /\ p_rp' = rp
          /\ p_pc' = IF wp = rp + Capacity + 1 THEN "idle" ELSE "write"
    /\ UNCHANGED <<write_position, read_position, data, consumerVars, popped>>

(* A push into a full queue returns false.                                      *)
PushLoadPositions ==
    /\ p_pc \in {"idle", "not_full"} /\ write_position < MaxPush
    /\ \E wp \in p_wp..write_position, rp \in p_rp..read_position :
          /\ p_wp' = wp /\ p_rp' = rp
          /\ p_pc' = IF wp = rp + Capacity THEN "idle" ELSE "write"
    /\ UNCHANGED <<write_position, read_position, data, consumerVars, popped>>

PushBeginWrite ==
    /\ p_pc = "write"
    /\ data' = [data EXCEPT ![at(p_wp)] = Torn]
    /\ p_pc' = "writing"
    /\ UNCHANGED <<write_position, read_position, p_wp, p_rp, consumerVars, popped>>

PushEndWrite ==
    /\ p_pc = "writing"
    /\ data' = [data EXCEPT ![at(p_wp)] = Val(p_wp)]
    /\ p_pc' = "publish"
    /\ UNCHANGED <<write_position, read_position, p_wp, p_rp, consumerVars, popped>>

PushPublish ==
    /\ p_pc = "publish"
    /\ write_position' = p_wp + 1
    /\ p_wp' = p_wp + 1
    /\ p_pc' = "idle"
    /\ UNCHANGED <<read_position, data, p_rp, consumerVars, popped>>

IsFull_ignores_last_slot ==
    /\ p_pc \in {"idle", "not_full"}
    /\ \E wp \in p_wp..write_position, rp \in p_rp..read_position :
          /\ p_wp' = wp /\ p_rp' = rp
          /\ p_pc' = IF wp = rp + Capacity + 1 THEN "idle" ELSE "not_full"
    /\ UNCHANGED <<write_position, read_position, data, consumerVars, popped>>

IsFull ==
    /\ p_pc \in {"idle", "not_full"}
    /\ \E wp \in p_wp..write_position, rp \in p_rp..read_position :
          /\ p_wp' = wp /\ p_rp' = rp
          /\ p_pc' = IF wp = rp + Capacity THEN "idle" ELSE "not_full"
    /\ UNCHANGED <<write_position, read_position, data, consumerVars, popped>>

------------------------------------------------------------------------------
(* The Consumer: acquire_consumer(), drop, pop() and is_empty()                 *)

AcquireConsumer ==
    /\ c_pc = "none"
    /\ c_pc' = "idle"
    /\ IF HandoffSynchronizes
       THEN UNCHANGED <<c_wp, c_rp>>
       ELSE c_wp' \in 0..write_position /\ c_rp' \in 0..read_position
    /\ UNCHANGED <<write_position, read_position, data, producerVars, c_val, popped>>

DropConsumer ==
    /\ c_pc \in {"idle", "has_data"}
    /\ c_pc' = "none"
    /\ UNCHANGED <<write_position, read_position, data, producerVars, c_wp, c_rp, c_val, popped>>

(* pop() returns None from a queue that looks empty.                            *)
PopLoadPositions ==
    /\ c_pc \in {"idle", "has_data"}
    /\ \E rp \in c_rp..read_position, wp \in c_wp..write_position :
          /\ c_rp' = rp /\ c_wp' = wp
          /\ c_pc' = IF rp = wp THEN "idle" ELSE "read"
    /\ UNCHANGED <<write_position, read_position, data, producerVars, c_val, popped>>

PopReadSlot ==
    /\ c_pc = "read"
    /\ c_val' = data[at(c_rp)]
    /\ c_pc' = "store"
    /\ UNCHANGED <<write_position, read_position, data, producerVars, c_wp, c_rp, popped>>

PopStore_skips_one ==
    /\ c_pc = "store"
    /\ read_position' = c_rp + 2
    /\ c_rp' = c_rp + 2
    /\ popped' = Append(popped, c_val)
    /\ c_val' = 0
    /\ c_pc' = "idle"
    /\ UNCHANGED <<write_position, data, producerVars, c_wp>>

PopStore ==
    /\ c_pc = "store"
    /\ read_position' = c_rp + 1
    /\ c_rp' = c_rp + 1
    /\ popped' = Append(popped, c_val)
    /\ c_val' = 0
    /\ c_pc' = "idle"
    /\ UNCHANGED <<write_position, data, producerVars, c_wp>>

IsEmpty ==
    /\ c_pc \in {"idle", "has_data"}
    /\ \E rp \in c_rp..read_position, wp \in c_wp..write_position :
          /\ c_rp' = rp /\ c_wp' = wp
          /\ c_pc' = IF wp = rp THEN "idle" ELSE "has_data"
    /\ UNCHANGED <<write_position, read_position, data, producerVars, c_val, popped>>

------------------------------------------------------------------------------
Producer == \/ AcquireProducer \/ DropProducer \/ IsFull
            \/ PushLoadPositions \/ PushBeginWrite \/ PushEndWrite \/ PushPublish

Consumer == \/ AcquireConsumer \/ DropConsumer \/ IsEmpty
            \/ PopLoadPositions \/ PopReadSlot \/ PopStore

Next == Producer \/ Consumer

Spec == Init /\ [][Next]_vars

------------------------------------------------------------------------------
(* Properties                                                                   *)

TypeOK ==
    /\ write_position \in Nat /\ read_position \in Nat
    /\ data \in [0..(Capacity - 1) -> Nat \cup {Torn}]
    /\ p_pc \in {"none", "idle", "not_full", "write", "writing", "publish"}
    /\ p_wp \in Nat /\ p_rp \in Nat
    /\ c_pc \in {"none", "idle", "has_data", "read", "store"}
    /\ c_wp \in Nat /\ c_rp \in Nat /\ c_val \in Nat \cup {Torn}
    /\ popped \in Seq(Nat)

(* push() never overwrites a slot whose value was not popped yet, even when it  *)
(* decided on a stale read_position.                                            *)
UnreadSlotsIntact ==
    \A p \in read_position..(write_position - 1) : data[at(p)] = Val(p)

(* pop() returns every accepted value exactly once, uncorrupted and in order,   *)
(* whichever threads took turns in pushing and popping.                         *)
DeliveredInOrder ==
    /\ read_position <= write_position /\ write_position <= read_position + Capacity
    /\ Len(popped) = read_position
    /\ \A i \in 1..Len(popped) : popped[i] = Val(i - 1)

(* After is_full() answered false the next push() is accepted, after is_empty() *)
(* answered false the next pop() returns a value, although all of them compare  *)
(* a stale position of the other side: no position that push() or pop() may     *)
(* still load makes the queue look full or empty.                               *)
AnswersReliable ==
    /\ p_pc = "not_full" => write_position < p_rp + Capacity /\ p_rp <= read_position
    /\ c_pc = "has_data" => read_position < c_wp /\ c_wp <= write_position

(* "Acquires the Producer of the IndexQueue. This is threadsafe and lock-free   *)
(* without restrictions" (acquire_producer): the threads that acquire it one    *)
(* after the other never overwrite each other's values.                         *)
HandoffThreadSafe == UnreadSlotsIntact

------------------------------------------------------------------------------
(* Refinement: a value enters the FIFO with its publication and leaves it with  *)
(* the store to read_position.                                                  *)

Fifo == INSTANCE BoundedFifo WITH
    queue <- [i \in 1..(write_position - read_position) |-> data[at(read_position + i - 1)]],
    pushed <- write_position,
    taken <- popped

(* push() and pop() together implement the bounded FIFO.                        *)
ImplementsFifo == Fifo!Spec

==============================================================================
