--------------------------- MODULE ZeroCopyConnection ---------------------------
(* One channel of a zero copy connection                                        *)
(* (iceoryx2-cal/src/zero_copy_connection/common.rs): offsets of chunks travel  *)
(* through the submission queue to the receiver and come back through the       *)
(* completion queue; the used chunk list records which ones are on the way.     *)
(*                                                                              *)
(* Both queues are used through what they promise: the submission queue is the  *)
(* OverflowingFifo, the completion queue the BoundedFifo, whose producer, here  *)
(* the receiver, may have a stale read position.  The sender port reclaims      *)
(* until nothing is left before it sends (Sender::deliver_offset and            *)
(* Publisher's deliver_sample_history).                                         *)
(*                                                                              *)
(* A definition named <definition>_<fault> is a faulty variant of the one that  *)
(* follows it; it shows which property notices the fault.                       *)
EXTENDS Naturals, Sequences

CONSTANTS BufferSize,    \* capacity of the submission queue
          MaxBorrowed,   \* samples the receiver may hold
          Chunks,        \* offsets of the data segment
          MaxSend        \* bound: number of samples sent

ASSUME SizeAssumption == BufferSize \in Nat \ {0} /\ MaxBorrowed \in Nat \ {0}
ASSUME MaxSendAssumption == MaxSend \in Nat

VARIABLES
    enable_safe_overflow,   \* a full buffer gives back its oldest sample
    submission,       \* offsets on their way to the receiver, each with the
                      \* completion read position at the time it was sent
    overfull,         \* the last push found the submission queue full
    completion,       \* offsets on their way back
    read_position,    \* of the completion queue: number of offsets reclaimed
    used_chunk_list,
    s_pc,             \* sender: "reclaim", "send" (try_send), "blocked"
                      \* (blocking_send), "pushed", "removed"
    sent,             \* number of samples sent
    receiver_alive,   \* the receiver is neither dropped nor dead
    held,             \* offsets the receiver has borrowed
    borrow_counter,
    seen,             \* receiver: completion read position it knows of
    corrupted,        \* an offset came back that was not in the used chunk list
    lost              \* offsets the receiver could not return

vars == <<enable_safe_overflow, submission, overfull, completion, read_position,
          used_chunk_list, s_pc, sent, receiver_alive, held, borrow_counter, seen, corrupted, lost>>
sender == <<enable_safe_overflow, read_position, used_chunk_list, s_pc, sent, corrupted>>
receiver == <<enable_safe_overflow, receiver_alive, held, borrow_counter, seen, lost>>

submission_queue_size == BufferSize
completion_queue_size_without_spare == BufferSize + MaxBorrowed
completion_queue_size == BufferSize + MaxBorrowed + 1

Init ==
    /\ enable_safe_overflow \in BOOLEAN /\ receiver_alive = TRUE
    /\ submission = <<>> /\ overfull = FALSE /\ completion = <<>> /\ read_position = 0
    /\ used_chunk_list = {} /\ s_pc = "reclaim" /\ sent = 0
    /\ held = {} /\ borrow_counter = 0 /\ seen = 0
    /\ corrupted = FALSE /\ lost = {}

Sending == {"send", "blocked"}

(* An offset is returned to the sender: UsedChunkList::remove.                  *)
Return(c) ==
    /\ used_chunk_list' = used_chunk_list \ {c}
    /\ corrupted' = (corrupted \/ c \notin used_chunk_list)

------------------------------------------------------------------------------
(* The sender                                                                   *)

(* reclaim(): one offset from the completion queue                              *)
Reclaim ==
    /\ s_pc = "reclaim" /\ completion # <<>>
    /\ completion' = Tail(completion)
    /\ read_position' = read_position + 1
    /\ Return(Head(completion))
    /\ UNCHANGED <<submission, overfull, s_pc, sent, receiver>>

ReclaimNone_leaves_offsets ==
    /\ s_pc = "reclaim" /\ sent < MaxSend
    /\ \E call \in Sending : s_pc' = call
    /\ UNCHANGED <<submission, overfull, completion, read_position, used_chunk_list, sent,
                   receiver, corrupted>>

(* reclaim() returns None, a sample is sent next, with try_send() or with       *)
(* blocking_send().                                                             *)
ReclaimNone ==
    /\ s_pc = "reclaim" /\ completion = <<>> /\ sent < MaxSend
    /\ \E call \in Sending : s_pc' = call
    /\ UNCHANGED <<submission, overfull, completion, read_position, used_chunk_list, sent,
                   receiver, corrupted>>

TrySend_without_insert(c) ==
    /\ s_pc \in Sending /\ c \notin used_chunk_list
    /\ enable_safe_overflow \/ Len(submission) < submission_queue_size
    /\ submission' = Append(submission, [chunk |-> c, seen |-> read_position])
    /\ overfull' = (Len(submission) = submission_queue_size)
    /\ sent' = sent + 1
    /\ s_pc' = "pushed"
    /\ UNCHANGED <<completion, read_position, used_chunk_list, receiver, corrupted>>

TrySend_always_waits(c) ==
    /\ s_pc \in Sending /\ c \notin used_chunk_list
    /\ \/ enable_safe_overflow /\ s_pc = "send"
       \/ Len(submission) < submission_queue_size
    /\ used_chunk_list' = used_chunk_list \cup {c}
    /\ submission' = Append(submission, [chunk |-> c, seen |-> read_position])
    /\ overfull' = (Len(submission) = submission_queue_size)
    /\ sent' = sent + 1
    /\ s_pc' = "pushed"
    /\ UNCHANGED <<completion, read_position, receiver, corrupted>>

(* try_send(c) until the offset is in the submission queue; blocking_send(c)    *)
(* waits for room first, unless safe overflow is enabled.  c is not on its way  *)
(* already.  The receiver that takes the offset knows what was reclaimed before.*)
TrySend(c) ==
    /\ s_pc \in Sending /\ c \notin used_chunk_list
    /\ enable_safe_overflow \/ Len(submission) < submission_queue_size
    /\ used_chunk_list' = used_chunk_list \cup {c}
    /\ submission' = Append(submission, [chunk |-> c, seen |-> read_position])
    /\ overfull' = (Len(submission) = submission_queue_size)
    /\ sent' = sent + 1
    /\ s_pc' = "pushed"
    /\ UNCHANGED <<completion, read_position, receiver, corrupted>>

(* The queue looks full: the sender may not know yet of samples that were taken *)
(* out and not reclaimed.                                                       *)
TrySendReceiveBufferFull ==
    /\ s_pc = "send" /\ ~ enable_safe_overflow
    /\ Len(submission) + borrow_counter + Len(completion) >= submission_queue_size
    /\ s_pc' = "reclaim"
    /\ UNCHANGED <<submission, overfull, completion, read_position, used_chunk_list, sent,
                   receiver, corrupted>>

TrySendReturn_keeps_evicted ==
    /\ s_pc = "pushed"
    /\ submission' = IF overfull THEN Tail(submission) ELSE submission
    /\ overfull' = FALSE
    /\ s_pc' = "reclaim"
    /\ UNCHANGED <<completion, read_position, used_chunk_list, sent, corrupted, receiver>>

(* try_send() returns; the oldest offset comes back unless the receiver was     *)
(* faster                                                                       *)
TrySendReturn ==
    /\ s_pc = "pushed"
    /\ IF overfull
       THEN /\ Return(Head(submission).chunk)
            /\ submission' = Tail(submission)
       ELSE UNCHANGED <<used_chunk_list, corrupted, submission>>
    /\ overfull' = FALSE
    /\ s_pc' = "reclaim"
    /\ UNCHANGED <<completion, read_position, sent, receiver>>

(* acquire_used_offsets(); the connection is removed and never used again       *)
AcquireUsedOffsets ==
    /\ s_pc = "reclaim"
    /\ used_chunk_list' = {}
    /\ s_pc' = "removed"
    /\ UNCHANGED <<submission, overfull, completion, read_position, sent, receiver, corrupted>>

------------------------------------------------------------------------------
(* The receiver                                                                 *)

Receive ==
    /\ receiver_alive /\ submission # <<>> /\ borrow_counter < MaxBorrowed
    /\ borrow_counter' = borrow_counter + 1
    /\ held' = held \cup {Head(submission).chunk}
    /\ submission' = Tail(submission) /\ overfull' = FALSE
    /\ \E rp \in Head(submission).seen .. read_position :
          seen' = IF rp > seen THEN rp ELSE seen
    /\ UNCHANGED <<completion, sender, receiver_alive, lost>>

(* release(c); when the completion queue looks full the sample is neither       *)
(* returned nor forgotten                                                       *)
Release(c) ==
    /\ receiver_alive /\ c \in held
    /\ \E rp \in seen .. read_position :
          /\ seen' = rp
          /\ IF read_position + Len(completion) < rp + completion_queue_size
             THEN /\ completion' = Append(completion, c)
                  /\ borrow_counter' = borrow_counter - 1
                  /\ UNCHANGED lost
             ELSE /\ lost' = lost \cup {c}
                  /\ UNCHANGED <<completion, borrow_counter>>
    /\ held' = held \ {c}
    /\ UNCHANGED <<submission, overfull, sender, receiver_alive>>

(* The receiver is dropped or its process dies; nobody tells the sender.        *)
ReceiverGone ==
    /\ receiver_alive /\ receiver_alive' = FALSE
    /\ UNCHANGED <<submission, overfull, completion, sender, held, borrow_counter, seen, lost>>

------------------------------------------------------------------------------
Next == \/ Reclaim \/ ReclaimNone \/ TrySendReceiveBufferFull \/ TrySendReturn
        \/ AcquireUsedOffsets \/ Receive \/ ReceiverGone
        \/ \E c \in Chunks : TrySend(c) \/ Release(c)

Spec == Init /\ [][Next]_vars

(* The sender finishes what it has begun; a living receiver takes what is there *)
(* and returns what it holds.                                                   *)
ConnectionFairness ==
    /\ WF_vars(\/ Reclaim \/ TrySendReceiveBufferFull \/ TrySendReturn
               \/ \E c \in Chunks : TrySend(c))
    /\ WF_vars(Receive)
    /\ \A c \in Chunks : WF_vars(Release(c))

FairSpec == Spec /\ ConnectionFairness

------------------------------------------------------------------------------
(* Properties                                                                   *)

TypeOK ==
    /\ enable_safe_overflow \in BOOLEAN /\ receiver_alive \in BOOLEAN
    /\ submission \in Seq([chunk: Chunks, seen: Nat]) /\ overfull \in BOOLEAN
    /\ completion \in Seq(Chunks)
    /\ read_position \in Nat /\ used_chunk_list \subseteq Chunks
    /\ s_pc \in {"reclaim", "send", "blocked", "pushed", "removed"} /\ sent \in Nat
    /\ held \subseteq Chunks /\ borrow_counter \in Nat /\ seen \in Nat
    /\ corrupted \in BOOLEAN /\ lost \subseteq Chunks

(* release() never finds the completion queue full, however stale the           *)
(* receiver's view of it: "This should never happen!" in Receiver's             *)
(* release_offset() is justified.                                               *)
AlwaysReturned == lost = {}

(* Neither a returned nor an evicted offset is ever unknown to the sender: an   *)
(* offset is on its way at most once, and comes back exactly once.              *)
NeverCorrupted == ~ corrupted

(* The used chunk list holds exactly the offsets that are in one of the queues  *)
(* or with the receiver, so acquire_used_offsets() recovers every one.          *)
OnTheWay == {submission[k].chunk : k \in 1..Len(submission)}
            \cup {completion[k] : k \in 1..Len(completion)} \cup held

UsedExact == s_pc # "removed" => used_chunk_list = OnTheWay

(* The number of offsets in circulation stays within what the data segment is   *)
(* sized for: once the returned ones are reclaimed, BufferSize + MaxBorrowed.   *)
(* The buffer overflows only with safe overflow, and only until the push ends.  *)
CirculationBounded ==
    /\ borrow_counter <= MaxBorrowed
    /\ Len(submission) <= submission_queue_size + IF overfull THEN 1 ELSE 0
    /\ overfull => enable_safe_overflow
    /\ s_pc \in Sending => Len(submission) + borrow_counter + Len(completion)
                              <= BufferSize + MaxBorrowed

(* try_send() and blocking_send() return, unless blocking_send() waits for room *)
(* in the buffer of a receiver that was dropped or died: then it waits for ever.*)
SendReturns ==
    s_pc \in Sending \cup {"pushed"} ~>
        \/ s_pc = "reclaim"
        \/ s_pc = "blocked" /\ ~ enable_safe_overflow /\ ~ receiver_alive

==============================================================================
