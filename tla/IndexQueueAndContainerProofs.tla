---------------------- MODULE IndexQueueAndContainerProofs ----------------------
(* Proofs about IndexQueue for every capacity, when a thread that takes over the  *)
(* producer or the consumer sees what its predecessor did, and about Container    *)
(* for every number of slots and of writers.                                      *)
EXTENDS IndexQueue, Container, Integers, TLAPS

(* The values pushed at the positions a, ..., b - 1.                              *)
Window(a, b) == [i \in 1..(b - a) |-> a + i]

(* Sequences with the same elements are equal.                                    *)
LEMMA SameSequence ==
  ASSUME NEW s \in Seq(Nat), NEW t \in Seq(Nat), Len(s) = Len(t),
         \A i \in 1..Len(s) : s[i] = t[i]
  PROVE  s = t
  OBVIOUS

(* A window is a sequence.                                                        *)
LEMMA WindowSeq ==
  ASSUME NEW a \in Nat, NEW b \in Nat, a <= b
  PROVE  Window(a, b) \in Seq(Nat) /\ Len(Window(a, b)) = b - a
  <1>1. b - a \in Nat
    OBVIOUS
  <1>2. Window(a, b) \in [1..(b - a) -> Nat]
    BY DEF Window
  <1> QED
    BY <1>1, <1>2

(* The next push extends it at the end.                                           *)
LEMMA WindowAppend ==
  ASSUME NEW a \in Nat, NEW b \in Nat, a <= b
  PROVE  Append(Window(a, b), b + 1) = Window(a, b + 1)
  <1> DEFINE s == Append(Window(a, b), b + 1)
             t == Window(a, b + 1)
  <1>1. Window(a, b) \in Seq(Nat) /\ Len(Window(a, b)) = b - a
    BY WindowSeq
  <1>2. t \in Seq(Nat) /\ Len(t) = (b + 1) - a
    BY WindowSeq
  <1>3. s \in Seq(Nat) /\ Len(s) = (b + 1) - a
    BY <1>1
  <1>4. \A i \in 1..Len(s) : s[i] = t[i]
    <2> SUFFICES ASSUME NEW i \in 1..((b + 1) - a) PROVE s[i] = t[i]
      BY <1>3
    <2>1. CASE i = (b - a) + 1
      <3>1. s[i] = b + 1
        BY <1>1, <2>1
      <3>2. t[i] = a + i
        BY DEF Window
      <3>3. a + i = b + 1
        BY <2>1
      <3> QED
        BY <3>1, <3>2, <3>3, ZenonT(60)
    <2>2. CASE i \in 1..(b - a)
      BY <1>1, <2>2 DEF Window
    <2>3. i = (b - a) + 1 \/ i \in 1..(b - a)
      OBVIOUS
    <2> QED
      BY <2>1, <2>2, <2>3, ZenonT(60)
  <1> QED
    BY <1>2, <1>3, <1>4, SameSequence, ZenonT(60)

(* What leaves it is the oldest value.                                            *)
LEMMA WindowHead ==
  ASSUME NEW a \in Nat, NEW b \in Nat, a < b
  PROVE  /\ Window(a, b) # <<>> /\ Head(Window(a, b)) = a + 1
         /\ Tail(Window(a, b)) = Window(a + 1, b)
  <1>1. Window(a, b) \in Seq(Nat) /\ Len(Window(a, b)) = b - a /\ Window(a, b) # <<>>
    BY WindowSeq
  <1>2. Head(Window(a, b)) = a + 1
    BY <1>1 DEF Window
  <1>3. Tail(Window(a, b)) = Window(a + 1, b)
    <2> DEFINE s == Tail(Window(a, b))
               t == Window(a + 1, b)
    <2>1. t \in Seq(Nat) /\ Len(t) = b - (a + 1)
      BY WindowSeq
    <2>2. s \in Seq(Nat) /\ Len(s) = b - (a + 1)
      BY <1>1
    <2>3. \A i \in 1..Len(s) : s[i] = t[i]
      <3> SUFFICES ASSUME NEW i \in 1..(b - (a + 1)) PROVE s[i] = t[i]
        BY <2>2
      <3>1. s[i] = Window(a, b)[i + 1]
        BY <1>1
      <3>2. i + 1 \in 1..(b - a)
        OBVIOUS
      <3> QED
        BY <3>1, <3>2 DEF Window
    <2> QED
      BY <2>1, <2>2, <2>3, SameSequence, ZenonT(60)
  <1> QED
    BY <1>1, <1>2, <1>3

--------------------------------------------------------------------------------

(* The producer knows the write position; its read position may be stale, but it  *)
(* only writes when even the stale one leaves room.                               *)
ProducerInv ==
    /\ p_wp = write_position /\ p_rp <= read_position
    /\ write_position <= p_rp + Capacity
    /\ p_pc \in {"not_full", "write", "writing", "publish"} => write_position < p_rp + Capacity
    /\ p_pc = "publish" => data[at(p_wp)] = Val(p_wp)

(* The consumer knows the read position and a write position it has not passed.   *)
ConsumerInv ==
    /\ c_rp = read_position /\ read_position <= c_wp /\ c_wp <= write_position
    /\ c_pc \in {"has_data", "read", "store"} => c_rp < c_wp
    /\ c_pc = "store" => c_val = Val(c_rp)

(* The inductive invariant.                                                       *)
IInv == /\ TypeOK /\ ProducerInv /\ ConsumerInv
        /\ UnreadSlotsIntact /\ DeliveredInOrder

USE CapacityAssumption, MaxPushAssumption, TornAssumption

(* at() maps a position to one of the slots.                                      *)
LEMMA SlotInRange == ASSUME NEW p \in Nat PROVE at(p) \in 0..(Capacity - 1)
  BY DEF at

(* Positions less than Capacity apart never share a slot.                         *)
LEMMA SlotsDistinct ==
  ASSUME NEW p \in Nat, NEW q \in Nat, p < q, q < p + Capacity
  PROVE  at(p) # at(q)
  <1>1. PICK last \in Nat : Capacity = last + 1
    <2>1. Capacity - 1 \in Nat /\ Capacity = (Capacity - 1) + 1
      OBVIOUS
    <2> QED
      BY <2>1, ZenonT(60)
  <1>2. p % (last + 1) # q % (last + 1)
    BY <1>1
  <1> QED
    BY <1>1, <1>2 DEF at

(* The empty queue satisfies the invariant.                                       *)
LEMMA InitIInv == Init => IInv
  BY SlotInRange DEF Init, IInv, TypeOK, ProducerInv, ConsumerInv, UnreadSlotsIntact,
     DeliveredInOrder

(* The next value extends the sequence of values returned so far.                 *)
LEMMA AppendNext ==
  ASSUME NEW s \in Seq(Nat), \A i \in 1..Len(s) : s[i] = Val(i - 1)
  PROVE  LET t == Append(s, Val(Len(s))) IN
         /\ t \in Seq(Nat) /\ Len(t) = Len(s) + 1
         /\ \A i \in 1..Len(t) : t[i] = Val(i - 1)
  <1> DEFINE t == Append(s, Val(Len(s)))
  <1>1. /\ t \in Seq(Nat) /\ Len(s) \in Nat /\ Len(t) = Len(s) + 1
        /\ \A i \in 1..Len(s) : t[i] = s[i]
        /\ t[Len(s) + 1] = Val(Len(s))
    BY DEF Val
  <1>2. \A i \in 1..Len(t) : i = Len(s) + 1 \/ i \in 1..Len(s)
    BY <1>1
  <1>3. ASSUME NEW i \in 1..Len(t) PROVE t[i] = Val(i - 1)
    <2> HIDE DEF t
    <2>1. CASE i \in 1..Len(s)
      BY <1>1, <2>1
    <2>2. CASE i = Len(s) + 1
      BY <1>1, <2>2
    <2> QED
      BY <1>2, <2>1, <2>2
  <1> QED
    BY <1>1, <1>3

(* A write of the producer leaves the slots of the unread positions alone.        *)
LEMMA WriteKeepsUnread ==
  ASSUME IInv, p_pc \in {"write", "writing"}, NEW v, data' = [data EXCEPT ![at(p_wp)] = v],
         UNCHANGED <<write_position, read_position>>
  PROVE  UnreadSlotsIntact'
  <1> SUFFICES ASSUME NEW p \in read_position..(write_position - 1)
               PROVE  data'[at(p)] = Val(p)
    BY DEF UnreadSlotsIntact
  <1>1. p \in Nat /\ p < p_wp /\ p_wp < p + Capacity /\ p_wp \in Nat
    BY DEF IInv, TypeOK, ProducerInv
  <1>2. at(p) # at(p_wp) /\ at(p) \in 0..(Capacity - 1)
    BY <1>1, SlotsDistinct, SlotInRange
  <1> QED
    BY <1>2 DEF IInv, TypeOK, UnreadSlotsIntact

(* Every step of a producer or consumer keeps the invariant.                      *)
LEMMA StepIInv ==
  ASSUME HandoffSynchronizes, IInv, [Next]_vars
  PROVE  IInv'
  <1> USE DEF IInv, TypeOK, ProducerInv, ConsumerInv
  <1>1. CASE AcquireProducer
    BY <1>1 DEF AcquireProducer, consumerVars, UnreadSlotsIntact, DeliveredInOrder
  <1>2. CASE DropProducer
    BY <1>2 DEF DropProducer, consumerVars, UnreadSlotsIntact, DeliveredInOrder
  <1>3. CASE IsFull
    BY <1>3 DEF IsFull, consumerVars, UnreadSlotsIntact, DeliveredInOrder
  <1>4. CASE PushLoadPositions
    BY <1>4 DEF PushLoadPositions, consumerVars, UnreadSlotsIntact, DeliveredInOrder
  <1>5. CASE PushBeginWrite
    <2>1. UnreadSlotsIntact'
      BY <1>5, WriteKeepsUnread, ZenonT(60) DEF PushBeginWrite
    <2>2. TypeOK' /\ DeliveredInOrder'
      BY <1>5, ZenonT(60) DEF PushBeginWrite, consumerVars, DeliveredInOrder
    <2>3. ProducerInv' /\ ConsumerInv'
      BY <1>5 DEF PushBeginWrite, consumerVars
    <2> QED
      BY <2>1, <2>2, <2>3, ZenonT(60)
  <1>6. CASE PushEndWrite
    <2>1. UnreadSlotsIntact'
      BY <1>6, WriteKeepsUnread, ZenonT(60) DEF PushEndWrite
    <2>2. Val(p_wp) \in Nat \cup {Torn} /\ at(p_wp) \in 0..(Capacity - 1)
      <3>1. p_wp \in Nat
        OBVIOUS
      <3> HIDE DEF IInv
      <3> QED
        BY <3>1, SlotInRange DEF Val
    <2>3. TypeOK' /\ DeliveredInOrder'
      BY <1>6, <2>2 DEF PushEndWrite, consumerVars, DeliveredInOrder
    <2>4. data'[at(p_wp)] = Val(p_wp)
      BY <1>6, <2>2 DEF PushEndWrite
    <2>5. ProducerInv' /\ ConsumerInv'
      BY <1>6, <2>4 DEF PushEndWrite, consumerVars
    <2> QED
      BY <2>1, <2>3, <2>5, ZenonT(60)
  <1>7. CASE PushPublish
    BY <1>7 DEF PushPublish, consumerVars, UnreadSlotsIntact, DeliveredInOrder
  <1>8. CASE AcquireConsumer
    BY <1>8 DEF AcquireConsumer, producerVars, UnreadSlotsIntact, DeliveredInOrder
  <1>9. CASE DropConsumer
    BY <1>9 DEF DropConsumer, producerVars, UnreadSlotsIntact, DeliveredInOrder
  <1>10. CASE IsEmpty
    BY <1>10 DEF IsEmpty, producerVars, UnreadSlotsIntact, DeliveredInOrder
  <1>11. CASE PopLoadPositions
    BY <1>11 DEF PopLoadPositions, producerVars, UnreadSlotsIntact, DeliveredInOrder
  <1>12. CASE PopReadSlot
    <2>1. data[at(c_rp)] = Val(c_rp)
      BY <1>12 DEF PopReadSlot, UnreadSlotsIntact
    <2>2. Val(c_rp) \in Nat
      BY DEF Val
    <2> QED
      BY <1>12, <2>1, <2>2 DEF PopReadSlot, producerVars, UnreadSlotsIntact, DeliveredInOrder
  <1>13. CASE PopStore
    <2>1. popped' = Append(popped, Val(Len(popped)))
      BY <1>13 DEF PopStore, DeliveredInOrder
    <2>2. /\ popped' \in Seq(Nat) /\ Len(popped') = Len(popped) + 1
          /\ \A i \in 1..Len(popped') : popped'[i] = Val(i - 1)
      BY <2>1, AppendNext DEF DeliveredInOrder
    <2>3. TypeOK' /\ DeliveredInOrder'
      BY <1>13, <2>2 DEF PopStore, producerVars, DeliveredInOrder
    <2>4. ProducerInv' /\ ConsumerInv' /\ UnreadSlotsIntact'
      BY <1>13 DEF PopStore, producerVars, UnreadSlotsIntact
    <2> QED
      BY <2>3, <2>4, ZenonT(60)
  <1>14. CASE UNCHANGED vars
    BY <1>14 DEF vars, producerVars, consumerVars, UnreadSlotsIntact, DeliveredInOrder
  <1> QED
    BY <1>1, <1>2, <1>3, <1>4, <1>5, <1>6, <1>7, <1>8, <1>9, <1>10, <1>11, <1>12, <1>13, <1>14, ZenonT(60)
    DEF Next, Producer, Consumer

(* IInv is an invariant of the queue.                                             *)
THEOREM Invariance == ASSUME HandoffSynchronizes PROVE Spec => []IInv
  BY InitIInv, StepIInv, PTL DEF Spec

(* No unread index is ever overwritten.                                           *)
THEOREM UnreadSlotsStayIntact ==
  ASSUME HandoffSynchronizes PROVE Spec => []UnreadSlotsIntact
  <1>1. IInv => UnreadSlotsIntact
    BY DEF IInv
  <1> QED
    BY Invariance, <1>1, PTL

(* pop() returns every accepted index exactly once and in order.                  *)
THEOREM AllDeliveredInOrder ==
  ASSUME HandoffSynchronizes PROVE Spec => []DeliveredInOrder
  <1>1. IInv => DeliveredInOrder
    BY DEF IInv
  <1> QED
    BY Invariance, <1>1, PTL

(* The answers of is_full() and is_empty() are reliable for the asking side.      *)
THEOREM AnswersStayReliable ==
  ASSUME HandoffSynchronizes PROVE Spec => []AnswersReliable
  <1>1. IInv => AnswersReliable
    BY DEF IInv, TypeOK, ProducerInv, ConsumerInv, AnswersReliable
  <1> QED
    BY Invariance, <1>1, PTL

--------------------------------------------------------------------------------
(* The content of the queue, oldest index first.                                  *)
Contents == [i \in 1..(write_position - read_position) |-> data[at(read_position + i - 1)]]

(* It is the window between the two positions.                                    *)
IsWindow == Contents = Window(read_position, write_position)

(* A push begins only below the bound on the pushes.                              *)
WithinBound == p_pc \in {"write", "writing", "publish"} => write_position < MaxPush

(* The queue holds the values between the two positions.                          *)
LEMMA ContentsWindow == IInv => IsWindow
  <1> SUFFICES ASSUME IInv PROVE IsWindow
    OBVIOUS
  <1>0. write_position \in Nat /\ read_position \in Nat
    BY DEF IInv, TypeOK
  <1>1. \A i \in 1..(write_position - read_position) :
          data[at(read_position + i - 1)] = read_position + i
    <2> SUFFICES ASSUME NEW i \in 1..(write_position - read_position)
                 PROVE  data[at(read_position + i - 1)] = read_position + i
      OBVIOUS
    <2>1. read_position + i - 1 \in read_position..(write_position - 1)
      BY <1>0
    <2>2. Val(read_position + i - 1) = read_position + i
      BY <1>0, SMTT(30) DEF Val
    <2> QED
      BY <2>1, <2>2 DEF IInv, UnreadSlotsIntact
  <1> QED
    BY <1>1 DEF IsWindow, Contents, Window

(* The bound stays.                                                               *)
LEMMA StepBound == ASSUME HandoffSynchronizes, IInv, WithinBound, [Next]_vars PROVE WithinBound'
  BY DEF WithinBound, IInv, TypeOK, ProducerInv, vars, Next, Producer, Consumer, AcquireProducer,
         DropProducer, IsFull, PushLoadPositions, PushBeginWrite, PushEndWrite, PushPublish,
         AcquireConsumer, DropConsumer, IsEmpty, PopLoadPositions, PopReadSlot, PopStore,
         producerVars

(* Publishing a value is a push of the FIFO, storing read_position a pop, and no  *)
(* other access is visible.                                                       *)
LEMMA FifoStep ==
  ASSUME HandoffSynchronizes, IInv, WithinBound, IsWindow, IsWindow', [Next]_vars
  PROVE  [Fifo!Next]_(Fifo!fifoVars)
  <1>1. /\ Contents = Window(read_position, write_position)
        /\ Contents' = Window(read_position', write_position')
    BY DEF IsWindow, Window
  <1>2. /\ read_position \in Nat /\ write_position \in Nat /\ read_position <= write_position
        /\ write_position <= read_position + Capacity
    BY DEF IInv, TypeOK, DeliveredInOrder
  <1>3. CASE PushPublish
    <2>1. write_position' = write_position + 1 /\ read_position' = read_position
      BY <1>3 DEF PushPublish, IInv, ProducerInv
    <2>2. Contents' = Append(Contents, write_position + 1)
      BY <1>1, <1>2, <2>1, WindowAppend DEF Window
    <2>3. Len(Contents) < Capacity
      <3>1. Len(Contents) = write_position - read_position
        BY <1>1, <1>2, WindowSeq, ZenonT(60)
      <3> QED
        BY <1>3, <3>1 DEF PushPublish, IInv, TypeOK, ProducerInv
    <2>4. Fifo!Push
      BY <1>3, <2>1, <2>2, <2>3, ZenonT(60) DEF PushPublish, WithinBound, Contents, Fifo!Push
    <2> QED
      BY <2>4 DEF Fifo!Next
  <1>4. CASE PopStore
    <2>1. /\ write_position' = write_position /\ read_position' = read_position + 1
          /\ read_position < write_position /\ popped' = Append(popped, read_position + 1)
      BY <1>4 DEF PopStore, IInv, TypeOK, ConsumerInv, Val
    <2>2. /\ Contents # <<>> /\ Head(Contents) = read_position + 1
          /\ Contents' = Tail(Contents)
      BY <1>1, <1>2, <2>1, WindowHead, ZenonT(60)
    <2>3. Fifo!Pop
      BY <2>1, <2>2, ZenonT(60) DEF Contents, Fifo!Pop
    <2> QED
      BY <2>3 DEF Fifo!Next
  <1>5. CASE ~PushPublish /\ ~PopStore
    <2>1. UNCHANGED <<read_position, write_position, popped>>
      BY <1>5 DEF vars, Next, Producer, Consumer, AcquireProducer, DropProducer, IsFull,
         PushLoadPositions, PushBeginWrite, PushEndWrite, AcquireConsumer, DropConsumer, IsEmpty,
         PopLoadPositions, PopReadSlot
    <2>2. Contents' = Contents
      BY <1>1, <2>1 DEF Window
    <2> QED
      BY <2>1, <2>2 DEF Contents, Fifo!fifoVars
  <1> QED
    BY <1>3, <1>4, <1>5

(* push() and pop() implement the bounded FIFO, for every capacity.               *)
THEOREM QueueIsFifo == ASSUME HandoffSynchronizes PROVE Spec => ImplementsFifo
  <1>1. Init => WithinBound /\ Fifo!Init
    <2> SUFFICES ASSUME Init PROVE WithinBound /\ Fifo!Init
      OBVIOUS
    <2>1. Contents = <<>>
      BY DEF Init, Contents
    <2> QED
      BY <2>1 DEF Init, Contents, WithinBound, Fifo!Init
  <1>2. /\ IInv /\ WithinBound /\ [Next]_vars => WithinBound'
        /\ IInv /\ WithinBound /\ IsWindow /\ IsWindow' /\ [Next]_vars => [Fifo!Next]_(Fifo!fifoVars)
    BY StepBound, FifoStep
  <1> QED
    BY <1>1, <1>2, Invariance, ContentsWindow, PTL DEF Spec, ImplementsFifo, Fifo!Spec


--------------------------------------------------------------------------------
(* The writer has a slot that is not in the index set: it works on it or died    *)
(* with it.                                                                      *)
Owns(w) == w_slot[w] # 0 /\ w_pc[w] # "remove_count"

Filling == {"add_copy", "add_copying", "add_activate"}

(* Every slot is free, in use, or owned by exactly one writer; the generation    *)
(* says which, and the content of a slot in use is complete.                     *)
WriterInv ==
    /\ \A w \in Writers : w_pc[w] = "idle" => w_slot[w] = 0
    /\ \A w \in Writers : w_pc[w] \notin {"idle", "dead"} => w_slot[w] \in Slots
    /\ \A w \in Writers : Owns(w) => w_slot[w] \notin free \cup handles
    /\ \A v, w \in Writers : Owns(v) /\ Owns(w) /\ w_slot[v] = w_slot[w] => v = w
    /\ \A i \in Slots \ (free \cup handles) : \E w \in Writers : Owns(w) /\ w_slot[w] = i
    /\ \A i \in handles : Odd(active_index[i]) /\ i \notin free
    /\ \A i \in free : ~ Odd(active_index[i])
    /\ \A w \in Writers : w_pc[w] \in Filling \cup {"remove_release"} => ~ Odd(active_index[w_slot[w]])
    /\ \A w \in Writers : w_pc[w] = "add_count" => Odd(active_index[w_slot[w]])
    /\ locked => free = Slots

DataInv ==
    /\ \A i \in Slots : Odd(active_index[i]) => data_ptr[i] = active_index[i]
    /\ \A w \in Writers : w_pc[w] = "add_activate" => data_ptr[w_slot[w]] = active_index[w_slot[w]] + 1

Copying == r_pc \in {"copy", "copying", "confirm"}

(* What the reader has loaded is never newer than the slot; if the generation is *)
(* still the same, so is what it has copied.                                     *)
ReaderInv ==
    /\ r_pc # "idle" => r_slot \in Slots
    /\ Copying => r_count <= active_index[r_slot]
    /\ r_pc \in {"copying", "confirm"} => state.active[r_slot] = r_count
    /\ r_pc = "copying" => Odd(r_count)
    /\ (r_pc \in {"copying", "confirm"} /\ Odd(r_count) /\ active_index[r_slot] = r_count)
         => state.data[r_slot] = r_count

(* While the counter is current, the slots the reader has passed are exact but   *)
(* for changes not counted yet.                                                  *)
ExactInv ==
    /\ state.counter <= change_counter
    /\ state.counter = change_counter =>
         \A i \in Slots : r_pc = "idle" \/ i < r_slot => state.active[i] = active_index[i] \/ i \in dirty

(* The inductive invariant.                                                      *)
ContainerInv == ContainerTypeOK /\ WriterInv /\ DataInv /\ ReaderInv /\ SnapshotNeverTorn /\ ExactInv

--------------------------------------------------------------------------------
USE SlotsAssumption, MaxAddAssumption, TornEntryAssumption

(* Each change of a slot changes its parity.                                      *)
LEMMA Parity == ASSUME NEW n \in Nat PROVE Odd(n + 1) <=> ~ Odd(n)
  BY DEF Odd

(* The empty registry and the empty copy.                                         *)
LEMMA ContainerInitInv == ContainerInit => ContainerInv
  <1> SUFFICES ASSUME ContainerInit PROVE ContainerInv
    BY ZenonT(60)
  <1>0. ~ Odd(0)
    BY DEF Odd
  <1>1. ContainerTypeOK
    <2>1. state \in [counter: Nat, active: [Slots -> Nat], data: [Slots -> Nat \cup {TornEntry}]]
      BY ZenonT(60) DEF ContainerInit
    <2>2. 0 \in 0..capacity
      OBVIOUS
    <2>3. w_pc \in [Writers -> {"idle", "add_copy", "add_copying", "add_activate", "add_count",
                                "remove_release", "remove_count", "dead"}]
      BY ZenonT(60) DEF ContainerInit
    <2>4. active_index \in [Slots -> Nat] /\ data_ptr \in [Slots -> Nat \cup {TornEntry}]
      BY ZenonT(60) DEF ContainerInit
    <2> QED
      BY <2>1, <2>2, <2>3, <2>4, ZenonT(60) DEF ContainerInit, ContainerTypeOK
  <1>2. WriterInv
    BY <1>0, ZenonT(60) DEF ContainerInit, WriterInv, Owns, Filling
  <1>3. DataInv /\ ReaderInv /\ SnapshotNeverTorn /\ ExactInv
    BY <1>0 DEF ContainerInit, DataInv, ReaderInv, Copying, SnapshotNeverTorn, ExactInv
  <1> QED
    BY <1>1, <1>2, <1>3, ZenonT(60) DEF ContainerInv

(* The steps of a writer.                                                         *)
WriterStep(w) == Add(w) \/ Remove(w) \/ Die(w)

(* A writer keeps the types.                                                      *)
LEMMA WriterType ==
  ASSUME ContainerInv, NEW w \in Writers, WriterStep(w)
  PROVE  ContainerTypeOK'
  <1> ContainerTypeOK /\ WriterInv
    BY ZenonT(60) DEF ContainerInv
  <1> \A i \in Slots : i \in 0..capacity
    BY DEF Slots
  <1> USE DEF ContainerTypeOK, Goto, reader, history, shared
  <1>1. ASSUME NEW i \in Slots, AddAcquire(w, i) PROVE ContainerTypeOK'
    BY <1>1 DEF AddAcquire
  <1>2. CASE AddBeginCopy(w)
    BY <1>2, ZenonT(60) DEF AddBeginCopy
  <1>3. CASE AddEndCopy(w)
    <2>1. active_index[w_slot[w]] + 1 \in Nat
      BY <1>3 DEF AddEndCopy, WriterInv
    <2> QED
      BY <1>3, <2>1, ZenonT(60) DEF AddEndCopy
  <1>4. CASE AddActivate(w)
    BY <1>4 DEF AddActivate, WriterInv
  <1>5. CASE AddCount(w)
    BY <1>5 DEF AddCount, WriterInv
  <1>6. ASSUME NEW i \in Slots, RemoveDeactivate(w, i) PROVE ContainerTypeOK'
    BY <1>6 DEF RemoveDeactivate
  <1>7. ASSUME NEW mode, RemoveRelease(w, mode) PROVE ContainerTypeOK'
    BY <1>7 DEF RemoveRelease, WriterInv
  <1>8. CASE RemoveCount(w)
    BY <1>8 DEF RemoveCount
  <1>9. CASE Die(w)
    BY <1>9 DEF Die, WriterInv
  <1> QED
    BY <1>1, <1>2, <1>3, <1>4, <1>5, <1>6, <1>7, <1>8, <1>9, ZenonT(60) DEF WriterStep, Add, Remove

(* Every slot keeps one owner: the index set, the registry or a writer.           *)
LEMMA WriterSlots ==
  ASSUME ContainerInv, NEW w \in Writers, WriterStep(w)
  PROVE  WriterInv'
  <1> ContainerTypeOK /\ WriterInv
    BY ZenonT(60) DEF ContainerInv
  <1> \A i \in Slots : Odd(active_index[i] + 1) <=> ~ Odd(active_index[i])
    BY Parity, ZenonT(60) DEF ContainerTypeOK
  <1> 0 \notin Slots /\ \A i \in Slots : i \in 0..capacity
    BY DEF Slots
  <1> USE DEF ContainerTypeOK, WriterInv, Owns, Filling, Goto, history, shared
  <1>1. ASSUME NEW i \in Slots, AddAcquire(w, i) PROVE WriterInv'
    BY <1>1 DEF AddAcquire
  <1>2. CASE AddBeginCopy(w)
    BY <1>2 DEF AddBeginCopy
  <1>3. CASE AddEndCopy(w)
    BY <1>3 DEF AddEndCopy
  <1>4. CASE AddActivate(w)
    BY <1>4 DEF AddActivate
  <1>5. CASE AddCount(w)
    BY <1>5 DEF AddCount
  <1>6. ASSUME NEW i \in Slots, RemoveDeactivate(w, i) PROVE WriterInv'
    BY <1>6 DEF RemoveDeactivate
  <1>7. ASSUME NEW mode, RemoveRelease(w, mode) PROVE WriterInv'
    BY <1>7 DEF RemoveRelease
  <1>8. CASE RemoveCount(w)
    BY <1>8 DEF RemoveCount
  <1>9. CASE Die(w)
    BY <1>9 DEF Die
  <1> QED
    BY <1>1, <1>2, <1>3, <1>4, <1>5, <1>6, <1>7, <1>8, <1>9, ZenonT(60) DEF WriterStep, Add, Remove

(* The content of a slot in use is not touched.                                   *)
LEMMA WriterData ==
  ASSUME ContainerInv, NEW w \in Writers, WriterStep(w)
  PROVE  DataInv'
  <1> ContainerTypeOK /\ WriterInv /\ DataInv
    BY ZenonT(60) DEF ContainerInv
  <1> \A i \in Slots : Odd(active_index[i] + 1) <=> ~ Odd(active_index[i])
    BY Parity, ZenonT(60) DEF ContainerTypeOK
  <1> 0 \notin Slots
    BY DEF Slots
  <1> USE DEF ContainerTypeOK, WriterInv, DataInv, Owns, Filling, Goto, history, shared
  <1>1. ASSUME NEW i \in Slots, AddAcquire(w, i) PROVE DataInv'
    BY <1>1 DEF AddAcquire
  <1>2. CASE AddBeginCopy(w)
    BY <1>2 DEF AddBeginCopy
  <1>3. CASE AddEndCopy(w)
    BY <1>3 DEF AddEndCopy
  <1>4. CASE AddActivate(w)
    BY <1>4 DEF AddActivate
  <1>5. CASE AddCount(w)
    BY <1>5, ZenonT(60) DEF AddCount
  <1>6. ASSUME NEW i \in Slots, RemoveDeactivate(w, i) PROVE DataInv'
    BY <1>6 DEF RemoveDeactivate
  <1>7. ASSUME NEW mode, RemoveRelease(w, mode) PROVE DataInv'
    BY <1>7 DEF RemoveRelease
  <1>8. CASE RemoveCount(w)
    BY <1>8, ZenonT(60) DEF RemoveCount
  <1>9. CASE Die(w)
    BY <1>9, ZenonT(60) DEF Die
  <1> QED
    BY <1>1, <1>2, <1>3, <1>4, <1>5, <1>6, <1>7, <1>8, <1>9, ZenonT(60) DEF WriterStep, Add, Remove

(* What a writer does to the reader: generations only grow, a change that the     *)
(* counter does not show is dirty, and nothing else is seen.                      *)
LEMMA WriterSeen ==
  ASSUME ContainerInv, NEW w \in Writers, WriterStep(w)
  PROVE  /\ UNCHANGED reader
         /\ \A i \in Slots : active_index'[i] \in Nat /\ active_index[i] <= active_index'[i]
         /\ \/ change_counter' = change_counter + 1
            \/ /\ change_counter' = change_counter /\ dirty \subseteq dirty'
               /\ \A i \in Slots : active_index'[i] = active_index[i] \/ i \in dirty'
  <1> ContainerTypeOK /\ WriterInv
    BY ZenonT(60) DEF ContainerInv
  <1> USE DEF ContainerTypeOK, Goto, history, shared
  <1>1. ASSUME NEW i \in Slots, AddAcquire(w, i)
        PROVE  UNCHANGED <<reader, active_index, change_counter, dirty>>
    BY <1>1, ZenonT(60) DEF AddAcquire
  <1>2. CASE AddBeginCopy(w) \/ AddEndCopy(w) \/ Die(w)
    BY <1>2 DEF AddBeginCopy, AddEndCopy, Die
  <1>3. CASE AddActivate(w)
    BY <1>3 DEF AddActivate
  <1>4. CASE AddCount(w) \/ RemoveCount(w)
    BY <1>4 DEF AddCount, RemoveCount
  <1>5. ASSUME NEW i \in Slots, RemoveDeactivate(w, i)
        PROVE  /\ UNCHANGED <<reader, change_counter>> /\ dirty' = dirty \cup {i}
               /\ active_index' = [active_index EXCEPT ![i] = @ + 1]
    BY <1>5, ZenonT(60) DEF RemoveDeactivate
  <1>6. ASSUME NEW mode, RemoveRelease(w, mode)
        PROVE  UNCHANGED <<reader, active_index, change_counter, dirty>>
    BY <1>6, ZenonT(60) DEF RemoveRelease
  <1> QED
    BY <1>1, <1>2, <1>3, <1>4, <1>5, <1>6 DEF WriterStep, Add, Remove

(* Whatever writers do, the reader's copy stays as good as it was.                *)
LEMMA WriterReader ==
  ASSUME ContainerInv, NEW w \in Writers, WriterStep(w)
  PROVE  ReaderInv' /\ SnapshotNeverTorn' /\ ExactInv'
  <1>1. /\ UNCHANGED <<r_pc, r_slot, r_count, state>>
        /\ \A i \in Slots : active_index'[i] \in Nat /\ active_index[i] <= active_index'[i]
        /\ \/ change_counter' = change_counter + 1
           \/ /\ change_counter' = change_counter /\ dirty \subseteq dirty'
              /\ \A i \in Slots : active_index'[i] = active_index[i] \/ i \in dirty'
    BY WriterSeen, ZenonT(60) DEF reader
  <1> ContainerTypeOK /\ ReaderInv /\ SnapshotNeverTorn /\ ExactInv
    BY ZenonT(60) DEF ContainerInv
  <1>2. ReaderInv'
    BY <1>1 DEF ContainerTypeOK, ReaderInv, Copying
  <1>3. SnapshotNeverTorn'
    BY <1>1, ZenonT(60) DEF SnapshotNeverTorn
  <1>4. ExactInv'
    BY <1>1 DEF ContainerTypeOK, ExactInv
  <1> QED
    BY <1>2, <1>3, <1>4, ZenonT(60)

--------------------------------------------------------------------------------
(* Passing on to the next slot.                                                   *)
LEMMA Passing ==
  ASSUME ContainerTypeOK, r_slot \in Slots, NextSlot
  PROVE  /\ r_pc' \in {"idle", "load"} /\ r_slot' \in 0..capacity /\ r_count' = 0
         /\ r_pc' # "idle" => r_slot' \in Slots
         /\ \A i \in Slots : (r_pc' = "idle" \/ i < r_slot') => i <= r_slot
  BY DEF ContainerTypeOK, NextSlot, Slots

(* The reader keeps the types.                                                    *)
LEMMA ReaderType ==
  ASSUME ContainerInv, UpdateState
  PROVE  ContainerTypeOK'
  <1> ContainerTypeOK /\ ReaderInv
    BY ZenonT(60) DEF ContainerInv
  <1>0. \A i \in Slots : i \in 0..capacity
    BY DEF Slots
  <1>1. CASE UpdateBegin
    <2>1. state' = [counter |-> change_counter, active |-> state.active, data |-> state.data]
      BY <1>1, ZenonT(60) DEF UpdateBegin, ContainerTypeOK
    <2> QED
      BY <1>1, <2>1 DEF UpdateBegin, ContainerTypeOK, shared, writer, history
  <1>2. CASE UpdateLoad
    BY <1>2, Passing DEF UpdateLoad, ReaderInv, ContainerTypeOK, shared, writer, history
  <1>3. CASE UpdateBeginCopy
    <2>1. r_slot \in Slots
      BY <1>3, ZenonT(60) DEF UpdateBeginCopy, ReaderInv
    <2>2. state' = [counter |-> state.counter, active |-> [state.active EXCEPT ![r_slot] = r_count],
                    data |-> [state.data EXCEPT ![r_slot] = IF Odd(r_count) THEN data_ptr[r_slot] ELSE @]]
      BY <1>3, <2>1, ZenonT(60) DEF UpdateBeginCopy, ContainerTypeOK
    <2>3. state'.active \in [Slots -> Nat] /\ state'.data \in [Slots -> Nat \cup {TornEntry}]
      BY <2>1, <2>2, ZenonT(60) DEF ContainerTypeOK
    <2>4. state' \in [counter: Nat, active: [Slots -> Nat], data: [Slots -> Nat \cup {TornEntry}]]
      BY <2>2, <2>3, ZenonT(60) DEF ContainerTypeOK
    <2> QED
      BY <1>3, <2>4, ZenonT(60) DEF UpdateBeginCopy, ContainerTypeOK, shared, writer, history
  <1>4. CASE UpdateEndCopy
    <2>1. r_slot \in Slots
      BY <1>4, ZenonT(60) DEF UpdateEndCopy, ReaderInv
    <2>2. state' = [counter |-> state.counter, active |-> state.active,
                    data |-> [state.data EXCEPT ![r_slot] = IF @ = data_ptr[r_slot] THEN @ ELSE TornEntry]]
      BY <1>4, <2>1, ZenonT(60) DEF UpdateEndCopy, ContainerTypeOK
    <2> QED
      BY <1>4, <2>1, <2>2 DEF UpdateEndCopy, ContainerTypeOK, shared, writer, history
  <1>5. CASE UpdateConfirm
    BY <1>5, Passing DEF UpdateConfirm, ReaderInv, ContainerTypeOK, shared, writer, history
  <1> QED
    BY <1>1, <1>2, <1>3, <1>4, <1>5, ZenonT(60) DEF UpdateState

(* What the reader has confirmed was complete, and current when it confirmed.     *)
LEMMA ReaderReader ==
  ASSUME ContainerInv, UpdateState
  PROVE  ReaderInv' /\ SnapshotNeverTorn' /\ ExactInv'
  <1> ContainerTypeOK /\ ReaderInv /\ SnapshotNeverTorn /\ ExactInv
    BY ZenonT(60) DEF ContainerInv
  <1>0. \A i \in Slots : Odd(active_index[i]) => data_ptr[i] = active_index[i]
    BY ZenonT(60) DEF ContainerInv, DataInv
  <1>s. UNCHANGED <<active_index, data_ptr, change_counter, dirty>>
    BY ZenonT(60) DEF UpdateState, UpdateBegin, UpdateLoad, UpdateBeginCopy, UpdateEndCopy, UpdateConfirm,
       shared, history
  <1>c. \A i \in Slots : i \in Nat /\ 1 <= i
    BY DEF Slots
  <1>1. CASE UpdateBegin
    <2>1. state' = [counter |-> change_counter, active |-> state.active, data |-> state.data]
      BY <1>1, ZenonT(60) DEF UpdateBegin, ContainerTypeOK
    <2>2. r_pc = "idle" /\ r_pc' = "load" /\ r_slot' = 1 /\ 1 \in Slots
      BY <1>1 DEF UpdateBegin, Slots
    <2>3. ReaderInv' /\ SnapshotNeverTorn'
      BY <1>s, <2>1, <2>2, ZenonT(60) DEF ReaderInv, Copying, SnapshotNeverTorn
    <2>4. ExactInv'
      BY <1>s, <1>c, <2>1, <2>2 DEF ExactInv, ContainerTypeOK
    <2> QED
      BY <2>3, <2>4, ZenonT(60)
  <1>2. CASE UpdateLoad
    <2>0. r_slot \in Slots /\ r_pc = "load" /\ state' = state
      BY <1>2, ZenonT(60) DEF UpdateLoad, ReaderInv
    <2>1. CASE active_index[r_slot] = state.active[r_slot]
      <3>1. NextSlot
        BY <1>2, <2>1, ZenonT(60) DEF UpdateLoad
      <3>2. ReaderInv' /\ SnapshotNeverTorn'
        BY <1>s, <2>0, <3>1, Passing, ZenonT(60) DEF ReaderInv, Copying, SnapshotNeverTorn
      <3>3. ExactInv'
        BY <1>s, <1>c, <2>0, <2>1, <3>1, Passing DEF ExactInv, ContainerTypeOK
      <3> QED
        BY <3>2, <3>3, ZenonT(60)
    <2>2. CASE active_index[r_slot] # state.active[r_slot]
      <3>1. r_count' = active_index[r_slot] /\ r_pc' = "copy" /\ r_slot' = r_slot
        BY <1>2, <2>2, ZenonT(60) DEF UpdateLoad
      <3>2. ReaderInv' /\ SnapshotNeverTorn'
        BY <1>s, <2>0, <3>1 DEF ReaderInv, Copying, SnapshotNeverTorn, ContainerTypeOK
      <3>3. ExactInv'
        BY <1>s, <2>0, <3>1, ZenonT(60) DEF ExactInv
      <3> QED
        BY <3>2, <3>3, ZenonT(60)
    <2> QED
      BY <2>1, <2>2, ZenonT(60)
  <1>3. CASE UpdateBeginCopy
    <2>1. r_slot \in Slots /\ r_pc = "copy" /\ r_slot' = r_slot /\ r_count' = r_count
      BY <1>3, ZenonT(60) DEF UpdateBeginCopy, ReaderInv
    <2>2. state' = [counter |-> state.counter, active |-> [state.active EXCEPT ![r_slot] = r_count],
                    data |-> [state.data EXCEPT ![r_slot] = IF Odd(r_count) THEN data_ptr[r_slot] ELSE @]]
      BY <1>3, <2>1, ZenonT(60) DEF UpdateBeginCopy, ContainerTypeOK
    <2>3. r_pc' = IF Odd(r_count) THEN "copying" ELSE "confirm"
      BY <1>3, ZenonT(60) DEF UpdateBeginCopy
    <2>4. /\ state'.active[r_slot] = r_count /\ state'.counter = state.counter
          /\ Odd(r_count) => state'.data[r_slot] = data_ptr[r_slot]
          /\ \A i \in Slots \ {r_slot} :
                state'.active[i] = state.active[i] /\ state'.data[i] = state.data[i]
      BY <2>1, <2>2, ZenonT(60) DEF ContainerTypeOK
    <2>5. ReaderInv'
      BY <1>0, <1>s, <2>1, <2>3, <2>4, ZenonT(60) DEF ReaderInv, Copying
    <2>6. SnapshotNeverTorn'
      BY <2>1, <2>3, <2>4, ZenonT(60) DEF SnapshotNeverTorn
    <2>7. ExactInv'
      BY <1>s, <1>c, <2>1, <2>3, <2>4 DEF ExactInv
    <2> QED
      BY <2>5, <2>6, <2>7, ZenonT(60)
  <1>4. CASE UpdateEndCopy
    <2>1. /\ r_slot \in Slots /\ r_pc = "copying" /\ r_slot' = r_slot /\ r_count' = r_count
          /\ r_pc' = "confirm"
      BY <1>4, ZenonT(60) DEF UpdateEndCopy, ReaderInv
    <2>2. state' = [counter |-> state.counter, active |-> state.active,
                    data |-> [state.data EXCEPT ![r_slot] = IF @ = data_ptr[r_slot] THEN @ ELSE TornEntry]]
      BY <1>4, <2>1, ZenonT(60) DEF UpdateEndCopy, ContainerTypeOK
    <2>3. /\ state'.active = state.active /\ state'.counter = state.counter
          /\ state.data[r_slot] = data_ptr[r_slot] => state'.data[r_slot] = data_ptr[r_slot]
          /\ \A i \in Slots \ {r_slot} : state'.data[i] = state.data[i]
      BY <2>1, <2>2, ZenonT(60) DEF ContainerTypeOK
    <2>4. ReaderInv'
      BY <1>0, <1>s, <2>1, <2>3, ZenonT(60) DEF ReaderInv, Copying
    <2>5. SnapshotNeverTorn'
      BY <2>1, <2>3, ZenonT(60) DEF SnapshotNeverTorn
    <2>6. ExactInv'
      BY <1>s, <2>1, <2>3, ZenonT(60) DEF ExactInv
    <2> QED
      BY <2>4, <2>5, <2>6, ZenonT(60)
  <1>5. CASE UpdateConfirm
    <2>0. /\ r_slot \in Slots /\ r_pc = "confirm" /\ state' = state
          /\ state.active[r_slot] = r_count
      BY <1>5, ZenonT(60) DEF UpdateConfirm, ReaderInv
    <2>1. CASE active_index[r_slot] = r_count
      <3>1. NextSlot
        BY <1>5, <2>1, ZenonT(60) DEF UpdateConfirm
      <3>2. Odd(state.active[r_slot]) => state.data[r_slot] = state.active[r_slot]
        BY <2>0, <2>1, ZenonT(60) DEF ReaderInv
      <3>3. ReaderInv'
        BY <1>s, <2>0, <3>1, Passing, ZenonT(60) DEF ReaderInv, Copying
      <3>4. SnapshotNeverTorn'
        BY <2>0, <3>1, <3>2, Passing, ZenonT(60) DEF SnapshotNeverTorn
      <3>5. ExactInv'
        BY <1>s, <1>c, <2>0, <2>1, <3>1, Passing DEF ExactInv, ContainerTypeOK
      <3> QED
        BY <3>3, <3>4, <3>5, ZenonT(60)
    <2>2. CASE active_index[r_slot] # r_count
      <3>1. r_count' = active_index[r_slot] /\ r_pc' = "copy" /\ r_slot' = r_slot
        BY <1>5, <2>2, ZenonT(60) DEF UpdateConfirm
      <3>2. ReaderInv' /\ SnapshotNeverTorn'
        BY <1>s, <2>0, <3>1 DEF ReaderInv, Copying, SnapshotNeverTorn, ContainerTypeOK
      <3>3. ExactInv'
        BY <1>s, <2>0, <3>1, ZenonT(60) DEF ExactInv
      <3> QED
        BY <3>2, <3>3, ZenonT(60)
    <2> QED
      BY <2>1, <2>2, ZenonT(60)
  <1> QED
    BY <1>1, <1>2, <1>3, <1>4, <1>5, ZenonT(60) DEF UpdateState

--------------------------------------------------------------------------------
(* The invariant is inductive.                                                    *)
LEMMA ContainerStepInv == ContainerInv /\ [ContainerNext]_containerVars => ContainerInv'
  <1> SUFFICES ASSUME ContainerInv, [ContainerNext]_containerVars PROVE ContainerInv'
    BY ZenonT(60)
  <1>1. ASSUME NEW w \in Writers, WriterStep(w) PROVE ContainerInv'
    BY <1>1, WriterType, WriterSlots, WriterData, WriterReader, ZenonT(60) DEF ContainerInv
  <1>2. CASE UpdateState
    <2>1. UNCHANGED <<shared, writer, history>>
      BY <1>2, ZenonT(60) DEF UpdateState, UpdateBegin, UpdateLoad, UpdateBeginCopy, UpdateEndCopy, UpdateConfirm
    <2>2. WriterInv' /\ DataInv'
      BY <2>1, ZenonT(60) DEF ContainerInv, WriterInv, DataInv, Owns, Filling, shared, writer, history
    <2> QED
      BY <1>2, <2>2, ReaderType, ReaderReader, ZenonT(60) DEF ContainerInv
  <1>3. CASE UNCHANGED containerVars
    BY <1>3, ZenonT(60) DEF containerVars, shared, writer, reader, history, ContainerInv, ContainerTypeOK,
                WriterInv, DataInv, Owns, Filling, ReaderInv, Copying, SnapshotNeverTorn, ExactInv
  <1> QED
    BY <1>1, <1>2, <1>3, ZenonT(60) DEF ContainerNext, WriterStep

(* It holds in every reachable state.                                             *)
LEMMA ContainerInvariance == ContainerSpec => []ContainerInv
  BY ContainerInitInv, ContainerStepInv, PTL DEF ContainerSpec

(* for_each() never passes a torn value, nor that of another generation, whatever *)
(* add() and remove() do while update_state() copies.                             *)
THEOREM SnapshotIsNeverTorn == ContainerSpec => []SnapshotNeverTorn
  <1>1. ContainerInv => SnapshotNeverTorn
    BY ZenonT(60) DEF ContainerInv
  <1> QED
    BY <1>1, ContainerInvariance, PTL

(* The early return of update_state() misses nothing that was counted.            *)
THEOREM SnapshotIsExact == ContainerSpec => []SnapshotExact
  <1>1. ContainerInv => SnapshotExact
    BY ZenonT(60) DEF ContainerInv, ExactInv, SnapshotExact
  <1> QED
    BY <1>1, ContainerInvariance, PTL

(* No slot is lost but with a writer that died, and none has two owners.          *)
THEOREM SlotsStayAccounted == ContainerSpec => []SlotsAccounted
  <1>1. ContainerInv => SlotsAccounted
    <2> SUFFICES ASSUME ContainerInv PROVE SlotsAccounted
      BY ZenonT(60)
    <2> DEFINE Held == {w_slot[w] : w \in {v \in Writers : w_pc[v] # "remove_count"}} \ {0}
    <2>1. ContainerTypeOK /\ WriterInv
      BY ZenonT(60) DEF ContainerInv
    <2>2. \A w \in Writers : w_slot[w] # 0 => w_slot[w] \in Slots
      BY <2>1 DEF ContainerTypeOK, Slots
    <2>3. ASSUME NEW i \in Slots \ (free \cup handles) PROVE i \in Held
      <3>1. 0 \notin Slots
        BY SMTT(30) DEF Slots
      <3> QED
        BY <2>1, <3>1 DEF WriterInv, Owns
    <2>4. ASSUME NEW i \in Held PROVE i \in Slots \ (free \cup handles)
      BY <2>1, <2>2 DEF WriterInv, Owns
    <2>5. Slots \ (free \cup handles) = Held
      BY <2>3, <2>4, ZenonT(60)
    <2> QED
      BY <2>1, <2>5, ZenonT(60) DEF SlotsAccounted, WriterInv
  <1> QED
    BY <1>1, ContainerInvariance, PTL

(* After the last removal with LockIfLastIndex nothing is added or changed.       *)
THEOREM LockIsFinal == ContainerSpec => LockedStaysEmpty
  <1>1. ContainerInv /\ [ContainerNext]_containerVars
          => [locked => locked' /\ handles' = {} /\ active_index' = active_index]_containerVars
    <2> SUFFICES ASSUME ContainerInv, ContainerNext, locked
                 PROVE  locked' /\ handles' = {} /\ active_index' = active_index
      BY ZenonT(60)
    <2>1. ContainerTypeOK /\ WriterInv /\ free = Slots
      BY ZenonT(60) DEF ContainerInv, WriterInv
    <2>2. handles = {} /\ 0 \notin Slots
      BY <2>1 DEF ContainerTypeOK, WriterInv, Slots
    <2>3. \A w \in Writers : w_pc[w] \in {"idle", "remove_count", "dead"}
      BY <2>1, <2>2 DEF ContainerTypeOK, WriterInv, Owns
    <2>4. ASSUME NEW w \in Writers, WriterStep(w)
          PROVE  locked' /\ handles' = {} /\ active_index' = active_index
      BY <2>1, <2>2, <2>3, <2>4, ZenonT(60) DEF WriterStep, Add, Remove, AddAcquire, AddBeginCopy, AddEndCopy,
         AddActivate, AddCount, RemoveDeactivate, RemoveRelease, RemoveCount, Die, shared
    <2>5. CASE UpdateState
      BY <2>2, <2>5, ZenonT(60) DEF UpdateState, UpdateBegin, UpdateLoad, UpdateBeginCopy, UpdateEndCopy,
         UpdateConfirm, shared, history
    <2> QED
      BY <2>4, <2>5, ZenonT(60) DEF ContainerNext, WriterStep
  <1> QED
    BY <1>1, ContainerInvariance, PTL DEF ContainerSpec, LockedStaysEmpty
================================================================================
