------------------- MODULE SafelyOverflowingIndexQueueProofs -------------------
(* Proofs about SafelyOverflowingIndexQueue for every capacity.                  *)
EXTENDS SafelyOverflowingIndexQueue, Integers, TLAPS

(* The values pushed at the positions a, ..., b - 1.                              *)
Window(a, b) == [i \in 1..(b - a) |-> a + i]

(* Sequences with the same elements are equal.                                    *)
LEMMA SameSequence ==
  ASSUME NEW s \in Seq(Nat), NEW t \in Seq(Nat), Len(s) = Len(t),
         \A i \in 1..Len(s) : s[i] = t[i]
  PROVE  s = t
  BY SMTT(30)

(* A window is a sequence.                                                        *)
LEMMA WindowSeq ==
  ASSUME NEW a \in Nat, NEW b \in Nat, a <= b
  PROVE  Window(a, b) \in Seq(Nat) /\ Len(Window(a, b)) = b - a
  <1>1. b - a \in Nat
    OBVIOUS
  <1>2. Window(a, b) \in [1..(b - a) -> Nat]
    BY DEF Window
  <1> QED
    BY <1>1, <1>2

(* The next push extends it at the end.                                           *)
LEMMA WindowAppend ==
  ASSUME NEW a \in Nat, NEW b \in Nat, a <= b
  PROVE  Append(Window(a, b), b + 1) = Window(a, b + 1)
  <1> DEFINE s == Append(Window(a, b), b + 1)
             t == Window(a, b + 1)
  <1>1. Window(a, b) \in Seq(Nat) /\ Len(Window(a, b)) = b - a
    BY WindowSeq
  <1>2. t \in Seq(Nat) /\ Len(t) = (b + 1) - a
    BY WindowSeq
  <1>3. s \in Seq(Nat) /\ Len(s) = (b + 1) - a
    BY <1>1
  <1>4. \A i \in 1..Len(s) : s[i] = t[i]
    <2> SUFFICES ASSUME NEW i \in 1..((b + 1) - a) PROVE s[i] = t[i]
      BY <1>3
    <2>1. CASE i = (b - a) + 1
      <3>1. s[i] = b + 1
        BY <1>1, <2>1
      <3>2. t[i] = a + i
        BY DEF Window
      <3>3. a + i = b + 1
        BY <2>1
      <3> QED
        BY <3>1, <3>2, <3>3, ZenonT(60)
    <2>2. CASE i \in 1..(b - a)
      BY <1>1, <2>2 DEF Window
    <2>3. i = (b - a) + 1 \/ i \in 1..(b - a)
      OBVIOUS
    <2> QED
      BY <2>1, <2>2, <2>3, ZenonT(60)
  <1> QED
    BY <1>2, <1>3, <1>4, SameSequence, ZenonT(60)

(* What leaves it is the oldest value.                                            *)
LEMMA WindowHead ==
  ASSUME NEW a \in Nat, NEW b \in Nat, a < b
  PROVE  /\ Window(a, b) # <<>> /\ Head(Window(a, b)) = a + 1
         /\ Tail(Window(a, b)) = Window(a + 1, b)
  <1>1. Window(a, b) \in Seq(Nat) /\ Len(Window(a, b)) = b - a /\ Window(a, b) # <<>>
    BY WindowSeq
  <1>2. Head(Window(a, b)) = a + 1
    BY <1>1 DEF Window
  <1>3. Tail(Window(a, b)) = Window(a + 1, b)
    <2> DEFINE s == Tail(Window(a, b))
               t == Window(a + 1, b)
    <2>1. t \in Seq(Nat) /\ Len(t) = b - (a + 1)
      BY WindowSeq
    <2>2. s \in Seq(Nat) /\ Len(s) = b - (a + 1)
      BY <1>1
    <2>3. \A i \in 1..Len(s) : s[i] = t[i]
      <3> SUFFICES ASSUME NEW i \in 1..(b - (a + 1)) PROVE s[i] = t[i]
        BY <2>2
      <3>1. s[i] = Window(a, b)[i + 1]
        BY <1>1
      <3>2. i + 1 \in 1..(b - a)
        OBVIOUS
      <3> QED
        BY <3>1, <3>2 DEF Window
    <2> QED
      BY <2>1, <2>2, <2>3, SameSequence, ZenonT(60)
  <1> QED
    BY <1>1, <1>2, <1>3

--------------------------------------------------------------------------------

(* What push() knows: its read_position may be stale but never so old that the   *)
(* test for a full queue misses.                                                 *)
ProducerInv ==
    /\ p_rp <= read_position
    /\ p_pc \notin {"evict", "read_old"} => write_position <= p_rp + Capacity
    /\ p_pc \in {"evict", "read_old"} => write_position = p_rp + Capacity + 1
    /\ p_pc = "not_full" => write_position < p_rp + Capacity
    /\ p_pc = "read_old" => p_rp < read_position /\ data[at(p_rp)] = Val(p_rp)
    /\ p_pc = "publish" => data[at(write_position)] = Val(write_position)

(* What pop() knows: read_position only runs ahead of either position it has     *)
(* seen through a recycling push, and the last of those left the queue full.     *)
ConsumerInv ==
    /\ c_rp <= read_position /\ c_wp <= write_position
    /\ c_rp < read_position => read_position + Capacity <= write_position
    /\ c_wp < read_position => read_position + Capacity <= write_position
    /\ c_pc \in {"read", "cas"} => c_rp # c_wp
    /\ c_pc \in {"has_data", "read", "cas"} => read_position < write_position
    /\ c_pc = "cas" /\ c_rp = read_position => c_val = Val(c_rp)

(* The recycled indices come from positions push() has already seen passed.      *)
EvictedInv == \A i \in 1..Len(evicted) : evicted[i] \in 1..p_rp

(* The inductive invariant.                                                      *)
IInv == /\ TypeOK /\ PositionsBounded /\ UnreadSlotsIntact
        /\ ProducerInv /\ ConsumerInv
        /\ ReturnedExactlyOnce /\ EvictedInv

--------------------------------------------------------------------------------
(* at() maps a position to one of the Capacity + 1 slots.                        *)
LEMMA SlotInRange == ASSUME NEW p \in Nat PROVE at(p) \in 0..Capacity
  BY CapacityAssumption DEF at

(* Positions less than Capacity + 1 apart never share a slot.                    *)
LEMMA SlotsDistinct ==
  ASSUME NEW p \in Nat, NEW q \in Nat, p < q, q <= p + Capacity
  PROVE  at(p) # at(q)
  BY CapacityAssumption DEF at

USE CapacityAssumption, MaxPushAssumption, TornAssumption

(* The empty queue satisfies the invariant.                                       *)
LEMMA InitIInv == Init => IInv
  BY SlotInRange DEF Init, IInv, TypeOK, PositionsBounded, UnreadSlotsIntact, ProducerInv,
     ConsumerInv, EvictedInv, ReturnedExactlyOnce, Increasing, Returned,
     PendingEviction

(* Every step keeps the types, once the other facts say what a slot holds.       *)
LEMMA StepTypeOK == IInv /\ [Next]_vars => TypeOK'
  <1> SUFFICES ASSUME IInv, [Next]_vars PROVE TypeOK'
    OBVIOUS
  <1> USE DEF TypeOK, IInv
  <1>1. CASE PushLoadReadPosition
    BY <1>1 DEF PushLoadReadPosition, consumerVars, history
  <1>2. CASE PushBeginWrite
    BY <1>2, SlotInRange, ZenonT(60) DEF PushBeginWrite, consumerVars, history
  <1>3. CASE PushEndWrite
    <2>1. Val(write_position) \in Nat \cup {Torn}
      BY DEF Val
    <2> QED
      BY <1>3, <2>1, ZenonT(60) DEF PushEndWrite, consumerVars, history
  <1>4. CASE PushPublish
    BY <1>4 DEF PushPublish, consumerVars, history
  <1>5. CASE PushEvict
    BY <1>5 DEF PushEvict, consumerVars, history
  <1>6. CASE PushEvictFailed
    BY <1>6 DEF PushEvictFailed, consumerVars, history
  <1>7. CASE PushReadOld
    BY <1>7 DEF PushReadOld, ProducerInv, Val, consumerVars
  <1>8. CASE PopLoadReadPosition
    BY <1>8 DEF PopLoadReadPosition, producerVars, history
  <1>9. CASE PopLoadWritePosition
    BY <1>9 DEF PopLoadWritePosition, producerVars, history
  <1>10. CASE PopReadSlot
    BY <1>10, SlotInRange, ZenonT(60) DEF PopReadSlot, producerVars, history
  <1>11. CASE PopExchange
    BY <1>11 DEF PopExchange, ConsumerInv, Val, producerVars
  <1>12. CASE PopExchangeFailed
    BY <1>12 DEF PopExchangeFailed, producerVars, history
  <1>13. CASE IsFull
    BY <1>13 DEF IsFull, consumerVars, history
  <1>14. CASE IsEmpty
    BY <1>14 DEF IsEmpty, producerVars, history
  <1>15. CASE UNCHANGED vars
    BY <1>15 DEF vars, producerVars, consumerVars, history
  <1> QED
    BY <1>1, <1>2, <1>3, <1>4, <1>5, <1>6, <1>7, <1>8, <1>9, <1>10, <1>11, <1>12, <1>13, <1>14, <1>15
    DEF Next, Push, Pop
(* pop() cannot overtake push(), and push() recycles in time. *)
LEMMA StepPositions == IInv /\ [Next]_vars => PositionsBounded'
  <1> SUFFICES ASSUME IInv, [Next]_vars PROVE PositionsBounded'
    OBVIOUS
  <1> USE DEF PositionsBounded, IInv, TypeOK, ProducerInv, ConsumerInv
  <1>1. CASE PushLoadReadPosition
    BY <1>1 DEF PushLoadReadPosition, consumerVars, history
  <1>2. CASE PushBeginWrite
    BY <1>2 DEF PushBeginWrite, consumerVars, history
  <1>3. CASE PushEndWrite
    BY <1>3 DEF PushEndWrite, consumerVars, history
  <1>4. CASE PushPublish
    BY <1>4 DEF PushPublish, consumerVars, history
  <1>5. CASE PushEvict
    BY <1>5 DEF PushEvict, consumerVars, history
  <1>6. CASE PushEvictFailed
    BY <1>6 DEF PushEvictFailed, consumerVars, history
  <1>7. CASE PushReadOld
    BY <1>7 DEF PushReadOld, consumerVars
  <1>8. CASE PopLoadReadPosition
    BY <1>8 DEF PopLoadReadPosition, producerVars, history
  <1>9. CASE PopLoadWritePosition
    BY <1>9 DEF PopLoadWritePosition, producerVars, history
  <1>10. CASE PopReadSlot
    BY <1>10 DEF PopReadSlot, producerVars, history
  <1>11. CASE PopExchange
    BY <1>11 DEF PopExchange, producerVars
  <1>12. CASE PopExchangeFailed
    BY <1>12 DEF PopExchangeFailed, producerVars, history
  <1>13. CASE IsFull
    BY <1>13 DEF IsFull, consumerVars, history
  <1>14. CASE IsEmpty
    BY <1>14 DEF IsEmpty, producerVars, history
  <1>15. CASE UNCHANGED vars
    BY <1>15 DEF vars, producerVars, consumerVars, history
  <1> QED
    BY <1>1, <1>2, <1>3, <1>4, <1>5, <1>6, <1>7, <1>8, <1>9, <1>10, <1>11, <1>12, <1>13, <1>14, <1>15
    DEF Next, Push, Pop

(* The slot push() writes belongs to no unread position. *)
LEMMA StepSlots == IInv /\ [Next]_vars => UnreadSlotsIntact'
  <1> SUFFICES ASSUME IInv, [Next]_vars PROVE UnreadSlotsIntact'
    OBVIOUS
  <1> USE DEF UnreadSlotsIntact, IInv, TypeOK, ProducerInv, PositionsBounded
  <1>1. CASE PushLoadReadPosition
    BY <1>1 DEF PushLoadReadPosition, consumerVars, history
  <1>2. CASE PushBeginWrite
    <2> SUFFICES ASSUME NEW p \in read_position..(write_position - 1)
                 PROVE  data'[at(p)] = Val(p)
      BY <1>2 DEF PushBeginWrite
    <2>1. p \in Nat /\ p < write_position /\ write_position <= p + Capacity
      BY <1>2 DEF PushBeginWrite
    <2>2. at(p) # at(write_position) /\ at(p) \in 0..Capacity
      BY <2>1, SlotsDistinct, SlotInRange, ZenonT(60)
    <2> QED
      BY <1>2, <2>2 DEF PushBeginWrite
  <1>3. CASE PushEndWrite
    <2> SUFFICES ASSUME NEW p \in read_position..(write_position - 1)
                 PROVE  data'[at(p)] = Val(p)
      BY <1>3 DEF PushEndWrite
    <2>1. p \in Nat /\ p < write_position /\ write_position <= p + Capacity
      BY <1>3 DEF PushEndWrite
    <2>2. at(p) # at(write_position) /\ at(p) \in 0..Capacity
      BY <2>1, SlotsDistinct, SlotInRange, ZenonT(60)
    <2> QED
      BY <1>3, <2>2 DEF PushEndWrite
  <1>4. CASE PushPublish
    BY <1>4 DEF PushPublish, consumerVars, history
  <1>5. CASE PushEvict
    BY <1>5 DEF PushEvict, consumerVars, history
  <1>6. CASE PushEvictFailed
    BY <1>6 DEF PushEvictFailed, consumerVars, history
  <1>7. CASE PushReadOld
    BY <1>7 DEF PushReadOld, consumerVars
  <1>8. CASE PopLoadReadPosition
    BY <1>8 DEF PopLoadReadPosition, producerVars, history
  <1>9. CASE PopLoadWritePosition
    BY <1>9 DEF PopLoadWritePosition, producerVars, history
  <1>10. CASE PopReadSlot
    BY <1>10 DEF PopReadSlot, producerVars, history
  <1>11. CASE PopExchange
    BY <1>11 DEF PopExchange, producerVars
  <1>12. CASE PopExchangeFailed
    BY <1>12 DEF PopExchangeFailed, producerVars, history
  <1>13. CASE IsFull
    BY <1>13 DEF IsFull, consumerVars, history
  <1>14. CASE IsEmpty
    BY <1>14 DEF IsEmpty, producerVars, history
  <1>15. CASE UNCHANGED vars
    BY <1>15, SMTT(30) DEF vars, producerVars, consumerVars, history
  <1> QED
    BY <1>1, <1>2, <1>3, <1>4, <1>5, <1>6, <1>7, <1>8, <1>9, <1>10, <1>11, <1>12, <1>13, <1>14, <1>15
    DEF Next, Push, Pop

(* What push() knows stays true while pop() runs. *)
LEMMA StepProducer == IInv /\ [Next]_vars => ProducerInv'
  <1> SUFFICES ASSUME IInv, [Next]_vars PROVE ProducerInv'
    OBVIOUS
  <1> USE DEF ProducerInv, IInv, TypeOK, PositionsBounded, UnreadSlotsIntact
  <1>1. CASE PushLoadReadPosition
    BY <1>1 DEF PushLoadReadPosition, consumerVars, history
  <1>2. CASE PushBeginWrite
    BY <1>2, SlotInRange, SlotsDistinct DEF PushBeginWrite, consumerVars, history
  <1>3. CASE PushEndWrite
    BY <1>3, SlotInRange, SlotsDistinct DEF PushEndWrite, consumerVars, history
  <1>4. CASE PushPublish
    BY <1>4 DEF PushPublish, consumerVars, history
  <1>5. CASE PushEvict
    BY <1>5 DEF PushEvict, consumerVars, history
  <1>6. CASE PushEvictFailed
    BY <1>6 DEF PushEvictFailed, consumerVars, history
  <1>7. CASE PushReadOld
    BY <1>7 DEF PushReadOld, consumerVars
  <1>8. CASE PopLoadReadPosition
    BY <1>8 DEF PopLoadReadPosition, producerVars, history
  <1>9. CASE PopLoadWritePosition
    BY <1>9 DEF PopLoadWritePosition, producerVars, history
  <1>10. CASE PopReadSlot
    BY <1>10 DEF PopReadSlot, producerVars, history
  <1>11. CASE PopExchange
    BY <1>11 DEF PopExchange, producerVars
  <1>12. CASE PopExchangeFailed
    BY <1>12 DEF PopExchangeFailed, producerVars, history
  <1>13. CASE IsFull
    BY <1>13 DEF IsFull, consumerVars, history
  <1>14. CASE IsEmpty
    BY <1>14 DEF IsEmpty, producerVars, history
  <1>15. CASE UNCHANGED vars
    BY <1>15, SMTT(30) DEF vars, producerVars, consumerVars, history
  <1> QED
    BY <1>1, <1>2, <1>3, <1>4, <1>5, <1>6, <1>7, <1>8, <1>9, <1>10, <1>11, <1>12, <1>13, <1>14, <1>15
    DEF Next, Push, Pop

(* What pop() knows stays true while push() runs. *)
LEMMA StepConsumer == IInv /\ [Next]_vars => ConsumerInv'
  <1> SUFFICES ASSUME IInv, [Next]_vars PROVE ConsumerInv'
    OBVIOUS
  <1> USE DEF ConsumerInv, IInv, TypeOK, PositionsBounded, UnreadSlotsIntact, ProducerInv
  <1>1. CASE PushLoadReadPosition
    BY <1>1 DEF PushLoadReadPosition, consumerVars, history
  <1>2. CASE PushBeginWrite
    BY <1>2 DEF PushBeginWrite, consumerVars, history
  <1>3. CASE PushEndWrite
    BY <1>3 DEF PushEndWrite, consumerVars, history
  <1>4. CASE PushPublish
    BY <1>4 DEF PushPublish, consumerVars, history
  <1>5. CASE PushEvict
    BY <1>5 DEF PushEvict, consumerVars, history
  <1>6. CASE PushEvictFailed
    BY <1>6 DEF PushEvictFailed, consumerVars, history
  <1>7. CASE PushReadOld
    BY <1>7 DEF PushReadOld, consumerVars
  <1>8. CASE PopLoadReadPosition
    BY <1>8 DEF PopLoadReadPosition, producerVars, history
  <1>9. CASE PopLoadWritePosition
    BY <1>9 DEF PopLoadWritePosition, producerVars, history
  <1>10. CASE PopReadSlot
    BY <1>10 DEF PopReadSlot, producerVars, history
  <1>11. CASE PopExchange
    BY <1>11 DEF PopExchange, producerVars
  <1>12. CASE PopExchangeFailed
    BY <1>12 DEF PopExchangeFailed, producerVars, history
  <1>13. CASE IsFull
    BY <1>13 DEF IsFull, consumerVars, history
  <1>14. CASE IsEmpty
    BY <1>14 DEF IsEmpty, producerVars, history
  <1>15. CASE UNCHANGED vars
    BY <1>15 DEF vars, producerVars, consumerVars, history
  <1> QED
    BY <1>1, <1>2, <1>3, <1>4, <1>5, <1>6, <1>7, <1>8, <1>9, <1>10, <1>11, <1>12, <1>13, <1>14, <1>15
    DEF Next, Push, Pop

(* Appending the next position's value to a history of smaller ones.              *)
LEMMA AppendReturned ==
  ASSUME NEW s \in Seq(Nat), NEW n \in Nat, Increasing(s),
         \A i \in 1..Len(s) : s[i] \in 1..n
  PROVE  LET t == Append(s, Val(n)) IN
         /\ Increasing(t)
         /\ \A i \in 1..Len(t) : t[i] \in 1..(n + 1)
         /\ \A p \in Nat : Returned(t, p) <=> Returned(s, p) \/ p = n
         /\ ~ Returned(s, n)
  <1> DEFINE t == Append(s, Val(n))
  <1>1. /\ t \in Seq(Nat) /\ Len(s) \in Nat /\ Len(t) = Len(s) + 1
        /\ \A i \in 1..Len(s) : t[i] = s[i]
        /\ t[Len(t)] = n + 1
    BY DEF Val
  <1>2. \A i \in 1..Len(t) : i = Len(t) \/ i \in 1..Len(s)
    BY <1>1
  <1>3. Increasing(t)
    BY <1>1, <1>2 DEF Increasing
  <1>4. \A i \in 1..Len(t) : t[i] \in 1..(n + 1)
    BY <1>1, <1>2
  <1>5. ~ Returned(s, n)
    BY DEF Returned, Val
  <1>6. \A p \in Nat : Returned(t, p) <=> Returned(s, p) \/ p = n
    <2> SUFFICES ASSUME NEW p \in Nat PROVE Returned(t, p) <=> Returned(s, p) \/ p = n
      OBVIOUS
    <2>1. Returned(t, p) => Returned(s, p) \/ p = n
      BY <1>1, <1>2 DEF Returned, Val
    <2>2. Returned(s, p) => Returned(t, p)
      BY <1>1 DEF Returned, Val
    <2>3. Returned(t, n)
      BY <1>1 DEF Returned, Val
    <2> QED
      BY <2>1, <2>2, <2>3
  <1> QED
    BY <1>3, <1>4, <1>5, <1>6

(* ReturnedExactlyOnce and EvictedInv as facts about values, so that they can be  *)
(* instantiated before and after a step.                                          *)
Within(s, n) == \A i \in 1..Len(s) : s[i] \in 1..n

ExactlyOnce(pop, ev, rp, pending) ==
    \A p \in 0..(rp - 1) :
       IF p \in pending THEN ~ Returned(pop, p) /\ ~ Returned(ev, p)
                        ELSE Returned(pop, p) <=> ~ Returned(ev, p)

Accounted(pop, ev, rp, pending) ==
    /\ Increasing(pop) /\ Increasing(ev) /\ Within(pop, rp) /\ Within(ev, rp)
    /\ ExactlyOnce(pop, ev, rp, pending)

(* A sequence within n is within every larger bound.                              *)
LEMMA WithinMonotone ==
  ASSUME NEW s \in Seq(Nat), NEW n \in Nat, NEW m \in Nat, n <= m, Within(s, n)
  PROVE  Within(s, m)
  BY DEF Within

(* A value beyond the bound was not returned yet.                                 *)
LEMMA NotYetReturned ==
  ASSUME NEW s \in Seq(Nat), NEW n \in Nat, Within(s, n)
  PROVE  ~ Returned(s, n)
  BY DEF Within, Returned, Val

(* push() takes the oldest index out of the queue.                                *)
LEMMA AccountEvict ==
  ASSUME NEW pop \in Seq(Nat), NEW ev \in Seq(Nat), NEW rp \in Nat,
         Accounted(pop, ev, rp, {})
  PROVE  Accounted(pop, ev, rp + 1, {rp})
  <1>1. \A p \in 0..(rp + 1 - 1) : p = rp \/ (p # rp /\ p \in 0..(rp - 1))
    OBVIOUS
  <1>2. ExactlyOnce(pop, ev, rp + 1, {rp})
    BY <1>1, NotYetReturned DEF Accounted, ExactlyOnce
  <1> QED
    BY <1>2, WithinMonotone DEF Accounted

(* push() returns the recycled index.                                             *)
LEMMA AccountReadOld ==
  ASSUME NEW pop \in Seq(Nat), NEW ev \in Seq(Nat), NEW rp \in Nat, NEW n \in Nat,
         n < rp, Within(ev, n), Accounted(pop, ev, rp, {n})
  PROVE  /\ Accounted(pop, Append(ev, Val(n)), rp, {})
         /\ Within(Append(ev, Val(n)), n + 1)
  <1> DEFINE t == Append(ev, Val(n))
  <1>1. /\ Increasing(t) /\ Within(t, n + 1)
        /\ \A p \in Nat : Returned(t, p) <=> Returned(ev, p) \/ p = n
    BY AppendReturned DEF Accounted, Within
  <1>2. t \in Seq(Nat)
    BY DEF Val
  <1>3. ExactlyOnce(pop, t, rp, {})
    BY <1>1 DEF Accounted, ExactlyOnce
  <1>4. Within(t, rp)
    <2> HIDE DEF t
    <2>1. n + 1 \in Nat /\ n + 1 <= rp
      OBVIOUS
    <2> QED
      BY <1>1, <1>2, <2>1, WithinMonotone
  <1> QED
    BY <1>1, <1>3, <1>4 DEF Accounted

(* pop() takes the oldest index out of the queue and returns it.                  *)
LEMMA AccountPop ==
  ASSUME NEW pop \in Seq(Nat), NEW ev \in Seq(Nat), NEW rp \in Nat, NEW pending,
         rp \notin pending, Accounted(pop, ev, rp, pending)
  PROVE  Accounted(Append(pop, Val(rp)), ev, rp + 1, pending)
  <1> DEFINE t == Append(pop, Val(rp))
  <1>1. /\ Increasing(t) /\ Within(t, rp + 1)
        /\ \A p \in Nat : Returned(t, p) <=> Returned(pop, p) \/ p = rp
    BY AppendReturned, SMTT(30) DEF Accounted, Within
  <1>2. ~ Returned(ev, rp) /\ ~ Returned(pop, rp)
    BY NotYetReturned DEF Accounted
  <1>3. \A p \in 0..(rp + 1 - 1) : p \in Nat /\ (p = rp \/ (p # rp /\ p \in 0..(rp - 1)))
    OBVIOUS
  <1>4. ExactlyOnce(t, ev, rp + 1, pending)
    BY <1>1, <1>2, <1>3 DEF Accounted, ExactlyOnce
  <1> QED
    BY <1>1, <1>4, WithinMonotone DEF Accounted

(* An index leaves the queue through exactly one of the two exchanges.            *)
LEMMA StepReturned == IInv /\ [Next]_vars => ReturnedExactlyOnce' /\ EvictedInv'
  <1> SUFFICES ASSUME IInv, [Next]_vars PROVE ReturnedExactlyOnce' /\ EvictedInv'
    OBVIOUS
  <1>1. Accounted(popped, evicted, read_position, PendingEviction) /\ Within(evicted, p_rp)
    BY DEF IInv, ReturnedExactlyOnce, EvictedInv, Accounted, ExactlyOnce, Within
  <1>2. SUFFICES Accounted(popped', evicted', read_position', PendingEviction')
                 /\ Within(evicted', p_rp')
    BY <1>2 DEF ReturnedExactlyOnce, EvictedInv, Accounted, ExactlyOnce, Within, Increasing, Returned
  <1>3. /\ popped \in Seq(Nat) /\ evicted \in Seq(Nat) /\ read_position \in Nat /\ p_rp \in Nat
        /\ p_rp <= read_position
    BY DEF IInv, TypeOK, ProducerInv
  <1>4. CASE PushEvict
    <2>1. /\ UNCHANGED <<popped, evicted, p_rp>> /\ read_position' = read_position + 1
          /\ PendingEviction = {} /\ PendingEviction' = {read_position}
      BY <1>4 DEF PushEvict, PendingEviction, history
    <2> QED
      BY <1>1, <1>3, <2>1, AccountEvict
  <1>5. CASE PushReadOld
    <2>1. /\ UNCHANGED <<popped, read_position>> /\ evicted' = Append(evicted, Val(p_rp))
          /\ p_rp' = p_rp + 1 /\ p_rp < read_position
          /\ PendingEviction = {p_rp} /\ PendingEviction' = {}
      BY <1>5 DEF PushReadOld, PendingEviction, IInv, ProducerInv
    <2> QED
      BY <1>1, <1>3, <2>1, AccountReadOld
  <1>6. CASE PopExchange
    <2>1. /\ UNCHANGED <<evicted, p_rp>> /\ popped' = Append(popped, Val(read_position))
          /\ read_position' = read_position + 1
          /\ PendingEviction' = PendingEviction
      BY <1>6 DEF PopExchange, PendingEviction, IInv, ConsumerInv, producerVars
    <2>2. read_position \notin PendingEviction
      BY <1>3 DEF PendingEviction, IInv, ProducerInv
    <2> QED
      BY <1>1, <1>3, <2>1, <2>2, AccountPop
  <1>7. ASSUME ~ PushEvict, ~ PushReadOld, ~ PopExchange
        PROVE  Accounted(popped', evicted', read_position', PendingEviction')
               /\ Within(evicted', p_rp')
    <2>1. /\ UNCHANGED <<popped, evicted, read_position>>
          /\ PendingEviction' = PendingEviction /\ p_rp' \in Nat /\ p_rp <= p_rp'
      <3>0. p_rp \in Nat /\ read_position \in Nat
        BY <1>3
      <3>1. CASE Push
        BY <3>0, <1>7, <3>1 DEF Push, PushLoadReadPosition, PushBeginWrite, PushEndWrite,
           PushPublish, PushEvictFailed, history, PendingEviction
      <3>2. CASE Pop
        <4>1. UNCHANGED <<popped, evicted, read_position>> /\ p_pc' = p_pc /\ p_rp' = p_rp
          BY <1>7, <3>2, ZenonT(60) DEF Pop, PopLoadReadPosition, PopLoadWritePosition,
             PopReadSlot, PopExchangeFailed, producerVars, history
        <4> QED
          BY <3>0, <4>1 DEF PendingEviction
      <3>3. CASE IsFull \/ IsEmpty
        BY <3>0, <3>3 DEF IsFull, IsEmpty, producerVars, history, PendingEviction
      <3>4. CASE UNCHANGED vars
        BY <3>0, <3>4 DEF vars, producerVars, history, PendingEviction
      <3> QED
        BY <3>1, <3>2, <3>3, <3>4 DEF Next
    <2>2. Within(evicted, p_rp')
      BY <1>1, <1>3, <2>1, WithinMonotone
    <2> QED
      BY <1>1, <2>1, <2>2
  <1> QED
    BY <1>4, <1>5, <1>6, <1>7

(* IInv is an invariant of the queue.                                             *)
THEOREM Invariance == Spec => []IInv
  <1>1. IInv /\ [Next]_vars => IInv'
    BY StepTypeOK, StepPositions, StepSlots, StepProducer, StepConsumer, StepReturned DEF IInv
  <1> QED
    BY InitIInv, <1>1, PTL DEF Spec

(* push() and pop() keep the types and never return a torn index.                 *)
THEOREM TypeCorrect == Spec => []TypeOK
  <1>1. IInv => TypeOK
    BY DEF IInv
  <1> QED
    BY Invariance, <1>1, PTL

(* pop() never runs past push(), and the queue holds at most one index too many.  *)
THEOREM PositionsStayBounded == Spec => []PositionsBounded
  <1>1. IInv => PositionsBounded
    BY DEF IInv
  <1> QED
    BY Invariance, <1>1, PTL

(* No unread index is ever overwritten.                                           *)
THEOREM UnreadSlotsStayIntact == Spec => []UnreadSlotsIntact
  <1>1. IInv => UnreadSlotsIntact
    BY DEF IInv
  <1> QED
    BY Invariance, <1>1, PTL

(* Every index is handed out exactly once, in order: no loss, no duplicate.       *)
THEOREM HandedOutExactlyOnce == Spec => []ReturnedExactlyOnce
  <1>1. IInv => ReturnedExactlyOnce
    BY DEF IInv
  <1> QED
    BY Invariance, <1>1, PTL

(* is_full() never misses a full queue.                                           *)
THEOREM FullNeverMissed == Spec => []NotFullLeavesRoom
  <1>1. IInv => NotFullLeavesRoom
    BY DEF IInv, TypeOK, ProducerInv, NotFullLeavesRoom
  <1> QED
    BY Invariance, <1>1, PTL

(* A pop() whose check for an empty queue has passed finds an index.              *)
THEOREM DataNeverPromisedInVain == Spec => []HasDataNotEmpty
  <1>1. IInv => HasDataNotEmpty
    BY DEF IInv, ConsumerInv, HasDataNotEmpty
  <1> QED
    BY Invariance, <1>1, PTL

(* A push after is_full() answered false recycles nothing, and a pop() that has   *)
(* passed its check never runs past push(), however stale the positions compared. *)
THEOREM AnswersStayReliable == Spec => []AnswersReliable
  BY FullNeverMissed, DataNeverPromisedInVain, PTL DEF AnswersReliable

--------------------------------------------------------------------------------
(* The content of the queue, oldest index first.                                  *)
Contents == [i \in 1..(write_position - read_position) |-> data[at(read_position + i - 1)]]

(* It is the window between the two positions.                                    *)
IsWindow == Contents = Window(read_position, write_position)

(* A push begins only below the bound on the pushes.                              *)
WithinBound == p_pc \in {"write", "writing", "publish"} => write_position < MaxPush

(* The queue holds the values between the two positions.                          *)
LEMMA ContentsWindow == IInv => IsWindow
  <1> SUFFICES ASSUME IInv PROVE IsWindow
    OBVIOUS
  <1>0. write_position \in Nat /\ read_position \in Nat
    BY DEF IInv, TypeOK
  <1>1. \A i \in 1..(write_position - read_position) :
          data[at(read_position + i - 1)] = read_position + i
    <2> SUFFICES ASSUME NEW i \in 1..(write_position - read_position)
                 PROVE  data[at(read_position + i - 1)] = read_position + i
      OBVIOUS
    <2>1. read_position + i - 1 \in read_position..(write_position - 1)
      BY <1>0
    <2>2. Val(read_position + i - 1) = read_position + i
      BY <1>0 DEF Val
    <2> QED
      BY <2>1, <2>2 DEF IInv, UnreadSlotsIntact
  <1> QED
    BY <1>1 DEF IsWindow, Contents, Window

(* The bound stays.                                                               *)
LEMMA StepBound == ASSUME IInv, WithinBound, [Next]_vars PROVE WithinBound'
  BY DEF WithinBound, vars, Next, Push, Pop, PushLoadReadPosition, PushBeginWrite, PushEndWrite,
         PushPublish, PushEvict, PushEvictFailed, PushReadOld, PopLoadReadPosition,
         PopLoadWritePosition, PopReadSlot, PopExchange, PopExchangeFailed, IsFull, IsEmpty,
         producerVars

Overfull == p_pc = "evict" /\ read_position = p_rp

Recycled == IF p_pc = "read_old" THEN Append(evicted, data[at(p_rp)]) ELSE evicted

(* The steps that move a position are steps of the FIFO.                          *)
LEMMA FifoPush ==
  ASSUME IInv, WithinBound, IsWindow, IsWindow', PushPublish
  PROVE  Fifo!Push
  <1>1. /\ read_position \in Nat /\ write_position \in Nat /\ p_rp \in Nat
        /\ read_position <= write_position /\ p_rp <= read_position
        /\ write_position <= p_rp + Capacity
    BY DEF PushPublish, IInv, TypeOK, PositionsBounded, ProducerInv
  <1>2. write_position' = write_position + 1 /\ read_position' = read_position
    BY DEF PushPublish
  <1>3. Contents' = Append(Contents, write_position + 1)
    BY <1>1, <1>2, WindowAppend DEF IsWindow, Window
  <1>4. Len(Contents) = write_position - read_position
    BY <1>1, WindowSeq, ZenonT(60) DEF IsWindow
  <1>5. Overfull' <=> Len(Contents) = Capacity
    BY <1>1, <1>4 DEF PushPublish, Overfull
  <1>6. ~Overfull /\ Recycled' = Recycled
    BY DEF PushPublish, Overfull, Recycled, history
  <1>7. write_position < MaxPush /\ popped' = popped
    BY DEF PushPublish, WithinBound, history
  <1> QED
    BY <1>2, <1>3, <1>5, <1>6, <1>7, ZenonT(60) DEF Contents, Overfull, Recycled, Fifo!Push

(* The exchange of push() takes the oldest index back.                            *)
LEMMA FifoRecycle ==
  ASSUME IInv, IsWindow, IsWindow', PushEvict
  PROVE  Fifo!Recycle
  <1>1. /\ read_position \in Nat /\ write_position \in Nat
        /\ read_position < write_position /\ p_rp = read_position
    BY DEF PushEvict, IInv, TypeOK, ProducerInv
  <1>2. write_position' = write_position /\ read_position' = read_position + 1
    BY DEF PushEvict
  <1>3. Head(Contents) = read_position + 1 /\ Contents' = Tail(Contents)
    BY <1>1, <1>2, WindowHead DEF IsWindow, Window
  <1>4. data[at(p_rp)] = read_position + 1
    BY <1>1 DEF IInv, UnreadSlotsIntact, Val
  <1>5. Recycled' = Append(Recycled, Head(Contents))
    BY <1>3, <1>4 DEF PushEvict, Recycled, history
  <1>6. Overfull /\ ~Overfull' /\ popped' = popped
    BY DEF PushEvict, Overfull, history
  <1> QED
    BY <1>2, <1>3, <1>5, <1>6, ZenonT(60) DEF Contents, Overfull, Recycled, Fifo!Recycle

(* The exchange of pop() takes the oldest index.                                  *)
LEMMA FifoPop ==
  ASSUME IInv, IsWindow, IsWindow', PopExchange
  PROVE  Fifo!Pop
  <1>1. /\ read_position \in Nat /\ write_position \in Nat /\ p_rp \in Nat
        /\ read_position < write_position /\ p_rp <= read_position
        /\ c_rp = read_position /\ c_val = read_position + 1
    BY DEF PopExchange, IInv, TypeOK, ProducerInv, ConsumerInv, Val
  <1>2. write_position' = write_position /\ read_position' = read_position + 1
    BY DEF PopExchange
  <1>3. Contents # <<>> /\ Head(Contents) = read_position + 1 /\ Contents' = Tail(Contents)
    <2>1. /\ Contents = Window(read_position, write_position)
          /\ Contents' = Window(read_position + 1, write_position)
      BY <1>2 DEF IsWindow, Window
    <2> QED
      BY <1>1, <2>1, WindowHead, ZenonT(60)
  <1>4. popped' = Append(popped, Head(Contents))
    BY <1>1, <1>3 DEF PopExchange
  <1>5. ~Overfull' /\ Recycled' = Recycled
    BY <1>1 DEF PopExchange, Overfull, Recycled, producerVars
  <1> QED
    BY <1>2, <1>3, <1>4, <1>5, ZenonT(60) DEF Contents, Overfull, Recycled, Fifo!Pop

(* No other access is visible.                                                    *)
LEMMA FifoStutter ==
  ASSUME IInv, IsWindow, IsWindow', [Next]_vars, ~PushPublish, ~PushEvict, ~PopExchange
  PROVE  UNCHANGED Fifo!fifoVars
  <1>1. UNCHANGED <<read_position, write_position, popped>>
    BY DEF vars, Next, Push, Pop, PushLoadReadPosition, PushBeginWrite, PushEndWrite,
       PushEvictFailed, PushReadOld, PopLoadReadPosition, PopLoadWritePosition, PopReadSlot,
       PopExchangeFailed, IsFull, IsEmpty, history
  <1>2. Contents' = Contents
    BY <1>1 DEF IsWindow, Window
  <1>3. (Overfull' <=> Overfull) /\ Recycled' = Recycled
    BY ZenonT(60) DEF Overfull, Recycled, vars, Next, Push, Pop, PushLoadReadPosition, PushBeginWrite,
       PushEndWrite, PushEvictFailed, PushReadOld, PopLoadReadPosition, PopLoadWritePosition,
       PopReadSlot, PopExchangeFailed, IsFull, IsEmpty, history, producerVars
  <1> QED
    BY <1>1, <1>2, <1>3 DEF Contents, Overfull, Recycled, Fifo!fifoVars

(* push() and pop() implement the overflowing FIFO, for every capacity.           *)
THEOREM QueueIsFifo == Spec => ImplementsFifo
  <1>1. Init => WithinBound /\ Fifo!Init
    <2> SUFFICES ASSUME Init PROVE WithinBound /\ Fifo!Init
      OBVIOUS
    <2>1. Contents = <<>>
      BY DEF Init, Contents
    <2> QED
      BY <2>1 DEF Init, Contents, WithinBound, Fifo!Init
  <1>2. IInv /\ WithinBound /\ [Next]_vars => WithinBound'
    BY StepBound
  <1>3. IInv /\ WithinBound /\ IsWindow /\ IsWindow' /\ [Next]_vars => [Fifo!Next]_(Fifo!fifoVars)
    BY FifoPush, FifoRecycle, FifoPop, FifoStutter DEF Fifo!Next
  <1> QED
    BY <1>1, <1>2, <1>3, Invariance, ContentsWindow, PTL DEF Spec, ImplementsFifo, Fifo!Spec

================================================================================
