------------------------ MODULE ZeroCopyConnectionProofs ------------------------
(* Proofs about ZeroCopyConnection for every buffer size, borrow limit and set    *)
(* of chunks.                                                                     *)
EXTENDS ZeroCopyConnection, Integers, FiniteSets, FiniteSetTheorems, TLAPS

Entries == [chunk: Chunks, seen: Nat]

(* No chunk is in two places.                                                     *)
Apart(sub, comp, h) ==
    /\ \A i, j \in 1..Len(sub) : sub[i].chunk = sub[j].chunk => i = j
    /\ \A i, j \in 1..Len(comp) : comp[i] = comp[j] => i = j
    /\ \A i \in 1..Len(sub) : sub[i].chunk \notin h
    /\ \A i \in 1..Len(comp) : comp[i] \notin h
    /\ \A i \in 1..Len(sub), j \in 1..Len(comp) : sub[i].chunk # comp[j]

(* The places a chunk can be in while it is used                                  *)
Located(c, sub, comp, h) ==
    \/ \E i \in 1..Len(sub) : sub[i].chunk = c
    \/ \E i \in 1..Len(comp) : comp[i] = c
    \/ c \in h

(* The used chunk list is the set of the chunks in some place.                    *)
Exact(used, sub, comp, h) ==
    \A c \in Chunks : c \in used <=> Located(c, sub, comp, h)

(* Whatever the receiver knows of the completion queue, now or after it takes the *)
(* first k offsets, the chunks it holds then fit behind what it believes to be    *)
(* unread.                                                                        *)
Room(sub, comp, rp, borrowed, s) ==
    /\ s <= rp /\ borrowed + rp + Len(comp) <= s + completion_queue_size
    /\ \A k \in 1..Len(sub) :
          /\ sub[k].seen <= rp
          /\ borrowed + k + rp + Len(comp) <= sub[k].seen + completion_queue_size

(* The queue holds one offset too many only until the push is finished.           *)
OverfullInv == overfull => s_pc = "pushed" /\ Len(submission) = submission_queue_size + 1

(* The receiver counts what it holds.                                             *)
BorrowInv == IsFiniteSet(held) /\ borrow_counter = Cardinality(held)

(* The inductive invariant.                                                       *)
IInv ==
    /\ TypeOK
    /\ AlwaysReturned /\ NeverCorrupted /\ CirculationBounded
    /\ OverfullInv /\ BorrowInv
    /\ Apart(submission, completion, held)
    /\ s_pc # "removed" => Exact(used_chunk_list, submission, completion, held)
    /\ Room(submission, completion, read_position, borrow_counter, seen)

USE SizeAssumption, MaxSendAssumption DEF Sending

------------------------------------------------------------------------------
(* Sequences                                                                      *)

(* What Head and Tail of a non-empty sequence are.                                *)
LEMMA TailFacts ==
  ASSUME NEW S, NEW q \in Seq(S), q # <<>>
  PROVE  /\ Len(q) \in Nat \ {0} /\ Head(q) = q[1] /\ Head(q) \in S
         /\ Tail(q) \in Seq(S) /\ Len(Tail(q)) = Len(q) - 1
         /\ \A k \in 1..Len(Tail(q)) : k + 1 \in 1..Len(q) /\ Tail(q)[k] = q[k + 1]
  OBVIOUS

(* What Append returns.                                                           *)
LEMMA AppendFacts ==
  ASSUME NEW S, NEW q \in Seq(S), NEW e \in S
  PROVE  /\ Len(q) \in Nat /\ Append(q, e) \in Seq(S) /\ Len(Append(q, e)) = Len(q) + 1
         /\ Append(q, e)[Len(q) + 1] = e
         /\ \A k \in 1..Len(q) : Append(q, e)[k] = q[k]
         /\ \A k \in 1..Len(Append(q, e)) : k \in 1..Len(q) \/ k = Len(q) + 1
  OBVIOUS

(* The fields of the entries of the submission queue.                             *)
LEMMA EntryFacts ==
  ASSUME NEW q \in Seq(Entries)
  PROVE  /\ Len(q) \in Nat
         /\ \A k \in 1..Len(q) : q[k].seen \in Nat /\ q[k].chunk \in Chunks
  <1>1. Len(q) \in Nat /\ \A k \in 1..Len(q) : q[k] \in Entries
    OBVIOUS
  <1> QED
    BY <1>1, ZenonT(60) DEF Entries

------------------------------------------------------------------------------
(* Chunks stay apart                                                              *)

(* A chunk that is nowhere may be sent.                                           *)
LEMMA ApartSend ==
  ASSUME NEW sub \in Seq(Entries), NEW comp \in Seq(Chunks), NEW h \in SUBSET Chunks,
         NEW e \in Entries, Apart(sub, comp, h), ~ Located(e.chunk, sub, comp, h)
  PROVE  Apart(Append(sub, e), comp, h)
  <1> DEFINE q == Append(sub, e)
  <1>1. /\ Len(sub) \in Nat /\ Len(q) = Len(sub) + 1 /\ q[Len(sub) + 1] = e
        /\ \A k \in 1..Len(sub) : q[k] = sub[k]
        /\ \A k \in 1..Len(q) : k \in 1..Len(sub) \/ k = Len(sub) + 1
    BY AppendFacts
  <1> HIDE DEF q
  <1>2. \A i \in 1..Len(sub) : sub[i].chunk # e.chunk
    BY ZenonT(60) DEF Located
  <1>3. \A i, j \in 1..Len(q) : q[i].chunk = q[j].chunk => i = j
    BY <1>1, <1>2, ZenonT(60) DEF Apart
  <1>4. \A i \in 1..Len(q) : q[i].chunk \notin h
    BY <1>1, ZenonT(60) DEF Apart, Located
  <1>5. \A i \in 1..Len(q), j \in 1..Len(comp) : q[i].chunk # comp[j]
    BY <1>1 DEF Apart, Located
  <1>6. Apart(q, comp, h)
    BY <1>3, <1>4, <1>5, ZenonT(60) DEF Apart
  <1> QED
    BY <1>6, ZenonT(60) DEF q

(* The first chunk of the submission queue may leave it, to the receiver or back. *)
LEMMA ApartTake ==
  ASSUME NEW sub \in Seq(Entries), NEW comp \in Seq(Chunks), NEW h \in SUBSET Chunks,
         sub # <<>>, Apart(sub, comp, h)
  PROVE  /\ Apart(Tail(sub), comp, h)
         /\ Apart(Tail(sub), comp, h \cup {Head(sub).chunk})
         /\ ~ Located(Head(sub).chunk, Tail(sub), comp, h)
  <1> DEFINE q == Tail(sub)
  <1>1. /\ Len(sub) \in Nat \ {0} /\ Head(sub) = sub[1] /\ Len(q) = Len(sub) - 1
        /\ \A k \in 1..Len(q) : k + 1 \in 1..Len(sub) /\ q[k] = sub[k + 1]
    BY TailFacts, ZenonT(60)
  <1> HIDE DEF q
  <1>2. \A i, j \in 1..Len(q) : q[i].chunk = q[j].chunk => i = j
    <2> SUFFICES ASSUME NEW i \in 1..Len(q), NEW j \in 1..Len(q), q[i].chunk = q[j].chunk
                 PROVE  i = j
      BY ZenonT(60)
    <2>1. i + 1 = j + 1
      BY <1>1, SMTT(30) DEF Apart
    <2> QED
      BY <2>1, <1>1
  <1>3. \A i \in 1..Len(q) : q[i].chunk \notin h
    BY <1>1, ZenonT(60) DEF Apart
  <1>4. ASSUME NEW i \in 1..Len(q), NEW j \in 1..Len(comp)
        PROVE  q[i].chunk # comp[j]
    <2>1. i + 1 \in 1..Len(sub) /\ q[i] = sub[i + 1]
      BY <1>1, ZenonT(60)
    <2> QED
      BY <2>1, ZenonT(60) DEF Apart
  <1>5. 1 \in 1..Len(sub) /\ \A i \in 1..Len(q) : i + 1 # 1
    BY <1>1
  <1>6. \A i \in 1..Len(q) : q[i].chunk # Head(sub).chunk
    <2> SUFFICES ASSUME NEW i \in 1..Len(q), q[i].chunk = Head(sub).chunk
                 PROVE  FALSE
      BY ZenonT(60)
    <2>1. i + 1 \in 1..Len(sub) /\ sub[i + 1].chunk = sub[1].chunk
      BY <1>1, ZenonT(60)
    <2>2. i + 1 = 1
      BY <2>1, <1>5, ZenonT(60) DEF Apart
    <2> QED
      BY <2>2, <1>5, ZenonT(60)
  <1>7. \A j \in 1..Len(comp) : comp[j] # Head(sub).chunk
    BY <1>1, <1>5 DEF Apart
  <1>8. Head(sub).chunk \notin h
    BY <1>1, <1>5, ZenonT(60) DEF Apart
  <1>9. Apart(q, comp, h)
    BY <1>2, <1>3, <1>4, ZenonT(60) DEF Apart
  <1>10. Apart(q, comp, h \cup {Head(sub).chunk})
    BY <1>2, <1>3, <1>4, <1>6, <1>7, ZenonT(60) DEF Apart
  <1>11. ~ Located(Head(sub).chunk, q, comp, h)
    BY <1>6, <1>7, <1>8, ZenonT(60) DEF Located
  <1> QED
    BY <1>9, <1>10, <1>11, ZenonT(60) DEF q

(* A held chunk may be returned.                                                  *)
LEMMA ApartRelease ==
  ASSUME NEW sub \in Seq(Entries), NEW comp \in Seq(Chunks), NEW h \in SUBSET Chunks,
         NEW c \in h, Apart(sub, comp, h)
  PROVE  Apart(sub, Append(comp, c), h \ {c})
  <1> DEFINE q == Append(comp, c)
  <1>1. /\ Len(comp) \in Nat /\ Len(q) = Len(comp) + 1 /\ q[Len(comp) + 1] = c
        /\ \A k \in 1..Len(comp) : q[k] = comp[k]
        /\ \A k \in 1..Len(q) : k \in 1..Len(comp) \/ k = Len(comp) + 1
    BY AppendFacts
  <1> HIDE DEF q
  <1>2. \A i, j \in 1..Len(q) : q[i] = q[j] => i = j
    BY <1>1, ZenonT(60) DEF Apart
  <1>3. \A i \in 1..Len(q) : q[i] \notin h \ {c}
    BY <1>1, ZenonT(60) DEF Apart
  <1>4. \A i \in 1..Len(sub), j \in 1..Len(q) : sub[i].chunk # q[j]
    BY <1>1, ZenonT(60) DEF Apart
  <1>5. Apart(sub, q, h \ {c})
    BY <1>2, <1>3, <1>4, ZenonT(60) DEF Apart
  <1> QED
    BY <1>5, ZenonT(60) DEF q

(* The first chunk of the completion queue may be reclaimed.                      *)
LEMMA ApartReclaim ==
  ASSUME NEW sub \in Seq(Entries), NEW comp \in Seq(Chunks), NEW h \in SUBSET Chunks,
         comp # <<>>, Apart(sub, comp, h)
  PROVE  /\ Apart(sub, Tail(comp), h)
         /\ ~ Located(Head(comp), sub, Tail(comp), h)
  <1> DEFINE q == Tail(comp)
  <1>1. /\ Len(comp) \in Nat \ {0} /\ Head(comp) = comp[1] /\ Len(q) = Len(comp) - 1
        /\ \A k \in 1..Len(q) : k + 1 \in 1..Len(comp) /\ q[k] = comp[k + 1]
    BY TailFacts, ZenonT(60)
  <1> HIDE DEF q
  <1>2. \A i, j \in 1..Len(q) : q[i] = q[j] => i = j
    <2> SUFFICES ASSUME NEW i \in 1..Len(q), NEW j \in 1..Len(q), q[i] = q[j]
                 PROVE  i = j
      BY ZenonT(60)
    <2>1. i + 1 = j + 1
      BY <1>1 DEF Apart
    <2> QED
      BY <2>1, <1>1
  <1>3. \A i \in 1..Len(q) : q[i] \notin h
    BY <1>1, ZenonT(60) DEF Apart
  <1>4. \A i \in 1..Len(sub), j \in 1..Len(q) : sub[i].chunk # q[j]
    BY <1>1 DEF Apart
  <1>5. 1 \in 1..Len(comp) /\ \A i \in 1..Len(q) : i + 1 # 1
    BY <1>1
  <1>6. \A i \in 1..Len(q) : q[i] # Head(comp)
    BY <1>1, <1>5 DEF Apart
  <1>7. /\ \A i \in 1..Len(sub) : sub[i].chunk # Head(comp)
        /\ Head(comp) \notin h
    BY <1>1, <1>5 DEF Apart
  <1>8. Apart(sub, q, h)
    BY <1>2, <1>3, <1>4, ZenonT(60) DEF Apart
  <1>9. ~ Located(Head(comp), sub, q, h)
    BY <1>6, <1>7, ZenonT(60) DEF Located
  <1> QED
    BY <1>8, <1>9, ZenonT(60) DEF q

------------------------------------------------------------------------------
(* The used chunk list stays exact                                                *)

(* Sending an offset puts it in the list and in the submission queue.             *)
LEMMA ExactSend ==
  ASSUME NEW sub \in Seq(Entries), NEW comp \in Seq(Chunks), NEW h \in SUBSET Chunks,
         NEW used, NEW e \in Entries, Exact(used, sub, comp, h)
  PROVE  Exact(used \cup {e.chunk}, Append(sub, e), comp, h)
  <1> DEFINE q == Append(sub, e)
  <1>1. /\ Len(sub) \in Nat /\ Len(q) = Len(sub) + 1 /\ q[Len(sub) + 1] = e
        /\ \A k \in 1..Len(sub) : q[k] = sub[k]
        /\ \A k \in 1..Len(q) : k \in 1..Len(sub) \/ k = Len(sub) + 1
    BY AppendFacts
  <1> HIDE DEF q
  <1>2. Len(sub) + 1 \in 1..Len(q) /\ \A k \in 1..Len(sub) : k \in 1..Len(q)
    BY <1>1
  <1>3. ASSUME NEW c \in Chunks
        PROVE  (\E i \in 1..Len(q) : q[i].chunk = c)
               <=> (\E i \in 1..Len(sub) : sub[i].chunk = c) \/ c = e.chunk
    BY <1>1, <1>2, ZenonT(60)
  <1>4. Exact(used \cup {e.chunk}, q, comp, h)
    BY <1>3, ZenonT(60) DEF Exact, Located
  <1> QED
    BY <1>4, ZenonT(60) DEF q

(* Where the first of a non-empty submission queue is                             *)
LEMMA LocatedTake ==
  ASSUME NEW sub \in Seq(Entries), sub # <<>>, NEW c
  PROVE  (\E i \in 1..Len(sub) : sub[i].chunk = c)
         <=> (\E i \in 1..Len(Tail(sub)) : Tail(sub)[i].chunk = c) \/ c = Head(sub).chunk
  <1> DEFINE q == Tail(sub)
  <1>1. /\ Len(sub) \in Nat \ {0} /\ Head(sub) = sub[1] /\ Len(q) = Len(sub) - 1
        /\ \A k \in 1..Len(q) : k + 1 \in 1..Len(sub) /\ q[k] = sub[k + 1]
    BY TailFacts, ZenonT(60)
  <1> HIDE DEF q
  <1>2. 1 \in 1..Len(sub) /\ \A k \in 1..Len(sub) : k = 1 \/ k - 1 \in 1..Len(q)
    BY <1>1
  <1>3. ASSUME NEW i \in 1..Len(sub), sub[i].chunk = c
        PROVE  (\E j \in 1..Len(q) : q[j].chunk = c) \/ c = Head(sub).chunk
    <2>1. CASE i = 1
      BY <2>1, <1>1, <1>3, ZenonT(60)
    <2>2. CASE i # 1
      <3>1. i - 1 \in 1..Len(q) /\ (i - 1) + 1 = i
        BY <2>2, <1>2
      <3>2. q[i - 1] = sub[i]
        BY <3>1, <1>1, ZenonT(60)
      <3> QED
        BY <3>1, <3>2, <1>3, ZenonT(60)
    <2> QED
      BY <2>1, <2>2, ZenonT(60)
  <1>4. (\E i \in 1..Len(sub) : sub[i].chunk = c)
        <=> (\E i \in 1..Len(q) : q[i].chunk = c) \/ c = Head(sub).chunk
    BY <1>1, <1>2, <1>3, ZenonT(60)
  <1> QED
    BY <1>4, ZenonT(60) DEF q

(* Receiving moves an offset from the submission queue to the receiver.           *)
LEMMA ExactReceive ==
  ASSUME NEW sub \in Seq(Entries), NEW comp \in Seq(Chunks), NEW h \in SUBSET Chunks,
         NEW used, sub # <<>>, Exact(used, sub, comp, h)
  PROVE  Exact(used, Tail(sub), comp, h \cup {Head(sub).chunk})
  BY LocatedTake, ZenonT(60) DEF Exact, Located

(* An evicted offset is in the list, and leaves it with the queue.                *)
LEMMA ExactEvict ==
  ASSUME NEW sub \in Seq(Entries), NEW comp \in Seq(Chunks), NEW h \in SUBSET Chunks,
         NEW used, sub # <<>>, Exact(used, sub, comp, h), Apart(sub, comp, h)
  PROVE  /\ Head(sub).chunk \in used
         /\ Exact(used \ {Head(sub).chunk}, Tail(sub), comp, h)
  <1>1. Head(sub).chunk \in Chunks
    <2>1. Head(sub) \in Entries
      BY TailFacts, ZenonT(60)
    <2> QED
      BY <2>1, ZenonT(60) DEF Entries
  <1>2. ~ Located(Head(sub).chunk, Tail(sub), comp, h)
    BY ApartTake, ZenonT(60)
  <1>3. \A c : Located(c, sub, comp, h) <=> Located(c, Tail(sub), comp, h) \/ c = Head(sub).chunk
    BY LocatedTake, ZenonT(60) DEF Located
  <1> HIDE DEF Located
  <1> QED
    BY <1>1, <1>2, <1>3, ZenonT(60) DEF Exact

(* Releasing moves an offset from the receiver to the completion queue.           *)
LEMMA ExactRelease ==
  ASSUME NEW sub \in Seq(Entries), NEW comp \in Seq(Chunks), NEW h \in SUBSET Chunks,
         NEW used, NEW c \in h, Exact(used, sub, comp, h)
  PROVE  Exact(used, sub, Append(comp, c), h \ {c})
  <1> DEFINE q == Append(comp, c)
  <1>1. /\ Len(comp) \in Nat /\ Len(q) = Len(comp) + 1 /\ q[Len(comp) + 1] = c
        /\ \A k \in 1..Len(comp) : q[k] = comp[k]
        /\ \A k \in 1..Len(q) : k \in 1..Len(comp) \/ k = Len(comp) + 1
    BY AppendFacts
  <1> HIDE DEF q
  <1>2. Len(comp) + 1 \in 1..Len(q) /\ \A k \in 1..Len(comp) : k \in 1..Len(q)
    BY <1>1
  <1>3. ASSUME NEW d \in Chunks
        PROVE  (\E i \in 1..Len(q) : q[i] = d) <=> (\E i \in 1..Len(comp) : comp[i] = d) \/ d = c
    BY <1>1, <1>2, ZenonT(60)
  <1>4. Exact(used, sub, q, h \ {c})
    BY <1>3, ZenonT(60) DEF Exact, Located
  <1> QED
    BY <1>4, ZenonT(60) DEF q

(* A reclaimed offset is in the list, and leaves it with the queue.               *)
LEMMA ExactReclaim ==
  ASSUME NEW sub \in Seq(Entries), NEW comp \in Seq(Chunks), NEW h \in SUBSET Chunks,
         NEW used, comp # <<>>, Exact(used, sub, comp, h), Apart(sub, comp, h)
  PROVE  /\ Head(comp) \in used
         /\ Exact(used \ {Head(comp)}, sub, Tail(comp), h)
  <1> DEFINE q == Tail(comp)
  <1>1. /\ Len(comp) \in Nat \ {0} /\ Head(comp) = comp[1] /\ Head(comp) \in Chunks
        /\ Len(q) = Len(comp) - 1
        /\ \A k \in 1..Len(q) : k + 1 \in 1..Len(comp) /\ q[k] = comp[k + 1]
    BY TailFacts, ZenonT(60)
  <1>2. ~ Located(Head(comp), sub, q, h)
    BY ApartReclaim, ZenonT(60)
  <1> HIDE DEF q
  <1>3. 1 \in 1..Len(comp) /\ \A k \in 1..Len(comp) : k = 1 \/ k - 1 \in 1..Len(q)
    BY <1>1
  <1>4. ASSUME NEW d, NEW i \in 1..Len(comp), comp[i] = d
        PROVE  (\E j \in 1..Len(q) : q[j] = d) \/ d = Head(comp)
    <2>1. CASE i = 1
      BY <2>1, <1>1, <1>4, ZenonT(60)
    <2>2. CASE i # 1
      <3>1. i - 1 \in 1..Len(q) /\ (i - 1) + 1 = i
        BY <2>2, <1>3
      <3>2. q[i - 1] = comp[i]
        BY <3>1, <1>1, ZenonT(60)
      <3> QED
        BY <3>1, <3>2, <1>4, ZenonT(60)
    <2> QED
      BY <2>1, <2>2, ZenonT(60)
  <1>5. \A d : (\E i \in 1..Len(comp) : comp[i] = d)
              <=> (\E i \in 1..Len(q) : q[i] = d) \/ d = Head(comp)
    BY <1>1, <1>3, <1>4, ZenonT(60)
  <1>6. \A d : Located(d, sub, comp, h) <=> Located(d, sub, q, h) \/ d = Head(comp)
    BY <1>5, ZenonT(60) DEF Located
  <1>7. Head(comp) \in used /\ Exact(used \ {Head(comp)}, sub, q, h)
    BY <1>1, <1>2, <1>6, ZenonT(60) DEF Exact
  <1> QED
    BY <1>7, ZenonT(60) DEF q

------------------------------------------------------------------------------
(* The completion queue keeps room                                                *)

(* Sending after everything is reclaimed keeps room for what comes back.          *)
LEMMA RoomSend ==
  ASSUME NEW sub \in Seq(Entries), NEW comp \in Seq(Chunks), NEW rp \in Nat,
         NEW borrowed \in Nat, NEW s \in Nat, NEW e \in Entries, e.seen = rp,
         Room(sub, comp, rp, borrowed, s),
         Len(sub) + borrowed + Len(comp) <= BufferSize + MaxBorrowed
  PROVE  Room(Append(sub, e), comp, rp, borrowed, s)
  <1> DEFINE q == Append(sub, e)
  <1>1. /\ Len(sub) \in Nat /\ Len(comp) \in Nat
        /\ Len(q) = Len(sub) + 1 /\ q[Len(sub) + 1] = e
        /\ \A k \in 1..Len(sub) : q[k] = sub[k]
        /\ \A k \in 1..Len(q) : k \in 1..Len(sub) \/ k = Len(sub) + 1
    BY AppendFacts
  <1> HIDE DEF q
  <1>2. ASSUME NEW k \in 1..Len(q)
        PROVE  /\ q[k].seen <= rp
               /\ borrowed + k + rp + Len(comp) <= q[k].seen + completion_queue_size
    <2>1. CASE k \in 1..Len(sub)
      BY <2>1, <1>1, ZenonT(60) DEF Room
    <2>2. CASE k = Len(sub) + 1
      BY <2>2, <1>1 DEF completion_queue_size
    <2> QED
      BY <2>1, <2>2, <1>1, ZenonT(60)
  <1>3. Room(q, comp, rp, borrowed, s)
    BY <1>2, ZenonT(60) DEF Room
  <1> QED
    BY <1>3, ZenonT(60) DEF q

(* Evicting the oldest offset keeps the room.                                     *)
LEMMA RoomEvict ==
  ASSUME NEW sub \in Seq(Entries), NEW comp \in Seq(Chunks), NEW rp \in Nat,
         NEW borrowed \in Nat, NEW s \in Nat, sub # <<>>, Room(sub, comp, rp, borrowed, s)
  PROVE  Room(Tail(sub), comp, rp, borrowed, s)
  <1> DEFINE q == Tail(sub)
  <1>1. /\ Len(sub) \in Nat \ {0} /\ Len(comp) \in Nat /\ Len(q) = Len(sub) - 1
        /\ \A k \in 1..Len(q) : k + 1 \in 1..Len(sub) /\ q[k] = sub[k + 1]
        /\ \A k \in 1..Len(sub) : sub[k].seen \in Nat
    BY TailFacts, EntryFacts
  <1> HIDE DEF q
  <1>2. ASSUME NEW k \in 1..Len(q)
        PROVE  /\ q[k].seen <= rp
               /\ borrowed + k + rp + Len(comp) <= q[k].seen + completion_queue_size
    <2>1. /\ k + 1 \in 1..Len(sub) /\ q[k] = sub[k + 1] /\ sub[k + 1].seen \in Nat
      BY <1>1, ZenonT(60)
    <2>2. /\ sub[k + 1].seen <= rp
          /\ borrowed + (k + 1) + rp + Len(comp) <= sub[k + 1].seen + completion_queue_size
      BY <2>1, ZenonT(60) DEF Room
    <2> QED
      BY <2>1, <2>2, <1>1, SMTT(30) DEF completion_queue_size
  <1>3. Room(q, comp, rp, borrowed, s)
    BY <1>2, ZenonT(60) DEF Room
  <1> QED
    BY <1>3, ZenonT(60) DEF q

(* A received offset brings knowledge of what was reclaimed before it was sent.   *)
LEMMA RoomReceive ==
  ASSUME NEW sub \in Seq(Entries), NEW comp \in Seq(Chunks), NEW rp \in Nat,
         NEW borrowed \in Nat, NEW s \in Nat, sub # <<>>, Room(sub, comp, rp, borrowed, s),
         NEW r \in Head(sub).seen .. rp
  PROVE  Room(Tail(sub), comp, rp, borrowed + 1, IF r > s THEN r ELSE s)
  <1> DEFINE q == Tail(sub)
             t == IF r > s THEN r ELSE s
  <1>1. /\ Len(sub) \in Nat \ {0} /\ Len(comp) \in Nat /\ Len(q) = Len(sub) - 1
        /\ Head(sub) = sub[1]
        /\ \A k \in 1..Len(q) : k + 1 \in 1..Len(sub) /\ q[k] = sub[k + 1]
        /\ \A k \in 1..Len(sub) : sub[k].seen \in Nat
    BY TailFacts, EntryFacts
  <1> HIDE DEF q
  <1>2. ASSUME NEW k \in 1..Len(q)
        PROVE  /\ q[k].seen <= rp
               /\ (borrowed + 1) + k + rp + Len(comp) <= q[k].seen + completion_queue_size
    <2>1. /\ k + 1 \in 1..Len(sub) /\ q[k] = sub[k + 1] /\ sub[k + 1].seen \in Nat
      BY <1>1, ZenonT(60)
    <2>2. /\ sub[k + 1].seen <= rp
          /\ borrowed + (k + 1) + rp + Len(comp) <= sub[k + 1].seen + completion_queue_size
      BY <2>1, ZenonT(60) DEF Room
    <2> QED
      BY <2>1, <2>2, <1>1 DEF completion_queue_size
  <1>3. /\ 1 \in 1..Len(sub) /\ sub[1].seen \in Nat
        /\ borrowed + 1 + rp + Len(comp) <= sub[1].seen + completion_queue_size
    BY <1>1 DEF Room
  <1>4. r \in Nat /\ sub[1].seen <= r /\ r <= rp
    BY <1>1, <1>3
  <1>5. s <= rp
    BY ZenonT(60) DEF Room
  <1>6. t \in Nat /\ t <= rp /\ sub[1].seen <= t
    BY <1>3, <1>4, <1>5
  <1> HIDE DEF t
  <1>7. t <= rp /\ (borrowed + 1) + rp + Len(comp) <= t + completion_queue_size
    BY <1>3, <1>6, <1>1, SMTT(30) DEF completion_queue_size
  <1>8. Room(q, comp, rp, borrowed + 1, t)
    BY <1>2, <1>7, ZenonT(60) DEF Room
  <1> QED
    BY <1>8, ZenonT(60) DEF q, t

(* Releasing always finds room, and keeps it for the offsets still held.          *)
LEMMA RoomRelease ==
  ASSUME NEW sub \in Seq(Entries), NEW comp \in Seq(Chunks), NEW rp \in Nat,
         NEW borrowed \in Nat, NEW s \in Nat, Room(sub, comp, rp, borrowed, s),
         NEW r \in s .. rp, NEW c \in Chunks, borrowed # 0
  PROVE  /\ rp + Len(comp) < r + completion_queue_size
         /\ Room(sub, Append(comp, c), rp, borrowed - 1, r)
  <1>1. /\ Len(comp) \in Nat /\ Len(Append(comp, c)) = Len(comp) + 1
        /\ \A k \in 1..Len(sub) : sub[k].seen \in Nat
    BY AppendFacts, EntryFacts, ZenonT(60)
  <1>2. s <= rp /\ borrowed + rp + Len(comp) <= s + completion_queue_size
    BY ZenonT(60) DEF Room
  <1>3. /\ rp + Len(comp) < r + completion_queue_size
        /\ r <= rp /\ (borrowed - 1) + rp + (Len(comp) + 1) <= r + completion_queue_size
    <2>1. Len(comp) \in Nat
      BY <1>1, ZenonT(60)
    <2> QED
      BY <1>2, <2>1 DEF completion_queue_size
  <1>4. \A k \in 1..Len(sub) :
           /\ sub[k].seen <= rp
           /\ borrowed + k + rp + Len(comp) <= sub[k].seen + completion_queue_size
    BY ZenonT(60) DEF Room
  <1>5. ASSUME NEW k \in 1..Len(sub)
        PROVE  (borrowed - 1) + k + rp + (Len(comp) + 1) <= sub[k].seen + completion_queue_size
    BY <1>1, <1>4 DEF completion_queue_size
  <1> QED
    BY <1>1, <1>3, <1>4, <1>5, ZenonT(60) DEF Room

(* Reclaiming keeps the room: the queue shrinks as its position advances.         *)
LEMMA RoomReclaim ==
  ASSUME NEW sub \in Seq(Entries), NEW comp \in Seq(Chunks), NEW rp \in Nat,
         NEW borrowed \in Nat, NEW s \in Nat, Room(sub, comp, rp, borrowed, s), comp # <<>>
  PROVE  Room(sub, Tail(comp), rp + 1, borrowed, s)
  <1>1. /\ Len(comp) \in Nat \ {0} /\ Len(Tail(comp)) = Len(comp) - 1
        /\ \A k \in 1..Len(sub) : sub[k].seen \in Nat
    BY TailFacts, EntryFacts, ZenonT(60)
  <1>2. /\ s <= rp /\ borrowed + rp + Len(comp) <= s + completion_queue_size
        /\ \A k \in 1..Len(sub) :
              /\ sub[k].seen <= rp
              /\ borrowed + k + rp + Len(comp) <= sub[k].seen + completion_queue_size
    BY ZenonT(60) DEF Room
  <1>3. s <= rp + 1 /\ borrowed + (rp + 1) + (Len(comp) - 1) <= s + completion_queue_size
    BY <1>1, <1>2 DEF completion_queue_size
  <1>4. ASSUME NEW k \in 1..Len(sub)
        PROVE  /\ sub[k].seen <= rp + 1
               /\ borrowed + k + (rp + 1) + (Len(comp) - 1) <= sub[k].seen + completion_queue_size
    BY <1>1, <1>2 DEF completion_queue_size
  <1> QED
    BY <1>1, <1>3, <1>4, ZenonT(60) DEF Room

------------------------------------------------------------------------------
(* Every step preserves the invariant                                             *)

(* A new connection satisfies the invariant.                                      *)
LEMMA InitIInv == Init => IInv
  <1> SUFFICES ASSUME Init PROVE IInv
    BY ZenonT(60)
  <1>1. TypeOK /\ AlwaysReturned /\ NeverCorrupted
    <2>1. <<>> \in Seq(Entries) /\ <<>> \in Seq(Chunks)
      OBVIOUS
    <2>2. TypeOK
      BY <2>1, ZenonT(60) DEF Init, TypeOK, Entries
    <2>3. AlwaysReturned /\ NeverCorrupted
      BY ZenonT(60) DEF Init, AlwaysReturned, NeverCorrupted
    <2> QED
      BY <2>2, <2>3, ZenonT(60)
  <1>2. CirculationBounded /\ OverfullInv
    BY DEF Init, CirculationBounded, OverfullInv, submission_queue_size
  <1>3. BorrowInv
    BY FS_EmptySet, ZenonT(60) DEF Init, BorrowInv
  <1>4. Apart(submission, completion, held)
    BY DEF Init, Apart
  <1>5. Exact(used_chunk_list, submission, completion, held)
    BY DEF Init, Exact, Located
  <1>6. Room(submission, completion, read_position, borrow_counter, seen)
    BY DEF Init, Room, completion_queue_size
  <1> QED
    BY <1>1, <1>2, <1>3, <1>4, <1>5, <1>6, ZenonT(60) DEF IInv

(* The conjuncts of the invariant in the form the steps use them.                 *)
LEMMA IInvFacts == IInv =>
        /\ submission \in Seq(Entries) /\ completion \in Seq(Chunks) /\ held \in SUBSET Chunks
        /\ read_position \in Nat /\ borrow_counter \in Nat /\ seen \in Nat /\ sent \in Nat
        /\ used_chunk_list \subseteq Chunks /\ corrupted = FALSE /\ lost = {}
        /\ Len(submission) \in Nat /\ Len(completion) \in Nat
        /\ Apart(submission, completion, held)
        /\ Room(submission, completion, read_position, borrow_counter, seen)
        /\ s_pc # "removed" => Exact(used_chunk_list, submission, completion, held)
        /\ OverfullInv /\ BorrowInv /\ CirculationBounded /\ TypeOK
  BY DEF IInv, TypeOK, Entries, AlwaysReturned, NeverCorrupted

(* reclaim() of one offset preserves the invariant.                               *)
LEMMA ReclaimStep == ASSUME IInv, Reclaim PROVE IInv'
  <1> USE DEF submission_queue_size
  <1>1. /\ s_pc = "reclaim" /\ completion # <<>> /\ completion' = Tail(completion)
        /\ read_position' = read_position + 1
        /\ used_chunk_list' = used_chunk_list \ {Head(completion)}
        /\ corrupted' = (corrupted \/ Head(completion) \notin used_chunk_list)
        /\ submission' = submission /\ overfull' = overfull /\ s_pc' = s_pc /\ sent' = sent
        /\ enable_safe_overflow' = enable_safe_overflow /\ receiver_alive' = receiver_alive
        /\ held' = held /\ borrow_counter' = borrow_counter /\ seen' = seen /\ lost' = lost
    BY ZenonT(60) DEF Reclaim, Return, receiver
  <1>2. /\ Tail(completion) \in Seq(Chunks) /\ Len(Tail(completion)) = Len(completion) - 1
        /\ Len(completion) \in Nat \ {0}
    BY IInvFacts, <1>1, TailFacts, ZenonT(60)
  <1>3. Head(completion) \in used_chunk_list
    BY IInvFacts, <1>1, ExactReclaim, ZenonT(60)
  <1>4. TypeOK' /\ AlwaysReturned' /\ NeverCorrupted'
    BY IInvFacts, <1>1, <1>2, <1>3 DEF TypeOK, AlwaysReturned, NeverCorrupted
  <1>5. CirculationBounded' /\ OverfullInv' /\ BorrowInv'
    BY IInvFacts, <1>1, ZenonT(60) DEF CirculationBounded, OverfullInv, BorrowInv
  <1>6. Apart(submission, Tail(completion), held)
    BY IInvFacts, <1>1, ApartReclaim, ZenonT(60)
  <1>7. Exact(used_chunk_list \ {Head(completion)}, submission, Tail(completion), held)
    BY IInvFacts, <1>1, ExactReclaim, ZenonT(60)
  <1>8. Room(submission, Tail(completion), read_position + 1, borrow_counter, seen)
    BY IInvFacts, <1>1, RoomReclaim, ZenonT(60)
  <1> QED
    BY <1>1, <1>4, <1>5, <1>6, <1>7, <1>8, ZenonT(60) DEF IInv

(* The end of reclaiming preserves it: only now is the circulation bounded.       *)
LEMMA ReclaimNoneStep == ASSUME IInv, ReclaimNone PROVE IInv'
  <1> USE DEF submission_queue_size
  <1>1. /\ s_pc = "reclaim" /\ completion = <<>> /\ s_pc' \in Sending
        /\ UNCHANGED <<enable_safe_overflow, receiver_alive,
                       submission, overfull, completion, read_position, used_chunk_list, sent,
                       held, borrow_counter, seen, corrupted, lost>>
    BY ZenonT(60) DEF ReclaimNone, receiver
  <1>2. TypeOK' /\ AlwaysReturned' /\ NeverCorrupted' /\ OverfullInv' /\ BorrowInv'
    BY IInvFacts, <1>1, ZenonT(60) DEF TypeOK, AlwaysReturned, NeverCorrupted, OverfullInv, BorrowInv
  <1>3. Len(completion) = 0 /\ overfull = FALSE
    BY IInvFacts, <1>1, ZenonT(60) DEF OverfullInv, TypeOK
  <1>4. CirculationBounded'
    BY IInvFacts, <1>1, <1>3 DEF CirculationBounded
  <1> QED
    BY IInvFacts, <1>1, <1>2, <1>4, ZenonT(60) DEF IInv

(* The push of try_send() preserves it.                                           *)
LEMMA TrySendStep == ASSUME IInv, NEW c \in Chunks, TrySend(c) PROVE IInv'
  <1> USE DEF submission_queue_size
  <1> DEFINE e == [chunk |-> c, seen |-> read_position]
  <1>1. /\ s_pc \in Sending /\ c \notin used_chunk_list
        /\ enable_safe_overflow \/ Len(submission) < submission_queue_size
        /\ used_chunk_list' = used_chunk_list \cup {c}
        /\ submission' = Append(submission, e)
        /\ overfull' = (Len(submission) = submission_queue_size)
        /\ sent' = sent + 1 /\ s_pc' = "pushed"
        /\ UNCHANGED <<enable_safe_overflow, receiver_alive,
                       completion, read_position, held, borrow_counter, seen, lost, corrupted>>
    BY ZenonT(60) DEF TrySend, receiver
  <1>2. e \in Entries /\ e.chunk = c /\ e.seen = read_position
    BY IInvFacts, ZenonT(60) DEF Entries
  <1> HIDE DEF e
  <1>3. Append(submission, e) \in Seq(Entries) /\ Len(Append(submission, e)) = Len(submission) + 1
    BY IInvFacts, <1>2, AppendFacts, ZenonT(60)
  <1>4. overfull = FALSE
    BY IInvFacts, <1>1, ZenonT(60) DEF OverfullInv, TypeOK
  <1>5. Len(submission) <= BufferSize
    BY IInvFacts, <1>4 DEF CirculationBounded
  <1>6. TypeOK' /\ AlwaysReturned' /\ NeverCorrupted'
    BY IInvFacts, <1>1, <1>3 DEF TypeOK, AlwaysReturned, NeverCorrupted, Entries
  <1>7. OverfullInv' /\ BorrowInv'
    BY IInvFacts, <1>1, <1>3, ZenonT(60) DEF OverfullInv, BorrowInv
  <1>8. CirculationBounded'
    <2>1. borrow_counter <= MaxBorrowed
      BY IInvFacts, ZenonT(60) DEF CirculationBounded
    <2>2. CASE Len(submission) = BufferSize
      <3>1. overfull'
        BY <1>1, <2>2, ZenonT(60)
      <3>2. Len(submission') = BufferSize + 1
        BY <1>1, <1>3, <2>2, ZenonT(60)
      <3>3. enable_safe_overflow
        BY IInvFacts, <1>1, <2>2
      <3>4. enable_safe_overflow'
        BY <1>1, <3>3, ZenonT(60)
      <3> QED
        BY <1>1, <2>1, <3>1, <3>2, <3>4 DEF CirculationBounded
    <2>3. CASE Len(submission) # BufferSize
      <3>1. ~ overfull'
        BY <1>1, <2>3, ZenonT(60)
      <3>2. Len(submission') <= BufferSize
        BY IInvFacts, <1>1, <1>3, <1>5, <2>3
      <3> QED
        BY <1>1, <2>1, <3>1, <3>2 DEF CirculationBounded
    <2> QED
      BY <2>2, <2>3, ZenonT(60)
  <1>9. ~ Located(c, submission, completion, held)
    BY IInvFacts, <1>1, ZenonT(60) DEF Exact
  <1>10. Apart(Append(submission, e), completion, held)
    BY IInvFacts, <1>2, <1>9, ApartSend, ZenonT(60)
  <1>11. Exact(used_chunk_list \cup {c}, Append(submission, e), completion, held)
    BY IInvFacts, <1>1, <1>2, ExactSend, ZenonT(60)
  <1>12. Len(submission) + borrow_counter + Len(completion) <= BufferSize + MaxBorrowed
    BY IInvFacts, <1>1, ZenonT(60) DEF CirculationBounded
  <1>13. Room(Append(submission, e), completion, read_position, borrow_counter, seen)
    BY IInvFacts, <1>2, <1>12, RoomSend, ZenonT(60)
  <1> QED
    BY <1>1, <1>6, <1>7, <1>8, <1>10, <1>11, <1>13, ZenonT(60) DEF IInv

(* A try_send() that finds the buffer full preserves it.                          *)
LEMMA ReceiveBufferFullStep == ASSUME IInv, TrySendReceiveBufferFull PROVE IInv'
  <1> USE DEF submission_queue_size
  <1>1. /\ s_pc = "send" /\ s_pc' = "reclaim"
        /\ UNCHANGED <<enable_safe_overflow, receiver_alive,
                       submission, overfull, completion, read_position, used_chunk_list, sent,
                       held, borrow_counter, seen, corrupted, lost>>
    BY ZenonT(60) DEF TrySendReceiveBufferFull, receiver
  <1>2. TypeOK' /\ AlwaysReturned' /\ NeverCorrupted' /\ OverfullInv' /\ BorrowInv'
    BY IInvFacts, <1>1, ZenonT(60) DEF TypeOK, AlwaysReturned, NeverCorrupted, OverfullInv, BorrowInv
  <1>3. CirculationBounded'
    BY IInvFacts, <1>1, ZenonT(60) DEF CirculationBounded
  <1> QED
    BY IInvFacts, <1>1, <1>2, <1>3, ZenonT(60) DEF IInv

(* The return of try_send(), with or without an eviction, preserves it.           *)
LEMMA TrySendReturnStep == ASSUME IInv, TrySendReturn PROVE IInv'
  <1> USE DEF submission_queue_size
  <1>1. /\ s_pc = "pushed" /\ s_pc' = "reclaim" /\ overfull' = FALSE
        /\ UNCHANGED <<enable_safe_overflow, receiver_alive,
                       completion, read_position, sent, held, borrow_counter, seen, lost>>
    BY ZenonT(60) DEF TrySendReturn, receiver
  <1>2. AlwaysReturned' /\ OverfullInv' /\ BorrowInv'
    BY IInvFacts, <1>1, ZenonT(60) DEF AlwaysReturned, OverfullInv, BorrowInv
  <1>3. CASE overfull
    <2>1. /\ used_chunk_list' = used_chunk_list \ {Head(submission).chunk}
          /\ corrupted' = (corrupted \/ Head(submission).chunk \notin used_chunk_list)
          /\ submission' = Tail(submission)
      BY <1>3, ZenonT(60) DEF TrySendReturn, Return
    <2>2. Len(submission) = BufferSize + 1 /\ submission # <<>>
      BY IInvFacts, <1>3 DEF OverfullInv
    <2>3. Tail(submission) \in Seq(Entries) /\ Len(Tail(submission)) = Len(submission) - 1
      BY IInvFacts, <2>2, TailFacts, ZenonT(60)
    <2>4. /\ Head(submission).chunk \in used_chunk_list
          /\ Exact(used_chunk_list \ {Head(submission).chunk}, Tail(submission), completion, held)
      BY IInvFacts, <1>1, <2>2, ExactEvict, ZenonT(60)
    <2>5. TypeOK' /\ NeverCorrupted'
      BY IInvFacts, <1>1, <2>1, <2>3, <2>4, ZenonT(60) DEF TypeOK, NeverCorrupted, Entries
    <2>6. CirculationBounded'
      BY IInvFacts, <1>1, <2>1, <2>2, <2>3 DEF CirculationBounded
    <2>7. Apart(Tail(submission), completion, held)
      BY IInvFacts, <2>2, ApartTake, ZenonT(60)
    <2>8. Room(Tail(submission), completion, read_position, borrow_counter, seen)
      BY IInvFacts, <2>2, RoomEvict, ZenonT(60)
    <2> QED
      BY <1>1, <1>2, <2>1, <2>4, <2>5, <2>6, <2>7, <2>8, ZenonT(60) DEF IInv
  <1>4. CASE ~ overfull
    <2>1. UNCHANGED <<used_chunk_list, corrupted, submission>>
      BY <1>4, ZenonT(60) DEF TrySendReturn
    <2>2. TypeOK' /\ NeverCorrupted' /\ CirculationBounded'
      BY IInvFacts, <1>1, <1>4, <2>1, ZenonT(60) DEF TypeOK, NeverCorrupted, CirculationBounded
    <2> QED
      BY IInvFacts, <1>1, <1>2, <2>1, <2>2, ZenonT(60) DEF IInv
  <1> QED
    BY <1>3, <1>4, ZenonT(60)

(* acquire_used_offsets() preserves it: the list is not used afterwards.          *)
LEMMA AcquireUsedOffsetsStep == ASSUME IInv, AcquireUsedOffsets PROVE IInv'
  <1> USE DEF submission_queue_size
  <1>1. /\ s_pc = "reclaim" /\ s_pc' = "removed" /\ used_chunk_list' = {}
        /\ UNCHANGED <<enable_safe_overflow, receiver_alive,
                       submission, overfull, completion, read_position, sent,
                       held, borrow_counter, seen, corrupted, lost>>
    BY ZenonT(60) DEF AcquireUsedOffsets, receiver
  <1>2. /\ TypeOK' /\ AlwaysReturned' /\ NeverCorrupted' /\ OverfullInv' /\ BorrowInv'
        /\ CirculationBounded'
    BY IInvFacts, <1>1, ZenonT(60) DEF TypeOK, AlwaysReturned, NeverCorrupted, OverfullInv, BorrowInv,
       CirculationBounded
  <1> QED
    BY IInvFacts, <1>1, <1>2, ZenonT(60) DEF IInv

(* receive() preserves it.                                                        *)
LEMMA ReceiveStep == ASSUME IInv, Receive PROVE IInv'
  <1> USE DEF submission_queue_size
  <1> DEFINE c == Head(submission).chunk
  <1>1. /\ submission # <<>> /\ borrow_counter < MaxBorrowed
        /\ borrow_counter' = borrow_counter + 1 /\ held' = held \cup {c}
        /\ submission' = Tail(submission) /\ overfull' = FALSE
        /\ UNCHANGED <<enable_safe_overflow, receiver_alive,
                       completion, read_position, used_chunk_list, s_pc, sent, corrupted, lost>>
    BY ZenonT(60) DEF Receive, sender
  <1>2. PICK rp \in Head(submission).seen .. read_position :
             seen' = IF rp > seen THEN rp ELSE seen
    BY ZenonT(60) DEF Receive
  <1>3. /\ Tail(submission) \in Seq(Entries) /\ Len(Tail(submission)) = Len(submission) - 1
        /\ Head(submission) \in Entries
    BY IInvFacts, <1>1, TailFacts, ZenonT(60)
  <1>4. c \in Chunks /\ Head(submission).seen \in Nat
    BY <1>3, ZenonT(60) DEF Entries
  <1>5. c \notin held
    BY IInvFacts, <1>1, ApartTake, ZenonT(60) DEF Located
  <1>6. Apart(Tail(submission), completion, held \cup {c})
    BY IInvFacts, <1>1, ApartTake, ZenonT(60)
  <1>7. s_pc # "removed" => Exact(used_chunk_list, Tail(submission), completion, held \cup {c})
    BY IInvFacts, <1>1, ExactReceive, ZenonT(60)
  <1>8. Room(Tail(submission), completion, read_position, borrow_counter + 1,
             IF rp > seen THEN rp ELSE seen)
    BY IInvFacts, <1>1, RoomReceive, ZenonT(60)
  <1> HIDE DEF c
  <1>9. IsFiniteSet(held \cup {c}) /\ Cardinality(held \cup {c}) = Cardinality(held) + 1
    BY IInvFacts, <1>5, FS_AddElement, ZenonT(60) DEF BorrowInv
  <1>10. BorrowInv'
    BY IInvFacts, <1>1, <1>9, ZenonT(60) DEF BorrowInv
  <1>11. seen' \in Nat
    <2>1. rp \in Nat
      BY IInvFacts, <1>4
    <2> QED
      BY IInvFacts, <1>2, <2>1, ZenonT(60)
  <1>12. TypeOK' /\ AlwaysReturned' /\ NeverCorrupted' /\ OverfullInv'
    <2>1. held' \subseteq Chunks /\ borrow_counter' \in Nat /\ overfull' \in BOOLEAN
      <3>1. held' \subseteq Chunks
        BY IInvFacts, <1>1, <1>4, ZenonT(60)
      <3>2. borrow_counter + 1 \in Nat
        BY IInvFacts
      <3> QED
        BY <1>1, <3>1, <3>2, ZenonT(60)
    <2>2. submission' \in Seq([chunk: Chunks, seen: Nat])
      BY <1>1, <1>3, ZenonT(60) DEF Entries
    <2>3. TypeOK'
      BY IInvFacts, <1>1, <1>11, <2>1, <2>2, ZenonT(60) DEF TypeOK
    <2>4. AlwaysReturned' /\ NeverCorrupted' /\ OverfullInv'
      BY IInvFacts, <1>1, ZenonT(60) DEF AlwaysReturned, NeverCorrupted, OverfullInv
    <2> QED
      BY <2>3, <2>4, ZenonT(60)
  <1>13. CirculationBounded'
    <2>1. Len(submission) <= BufferSize + 1 /\ borrow_counter + 1 <= MaxBorrowed
      BY IInvFacts, <1>1, SMTT(30) DEF CirculationBounded
    <2>2. s_pc \in Sending => (Len(submission) - 1) + (borrow_counter + 1) + Len(completion)
                              <= BufferSize + MaxBorrowed
      BY IInvFacts DEF CirculationBounded
    <2> QED
      BY IInvFacts, <1>1, <1>3, <2>1, <2>2 DEF CirculationBounded
  <1> QED
    BY <1>1, <1>2, <1>6, <1>7, <1>8, <1>10, <1>12, <1>13, ZenonT(60) DEF IInv

(* release() preserves it; here the size of the completion queue matters.         *)
LEMMA ReleaseStep == ASSUME IInv, NEW c \in Chunks, Release(c) PROVE IInv'
  <1> USE DEF submission_queue_size
  <1>1. /\ c \in held /\ held' = held \ {c}
        /\ UNCHANGED <<enable_safe_overflow, receiver_alive,
                       submission, overfull, read_position, used_chunk_list, s_pc, sent, corrupted>>
    BY ZenonT(60) DEF Release, sender
  <1>2. PICK rp \in seen .. read_position :
          /\ seen' = rp
          /\ IF read_position + Len(completion) < rp + completion_queue_size
             THEN /\ completion' = Append(completion, c)
                  /\ borrow_counter' = borrow_counter - 1
                  /\ UNCHANGED lost
             ELSE /\ lost' = lost \cup {c}
                  /\ UNCHANGED <<completion, borrow_counter>>
    BY ZenonT(60) DEF Release
  <1>3. /\ IsFiniteSet(held \ {c}) /\ Cardinality(held \ {c}) = Cardinality(held) - 1
        /\ Cardinality(held) \in Nat
    BY IInvFacts, <1>1, FS_RemoveElement, FS_CardinalityType, ZenonT(60) DEF BorrowInv
  <1>4. Cardinality(held \ {c}) \in Nat /\ borrow_counter # 0 /\ borrow_counter - 1 \in Nat
    BY IInvFacts, <1>3, FS_CardinalityType DEF BorrowInv
  <1>5. /\ read_position + Len(completion) < rp + completion_queue_size
        /\ Room(submission, Append(completion, c), read_position, borrow_counter - 1, rp)
    BY IInvFacts, <1>4, RoomRelease, ZenonT(60)
  <1>6. completion' = Append(completion, c) /\ borrow_counter' = borrow_counter - 1 /\ lost' = lost
        /\ seen' = rp
    BY <1>2, <1>5, ZenonT(60)
  <1>7. Append(completion, c) \in Seq(Chunks) /\ Len(Append(completion, c)) = Len(completion) + 1
    BY IInvFacts, AppendFacts, ZenonT(60)
  <1>8. rp \in Nat
    BY IInvFacts
  <1>9. TypeOK' /\ AlwaysReturned' /\ NeverCorrupted' /\ OverfullInv'
    BY IInvFacts, <1>1, <1>4, <1>6, <1>7, <1>8, ZenonT(60) DEF TypeOK, AlwaysReturned, NeverCorrupted,
       OverfullInv
  <1>10. BorrowInv'
    BY IInvFacts, <1>1, <1>3, <1>6, ZenonT(60) DEF BorrowInv
  <1>11. CirculationBounded'
    <2>1. /\ borrow_counter \in Nat /\ Len(submission) \in Nat /\ Len(completion) \in Nat
          /\ CirculationBounded
      BY IInvFacts, ZenonT(60)
    <2> QED
      BY <1>1, <1>4, <1>6, <1>7, <2>1 DEF CirculationBounded
  <1>12. Apart(submission, Append(completion, c), held \ {c})
    BY IInvFacts, <1>1, ApartRelease, ZenonT(60)
  <1>13. s_pc # "removed" => Exact(used_chunk_list, submission, Append(completion, c), held \ {c})
    BY IInvFacts, <1>1, ExactRelease, ZenonT(60)
  <1> QED
    BY <1>1, <1>5, <1>6, <1>9, <1>10, <1>11, <1>12, <1>13, ZenonT(60) DEF IInv

(* A step of something else preserves it.                                         *)
LEMMA StutterStep == ASSUME IInv, UNCHANGED vars PROVE IInv'
  BY ZenonT(60) DEF IInv, vars, TypeOK, AlwaysReturned, NeverCorrupted, CirculationBounded, OverfullInv,
     BorrowInv

(* The end of the receiver preserves it.                                          *)
LEMMA ReceiverGoneStep == ASSUME IInv, ReceiverGone PROVE IInv'
  BY ZenonT(60) DEF IInv, ReceiverGone, sender, TypeOK, AlwaysReturned, NeverCorrupted,
     CirculationBounded, OverfullInv, BorrowInv

(* Every step preserves the invariant.                                            *)
LEMMA NextIInv == IInv /\ [Next]_vars => IInv'
  <1> SUFFICES ASSUME IInv, [Next]_vars PROVE IInv'
    BY ZenonT(60)
  <1>1. CASE Reclaim
    BY <1>1, ReclaimStep, ZenonT(60)
  <1>2. CASE ReclaimNone
    BY <1>2, ReclaimNoneStep, ZenonT(60)
  <1>3. CASE TrySendReceiveBufferFull
    BY <1>3, ReceiveBufferFullStep, ZenonT(60)
  <1>4. CASE TrySendReturn
    BY <1>4, TrySendReturnStep, ZenonT(60)
  <1>5. CASE AcquireUsedOffsets
    BY <1>5, AcquireUsedOffsetsStep, ZenonT(60)
  <1>6. CASE Receive
    BY <1>6, ReceiveStep, ZenonT(60)
  <1>7. ASSUME NEW c \in Chunks, TrySend(c) PROVE IInv'
    BY <1>7, TrySendStep, ZenonT(60)
  <1>8. ASSUME NEW c \in Chunks, Release(c) PROVE IInv'
    BY <1>8, ReleaseStep, ZenonT(60)
  <1>9. CASE UNCHANGED vars
    BY <1>9, StutterStep, ZenonT(60)
  <1>10. CASE ReceiverGone
    BY <1>10, ReceiverGoneStep, ZenonT(60)
  <1> QED
    BY <1>1, <1>2, <1>3, <1>4, <1>5, <1>6, <1>7, <1>8, <1>9, <1>10, ZenonT(60) DEF Next

(* The invariant holds in every reachable state of a connection.                  *)
THEOREM Invariance == Spec => []IInv
  BY InitIInv, NextIInv, PTL DEF Spec

(* For every buffer size and borrow limit a completion queue of buffer size +     *)
(* borrow limit + 1 is never full when the receiver returns an offset, even if    *)
(* its read position of that queue is stale: release() always succeeds.           *)
THEOREM ReleaseNeverFails == Spec => []AlwaysReturned
  <1>1. IInv => AlwaysReturned
    BY ZenonT(60) DEF IInv
  <1> QED
    BY <1>1, Invariance, PTL

(* reclaim() and the eviction of try_send() never meet an offset that is not in   *)
(* the used chunk list.                                                           *)
THEOREM NoCorruption == Spec => []NeverCorrupted
  <1>1. IInv => NeverCorrupted
    BY ZenonT(60) DEF IInv
  <1> QED
    BY <1>1, Invariance, PTL

(* The used chunk list is exactly the set of offsets in the queues and with the   *)
(* receiver, so that acquire_used_offsets() recovers every delivered sample.      *)
THEOREM UsedChunksKnown == Spec => []UsedExact
  <1>1. IInv => UsedExact
    <2> SUFFICES ASSUME IInv, s_pc # "removed" PROVE used_chunk_list = OnTheWay
      BY ZenonT(60) DEF UsedExact
    <2>1. /\ submission \in Seq(Entries) /\ completion \in Seq(Chunks) /\ held \in SUBSET Chunks
          /\ used_chunk_list \subseteq Chunks
          /\ Exact(used_chunk_list, submission, completion, held)
      BY ZenonT(60) DEF IInv, TypeOK, Entries
    <2>2. /\ \A k \in 1..Len(submission) : submission[k].chunk \in Chunks
          /\ \A k \in 1..Len(completion) : completion[k] \in Chunks
      BY <2>1, EntryFacts
    <2>3. \A c : c \in OnTheWay <=> Located(c, submission, completion, held)
      BY ZenonT(60) DEF OnTheWay, Located
    <2>4. \A c : Located(c, submission, completion, held) => c \in Chunks
      BY <2>1, <2>2, ZenonT(60) DEF Located
    <2> QED
      BY <2>1, <2>3, <2>4, ZenonT(60) DEF Exact
  <1> QED
    BY <1>1, Invariance, PTL

(* At most BufferSize + MaxBorrowed offsets are in circulation once the returned  *)
(* ones are reclaimed: the share of a subscriber in the size of a data segment.   *)
THEOREM CirculationStaysBounded == Spec => []CirculationBounded
  <1>1. IInv => CirculationBounded
    BY ZenonT(60) DEF IInv
  <1> QED
    BY <1>1, Invariance, PTL

================================================================================
