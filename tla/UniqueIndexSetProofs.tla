------------------------- MODULE UniqueIndexSetProofs -------------------------
(* For any number of indices, threads and values of the ABA tag: the free list   *)
(* stays intact, no index has two owners, and refusals are justified.            *)
EXTENDS UniqueIndexSet, FiniteSetTheorems, TLAPS

(* What a thread between its load of head and its exchange may rely on.  The tag *)
(* of head is ahead of the one it has loaded by the number of changes it missed, *)
(* so that head can only have the value it has loaded if it missed none; and     *)
(* then the successor it has read is still the successor.                        *)
Relies(t) ==
    /\ pc[t] \in Window =>
          /\ win[t] = 0 => head = old[t]
          /\ \/ head.aba = old[t].aba + win[t]
             \/ head.aba + AbaModulus = old[t].aba + win[t]
    /\ pc[t] \in {"read_next", "acquire_cas"} =>
          old[t].head < Capacity /\ old[t].borrowed_indices # LOCK_ACQUIRE
    /\ pc[t] = "acquire_cas" /\ win[t] = 0 => nxt[t] = next[old[t].head]
    /\ pc[t] = "release_cas" => next[index[t]] = old[t].head

WindowInv == \A t \in Threads : Relies(t)

(* The inductive invariant.                                                      *)
IInv == FreeListIntact /\ UniqueOwner /\ WindowInv

(* The value that means locked is not a number of borrowed indices.              *)
LEMMA LockValue == LOCK_ACQUIRE \in Nat /\ LOCK_ACQUIRE \notin 0..Capacity
  BY CapacityAssumption, SMT DEF LOCK_ACQUIRE

USE CapacityAssumption, AbaAssumption, LockValue

------------------------------------------------------------------------------
(* The tag counts modulo AbaModulus.                                             *)
LEMMA WrappingAdd ==
  ASSUME NEW a \in 0..(AbaModulus - 1)
  PROVE  wrapping_add(a) = IF a = AbaModulus - 1 THEN 0 ELSE a + 1
  <1>1. CASE a = AbaModulus - 1
    BY <1>1 DEF wrapping_add
  <1>2. CASE a # AbaModulus - 1
    BY <1>2 DEF wrapping_add
  <1> QED
    BY <1>1, <1>2, ZenonT(60)

(* A list of different indices is not longer than their number, and contains all *)
(* of them when it has that length.                                              *)
LEMMA DistinctIndices ==
  ASSUME NEW s \in Seq(Indices), \A i, j \in 1..Len(s) : s[i] = s[j] => i = j
  PROVE  /\ Len(s) <= Capacity
         /\ Len(s) = Capacity => \A x \in Indices : \E i \in 1..Len(s) : s[i] = x
  <1>1. Len(s) \in Nat /\ s \in [1..Len(s) -> Indices]
    OBVIOUS
  <1>2. s \in Injection(1..Len(s), Indices)
    BY <1>1, ZenonT(60) DEF Injection, IsInjective
  <1>3. IsFiniteSet(Indices) /\ Cardinality(Indices) = Capacity
    <2>1. 0 \in Int /\ Capacity - 1 \in Int /\ ~ (0 > Capacity - 1)
      OBVIOUS
    <2> QED
      BY <2>1, FS_Interval DEF Indices
  <1>4. Cardinality(1..Len(s)) = Len(s)
    <2>1. 1 \in Int /\ Len(s) \in Int
      BY <1>1
    <2> QED
      BY <1>1, <2>1, FS_Interval, SMTT(30)
  <1>5. /\ Len(s) <= Capacity
        /\ Len(s) = Capacity => s \in Surjection(1..Len(s), Indices)
    BY <1>2, <1>3, <1>4, FS_Injection
  <1> QED
    BY <1>5, ZenonT(60) DEF Surjection

(* The set is created with all indices in the free list.                         *)
LEMMA InitInv == Init => IInv
  <1> SUFFICES ASSUME Init PROVE IInv
    BY ZenonT(60)
  <1> USE DEF Init, NewHead
  <1>1. /\ free \in Seq(Indices) /\ Len(free) = Capacity
        /\ \A i \in 1..Len(free) : free[i] = i - 1
    BY DEF Indices
  <1>2. TypeOK
    BY <1>1 DEF TypeOK, HeadDetails, Indices, Ready, Window
  <1>3. FreeListIntact
    <2>1. free # <<>> /\ free[1] = 0
      <3> HIDE DEF Init
      <3>1. 1 \in 1..Len(free)
        BY <1>1
      <3> QED
        BY <1>1, <3>1
    <2>2. ASSUME NEW i \in 1..Len(free)
          PROVE  next[free[i]] = IF i = Len(free) THEN Capacity ELSE free[i + 1]
      BY <1>1
    <2>3. \A i, j \in 1..Len(free) : free[i] = free[j] => i = j
      BY <1>1
    <2> HIDE DEF Init
    <2>4. head.head = 0 /\ head.borrowed_indices = 0
      BY ZenonT(60) DEF Init
    <2> QED
      BY <1>1, <1>2, <2>1, <2>2, <2>3, <2>4 DEF FreeListIntact
  <1>4. UniqueOwner
    BY ZenonT(60) DEF UniqueOwner, InFlight
  <1>5. WindowInv
    BY ZenonT(60) DEF WindowInv, Relies, Window
  <1> QED
    BY <1>3, <1>4, <1>5, ZenonT(60) DEF IInv

(* A head that points to an index points to the first of the free list.          *)
LEMMA HeadIsFree ==
  ASSUME FreeListIntact, head.head < Capacity
  PROVE  free # <<>> /\ 1 \in 1..Len(free) /\ head.head = free[1] /\ head.head \in Free
  <1>1. free # <<>> /\ head.head = free[1]
    BY DEF FreeListIntact, TypeOK, HeadDetails
  <1>2. 1 \in 1..Len(free)
    BY <1>1 DEF FreeListIntact, TypeOK
  <1> QED
    BY <1>1, <1>2, ZenonT(60) DEF Free

(* An exchange that succeeds was not overtaken.                                  *)
LEMMA NotOvertaken ==
  ASSUME TypeOK, WindowInv, NEW t \in Threads, pc[t] \in Window, head = old[t]
  PROVE  win[t] = 0
  <1>1. /\ head.aba \in 0..(AbaModulus - 1) /\ win[t] \in 0..(AbaModulus - 1)
        /\ old[t].aba = head.aba
    BY ZenonT(60) DEF TypeOK, HeadDetails
  <1>2. head.aba = old[t].aba + win[t] \/ head.aba + AbaModulus = old[t].aba + win[t]
    BY ZenonT(60) DEF WindowInv, Relies
  <1> QED
    BY <1>1, <1>2

(* A thread that loads head knows it.                                            *)
LEMMA Loading ==
  ASSUME TypeOK, WindowInv, NEW t \in Threads, Load(t)
  PROVE  /\ old'[t] = head /\ win'[t] = 0
         /\ \A u \in Threads \ {t} : old'[u] = old[u] /\ win'[u] = win[u]
         /\ old' \in [Threads -> HeadDetails] /\ win' \in [Threads -> 0..(AbaModulus - 1)]
  BY DEF TypeOK, Load

(* The free list is only changed together with head.                             *)
LEMMA FreeListKept ==
  ASSUME FreeListIntact, TypeOK', UNCHANGED <<head, free>>,
         \A i \in Free : next'[i] = next[i]
  PROVE  FreeListIntact'
  BY ZenonT(60) DEF FreeListIntact, Free, TypeOK

(* An action moves indices between the places its thread may touch: the free     *)
(* list, the users, the lost ones and the thread itself.  As long as these do    *)
(* not overlap afterwards, the index another thread works on stays its own.      *)
LEMMA OwnersKept ==
  ASSUME UniqueOwner, NEW t \in Threads,
         \A u \in Threads \ {t} : InFlight(u)' = InFlight(u),
         Free' \cup acquired' \cup leaked' \cup InFlight(t)'
            \subseteq Free \cup acquired \cup leaked \cup InFlight(t),
         Free' \cap acquired' = {}, Free' \cap leaked' = {}, acquired' \cap leaked' = {},
         InFlight(t)' \cap (Free' \cup acquired' \cup leaked') = {}
  PROVE  UniqueOwner'
  <1>1. ASSUME NEW u \in Threads \ {t}
        PROVE  InFlight(u) \cap (Free \cup acquired \cup leaked \cup InFlight(t)) = {}
    BY ZenonT(60) DEF UniqueOwner
  <1>2. ASSUME NEW u \in Threads \ {t}
        PROVE  InFlight(u)' \cap (Free' \cup acquired' \cup leaked' \cup InFlight(t)') = {}
    BY <1>1, ZenonT(60)
  <1>3. \A u \in Threads : InFlight(u)' \cap (Free' \cup acquired' \cup leaked') = {}
    BY <1>2, ZenonT(60)
  <1>4. \A u, v \in Threads : u # v => InFlight(u)' \cap InFlight(v)' = {}
    <2>1. \A u, v \in Threads \ {t} : u # v => InFlight(u)' \cap InFlight(v)' = {}
      BY ZenonT(60) DEF UniqueOwner
    <2> QED
      BY <1>2, <2>1, ZenonT(60)
  <1> QED
    BY <1>3, <1>4, ZenonT(60) DEF UniqueOwner

(* A thread that begins an operation, or repeats it after a failed exchange.     *)
LEMMA LoadStep ==
  ASSUME IInv, NEW t \in Threads,
         \/ AcquireLoad(t) \/ AcquireExchangeFailed(t) \/ ReleaseExchangeFailed(t)
         \/ \E i \in Indices : ReleaseLoad(t, i)
  PROVE  IInv'
  <1> USE DEF IInv, FreeListIntact
  <1>1. /\ UNCHANGED <<head, next, leaked, free>> /\ Load(t)
        /\ \A u \in Threads \ {t} : pc'[u] = pc[u] /\ index'[u] = index[u] /\ nxt'[u] = nxt[u]
    BY ZenonT(60) DEF TypeOK, AcquireLoad, AcquireExchangeFailed, ReleaseExchangeFailed, ReleaseLoad
  <1>2. /\ old'[t] = head /\ win'[t] = 0
        /\ \A u \in Threads \ {t} : old'[u] = old[u] /\ win'[u] = win[u]
        /\ old' \in [Threads -> HeadDetails] /\ win' \in [Threads -> 0..(AbaModulus - 1)]
    BY <1>1, Loading, ZenonT(60)
  <1>3. /\ Examine(head) \in {"OutOfIndices", "IsLocked", "read_next"}
        /\ Examine(head) = "read_next" =>
              head.head < Capacity /\ head.borrowed_indices # LOCK_ACQUIRE
    <2>1. head.head \in 0..Capacity
      BY ZenonT(60) DEF TypeOK, HeadDetails
    <2> QED
      BY <2>1 DEF Examine
  <1>4. TypeOK'
    <2> DEFINE Typed == /\ pc' \in [Threads -> Ready \cup Window \cup {"mark", "dead"}]
                        /\ index' \in [Threads -> Indices]
                        /\ nxt' \in [Threads -> 0..(Capacity + 1)]
                        /\ acquired' \subseteq Indices
    <2>1. Typed
      <3>1. CASE AcquireLoad(t)
        BY <1>3, <3>1, ZenonT(60) DEF TypeOK, AcquireLoad, Ready, Window
      <3>2. CASE AcquireExchangeFailed(t)
        BY <1>3, <3>2, SMTT(30) DEF TypeOK, AcquireExchangeFailed, Ready, Window
      <3>3. CASE ReleaseExchangeFailed(t)
        BY <3>3, ZenonT(60) DEF TypeOK, ReleaseExchangeFailed, Window
      <3>4. ASSUME NEW i \in Indices, ReleaseLoad(t, i) PROVE  Typed
        BY <3>4, ZenonT(60) DEF TypeOK, ReleaseLoad, Window
      <3> QED
        BY <3>1, <3>2, <3>3, <3>4, ZenonT(60)
    <2> QED
      BY <1>1, <1>2, <2>1, ZenonT(60) DEF TypeOK
  <1>5. FreeListIntact'
    BY <1>1, <1>4, FreeListKept, ZenonT(60)
  <1>6. UniqueOwner'
    <2>1. Free' = Free /\ leaked' = leaked
      BY <1>1 DEF Free
    <2>2. CASE AcquireLoad(t) \/ AcquireExchangeFailed(t)
      <3>1. /\ InFlight(t) = {} /\ InFlight(t)' = {} /\ acquired' = acquired
            /\ \A u \in Threads \ {t} : InFlight(u)' = InFlight(u)
        BY <1>1, <1>3, <2>2, ZenonT(60) DEF TypeOK, AcquireLoad, AcquireExchangeFailed, InFlight, Ready
      <3> QED
        BY <2>1, <3>1, OwnersKept, ZenonT(60) DEF UniqueOwner
    <2>3. CASE ReleaseExchangeFailed(t)
      <3>1. /\ InFlight(t)' = InFlight(t) /\ acquired' = acquired
            /\ \A u \in Threads \ {t} : InFlight(u)' = InFlight(u)
        BY <1>1, <2>3, ZenonT(60) DEF TypeOK, ReleaseExchangeFailed, InFlight
      <3> QED
        BY <2>1, <3>1, OwnersKept, ZenonT(60) DEF UniqueOwner
    <2>4. ASSUME NEW i \in Indices, ReleaseLoad(t, i) PROVE UniqueOwner'
      <3>1. /\ InFlight(t) = {} /\ InFlight(t)' = {i}
            /\ i \in acquired /\ acquired' = acquired \ {i}
            /\ \A u \in Threads \ {t} : InFlight(u)' = InFlight(u)
        BY <1>1, <2>4, ZenonT(60) DEF TypeOK, ReleaseLoad, InFlight, Ready
      <3>2. /\ Free \cap acquired = {} /\ Free \cap leaked = {} /\ acquired \cap leaked = {}
        BY ZenonT(60) DEF UniqueOwner
      <3> QED
        BY <2>1, <3>1, <3>2, OwnersKept
    <2> QED
      BY <2>2, <2>3, <2>4, ZenonT(60)
  <1>7. WindowInv'
    <2>1. ASSUME NEW u \in Threads \ {t} PROVE Relies(u)'
      BY <1>1, <1>2, SMTT(30) DEF WindowInv, Relies
    <2>2. pc'[t] \in {"OutOfIndices", "IsLocked", "read_next", "write_next"}
      BY <1>3, ZenonT(60) DEF TypeOK, AcquireLoad, AcquireExchangeFailed, ReleaseExchangeFailed, ReleaseLoad
    <2>3. pc'[t] = "read_next" => head.head < Capacity /\ head.borrowed_indices # LOCK_ACQUIRE
      BY <1>3, ZenonT(60) DEF TypeOK, AcquireLoad, AcquireExchangeFailed, ReleaseExchangeFailed, ReleaseLoad
    <2>4. head.aba \in Nat
      BY DEF TypeOK, HeadDetails
    <2>5. Relies(t)'
      BY <1>1, <1>2, <2>2, <2>3, <2>4 DEF Relies
    <2> QED
      BY <2>1, <2>5, ZenonT(60) DEF WindowInv
  <1> QED
    BY <1>5, <1>6, <1>7, ZenonT(60)

(* The index a thread works on is not in the free list, and no other thread      *)
(* works on it: what it writes to its entry of the list is read by nobody yet.   *)
LEMMA EntryWritten ==
  ASSUME IInv, NEW t \in Threads, InFlight(t) = {index[t]}, NEW v \in 0..(Capacity + 1),
         next' = [next EXCEPT ![index[t]] = v], UNCHANGED <<head, free, win>>,
         \A u \in Threads \ {t} : /\ pc'[u] = pc[u] /\ old'[u] = old[u]
                                 /\ index'[u] = index[u] /\ nxt'[u] = nxt[u]
  PROVE  /\ next' \in [0..Capacity -> 0..(Capacity + 1)] /\ next'[index[t]] = v
         /\ \A i \in Free : next'[i] = next[i]
         /\ \A u \in Threads \ {t} : Relies(u)'
  <1>1. TypeOK /\ FreeListIntact /\ UniqueOwner /\ WindowInv
    BY ZenonT(60) DEF IInv, FreeListIntact
  <1>2. index[t] \in 0..Capacity
    BY <1>1 DEF TypeOK, Indices
  <1>3. /\ next' \in [0..Capacity -> 0..(Capacity + 1)] /\ next'[index[t]] = v
        /\ \A i \in 0..Capacity : i # index[t] => next'[i] = next[i]
    BY <1>1, <1>2, ZenonT(60) DEF TypeOK
  <1>4. Free \subseteq Indices /\ index[t] \notin Free
    <2>1. Free \subseteq Indices
      BY <1>1 DEF TypeOK, Free
    <2>2. InFlight(t) \cap Free = {}
      BY <1>1, ZenonT(60) DEF UniqueOwner
    <2> QED
      BY <2>1, <2>2, ZenonT(60)
  <1>5. \A i \in Free : next'[i] = next[i]
    BY <1>3, <1>4 DEF Indices
  <1>6. ASSUME NEW u \in Threads \ {t} PROVE Relies(u)'
    <2>1. Relies(u)
      BY <1>1, ZenonT(60) DEF WindowInv
    <2>2. pc[u] = "acquire_cas" /\ win[u] = 0 => next'[old[u].head] = next[old[u].head]
      BY <1>1, <1>5, <2>1, HeadIsFree, ZenonT(60) DEF Relies, Window
    <2>3. pc[u] = "release_cas" => next'[index[u]] = next[index[u]]
      <3> SUFFICES ASSUME pc[u] = "release_cas" PROVE next'[index[u]] = next[index[u]]
        BY ZenonT(60)
      <3>1. InFlight(u) = {index[u]} /\ InFlight(u) \cap InFlight(t) = {}
        BY <1>1, ZenonT(60) DEF UniqueOwner, InFlight
      <3>2. index[u] \in 0..Capacity
        BY <1>1, SMTT(30) DEF TypeOK, Indices
      <3>3. index[u] # index[t]
        BY <3>1, ZenonT(60)
      <3> QED
        BY <1>3, <3>2, <3>3, ZenonT(60)
    <2> QED
      BY <2>1, <2>2, <2>3, ZenonT(60) DEF Relies
  <1> QED
    BY <1>3, <1>5, <1>6, ZenonT(60)

(* acquire_raw_index() reads the successor of the head it has loaded.            *)
LEMMA AcquireReadNextStep ==
  ASSUME IInv, NEW t \in Threads, AcquireReadNext(t)
  PROVE  IInv'
  <1>1. TypeOK /\ FreeListIntact /\ UniqueOwner /\ WindowInv
    BY ZenonT(60) DEF IInv, FreeListIntact
  <1>2. /\ UNCHANGED <<head, next, old, index, acquired, leaked, free, win>>
        /\ pc[t] = "read_next" /\ pc'[t] = "acquire_cas" /\ nxt'[t] = next[old[t].head]
        /\ \A u \in Threads \ {t} : pc'[u] = pc[u] /\ nxt'[u] = nxt[u]
    BY <1>1, ZenonT(60) DEF TypeOK, AcquireReadNext
  <1>3. TypeOK'
    <2>1. next[old[t].head] \in 0..(Capacity + 1)
      BY <1>1, ZenonT(60) DEF TypeOK, HeadDetails
    <2>2. /\ pc' \in [Threads -> Ready \cup Window \cup {"mark", "dead"}]
          /\ nxt' \in [Threads -> 0..(Capacity + 1)]
      BY <1>1, <2>1, ZenonT(60) DEF TypeOK, AcquireReadNext, Window
    <2> QED
      BY <1>1, <1>2, <2>2, ZenonT(60) DEF TypeOK
  <1>4. FreeListIntact'
    BY <1>1, <1>2, <1>3, FreeListKept, ZenonT(60)
  <1>5. UniqueOwner'
    <2>1. \A u \in Threads : InFlight(u)' = InFlight(u)
      BY <1>2, ZenonT(60) DEF InFlight
    <2>2. Free' = Free /\ acquired' = acquired /\ leaked' = leaked
      BY <1>2, ZenonT(60) DEF Free
    <2> QED
      BY <1>1, <2>1, <2>2, OwnersKept, ZenonT(60) DEF UniqueOwner
  <1>6. WindowInv'
    <2>1. Relies(t)'
      BY <1>1, <1>2, ZenonT(60) DEF WindowInv, Relies, Window
    <2>2. ASSUME NEW u \in Threads \ {t} PROVE Relies(u)'
      BY <1>1, <1>2, ZenonT(60) DEF WindowInv, Relies
    <2> QED
      BY <2>1, <2>2, ZenonT(60) DEF WindowInv
  <1> QED
    BY <1>4, <1>5, <1>6, ZenonT(60) DEF IInv

(* acquire_raw_index() marks its index as taken and hands it out.                *)
LEMMA AcquireMarkStep ==
  ASSUME IInv, NEW t \in Threads, AcquireMark(t)
  PROVE  IInv'
  <1>1. TypeOK /\ FreeListIntact /\ UniqueOwner /\ WindowInv
    BY ZenonT(60) DEF IInv, FreeListIntact
  <1>2. /\ UNCHANGED <<head, leaked, free, win>> /\ acquired' = acquired \cup {index[t]}
        /\ next' = [next EXCEPT ![index[t]] = Capacity + 1]
        /\ pc[t] = "mark" /\ pc'[t] = "idle"
        /\ \A u \in Threads \ {t} : /\ pc'[u] = pc[u] /\ old'[u] = old[u]
                                    /\ index'[u] = index[u] /\ nxt'[u] = nxt[u]
    BY <1>1, ZenonT(60) DEF TypeOK, AcquireMark, Forget
  <1>3. InFlight(t) = {index[t]} /\ InFlight(t)' = {}
        /\ \A u \in Threads \ {t} : InFlight(u)' = InFlight(u)
    BY <1>2, ZenonT(60) DEF InFlight
  <1>4. Capacity + 1 \in 0..(Capacity + 1)
    OBVIOUS
  <1>5. /\ next' \in [0..Capacity -> 0..(Capacity + 1)]
        /\ \A i \in Free : next'[i] = next[i]
        /\ \A u \in Threads \ {t} : Relies(u)'
    BY <1>2, <1>3, <1>4, EntryWritten, ZenonT(60)
  <1>6. TypeOK'
    <2>1. NewHead \in HeadDetails /\ 0 \in Indices /\ 0 \in 0..(Capacity + 1)
      BY DEF NewHead, HeadDetails, Indices
    <2>2. /\ pc' \in [Threads -> Ready \cup Window \cup {"mark", "dead"}]
          /\ old' \in [Threads -> HeadDetails] /\ index' \in [Threads -> Indices]
          /\ nxt' \in [Threads -> 0..(Capacity + 1)] /\ acquired' \subseteq Indices
      BY <1>1, <2>1, ZenonT(60) DEF TypeOK, AcquireMark, Forget, Ready
    <2> QED
      BY <1>1, <1>2, <1>5, <2>2, ZenonT(60) DEF TypeOK
  <1>7. FreeListIntact'
    BY <1>1, <1>2, <1>5, <1>6, FreeListKept, ZenonT(60)
  <1>8. UniqueOwner'
    <2>1. Free' = Free /\ leaked' = leaked
      BY <1>2, ZenonT(60) DEF Free
    <2>2. /\ Free \cap acquired = {} /\ Free \cap leaked = {} /\ acquired \cap leaked = {}
          /\ {index[t]} \cap (Free \cup acquired \cup leaked) = {}
      BY <1>1, <1>3, ZenonT(60) DEF UniqueOwner
    <2> QED
      BY <1>1, <1>2, <1>3, <2>1, <2>2, OwnersKept, ZenonT(60)
  <1>9. WindowInv'
    BY <1>2, <1>5, ZenonT(60) DEF WindowInv, Relies, Window
  <1> QED
    BY <1>7, <1>8, <1>9, ZenonT(60) DEF IInv

(* release_raw_index() links its index to the head it has loaded.                *)
LEMMA ReleaseWriteNextStep ==
  ASSUME IInv, NEW t \in Threads, ReleaseWriteNext(t)
  PROVE  IInv'
  <1>1. TypeOK /\ FreeListIntact /\ UniqueOwner /\ WindowInv
    BY ZenonT(60) DEF IInv, FreeListIntact
  <1>2. /\ UNCHANGED <<head, old, index, nxt, acquired, leaked, free, win>>
        /\ next' = [next EXCEPT ![index[t]] = old[t].head]
        /\ pc[t] = "write_next" /\ pc'[t] = "release_cas"
        /\ \A u \in Threads \ {t} : pc'[u] = pc[u]
    BY <1>1, ZenonT(60) DEF TypeOK, ReleaseWriteNext
  <1>3. InFlight(t) = {index[t]} /\ \A u \in Threads : InFlight(u)' = InFlight(u)
    BY <1>2, ZenonT(60) DEF InFlight
  <1>4. old[t].head \in 0..(Capacity + 1)
    BY <1>1, SMTT(30) DEF TypeOK, HeadDetails
  <1>5. /\ next' \in [0..Capacity -> 0..(Capacity + 1)] /\ next'[index[t]] = old[t].head
        /\ \A i \in Free : next'[i] = next[i]
        /\ \A u \in Threads \ {t} : Relies(u)'
    BY <1>2, <1>3, <1>4, EntryWritten, ZenonT(60)
  <1>6. TypeOK'
    <2>1. pc' \in [Threads -> Ready \cup Window \cup {"mark", "dead"}]
      BY <1>1, ZenonT(60) DEF TypeOK, ReleaseWriteNext, Window
    <2> QED
      BY <1>1, <1>2, <1>5, <2>1, ZenonT(60) DEF TypeOK
  <1>7. FreeListIntact'
    BY <1>1, <1>2, <1>5, <1>6, FreeListKept, ZenonT(60)
  <1>8. UniqueOwner'
    <2>1. Free' = Free /\ acquired' = acquired /\ leaked' = leaked
      BY <1>2, ZenonT(60) DEF Free
    <2> QED
      BY <1>1, <1>3, <2>1, OwnersKept, ZenonT(60) DEF UniqueOwner
  <1>9. WindowInv'
    <2>1. Relies(t)'
      BY <1>1, <1>2, <1>5, ZenonT(60) DEF WindowInv, Relies, Window
    <2> QED
      BY <1>5, <2>1, ZenonT(60) DEF WindowInv
  <1> QED
    BY <1>7, <1>8, <1>9, ZenonT(60) DEF IInv

(* A thread dies: the index it works on, if any, is lost, and nothing else.      *)
LEMMA DieStep ==
  ASSUME IInv, NEW t \in Threads, Die(t)
  PROVE  IInv'
  <1>1. TypeOK /\ FreeListIntact /\ UniqueOwner /\ WindowInv
    BY ZenonT(60) DEF IInv, FreeListIntact
  <1>2. /\ UNCHANGED <<head, next, acquired, free, win>>
        /\ leaked' = leaked \cup InFlight(t) /\ pc'[t] = "dead"
        /\ \A u \in Threads \ {t} : /\ pc'[u] = pc[u] /\ old'[u] = old[u]
                                    /\ index'[u] = index[u] /\ nxt'[u] = nxt[u]
    BY <1>1, ZenonT(60) DEF TypeOK, Die, Forget
  <1>3. TypeOK'
    <2>1. NewHead \in HeadDetails /\ 0 \in Indices /\ 0 \in 0..(Capacity + 1)
      BY DEF NewHead, HeadDetails, Indices
    <2>2. InFlight(t) \subseteq Indices
      BY <1>1, ZenonT(60) DEF TypeOK, InFlight
    <2>3. /\ pc' \in [Threads -> Ready \cup Window \cup {"mark", "dead"}]
          /\ old' \in [Threads -> HeadDetails] /\ index' \in [Threads -> Indices]
          /\ nxt' \in [Threads -> 0..(Capacity + 1)]
      BY <1>1, <2>1, ZenonT(60) DEF TypeOK, Die, Forget
    <2> QED
      BY <1>1, <1>2, <2>2, <2>3, ZenonT(60) DEF TypeOK
  <1>4. FreeListIntact'
    BY <1>1, <1>2, <1>3, FreeListKept, ZenonT(60)
  <1>5. UniqueOwner'
    <2>1. /\ Free' = Free /\ acquired' = acquired /\ InFlight(t)' = {}
          /\ \A u \in Threads \ {t} : InFlight(u)' = InFlight(u)
      BY <1>2, ZenonT(60) DEF Free, InFlight
    <2>2. /\ Free \cap acquired = {} /\ Free \cap leaked = {} /\ acquired \cap leaked = {}
          /\ InFlight(t) \cap (Free \cup acquired \cup leaked) = {}
      BY <1>1, ZenonT(60) DEF UniqueOwner
    <2> QED
      BY <1>1, <1>2, <2>1, <2>2, OwnersKept, ZenonT(60)
  <1>6. WindowInv'
    BY <1>1, <1>2 DEF WindowInv, Relies, Window
  <1> QED
    BY <1>4, <1>5, <1>6, ZenonT(60) DEF IInv

(* A successful exchange is not mistaken for no change by the other threads in   *)
(* their windows: the tag they have loaded is behind by one more.                *)
LEMMA ExchangeSeen ==
  ASSUME TypeOK, WindowInv, NEW t \in Threads, NEW value, Exchange(t, value),
         value.aba = wrapping_add(head.aba), next' = next,
         \A u \in Threads \ {t} : /\ pc'[u] = pc[u] /\ old'[u] = old[u]
                                 /\ index'[u] = index[u] /\ nxt'[u] = nxt[u]
  PROVE  /\ win' \in [Threads -> 0..(AbaModulus - 1)]
         /\ value.aba \in 0..(AbaModulus - 1)
         /\ \A u \in Threads \ {t} : Relies(u)'
  <1>1. head.aba \in 0..(AbaModulus - 1) /\ win \in [Threads -> 0..(AbaModulus - 1)]
    BY ZenonT(60) DEF TypeOK, HeadDetails
  <1>2. value.aba = IF head.aba = AbaModulus - 1 THEN 0 ELSE head.aba + 1
    BY <1>1, WrappingAdd, ZenonT(60)
  <1>3. win' \in [Threads -> 0..(AbaModulus - 1)]
    BY <1>1 DEF Exchange, WindowsStayOpen
  <1>4. ASSUME NEW u \in Threads \ {t} PROVE Relies(u)'
    <2>1. Relies(u) /\ old[u].aba \in 0..(AbaModulus - 1) /\ win[u] \in 0..(AbaModulus - 1)
      BY <1>1, ZenonT(60) DEF WindowInv, TypeOK, HeadDetails
    <2>2. CASE pc[u] \notin Window
      BY <2>2, ZenonT(60) DEF Relies, Window
    <2>3. CASE pc[u] \in Window
      <3>1. win'[u] = win[u] + 1 /\ win[u] < AbaModulus - 1 /\ head' = value
        BY <2>3, ZenonT(60) DEF Exchange, WindowsStayOpen
      <3>2. \/ value.aba = old[u].aba + win'[u]
            \/ value.aba + AbaModulus = old[u].aba + win'[u]
        BY <1>1, <1>2, <2>1, <2>3, <3>1 DEF Relies
      <3> QED
        BY <2>1, <3>1, <3>2 DEF Relies
    <2> QED
      BY <2>2, <2>3, ZenonT(60)
  <1> QED
    BY <1>1, <1>2, <1>3, <1>4

(* What is left of a list without its first element.                             *)
LEMMA TailOfList ==
  ASSUME NEW S, NEW s \in Seq(S), s # <<>>
  PROVE  /\ Tail(s) \in Seq(S) /\ Len(Tail(s)) = Len(s) - 1 /\ Len(s) \in Nat
         /\ \A i \in 1..Len(Tail(s)) : Tail(s)[i] = s[i + 1] /\ i + 1 \in 1..Len(s)
  OBVIOUS

(* acquire_raw_index() takes the first index out of the free list.               *)
LEMMA AcquireExchangeStep ==
  ASSUME IInv, NEW t \in Threads, AcquireExchange(t)
  PROVE  IInv'
  <1> DEFINE value == [head |-> nxt[t], aba |-> wrapping_add(old[t].aba),
                       borrowed_indices |-> old[t].borrowed_indices + 1]
  <1>1. TypeOK /\ FreeListIntact /\ UniqueOwner /\ WindowInv
    BY ZenonT(60) DEF IInv, FreeListIntact
  <1>2. /\ UNCHANGED <<next, acquired, leaked>> /\ free' = Tail(free)
        /\ Exchange(t, value) /\ head' = value /\ head = old[t]
        /\ pc[t] = "acquire_cas" /\ pc'[t] = "mark" /\ index'[t] = head.head
        /\ \A u \in Threads \ {t} : /\ pc'[u] = pc[u] /\ old'[u] = old[u]
                                    /\ index'[u] = index[u] /\ nxt'[u] = nxt[u]
    BY <1>1, ZenonT(60) DEF TypeOK, AcquireExchange, Exchange
  <1>3. /\ win' \in [Threads -> 0..(AbaModulus - 1)] /\ value.aba \in 0..(AbaModulus - 1)
        /\ \A u \in Threads \ {t} : Relies(u)'
    <2>1. value.aba = wrapping_add(head.aba) /\ next' = next
      BY <1>2, ZenonT(60)
    <2> HIDE DEF value
    <2> QED
      BY <1>1, <1>2, <2>1, ExchangeSeen, ZenonT(60)
  <1>4. /\ nxt[t] = next[head.head] /\ head.head < Capacity
        /\ head.borrowed_indices # LOCK_ACQUIRE
    <2>1. win[t] = 0
      BY <1>1, <1>2, NotOvertaken, ZenonT(60) DEF Window
    <2> QED
      BY <1>1, <1>2, <2>1, ZenonT(60) DEF WindowInv, Relies
  <1>5. 1 \in 1..Len(free) /\ head.head = free[1]
    BY <1>1, <1>4, HeadIsFree, ZenonT(60)
  <1>6. /\ free' \in Seq(Indices) /\ Len(free') = Len(free) - 1 /\ Len(free) \in Nat
        /\ \A i \in 1..Len(free') : free'[i] = free[i + 1] /\ i + 1 \in 1..Len(free)
    <2>1. free \in Seq(Indices) /\ free # <<>>
      BY <1>1, <1>5 DEF TypeOK
    <2> QED
      BY <1>2, <2>1, TailOfList, ZenonT(60)
  <1>7. /\ \A i \in 1..Len(free) : next[free[i]] = IF i = Len(free) THEN Capacity ELSE free[i + 1]
        /\ \A i, j \in 1..Len(free) : free[i] = free[j] => i = j
        /\ head.borrowed_indices = Capacity - Len(free)
    BY <1>1, <1>4, ZenonT(60) DEF FreeListIntact
  <1>8. /\ nxt[t] = IF free' = <<>> THEN Capacity ELSE free'[1]
        /\ nxt[t] \in 0..Capacity
    <2>1. CASE Len(free) = 1
      <3>1. free' = <<>>
        BY <1>6, <2>1
      <3> QED
        BY <1>4, <1>5, <1>7, <2>1, <3>1
    <2>2. CASE Len(free) # 1
      <3>1. 1 \in 1..Len(free')
        BY <1>5, <1>6, <2>2
      <3>2. free' # <<>> /\ free'[1] = free[2] /\ free'[1] \in Indices
        BY <1>6, <3>1
      <3>3. nxt[t] = free[1 + 1]
        BY <1>4, <1>5, <1>7, <2>2, ZenonT(60)
      <3> QED
        BY <3>2, <3>3 DEF Indices
    <2> QED
      BY <2>1, <2>2, ZenonT(60)
  <1>9. /\ head.borrowed_indices + 1 = Capacity - Len(free')
        /\ head.borrowed_indices + 1 \in 0..Capacity
    <2>1. Len(free) \in Nat /\ Len(free) >= 1 /\ Len(free') = Len(free) - 1
      BY <1>5, <1>6
    <2>2. head.borrowed_indices = Capacity - Len(free) /\ Capacity \in Nat
      BY <1>7, ZenonT(60)
    <2>3. Len(free) <= Capacity
      <3>1. head.borrowed_indices \in 0..Capacity
        BY <1>1, <1>4, ZenonT(60) DEF TypeOK, HeadDetails
      <3> QED
        BY <2>1, <2>2, <3>1
    <2> QED
      BY <2>1, <2>2, <2>3
  <1>10. TypeOK'
    <2>1. NewHead \in HeadDetails /\ 0 \in 0..(Capacity + 1)
      BY DEF NewHead, HeadDetails
    <2>2. head.head \in Indices
      BY <1>1, <1>5 DEF TypeOK
    <2>3. value \in HeadDetails
      <3>1. old[t].borrowed_indices + 1 \in 0..Capacity
        BY <1>2, <1>9, ZenonT(60)
      <3>2. wrapping_add(old[t].aba) \in 0..(AbaModulus - 1)
        BY <1>3, ZenonT(60)
      <3> QED
        BY <1>8, <3>1, <3>2, ZenonT(60) DEF HeadDetails
    <2>4. /\ pc' \in [Threads -> Ready \cup Window \cup {"mark", "dead"}]
          /\ old' \in [Threads -> HeadDetails] /\ index' \in [Threads -> Indices]
          /\ nxt' \in [Threads -> 0..(Capacity + 1)]
      BY <1>1, <1>2, <2>1, <2>2, ZenonT(60) DEF TypeOK, AcquireExchange
    <2> HIDE DEF value
    <2> QED
      BY <1>1, <1>2, <1>3, <1>6, <2>3, <2>4, ZenonT(60) DEF TypeOK
  <1>11. FreeListIntact'
    <2>1. head'.head = nxt[t] /\ head'.borrowed_indices = head.borrowed_indices + 1
      BY <1>2, ZenonT(60)
    <2>2. ASSUME NEW i \in 1..Len(free')
          PROVE  next'[free'[i]] = IF i = Len(free') THEN Capacity ELSE free'[i + 1]
      <3>1. /\ i + 1 \in 1..Len(free) /\ free'[i] = free[i + 1]
            /\ i = Len(free') <=> i + 1 = Len(free)
        BY <1>6
      <3>2. next'[free'[i]] = IF i + 1 = Len(free) THEN Capacity ELSE free[(i + 1) + 1]
        BY <1>2, <1>7, <3>1
      <3>3. i # Len(free') => i + 1 \in 1..Len(free')
        BY <1>6
      <3> QED
        BY <1>6, <3>1, <3>2, <3>3, ZenonT(60)
    <2>3. \A i, j \in 1..Len(free') : free'[i] = free'[j] => i = j
      BY <1>6, <1>7
    <2> QED
      BY <1>8, <1>9, <1>10, <2>1, <2>2, <2>3, ZenonT(60) DEF FreeListIntact
  <1>12. UniqueOwner'
    <2>1. Free' = Free \ {head.head} /\ head.head \in Free
      <3>1. \A i \in 1..Len(free) : i # 1 => i - 1 \in 1..Len(free') /\ free'[i - 1] = free[i]
        BY <1>6
      <3>2. \A i \in 1..Len(free') : free'[i] \in Free \ {head.head}
        <4> SUFFICES ASSUME NEW i \in 1..Len(free') PROVE free'[i] \in Free \ {head.head}
          BY ZenonT(60)
        <4>1. free'[i] = free[i + 1] /\ i + 1 \in 1..Len(free) /\ i + 1 # 1
          BY <1>6
        <4>2. free[i + 1] # free[1]
          BY <1>5, <1>7, <4>1, ZenonT(60)
        <4> QED
          BY <1>5, <4>1, <4>2, ZenonT(60) DEF Free
      <3>3. Free' \subseteq Free \ {head.head}
        BY <3>2, ZenonT(60) DEF Free
      <3>4. Free \ {head.head} \subseteq Free'
        BY <1>5, <3>1 DEF Free
      <3> QED
        BY <1>5, <3>3, <3>4, ZenonT(60) DEF Free
    <2>2. /\ InFlight(t)' = {head.head} /\ InFlight(t) = {}
          /\ \A u \in Threads \ {t} : InFlight(u)' = InFlight(u)
      BY <1>2, ZenonT(60) DEF InFlight
    <2>3. acquired' = acquired /\ leaked' = leaked
      BY <1>2, ZenonT(60)
    <2>4. Free \cap acquired = {} /\ Free \cap leaked = {} /\ acquired \cap leaked = {}
      BY <1>1, ZenonT(60) DEF UniqueOwner
    <2> QED
      BY <1>1, <2>1, <2>2, <2>3, <2>4, OwnersKept
  <1>13. WindowInv'
    BY <1>2, <1>3, ZenonT(60) DEF WindowInv, Relies, Window
  <1> QED
    BY <1>11, <1>12, <1>13, ZenonT(60) DEF IInv

(* release_raw_index() puts its index back in front of the free list.  It was not *)
(* there, so the list was not complete and the set not locked.                   *)
LEMMA ReleaseExchangeStep ==
  ASSUME IInv, NEW t \in Threads, NEW mode, ReleaseExchange(t, mode)
  PROVE  IInv'
  <1> DEFINE value == [head |-> index[t], aba |-> wrapping_add(old[t].aba),
                       borrowed_indices |->
                          IF mode = "LockIfLastIndex" /\ old[t].borrowed_indices = 1
                          THEN LOCK_ACQUIRE ELSE old[t].borrowed_indices - 1]
  <1>1. TypeOK /\ FreeListIntact /\ UniqueOwner /\ WindowInv
    BY ZenonT(60) DEF IInv, FreeListIntact
  <1>2. /\ UNCHANGED <<next, acquired, leaked>> /\ free' = <<index[t]>> \o free
        /\ Exchange(t, value) /\ head' = value /\ head = old[t]
        /\ pc[t] = "release_cas" /\ pc'[t] = "idle"
        /\ \A u \in Threads \ {t} : /\ pc'[u] = pc[u] /\ old'[u] = old[u]
                                    /\ index'[u] = index[u] /\ nxt'[u] = nxt[u]
    BY <1>1, ZenonT(60) DEF TypeOK, ReleaseExchange, Exchange, Forget
  <1>3. /\ win' \in [Threads -> 0..(AbaModulus - 1)] /\ value.aba \in 0..(AbaModulus - 1)
        /\ \A u \in Threads \ {t} : Relies(u)'
    <2>1. value.aba = wrapping_add(head.aba) /\ next' = next
      BY <1>2, ZenonT(60)
    <2> HIDE DEF value
    <2> QED
      BY <1>1, <1>2, <2>1, ExchangeSeen, ZenonT(60)
  <1>4. next[index[t]] = head.head
    BY <1>1, <1>2, ZenonT(60) DEF WindowInv, Relies
  <1>5. index[t] \in Indices /\ free \in Seq(Indices) /\ Len(free) \in Nat
    BY <1>1 DEF TypeOK
  <1>6. InFlight(t) = {index[t]} /\ index[t] \notin Free
    <2>1. InFlight(t) = {index[t]}
      BY <1>2, ZenonT(60) DEF InFlight
    <2>2. InFlight(t) \cap Free = {}
      BY <1>1, ZenonT(60) DEF UniqueOwner
    <2> QED
      BY <2>1, <2>2, ZenonT(60)
  <1>7. /\ head.head = IF free = <<>> THEN Capacity ELSE free[1]
        /\ \A i \in 1..Len(free) : next[free[i]] = IF i = Len(free) THEN Capacity ELSE free[i + 1]
        /\ \A i, j \in 1..Len(free) : free[i] = free[j] => i = j
    BY <1>1, ZenonT(60) DEF FreeListIntact
  <1>8. Len(free) < Capacity /\ head.borrowed_indices = Capacity - Len(free)
    <2>1. /\ Len(free) <= Capacity
          /\ Len(free) = Capacity => \A x \in Indices : \E i \in 1..Len(free) : free[i] = x
      BY <1>5, <1>7, DistinctIndices, ZenonT(60)
    <2>2. Len(free) # Capacity
      BY <1>5, <1>6, <2>1, ZenonT(60) DEF Free
    <2> QED
      BY <1>1, <1>5, <2>1, <2>2 DEF FreeListIntact
  <1>9. /\ free' \in Seq(Indices) /\ Len(free') = Len(free) + 1 /\ free'[1] = index[t]
        /\ \A i \in 1..Len(free) : free'[i + 1] = free[i]
        /\ \A i \in 1..Len(free') : i # 1 => free'[i] = free[i - 1] /\ i - 1 \in 1..Len(free)
    BY <1>2, <1>5
  <1>10. \/ value.borrowed_indices = Capacity - Len(free')
         \/ value.borrowed_indices = LOCK_ACQUIRE /\ Len(free') = Capacity
    BY <1>2, <1>5, <1>8, <1>9
  <1>11. TypeOK'
    <2>1. NewHead \in HeadDetails /\ 0 \in Indices /\ 0 \in 0..(Capacity + 1)
      BY DEF NewHead, HeadDetails, Indices
    <2>2. value \in HeadDetails
      <3>1. value.borrowed_indices \in (0..Capacity) \cup {LOCK_ACQUIRE}
        BY <1>5, <1>8, <1>9, <1>10
      <3>2. index[t] \in 0..Capacity
        BY <1>5 DEF Indices
      <3> QED
        BY <1>3, <3>1, <3>2, ZenonT(60) DEF HeadDetails
    <2>3. /\ pc' \in [Threads -> Ready \cup Window \cup {"mark", "dead"}]
          /\ old' \in [Threads -> HeadDetails] /\ index' \in [Threads -> Indices]
          /\ nxt' \in [Threads -> 0..(Capacity + 1)]
      BY <1>1, <2>1, ZenonT(60) DEF TypeOK, ReleaseExchange, Forget, Ready
    <2> HIDE DEF value
    <2> QED
      BY <1>1, <1>2, <1>3, <1>9, <2>2, <2>3, ZenonT(60) DEF TypeOK
  <1>12. FreeListIntact'
    <2>1. head'.head = index[t] /\ head'.borrowed_indices = value.borrowed_indices
      BY <1>2, ZenonT(60)
    <2>2. head'.head = IF free' = <<>> THEN Capacity ELSE free'[1]
      <3>1. 1 \in 1..Len(free')
        BY <1>5, <1>9
      <3> QED
        BY <1>9, <2>1, <3>1
    <2>3. ASSUME NEW i \in 1..Len(free')
          PROVE  next'[free'[i]] = IF i = Len(free') THEN Capacity ELSE free'[i + 1]
      <3>1. CASE i = 1
        <4>1. next'[free'[i]] = IF free = <<>> THEN Capacity ELSE free[1]
          BY <1>2, <1>4, <1>7, <1>9, <3>1, ZenonT(60)
        <4>2. CASE Len(free) = 0
          BY <1>5, <1>9, <3>1, <4>1, <4>2
        <4>3. CASE Len(free) # 0
          <5>1. 1 \in 1..Len(free) /\ free # <<>>
            BY <1>5, <4>3
          <5> QED
            BY <1>5, <1>9, <3>1, <4>1, <5>1
        <4> QED
          BY <4>2, <4>3, ZenonT(60)
      <3>2. CASE i # 1
        <4>1. /\ i - 1 \in 1..Len(free) /\ free'[i] = free[i - 1]
              /\ i = Len(free') <=> i - 1 = Len(free)
          BY <1>5, <1>9, <3>2
        <4>2. next'[free'[i]] = IF i - 1 = Len(free) THEN Capacity ELSE free[(i - 1) + 1]
          BY <1>2, <1>7, <4>1
        <4>3. i # Len(free') => i \in 1..Len(free) /\ free'[i + 1] = free[i]
          BY <1>5, <1>9
        <4> QED
          BY <4>1, <4>2, <4>3
      <3> QED
        BY <3>1, <3>2, ZenonT(60)
    <2>4. \A i, j \in 1..Len(free') : free'[i] = free'[j] => i = j
      <3>1. \A i \in 1..Len(free) : free[i] # index[t]
        BY <1>6, ZenonT(60) DEF Free
      <3>2. ASSUME NEW i \in 1..Len(free'), NEW j \in 1..Len(free'), free'[i] = free'[j],
                   i # 1, j # 1
            PROVE  i = j
        <4>1. i - 1 = j - 1
          BY <1>7, <1>9, <3>2
        <4> QED
          BY <1>5, <1>9, <4>1
      <3>3. \A i \in 1..Len(free') : i # 1 => free'[i] # free'[1]
        BY <1>9, <3>1, ZenonT(60)
      <3> QED
        BY <3>2, <3>3, ZenonT(60)
    <2> HIDE DEF value
    <2> QED
      BY <1>10, <1>11, <2>1, <2>2, <2>3, <2>4, ZenonT(60) DEF FreeListIntact
  <1>13. UniqueOwner'
    <2>1. Free' = Free \cup {index[t]}
      <3>1. Free' \subseteq Free \cup {index[t]}
        BY <1>9 DEF Free
      <3>2. 1 \in 1..Len(free') /\ \A i \in 1..Len(free) : i + 1 \in 1..Len(free')
        BY <1>5, <1>9
      <3>3. Free \cup {index[t]} \subseteq Free'
        BY <1>9, <3>2 DEF Free
      <3> QED
        BY <3>1, <3>3, ZenonT(60)
    <2>2. /\ InFlight(t)' = {}
          /\ \A u \in Threads \ {t} : InFlight(u)' = InFlight(u)
      BY <1>2, ZenonT(60) DEF InFlight
    <2>3. acquired' = acquired /\ leaked' = leaked
      BY <1>2, ZenonT(60)
    <2>4. /\ Free \cap acquired = {} /\ Free \cap leaked = {} /\ acquired \cap leaked = {}
          /\ InFlight(t) \cap (Free \cup acquired \cup leaked) = {}
      BY <1>1, ZenonT(60) DEF UniqueOwner
    <2> QED
      BY <1>1, <1>6, <2>1, <2>2, <2>3, <2>4, OwnersKept, ZenonT(60)
  <1>14. WindowInv'
    BY <1>2, <1>3, ZenonT(60) DEF WindowInv, Relies, Window
  <1> QED
    BY <1>12, <1>13, <1>14, ZenonT(60) DEF IInv

LEMMA NextInv == IInv /\ [Next]_vars => IInv'
  <1> SUFFICES ASSUME IInv, [Next]_vars PROVE IInv'
    BY ZenonT(60)
  <1>1. CASE UNCHANGED vars
    <2>1. TypeOK'  BY <1>1, SMTT(30) DEF vars, IInv, FreeListIntact, TypeOK
    <2>2. UniqueOwner'  BY <1>1 DEF vars, IInv, UniqueOwner, Free, InFlight
    <2>3. FreeListIntact'  BY <1>1, <2>1 DEF vars, IInv, FreeListIntact
    <2>4. WindowInv'  BY <1>1 DEF vars, IInv, WindowInv, Relies
    <2> QED BY <2>1, <2>2, <2>3, <2>4, ZenonT(60) DEF IInv
  <1>2. ASSUME NEW t \in Threads, AcquireLoad(t) PROVE IInv'
    BY <1>2, LoadStep, ZenonT(60)
  <1>3. ASSUME NEW t \in Threads, NEW i \in Indices, ReleaseLoad(t, i) PROVE IInv'
    BY <1>3, LoadStep, ZenonT(60)
  <1>4. ASSUME NEW t \in Threads, AcquireExchangeFailed(t) \/ ReleaseExchangeFailed(t) PROVE IInv'
    BY <1>4, LoadStep, ZenonT(60)
  <1>5. ASSUME NEW t \in Threads, AcquireReadNext(t) PROVE IInv'
    BY <1>5, AcquireReadNextStep, ZenonT(60)
  <1>6. ASSUME NEW t \in Threads, AcquireExchange(t) PROVE IInv'
    BY <1>6, AcquireExchangeStep, ZenonT(60)
  <1>7. ASSUME NEW t \in Threads, AcquireMark(t) PROVE IInv'
    BY <1>7, AcquireMarkStep, ZenonT(60)
  <1>8. ASSUME NEW t \in Threads, ReleaseWriteNext(t) PROVE IInv'
    BY <1>8, ReleaseWriteNextStep, ZenonT(60)
  <1>9. ASSUME NEW t \in Threads, NEW mode, ReleaseExchange(t, mode) PROVE IInv'
    BY <1>9, ReleaseExchangeStep, ZenonT(60)
  <1>10. ASSUME NEW t \in Threads, Die(t) PROVE IInv'
    BY <1>10, DieStep, ZenonT(60)
  <1> QED
    BY <1>1, <1>2, <1>3, <1>4, <1>5, <1>6, <1>7, <1>8, <1>9, <1>10, ZenonT(60) DEF Next, Step

LEMMA Invariance == Spec => []IInv
  BY InitInv, NextInv, PTL DEF Spec

------------------------------------------------------------------------------
(* However acquire and release of any number of threads interleave, and whoever  *)
(* dies in between, the list reachable from head is the list of the free         *)
(* indices, without repetitions, and borrowed_indices() counts the others.       *)
THEOREM ListStaysIntact == Spec => []FreeListIntact
  <1>1. IInv => FreeListIntact
    BY ZenonT(60) DEF IInv
  <1> QED
    BY <1>1, Invariance, PTL

(* acquire_raw_index() never hands out an index that somebody already has.       *)
THEOREM IndicesHaveOneOwner == Spec => []UniqueOwner
  <1>1. IInv => UniqueOwner
    BY ZenonT(60) DEF IInv
  <1> QED
    BY <1>1, Invariance, PTL

(* A locked set has every index in its free list, hence no user and no thread    *)
(* that could change it.                                                         *)
LEMMA LockedIsIdle ==
  ASSUME IInv, head.borrowed_indices = LOCK_ACQUIRE
  PROVE  /\ acquired = {}
         /\ \A t \in Threads : /\ pc[t] \notin {"mark", "write_next", "release_cas"}
                               /\ pc[t] = "acquire_cas" => head # old[t]
  <1>1. TypeOK /\ FreeListIntact /\ UniqueOwner /\ WindowInv
    BY ZenonT(60) DEF IInv, FreeListIntact
  <1>2. free \in Seq(Indices) /\ Len(free) = Capacity
        /\ \A i, j \in 1..Len(free) : free[i] = free[j] => i = j
    BY <1>1 DEF FreeListIntact, TypeOK
  <1>3. \A x \in Indices : \E i \in 1..Len(free) : free[i] = x
    BY <1>2, DistinctIndices, ZenonT(60)
  <1>4. Indices \subseteq Free
    BY <1>3, ZenonT(60) DEF Free
  <1>5. acquired = {}
    BY <1>1, <1>4, ZenonT(60) DEF UniqueOwner, TypeOK
  <1>6. ASSUME NEW t \in Threads PROVE pc[t] \notin {"mark", "write_next", "release_cas"}
    <2>1. InFlight(t) \cap Free = {}
      BY <1>1, ZenonT(60) DEF UniqueOwner
    <2>2. index[t] \in Free
      BY <1>1, <1>4, ZenonT(60) DEF TypeOK
    <2> QED
      BY <2>1, <2>2, ZenonT(60) DEF InFlight
  <1>7. ASSUME NEW t \in Threads, pc[t] = "acquire_cas" PROVE head # old[t]
    BY <1>1, <1>7, ZenonT(60) DEF WindowInv, Relies
  <1> QED
    BY <1>5, <1>6, <1>7, ZenonT(60)

(* OutOfIndices is returned only when no index is free, and once a release       *)
(* returned Locked no index is handed out any more.                              *)
THEOREM OnlyJustifiedRefusals == Spec => RefusalsJustified
  <1> DEFINE Justified ==
        /\ \A t \in Threads : pc[t] # "OutOfIndices" /\ pc'[t] = "OutOfIndices" => free = <<>>
        /\ head.borrowed_indices = LOCK_ACQUIRE => head' = head /\ acquired' = {}
  <1>1. ASSUME IInv, [Next]_vars PROVE [Justified]_vars
    <2> SUFFICES ASSUME Next PROVE Justified
      BY <1>1, ZenonT(60)
    <2>1. PICK t \in Threads : \/ AcquireLoad(t) \/ (\E i \in Indices : ReleaseLoad(t, i))
                              \/ Step(t) \/ Die(t)
      BY ZenonT(60) DEF Next
    <2>2. TypeOK /\ FreeListIntact
      BY <1>1, ZenonT(60) DEF IInv, FreeListIntact
    <2>3. ASSUME NEW u \in Threads, pc[u] # "OutOfIndices", pc'[u] = "OutOfIndices"
          PROVE  free = <<>>
      <3>1. pc'[t] = "OutOfIndices" => Examine(head) = "OutOfIndices"
        BY <2>1, <2>2, <2>3, ZenonT(60) DEF Step, TypeOK, AcquireLoad, ReleaseLoad, AcquireReadNext,
           AcquireExchange, AcquireExchangeFailed, AcquireMark, ReleaseWriteNext, ReleaseExchange,
           ReleaseExchangeFailed, Die
      <3>2. u # t => pc'[u] = pc[u]
        BY <2>1, <2>2, ZenonT(60) DEF Step, TypeOK, AcquireLoad, ReleaseLoad, AcquireReadNext,
           AcquireExchange, AcquireExchangeFailed, AcquireMark, ReleaseWriteNext, ReleaseExchange,
           ReleaseExchangeFailed, Die
      <3>3. ~ (head.head < Capacity)
        <4>1. head.head \in 0..Capacity
          BY <2>2, ZenonT(60) DEF TypeOK, HeadDetails
        <4> QED
          BY <2>3, <3>1, <3>2, <4>1 DEF Examine
      <3>4. ASSUME free # <<>> PROVE FALSE
        <4>1. head.head = free[1]
          BY <2>2, <3>4, ZenonT(60) DEF FreeListIntact
        <4>2. free[1] \in Indices
          BY <2>2, <3>4 DEF TypeOK
        <4> QED
          BY <3>3, <4>1, <4>2 DEF Indices
      <3> QED
        BY <3>4, ZenonT(60)
    <2>4. ASSUME head.borrowed_indices = LOCK_ACQUIRE PROVE head' = head /\ acquired' = {}
      <3>1. /\ acquired = {} /\ pc[t] \notin {"mark", "write_next", "release_cas"}
            /\ pc[t] = "acquire_cas" => head # old[t]
        BY <1>1, <2>4, LockedIsIdle, ZenonT(60)
      <3> QED
        BY <2>1, <3>1, ZenonT(60) DEF Step, AcquireLoad, ReleaseLoad, AcquireReadNext, AcquireExchange,
           AcquireExchangeFailed, AcquireMark, ReleaseWriteNext, ReleaseExchange,
           ReleaseExchangeFailed, Die, Exchange
    <2> QED
      BY <2>3, <2>4, ZenonT(60)
  <1> QED
    BY <1>1, Invariance, PTL DEF Spec, RefusalsJustified
=============================================================================
