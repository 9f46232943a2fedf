------------------------- MODULE PublishSubscribeProofs -------------------------
(* Proofs about PublishSubscribe for every configuration of the service and any   *)
(* set of subscribers.                                                            *)
EXTENDS PublishSubscribe, Integers, FiniteSetTheorems, TLAPS

(* The subscriber no longer exists and is no longer registered.                 *)
Gone(s) == status[s] \in {"dropped", "gone"}

(* The subscriber is or was in the slot.                                        *)
Has(s, i) == s \in {registry[i], subscriber_list_state[i], connections[i]}

(* A subscriber has one slot for good.  What the publisher knows is behind the  *)
(* registry only for subscribers that are gone.                                 *)
SlotInv ==
  \A s \in Subscribers :
    /\ \A i, j \in Slots : Has(s, i) /\ Has(s, j) => i = j
    /\ status[s] = "new" => \A i \in Slots : ~ Has(s, i)
    /\ Gone(s) => \A i \in Slots : registry[i] # s
    /\ \A i \in Slots : subscriber_list_state[i] = s => registry[i] = s \/ Gone(s)
    /\ \A i \in Slots : connections[i] = s => subscriber_list_state[i] = s \/ Gone(s)

Delivering == p_pc = "deliver"
Catching == p_pc \in {"history", "history_send"}

ControlInv ==
  /\ p_pc \in {"update", "history", "history_send", "deliver"} => p_slot \in Slots
  /\ p_pc = "idle" => p_chunk = None
  /\ p_pc \in {"send", "deliver", "drop"} => p_chunk # None
  /\ p_chunk # None => p_chunk \in loaned
  /\ Catching => connections[p_slot] # None

(* On a channel that is connected every chunk is in one place, ...              *)
OnePlace(s) ==
  /\ used_chunk_list[s] = Range(submission[s]) \cup held[s] \cup completion[s]
  /\ IsInjective(submission[s])
  /\ Range(submission[s]) \cap held[s] = {}
  /\ Range(submission[s]) \cap completion[s] = {}
  /\ held[s] \cap completion[s] = {}

(* ... on one that is not there is nothing.                                     *)
Unused(s) ==
  /\ submission[s] = <<>> /\ completion[s] = {} /\ used_chunk_list[s] = {} /\ last[s] = 0
  /\ held[s] = {} \/ (Gone(s) /\ \A i \in Slots : subscriber_list_state[i] # s)

ChannelInv ==
  /\ \A s \in Connected : OnePlace(s)
  /\ \A s \in Subscribers \ Connected : Unused(s)

Unsent == IF p_pc \in {"deliver", "drop"} THEN Writable ELSE loaned

OwnerInv ==
  /\ IsInjective(history)
  /\ \A c \in Unsent : c \notin Range(history) /\ \A s \in Subscribers : c \notin used_chunk_list[s]
  /\ Delivering => \A k \in p_slot..MaxSubscribers :
                      connections[k] # None => p_chunk \notin used_chunk_list[connections[k]]
  /\ Catching => /\ p_pending # <<>> /\ IsInjective(p_pending)
                 /\ Range(p_pending) \subseteq Range(history)
                 /\ Range(p_pending) \cap used_chunk_list[connections[p_slot]] = {}

Users(c) == {s \in Subscribers : c \in used_chunk_list[s]}
Owners(c) == One(c \in loaned) + One(c \in Range(history)) + Cardinality(Users(c))

CountInv ==
  \A c \in Chunks : ref_count[c] = Owners(c) /\ (c \in free <=> ref_count[c] = 0)

BoundInv ==
  /\ Len(history) <= HistorySize
  /\ Cardinality(loaned) <= MaxLoans
  /\ \A s \in Subscribers : Len(submission[s]) <= BufferSize /\ Cardinality(held[s]) <= MaxBorrowed


------------------------------------------------------------------------------
(* The configuration, sequences and sets                                        *)

LEMMA ConfigTypes ==
  ASSUME static_config \in Configs
  PROVE  /\ MaxSubscribers \in Nat \ {0} /\ BufferSize \in Nat \ {0}
         /\ MaxBorrowed \in Nat \ {0} /\ MaxLoans \in Nat \ {0}
         /\ HistorySize \in Nat /\ MaxSend \in Nat
         /\ SafeOverflow \in BOOLEAN /\ Block \in BOOLEAN
  BY ConfigAssumption, ZenonT(60)
     DEF MaxSubscribers, BufferSize, MaxBorrowed, MaxLoans, HistorySize, MaxSend, SafeOverflow, Block

LEMMA SameConfig ==
  ASSUME static_config' = static_config
  PROVE  /\ MaxSubscribers' = MaxSubscribers /\ BufferSize' = BufferSize
         /\ MaxBorrowed' = MaxBorrowed /\ MaxLoans' = MaxLoans
         /\ HistorySize' = HistorySize /\ SafeOverflow' = SafeOverflow
         /\ Slots' = Slots /\ Chunks' = Chunks
  BY ZenonT(60) DEF MaxSubscribers, BufferSize, MaxBorrowed, MaxLoans, HistorySize, SafeOverflow,
         Slots, Chunks, required_amount_of_samples_per_data_segment

LEMMA NoneApart ==
  /\ None \notin Subscribers
  /\ None \notin Chunks
  BY NoneAssumption DEF Chunks

(* A nonempty sequence without repetition is its head and its tail.             *)
LEMMA HeadAndTail ==
  ASSUME NEW S, NEW q \in Seq(S), q # <<>>, IsInjective(q)
  PROVE  /\ Head(q) \in S /\ Tail(q) \in Seq(S) /\ Len(Tail(q)) = Len(q) - 1
         /\ Range(q) = Range(Tail(q)) \cup {Head(q)}
         /\ Head(q) \notin Range(Tail(q))
         /\ IsInjective(Tail(q))
  <1> USE ZenonT(60)
  <1>1. /\ Len(q) \in Nat \ {0} /\ DOMAIN q = 1..Len(q) /\ Head(q) = q[1] /\ 1 \in DOMAIN q
        /\ Tail(q) \in Seq(S) /\ Len(Tail(q)) = Len(q) - 1 /\ DOMAIN Tail(q) = 1..(Len(q) - 1)
        /\ \A i \in 1..(Len(q) - 1) : Tail(q)[i] = q[i + 1]
    BY SMTT(30)
  <1>2. Range(q) = Range(Tail(q)) \cup {Head(q)}
    <2>1. ASSUME NEW i \in DOMAIN q PROVE q[i] \in Range(Tail(q)) \cup {Head(q)}
      <3>1. CASE i = 1  BY <1>1, <3>1
      <3>2. CASE i # 1
        <4>1. i - 1 \in 1..(Len(q) - 1) /\ (i - 1) + 1 = i  BY <1>1, <3>2, SMTT(30)
        <4> QED BY <1>1, <4>1, ZenonT(60) DEF Range
      <3> QED BY <3>1, <3>2
    <2>2. ASSUME NEW i \in DOMAIN Tail(q) PROVE Tail(q)[i] \in Range(q)
      <3>1. i + 1 \in DOMAIN q  BY <1>1, SMTT(30)
      <3> QED BY <1>1, <3>1 DEF Range
    <2>3. Head(q) \in Range(q)  BY <1>1 DEF Range
    <2> QED BY <2>1, <2>2, <2>3 DEF Range
  <1>3. Head(q) \notin Range(Tail(q))
    <2> SUFFICES ASSUME NEW i \in 1..(Len(q) - 1), Tail(q)[i] = Head(q) PROVE FALSE
      BY <1>1 DEF Range
    <2>1. i + 1 \in DOMAIN q /\ q[i + 1] = q[1] /\ i + 1 # 1  BY <1>1, SMTT(30)
    <2> QED BY <1>1, <2>1 DEF IsInjective
  <1>4. IsInjective(Tail(q))
    <2> SUFFICES ASSUME NEW i \in 1..(Len(q) - 1), NEW j \in 1..(Len(q) - 1), Tail(q)[i] = Tail(q)[j]
                 PROVE  i = j
      BY <1>1 DEF IsInjective
    <2>1. i + 1 \in DOMAIN q /\ j + 1 \in DOMAIN q /\ q[i + 1] = q[j + 1]  BY <1>1, SMTT(30)
    <2>2. i + 1 = j + 1  BY <2>1 DEF IsInjective
    <2> QED BY <2>2, SMTT(30)
  <1> QED BY <1>1, <1>2, <1>3, <1>4, SMTT(30)

LEMMA Appended ==
  ASSUME NEW S, NEW q \in Seq(S), NEW x \in S, IsInjective(q), x \notin Range(q)
  PROVE  /\ Append(q, x) \in Seq(S) /\ Len(Append(q, x)) = Len(q) + 1
         /\ Range(Append(q, x)) = Range(q) \cup {x}
         /\ IsInjective(Append(q, x))
  BY DEF Range, IsInjective

(* The newest samples of the history, as many as fit into the buffer            *)
LEMMA Suffix ==
  ASSUME NEW S, NEW h \in Seq(S), IsInjective(h), NEW a \in 1..Len(h)
  PROVE  LET q == SubSeq(h, a, Len(h)) IN
         /\ q \in Seq(S) /\ q # <<>> /\ IsInjective(q) /\ Range(q) \subseteq Range(h)
         /\ Len(q) = Len(h) - a + 1
         /\ \A i \in 1..Len(q) : i + a - 1 \in 1..Len(h) /\ q[i] = h[i + a - 1]
  <1> DEFINE q == SubSeq(h, a, Len(h))
  <1>1. Len(h) \in Nat /\ DOMAIN h = 1..Len(h) /\ a \in Nat /\ 1 <= a /\ a <= Len(h)
    OBVIOUS
  <1>2. q \in Seq(S) /\ Len(q) = Len(h) - a + 1  OBVIOUS
  <1>3. \A i \in 1..(Len(h) - a + 1) : q[i] = h[i + a - 1]  OBVIOUS
  <1> HIDE DEF q
  <1>4. DOMAIN q = 1..Len(q)  BY <1>2
  <1>5. \A i \in 1..Len(q) : i \in Nat /\ i + a - 1 \in 1..Len(h)  BY <1>1, <1>2
  <1>6. q # <<>>  BY <1>1, <1>2
  <1>7. Range(q) \subseteq Range(h)  BY <1>1, <1>2, <1>3, <1>4, <1>5, ZenonT(60) DEF Range
  <1>8. IsInjective(q)
    <2> SUFFICES ASSUME NEW i \in 1..Len(q), NEW j \in 1..Len(q), q[i] = q[j] PROVE i = j
      BY <1>4, ZenonT(60) DEF IsInjective
    <2>1. i + a - 1 \in DOMAIN h /\ j + a - 1 \in DOMAIN h /\ h[i + a - 1] = h[j + a - 1]
      BY <1>1, <1>2, <1>3, <1>5, ZenonT(60)
    <2>2. i + a - 1 = j + a - 1  BY <2>1, ZenonT(60) DEF IsInjective
    <2> QED BY <1>1, <1>5, <2>2
  <1> QED BY <1>2, <1>3, <1>5, <1>6, <1>7, <1>8, ZenonT(60) DEF q

LEMMA Elements ==
  ASSUME NEW S, NEW q \in Seq(S)
  PROVE  Range(q) \subseteq S
  BY DEF Range

LEMMA ConnectedFinite ==
  ASSUME TypeOK
  PROVE  /\ Connected \subseteq Subscribers /\ IsFiniteSet(Connected)
         /\ Cardinality(Connected) <= MaxSubscribers
  <1> USE ZenonT(60)
  <1> DEFINE T == {connections[i] : i \in Slots}
  <1>1. connections \in [Slots -> Subscribers \cup {None}]  BY DEF TypeOK
  <1>2. connections \in Surjection(Slots, T)  BY <1>1 DEF Surjection
  <1>3. IsFiniteSet(Slots) /\ Cardinality(Slots) = MaxSubscribers
    BY ConfigTypes, FS_Interval, SMTT(30) DEF Slots, TypeOK
  <1>4. IsFiniteSet(T) /\ Cardinality(T) <= MaxSubscribers
    BY <1>2, <1>3, FS_Surjection
  <1>5. Connected = T \ {None}  BY DEF Connected
  <1>6. IsFiniteSet(Connected) /\ Cardinality(Connected) <= MaxSubscribers
    <2>1. Connected \in SUBSET T  BY <1>5
    <2>2. MaxSubscribers \in Nat /\ Cardinality(T) \in Nat
      BY <1>4, FS_CardinalityType, ConfigTypes DEF TypeOK
    <2>3. IsFiniteSet(Connected) /\ Cardinality(Connected) <= Cardinality(T)
      BY <1>4, <2>1, FS_Subset
    <2>4. Cardinality(Connected) \in Nat  BY <2>3, FS_CardinalityType
    <2> QED BY <1>4, <2>2, <2>3, <2>4, SMTT(30)
  <1> QED BY <1>1, <1>5, <1>6

(* Only connected subscribers use a chunk.                                      *)
LEMMA UsersFinite ==
  ASSUME TypeOK, ChannelInv, NEW c \in Chunks
  PROVE  Users(c) \subseteq Connected /\ IsFiniteSet(Users(c)) /\ Cardinality(Users(c)) \in Nat
  <1>1. Users(c) \in SUBSET Connected  BY ZenonT(60) DEF Users, ChannelInv, OnePlace, Unused
  <1> QED BY <1>1, ConnectedFinite, FS_Subset, FS_CardinalityType, ZenonT(60)

(* What every reference is: counting gains and losses keeps the counters exact. *)
LEMMA CountStep ==
  ASSUME CountInv, Chunks' = Chunks,
         NEW gain, NEW loss, Count(gain, loss),
         \A c \in Chunks : /\ gain[c] \in Nat /\ loss[c] \in Nat /\ Owners(c) \in Nat
                           /\ loss[c] <= Owners(c)
                           /\ Owners(c)' = Owners(c) + gain[c] - loss[c]
  PROVE  CountInv' /\ ref_count' \in [Chunks -> Nat] /\ free' \subseteq Chunks
  <1> USE ZenonT(60)
  <1>1. \A c \in Chunks : ref_count'[c] = Owners(c)' /\ ref_count'[c] \in Nat
    BY SMTT(30) DEF Count, CountInv
  <1>2. \A c \in Chunks : c \in free' <=> ref_count'[c] = 0
    <2> SUFFICES ASSUME NEW c \in Chunks PROVE c \in free' <=> ref_count'[c] = 0
      OBVIOUS
    <2>1. ref_count[c] = Owners(c) /\ (c \in free <=> ref_count[c] = 0)  BY DEF CountInv
    <2>2. ref_count'[c] = ref_count[c] + gain[c] - loss[c]  BY DEF Count
    <2>5. /\ ref_count[c] \in Nat /\ gain[c] \in Nat /\ loss[c] \in Nat
          /\ loss[c] <= ref_count[c]
      BY <2>1
    <2>3. CASE c \in free
      <3>1. c \in free' <=> gain[c] = 0  BY <2>3 DEF Count
      <3> QED BY <2>1, <2>2, <2>3, <2>5, <3>1, SMTT(30)
    <2>4. CASE c \notin free
      <3>1. c \in free' <=> ref_count[c] + gain[c] = loss[c]  BY <2>4 DEF Count
      <3> QED BY <2>1, <2>2, <2>4, <2>5, <3>1, SMTT(30)
    <2> QED BY <2>3, <2>4
  <1>3. ref_count' \in [Chunks -> Nat] /\ free' \subseteq Chunks
    BY <1>1 DEF Count
  <1> QED BY <1>1, <1>2, <1>3 DEF CountInv

(* retrieve_returned_samples() counts each connection that returns the chunk.   *)
LEMMA RetrieveCounts ==
  ASSUME TypeOK, ChannelInv, Retrieve, NEW c \in Chunks
  PROVE  /\ Returned[c] \in Nat /\ Returned[c] <= Cardinality(Users(c))
         /\ Cardinality(Users(c)') = Cardinality(Users(c)) - Returned[c]
         /\ Returned[c] = Cardinality(Users(c)) => Users(c)' = {}
  <1> USE ZenonT(60)
  <1> DEFINE R == {s \in Connected : c \in completion[s]}
  <1>1. Returned[c] = Cardinality(R)  BY DEF Returned
  <1>2. R \subseteq Users(c) /\ R \in SUBSET Users(c)
    BY ConnectedFinite, SMTT(30) DEF Users, ChannelInv, OnePlace, Unused
  <1>3. Users(c)' = Users(c) \ R
    BY UsersFinite DEF Users, Retrieve, TypeOK
  <1>4. IsFiniteSet(Users(c)) /\ Cardinality(Users(c)) \in Nat  BY UsersFinite
  <1>5. /\ IsFiniteSet(R) /\ Cardinality(R) \in Nat /\ Cardinality(R) <= Cardinality(Users(c))
        /\ Cardinality(Users(c)) = Cardinality(R) => Users(c) = R
    BY <1>2, <1>4, FS_Subset, FS_CardinalityType
  <1>6. Cardinality(Users(c) \ R) = Cardinality(Users(c)) - Cardinality(R)
    <2>1. Users(c) \cap R = R  BY <1>2
    <2> QED BY <1>4, <2>1, FS_Difference
  <1> QED BY <1>1, <1>3, <1>5, <1>6

LEMMA ChunksFinite ==
  ASSUME static_config \in Configs
  PROVE  /\ required_amount_of_samples_per_data_segment \in Nat
         /\ IsFiniteSet(Chunks)
         /\ Cardinality(Chunks) = required_amount_of_samples_per_data_segment
         /\ \A S \in SUBSET Chunks : IsFiniteSet(S) /\ Cardinality(S) \in Nat
  <1> DEFINE N == required_amount_of_samples_per_data_segment
  <1>1. N \in Nat
    <2>1. \A a, b, c, d, e \in Nat : a * (b + c) + d + e \in Nat  OBVIOUS
    <2> QED BY <2>1, ConfigTypes, ZenonT(60) DEF required_amount_of_samples_per_data_segment
  <1>2. IsFiniteSet(Chunks) /\ Cardinality(Chunks) = N
    BY <1>1, FS_Interval DEF Chunks
  <1>3. ASSUME NEW S \in SUBSET Chunks PROVE IsFiniteSet(S) /\ Cardinality(S) \in Nat
    BY <1>2, FS_Subset, FS_CardinalityType, ZenonT(60)
  <1> QED BY <1>1, <1>2, <1>3, ZenonT(60)

------------------------------------------------------------------------------
(* The steps of a subscriber                                                    *)

LEMMA SubscriberType ==
  ASSUME TypeOK, NEW s \in Subscribers, Subscriber(s)
  PROVE  TypeOK' /\ static_config' = static_config /\ UNCHANGED publisher
  <1> USE ZenonT(60)
  <1>1. static_config' = static_config /\ UNCHANGED publisher
    BY DEF Subscriber, Subscribe, Receive, ReleaseOffset, DropSubscriber, Die, RemoveDeadSubscriber, port
  <1>2. Slots' = Slots /\ Chunks' = Chunks /\ MaxSubscribers' = MaxSubscribers
    BY <1>1, SameConfig
  <1>3. /\ registry' \in [Slots -> Subscribers \cup {None}]
        /\ status' \in [Subscribers -> {"new", "active", "dropped", "dead", "gone"}]
    <2> USE DEF TypeOK
    <2>1. ASSUME NEW i \in Slots, Subscribe(s, i) PROVE <1>3!:  BY <2>1 DEF Subscribe
    <2>2. CASE Receive(s) \/ \E c \in Chunks : ReleaseOffset(s, c)
      BY <2>2 DEF Receive, ReleaseOffset, port
    <2>3. CASE DropSubscriber(s)  BY <2>3 DEF DropSubscriber, Unregister
    <2>4. CASE Die(s)  BY <2>4 DEF Die
    <2>5. CASE RemoveDeadSubscriber(s)  BY <2>5 DEF RemoveDeadSubscriber, Unregister
    <2> QED BY <2>1, <2>2, <2>3, <2>4, <2>5 DEF Subscriber
  <1>4. submission' \in [Subscribers -> Seq(Chunks)]
    <2>1. CASE Receive(s)
      <3>1. submission[s] \in Seq(Chunks) /\ submission[s] # <<>>  BY <2>1 DEF TypeOK, Receive
      <3>2. Tail(submission[s]) \in Seq(Chunks)  BY <3>1, SMTT(30)
      <3> QED BY <2>1, <3>2 DEF TypeOK, Receive
    <2>2. CASE ~ Receive(s)
      BY <2>2 DEF TypeOK, Subscriber, Subscribe, ReleaseOffset, DropSubscriber, Die,
                  RemoveDeadSubscriber
    <2> QED BY <2>1, <2>2
  <1>5. /\ held' \in [Subscribers -> SUBSET Chunks] /\ completion' \in [Subscribers -> SUBSET Chunks]
        /\ last' \in [Subscribers -> Nat]
    <2>1. CASE Receive(s)
      <3>1. submission[s] \in Seq(Chunks) /\ submission[s] # <<>>  BY <2>1 DEF TypeOK, Receive
      <3>2. Head(submission[s]) \in Chunks  BY <3>1, SMTT(30)
      <3> QED BY <2>1, <3>2 DEF TypeOK, Receive
    <2>2. ASSUME NEW c \in Chunks, ReleaseOffset(s, c) PROVE <1>5!:
      BY <2>2 DEF TypeOK, ReleaseOffset
    <2>3. CASE UNCHANGED <<completion, user>>
      BY <2>3 DEF TypeOK, user
    <2> QED
      BY <2>1, <2>2, <2>3 DEF Subscriber, Subscribe, DropSubscriber, Die, RemoveDeadSubscriber
  <1> QED BY <1>1, <1>2, <1>3, <1>4, <1>5 DEF TypeOK, publisher, pool, local

LEMMA SubscriberSlots ==
  ASSUME TypeOK, SlotInv, NEW s \in Subscribers, Subscriber(s)
  PROVE  SlotInv' /\ \A t \in Subscribers : Gone(t) => Gone(t)'
  <1>1. /\ Slots' = Slots /\ connections' = connections
        /\ subscriber_list_state' = subscriber_list_state
    BY SubscriberType, SameConfig, ZenonT(60) DEF publisher
  <1>2. \A t \in Subscribers : Gone(t) => Gone(t)'
    BY ZenonT(60) DEF Gone, TypeOK, Subscriber, Subscribe, Receive, ReleaseOffset, DropSubscriber, Die,
           RemoveDeadSubscriber, port
  <1> USE DEF SlotInv, Has
  <1>3. ASSUME NEW k \in Slots, Subscribe(s, k) PROVE SlotInv'
    BY <1>1, <1>2, <1>3, NoneApart DEF Subscribe, Gone, TypeOK
  <1>4. CASE DropSubscriber(s)
    BY <1>1, <1>2, <1>4, NoneApart DEF DropSubscriber, Unregister, Gone, TypeOK
  <1>5. CASE RemoveDeadSubscriber(s)
    BY <1>1, <1>2, <1>5, NoneApart DEF RemoveDeadSubscriber, Unregister, Gone, TypeOK
  <1>6. CASE Die(s)
    BY <1>1, <1>2, <1>6 DEF Die, Gone, TypeOK
  <1>7. CASE Receive(s) \/ \E c \in Chunks : ReleaseOffset(s, c)
    BY <1>1, <1>7 DEF Receive, ReleaseOffset, port, Gone
  <1> QED BY <1>2, <1>3, <1>4, <1>5, <1>6, <1>7, ZenonT(60) DEF Subscriber

LEMMA SubscriberChannels ==
  ASSUME TypeOK, SlotInv, ChannelInv, NEW s \in Subscribers, Subscriber(s)
  PROVE  ChannelInv'
  <1> USE ZenonT(60)
  <1>1. /\ Slots' = Slots /\ connections' = connections /\ used_chunk_list' = used_chunk_list
        /\ subscriber_list_state' = subscriber_list_state /\ Connected' = Connected
    BY SubscriberType, SameConfig DEF publisher, Connected
  <1>2. \A t \in Subscribers : Gone(t) => Gone(t)'
    BY SubscriberSlots
  <1>3. CASE Receive(s)
    <2>1. submission[s] \in Seq(Chunks) /\ submission[s] # <<>>  BY <1>3 DEF TypeOK, Receive
    <2>2. s \in Connected /\ IsInjective(submission[s])  BY <2>1 DEF ChannelInv, OnePlace, Unused
    <2>3. /\ Range(submission[s]) = Range(Tail(submission[s])) \cup {Head(submission[s])}
          /\ Head(submission[s]) \notin Range(Tail(submission[s]))
          /\ IsInjective(Tail(submission[s]))
      BY <2>1, <2>2, HeadAndTail
    <2>4. /\ submission'[s] = Tail(submission[s])
          /\ held'[s] = held[s] \cup {Head(submission[s])}
          /\ \A t \in Subscribers \ {s} : /\ submission'[t] = submission[t]
                                          /\ held'[t] = held[t] /\ last'[t] = last[t]
          /\ completion' = completion
      BY <1>3 DEF Receive, TypeOK
    <2>5. Connected \subseteq Subscribers  BY ConnectedFinite
    <2> QED BY <1>1, <1>2, <2>2, <2>3, <2>4, <2>5, SMTT(30) DEF ChannelInv, OnePlace, Unused
  <1>4. ASSUME NEW c \in Chunks, ReleaseOffset(s, c) PROVE ChannelInv'
    <2>1. /\ held'[s] = held[s] \ {c} /\ c \in held[s]
          /\ s \in Connected => completion'[s] = completion[s] \cup {c}
          /\ s \notin Connected /\ Gone(s) => completion'[s] = completion[s]
          /\ \A t \in Subscribers \ {s} : completion'[t] = completion[t] /\ held'[t] = held[t]
          /\ submission' = submission /\ last' = last
      BY <1>4 DEF ReleaseOffset, TypeOK, Gone
    <2>2. Connected \subseteq Subscribers  BY ConnectedFinite
    <2> QED BY <1>1, <1>2, <2>1, <2>2, SMTT(30) DEF ChannelInv, OnePlace, Unused
  <1>5. CASE UNCHANGED <<submission, completion, user>>
    BY <1>1, <1>2, <1>5 DEF ChannelInv, OnePlace, Unused, user
  <1> QED
    BY <1>3, <1>4, <1>5 DEF Subscriber, Subscribe, DropSubscriber, Die, RemoveDeadSubscriber

LEMMA SubscriberBounds ==
  ASSUME TypeOK, BoundInv, NEW s \in Subscribers, Subscriber(s)
  PROVE  BoundInv'
  <1> USE ZenonT(60)
  <1>1. /\ history' = history /\ loaned' = loaned /\ HistorySize' = HistorySize
        /\ MaxLoans' = MaxLoans /\ BufferSize' = BufferSize /\ MaxBorrowed' = MaxBorrowed
    BY SubscriberType, SameConfig DEF publisher, local
  <1>2. static_config \in Configs /\ held[s] \in SUBSET Chunks  BY DEF TypeOK
  <1>3. IsFiniteSet(held[s]) /\ Cardinality(held[s]) \in Nat  BY <1>2, ChunksFinite
  <1>4. MaxBorrowed \in Nat /\ BufferSize \in Nat  BY <1>2, ConfigTypes
  <1>5. CASE Receive(s)
    <2>1. submission[s] \in Seq(Chunks) /\ submission[s] # <<>>  BY <1>5 DEF TypeOK, Receive
    <2>2. Len(Tail(submission[s])) <= Len(submission[s])  BY <2>1, SMTT(30)
    <2>3. Cardinality(held[s] \cup {Head(submission[s])}) <= MaxBorrowed
      <3>1. Cardinality(held[s]) < MaxBorrowed  BY <1>5 DEF Receive
      <3>2. Cardinality(held[s] \cup {Head(submission[s])})
              \in {Cardinality(held[s]), Cardinality(held[s]) + 1}
        BY <1>3, FS_AddElement
      <3> QED BY <1>3, <1>4, <3>1, <3>2, SMTT(30)
    <2>4. /\ submission'[s] = Tail(submission[s])
          /\ held'[s] = held[s] \cup {Head(submission[s])}
          /\ \A t \in Subscribers \ {s} : submission'[t] = submission[t] /\ held'[t] = held[t]
      BY <1>5 DEF Receive, TypeOK
    <2>5. Len(submission'[s]) <= BufferSize
      BY <1>4, <2>1, <2>4, SMTT(30) DEF BoundInv
    <2> QED BY <1>1, <2>3, <2>4, <2>5 DEF BoundInv
  <1>6. ASSUME NEW c \in Chunks, ReleaseOffset(s, c) PROVE BoundInv'
    <2>1. /\ held'[s] = held[s] \ {c} /\ submission' = submission
          /\ \A t \in Subscribers \ {s} : held'[t] = held[t]
      BY <1>6 DEF ReleaseOffset, TypeOK
    <2>2. Cardinality(held[s] \ {c}) \in {Cardinality(held[s]), Cardinality(held[s]) - 1}
      BY <1>3, FS_RemoveElement
    <2>3. Cardinality(held'[s]) <= MaxBorrowed
      BY <1>3, <1>4, <2>1, <2>2, SMTT(30) DEF BoundInv
    <2> QED BY <1>1, <2>1, <2>3 DEF BoundInv
  <1>7. CASE UNCHANGED <<submission, held>>
    BY <1>1, <1>7 DEF BoundInv
  <1> QED
    BY <1>5, <1>6, <1>7 DEF Subscriber, Subscribe, DropSubscriber, Die, RemoveDeadSubscriber, user

------------------------------------------------------------------------------
(* What the publisher does to its channels                                      *)

LEMMA RetrieveChannels ==
  ASSUME TypeOK, ChannelInv, Retrieve,
         UNCHANGED <<static_config, connections, subscriber_list_state, status, submission, held, last>>
  PROVE  /\ ChannelInv'
         /\ used_chunk_list' \in [Subscribers -> SUBSET Chunks]
         /\ completion' \in [Subscribers -> SUBSET Chunks]
         /\ \A s \in Subscribers : used_chunk_list'[s] \subseteq used_chunk_list[s]
  <1> USE ZenonT(60)
  <1>1. /\ Slots' = Slots /\ Connected' = Connected /\ Connected \subseteq Subscribers
        /\ \A s : Gone(s)' = Gone(s)
    BY SameConfig, ConnectedFinite DEF Connected, Gone
  <1>2. \A s \in Connected : used_chunk_list'[s] = used_chunk_list[s] \ completion[s] /\ completion'[s] = {}
    BY <1>1 DEF Retrieve
  <1>3. \A s \in Subscribers \ Connected :
          used_chunk_list'[s] = used_chunk_list[s] /\ completion'[s] = completion[s]
    BY DEF Retrieve
  <1>4. ChannelInv'
    <2>1. \A s \in Connected : OnePlace(s)'  BY <1>1, <1>2, <1>3 DEF ChannelInv, OnePlace
    <2>2. \A s \in Subscribers \ Connected : Unused(s)'  BY <1>1, <1>2, <1>3 DEF ChannelInv, Unused
    <2> QED BY <1>1, <1>2, <2>1, <2>2, ZenonT(60) DEF ChannelInv
  <1>5. /\ used_chunk_list' \in [Subscribers -> SUBSET Chunks]
        /\ completion' \in [Subscribers -> SUBSET Chunks]
    BY DEF Retrieve, TypeOK
  <1>6. \A s \in Subscribers : used_chunk_list'[s] \subseteq used_chunk_list[s]
    BY <1>2, <1>3
  <1> QED BY <1>4, <1>5, <1>6

(* remove_connection() counts each connection that still had the chunk.         *)
LEMMA RemoveCounts ==
  ASSUME TypeOK, ChannelInv, NEW subs \in SUBSET Connected, Forget(subs), NEW c \in Chunks
  PROVE  LET lost == Cardinality({s \in subs : c \in used_chunk_list[s]})
         IN  /\ lost \in Nat /\ lost <= Cardinality(Users(c))
             /\ Cardinality(Users(c)') = Cardinality(Users(c)) - lost
  <1> USE ZenonT(60)
  <1> DEFINE R == {s \in subs : c \in used_chunk_list[s]}
  <1>1. R \subseteq Users(c) /\ R \in SUBSET Users(c) /\ Users(c) \cap R = R
    BY ConnectedFinite DEF Users
  <1>2. Users(c)' = Users(c) \ R
    BY DEF Users, Forget, TypeOK
  <1>3. IsFiniteSet(Users(c)) /\ Cardinality(Users(c)) \in Nat  BY UsersFinite
  <1>4. IsFiniteSet(R) /\ Cardinality(R) \in Nat /\ Cardinality(R) <= Cardinality(Users(c))
    BY <1>1, <1>3, FS_Subset, FS_CardinalityType
  <1>5. Cardinality(Users(c) \ R) = Cardinality(Users(c)) - Cardinality(R)
    BY <1>1, <1>3, FS_Difference
  <1> QED BY <1>2, <1>4, <1>5

(* One reference to each chunk of a set                                         *)
LEMMA OneEach ==
  ASSUME NEW S, NEW c \in Chunks
  PROVE  /\ EachOf(S)[c] = One(c \in S) /\ EachOf(S)[c] \in Nat
         /\ c \in S => EachOf(S)[c] = 1
         /\ c \notin S => EachOf(S)[c] = 0
  BY ZenonT(60) DEF EachOf, One

LEMMA OwnersType ==
  ASSUME TypeOK, ChannelInv, NEW c \in Chunks
  PROVE  Owners(c) \in Nat /\ Cardinality(Users(c)) \in Nat
  BY UsersFinite DEF Owners, One

LEMMA NumberType ==
  ASSUME TypeOK, NEW gain, NEW loss, Count(gain, loss)
  PROVE  number' \in [Chunks -> Nat]
  BY DEF TypeOK, Count

(* The buffer after the eviction that makes room for a chunk                    *)
Full(s) == Len(submission[s]) = BufferSize
Evicted(s) == IF Full(s) THEN {Head(submission[s])} ELSE {}
Kept(s) == IF Full(s) THEN Tail(submission[s]) ELSE submission[s]

LEMMA MakeRoom ==
  ASSUME TypeOK, ChannelInv, BoundInv, NEW s \in Connected, NEW c \in Chunks,
         c \notin used_chunk_list[s]
  PROVE  /\ Kept(s) \in Seq(Chunks) /\ IsInjective(Kept(s)) /\ Len(Kept(s)) < BufferSize
         /\ Range(submission[s]) = Range(Kept(s)) \cup Evicted(s)
         /\ Evicted(s) \cap Range(Kept(s)) = {} /\ Evicted(s) \subseteq used_chunk_list[s]
         /\ c \notin Evicted(s) /\ c \notin Range(Kept(s))
  <1> USE ZenonT(60)
  <1>1. s \in Subscribers /\ BufferSize \in Nat \ {0}
    BY ConnectedFinite, ConfigTypes DEF TypeOK
  <1>2. /\ submission[s] \in Seq(Chunks) /\ IsInjective(submission[s])
        /\ Range(submission[s]) \subseteq used_chunk_list[s]
    BY <1>1, SMTT(30) DEF TypeOK, ChannelInv, OnePlace, Unused
  <1>3. Len(submission[s]) <= BufferSize /\ Len(submission[s]) \in Nat
    BY <1>1, <1>2, SMTT(30) DEF BoundInv
  <1>4. CASE Full(s)
    <2>1. /\ submission[s] # <<>> /\ Evicted(s) = {Head(submission[s])}
          /\ Kept(s) = Tail(submission[s]) /\ Len(submission[s]) = BufferSize
      BY <1>1, <1>4 DEF Full, Evicted, Kept
    <2>2. /\ Tail(submission[s]) \in Seq(Chunks) /\ Len(Tail(submission[s])) = Len(submission[s]) - 1
          /\ Range(submission[s]) = Range(Tail(submission[s])) \cup {Head(submission[s])}
          /\ Head(submission[s]) \notin Range(Tail(submission[s]))
          /\ IsInjective(Tail(submission[s]))
      BY <1>2, <2>1, HeadAndTail
    <2>3. Len(Kept(s)) < BufferSize  BY <1>1, <2>1, <2>2, SMTT(30)
    <2> QED BY <1>2, <2>1, <2>2, <2>3
  <1>5. CASE ~ Full(s)
    <2>1. Evicted(s) = {} /\ Kept(s) = submission[s] /\ Len(submission[s]) # BufferSize
      BY <1>5 DEF Full, Evicted, Kept
    <2>2. Len(Kept(s)) < BufferSize  BY <1>1, <1>3, <2>1, SMTT(30)
    <2> QED BY <1>2, <2>1, <2>2
  <1> QED BY <1>4, <1>5

LEMMA TrySendStep ==
  ASSUME TypeOK, ChannelInv, CountInv, BoundInv, NEW s \in Connected, NEW c \in Chunks,
         c \notin used_chunk_list[s], TrySend(s, c),
         UNCHANGED <<static_config, connections, subscriber_list_state, status, completion, held,
                     last, loaned, history>>
  PROVE  /\ ChannelInv' /\ CountInv'
         /\ submission' \in [Subscribers -> Seq(Chunks)]
         /\ used_chunk_list' \in [Subscribers -> SUBSET Chunks]
         /\ ref_count' \in [Chunks -> Nat] /\ free' \subseteq Chunks /\ number' \in [Chunks -> Nat]
         /\ Len(submission'[s]) <= BufferSize
         /\ used_chunk_list'[s] \subseteq used_chunk_list[s] \cup {c}
         /\ \A t \in Subscribers \ {s} :
              submission'[t] = submission[t] /\ used_chunk_list'[t] = used_chunk_list[t]
  <1> USE ZenonT(60)
  <1>1. /\ Slots' = Slots /\ Chunks' = Chunks /\ Connected' = Connected /\ s \in Subscribers
        /\ Connected \subseteq Subscribers /\ \A t : Gone(t)' = Gone(t)
    BY SameConfig, ConnectedFinite DEF Connected, Gone
  <1>2. CASE Full(s) /\ ~ SafeOverflow
    <2>1. UNCHANGED <<submission, used_chunk_list, ref_count, free, number>>
      BY <1>2 DEF TrySend, Full, pool
    <2>2. ChannelInv'  BY <1>1, <2>1 DEF ChannelInv, OnePlace, Unused
    <2>3. CountInv'  BY <1>1, <2>1 DEF CountInv, Owners, Users
    <2> QED BY <1>1, <2>1, <2>2, <2>3 DEF TypeOK, BoundInv
  <1>3. CASE ~ (Full(s) /\ ~ SafeOverflow)
    <2>1. /\ submission' = [submission EXCEPT ![s] = Append(Kept(s), c)]
          /\ used_chunk_list' = [used_chunk_list EXCEPT ![s] = (@ \cup {c}) \ Evicted(s)]
          /\ Count(EachOf({c}), EachOf(Evicted(s)))
      BY <1>3 DEF TrySend, Full, Evicted, Kept
    <2>2. /\ Kept(s) \in Seq(Chunks) /\ IsInjective(Kept(s)) /\ Len(Kept(s)) < BufferSize
          /\ Range(submission[s]) = Range(Kept(s)) \cup Evicted(s)
          /\ Evicted(s) \cap Range(Kept(s)) = {} /\ Evicted(s) \subseteq used_chunk_list[s]
          /\ c \notin Evicted(s) /\ c \notin Range(Kept(s))
      BY MakeRoom
    <2>3. /\ Append(Kept(s), c) \in Seq(Chunks) /\ Len(Append(Kept(s), c)) = Len(Kept(s)) + 1
          /\ Range(Append(Kept(s), c)) = Range(Kept(s)) \cup {c} /\ IsInjective(Append(Kept(s), c))
      BY <2>2, Appended
    <2>4. /\ submission'[s] = Append(Kept(s), c)
          /\ used_chunk_list'[s] = (used_chunk_list[s] \cup {c}) \ Evicted(s)
          /\ \A t \in Subscribers \ {s} :
               submission'[t] = submission[t] /\ used_chunk_list'[t] = used_chunk_list[t]
          /\ submission' \in [Subscribers -> Seq(Chunks)]
          /\ used_chunk_list' \in [Subscribers -> SUBSET Chunks]
      BY <1>1, <2>1, <2>3 DEF TypeOK
    <2>5. ChannelInv'
      <3>1. /\ used_chunk_list'[s] = Range(submission'[s]) \cup held[s] \cup completion[s]
            /\ IsInjective(submission'[s])
            /\ Range(submission'[s]) \cap held[s] = {}
            /\ Range(submission'[s]) \cap completion[s] = {}
        BY <2>2, <2>3, <2>4, SMTT(30) DEF ChannelInv, OnePlace, Unused
      <3>2. OnePlace(s)'  BY <1>1, <3>1 DEF ChannelInv, OnePlace
      <3>3. ASSUME NEW t \in Connected \ {s} PROVE OnePlace(t)'
        BY <1>1, <2>4, <3>3 DEF ChannelInv, OnePlace
      <3>4. ASSUME NEW t \in Subscribers \ Connected PROVE Unused(t)'
        BY <1>1, <2>4, <3>4 DEF ChannelInv, Unused
      <3> QED BY <1>1, <3>2, <3>3, <3>4 DEF ChannelInv
    <2>6. ASSUME NEW d \in Chunks
          PROVE  /\ EachOf({c})[d] \in Nat /\ EachOf(Evicted(s))[d] \in Nat /\ Owners(d) \in Nat
                 /\ EachOf(Evicted(s))[d] <= Owners(d)
                 /\ Owners(d)' = Owners(d) + EachOf({c})[d] - EachOf(Evicted(s))[d]
      <3>1. IsFiniteSet(Users(d)) /\ Cardinality(Users(d)) \in Nat  BY UsersFinite
      <3>2. CASE d = c
        <4>1. s \notin Users(d) /\ Users(d)' = Users(d) \cup {s}
          BY <1>1, <2>2, <2>4, <3>2 DEF Users
        <4>2. Cardinality(Users(d)') = Cardinality(Users(d)) + 1  BY <3>1, <4>1, FS_AddElement
        <4> QED BY <2>2, <3>1, <3>2, <4>2, OneEach, SMTT(30) DEF Owners, One
      <3>3. CASE d \in Evicted(s)
        <4>1. s \in Users(d) /\ Users(d)' = Users(d) \ {s} /\ d # c
          BY <1>1, <2>2, <2>4, <3>3 DEF Users
        <4>2. Cardinality(Users(d)') = Cardinality(Users(d)) - 1  BY <3>1, <4>1, FS_RemoveElement
        <4>3. Cardinality(Users(d)) # 0  BY <3>1, <4>1, FS_EmptySet
        <4> QED BY <3>1, <3>3, <4>1, <4>2, <4>3, OneEach, SMTT(30) DEF Owners, One
      <3>4. CASE d # c /\ d \notin Evicted(s)
        <4>1. Users(d)' = Users(d)  BY <1>1, <2>4, <3>4 DEF Users
        <4> QED BY <3>1, <3>4, <4>1, OneEach, SMTT(30) DEF Owners, One
      <3> QED BY <3>2, <3>3, <3>4
    <2>7. CountInv' /\ ref_count' \in [Chunks -> Nat] /\ free' \subseteq Chunks
      BY <1>1, <2>1, <2>6, CountStep
    <2>8. number' \in [Chunks -> Nat]  BY <2>1, NumberType
    <2>9. Len(submission'[s]) <= BufferSize
      BY <2>2, <2>3, <2>4, ConfigTypes, SMTT(30) DEF TypeOK
    <2> QED BY <2>4, <2>5, <2>7, <2>8, <2>9
  <1> QED BY <1>2, <1>3

LEMMA SlotFrame ==
  ASSUME SlotInv, UNCHANGED <<static_config, registry, subscriber_list_state, connections, status>>
  PROVE  SlotInv'
  BY SameConfig, ZenonT(60) DEF SlotInv, Has, Gone

(* Nothing is sent and nothing becomes unsent.                                  *)
LEMMA OwnerFrame ==
  ASSUME TypeOK, ControlInv, OwnerInv, static_config' = static_config, history' = history,
         Unsent' \subseteq Unsent,
         \A s \in Subscribers : used_chunk_list'[s] \subseteq used_chunk_list[s],
         Delivering' => Delivering /\ UNCHANGED <<connections, p_slot, p_chunk>>,
         Catching' => Catching /\ UNCHANGED <<connections, p_slot, p_pending>>
  PROVE  OwnerInv'
  <1> USE ZenonT(60)
  <1>1. MaxSubscribers' = MaxSubscribers  BY SameConfig
  <1>2. \A k \in Slots : connections[k] \in Subscribers \cup {None}  BY DEF TypeOK
  <1>3. \A c \in Unsent' : /\ c \notin Range(history)
                           /\ \A s \in Subscribers : c \notin used_chunk_list'[s]
    BY DEF OwnerInv
  <1>4. ASSUME Delivering'
        PROVE  \A k \in p_slot'..MaxSubscribers :
                 connections'[k] # None => p_chunk' \notin used_chunk_list'[connections'[k]]
    <2>1. p_slot \in Slots  BY <1>4 DEF ControlInv, Delivering
    <2>2. \A k \in p_slot..MaxSubscribers : k \in Slots  BY <2>1, ConfigTypes, SMTT(30) DEF Slots, TypeOK
    <2>3. \A k \in p_slot..MaxSubscribers :
            connections[k] # None => p_chunk \notin used_chunk_list[connections[k]]
      BY <1>4 DEF OwnerInv
    <2>4. UNCHANGED <<connections, p_slot, p_chunk>>  BY <1>4
    <2> QED BY <1>2, <2>2, <2>3, <2>4
  <1>5. ASSUME Catching'
        PROVE  /\ p_pending' # <<>> /\ IsInjective(p_pending')
               /\ Range(p_pending') \subseteq Range(history)
               /\ Range(p_pending') \cap used_chunk_list'[connections'[p_slot']] = {}
    <2>1. p_slot \in Slots /\ connections[p_slot] # None  BY <1>5 DEF ControlInv, Catching
    <2> QED BY <1>2, <1>5, <2>1 DEF OwnerInv
  <1> QED BY <1>1, <1>3, <1>4, <1>5 DEF OwnerInv

Core ==
  /\ TypeOK /\ SlotInv /\ ControlInv /\ ChannelInv /\ OwnerInv /\ CountInv /\ BoundInv
  /\ NeverOutOfMemory

------------------------------------------------------------------------------
(* The steps of the publisher                                                   *)

(* A chunk that is free or was returned by all who had it belongs to nobody.    *)
LEMMA Available ==
  ASSUME Core, Retrieve, NEW c \in Chunks,
         c \in free \/ (ref_count[c] > 0 /\ ref_count[c] = Returned[c])
  PROVE  c \notin loaned /\ c \notin Range(history) /\ Users(c)' = {}
  <1> USE ZenonT(60)
  <1>1. /\ Returned[c] \in Nat /\ Returned[c] <= Cardinality(Users(c))
        /\ Returned[c] = Cardinality(Users(c)) => Users(c)' = {}
    BY RetrieveCounts DEF Core
  <1>2. Cardinality(Users(c)) \in Nat  BY OwnersType DEF Core
  <1>3. ref_count[c] = Owners(c) /\ (c \in free <=> ref_count[c] = 0)  BY DEF Core, CountInv
  <1> DEFINE l == One(c \in loaned)
             h == One(c \in Range(history))
             n == Cardinality(Users(c))
  <1>4. l \in Nat /\ h \in Nat /\ (l = 0 => c \notin loaned) /\ (h = 0 => c \notin Range(history))
    BY SMTT(30) DEF One
  <1>5. Owners(c) = l + h + n  BY DEF Owners
  <1> HIDE DEF l, h, n
  <1>6. CASE c \in free
    <2>1. l + h + n = 0  BY <1>3, <1>5, <1>6
    <2>2. l = 0 /\ h = 0 /\ n = 0  BY <1>2, <1>4, <2>1, SMTT(30) DEF n
    <2>3. Returned[c] = n  BY <1>1, <2>2, SMTT(30) DEF n
    <2> QED BY <1>1, <1>4, <2>2, <2>3 DEF n
  <1>7. CASE ref_count[c] = Returned[c]
    <2>1. l + h + n = Returned[c]  BY <1>3, <1>5, <1>7
    <2>2. l = 0 /\ h = 0 /\ Returned[c] = n  BY <1>1, <1>2, <1>4, <2>1, SMTT(30) DEF n
    <2> QED BY <1>1, <1>4, <2>2 DEF n
  <1> QED BY <1>6, <1>7

LEMMA LoanStep ==
  ASSUME Core, NEW c \in Chunks, Loan(c), out_of_memory' = out_of_memory
  PROVE  Core'
  <1> USE ZenonT(60)
  <1>1. /\ p_pc = "idle" /\ Cardinality(loaned) < MaxLoans /\ Retrieve
        /\ c \in free \/ (ref_count[c] > 0 /\ ref_count[c] = Returned[c])
        /\ loaned' = loaned \cup {c} /\ Count(EachOf({c}), Returned)
    BY DEF Loan, Core, NeverOutOfMemory
  <1>2. UNCHANGED <<static_config, registry, status, subscriber_list_state, connections, submission,
                    held, last, history, p_pc, p_slot, p_chunk, p_pending, sent>>
    BY DEF Loan, port, user
  <1>3. Slots' = Slots /\ Chunks' = Chunks /\ MaxSubscribers' = MaxSubscribers
        /\ BufferSize' = BufferSize /\ MaxBorrowed' = MaxBorrowed /\ MaxLoans' = MaxLoans
        /\ HistorySize' = HistorySize
    BY <1>2, SameConfig
  <1>4. /\ ChannelInv' /\ used_chunk_list' \in [Subscribers -> SUBSET Chunks]
        /\ completion' \in [Subscribers -> SUBSET Chunks]
        /\ \A s \in Subscribers : used_chunk_list'[s] \subseteq used_chunk_list[s]
    BY <1>1, <1>2, RetrieveChannels DEF Core
  <1>5. c \notin loaned /\ c \notin Range(history) /\ Users(c)' = {}
    BY <1>1, Available
  <1>6. CountInv' /\ ref_count' \in [Chunks -> Nat] /\ free' \subseteq Chunks
    <2>1. ASSUME NEW d \in Chunks
          PROVE  /\ EachOf({c})[d] \in Nat /\ Returned[d] \in Nat /\ Owners(d) \in Nat
                 /\ Returned[d] <= Owners(d)
                 /\ Owners(d)' = Owners(d) + EachOf({c})[d] - Returned[d]
      <3>1. /\ Returned[d] \in Nat /\ Returned[d] <= Cardinality(Users(d))
            /\ Cardinality(Users(d)') = Cardinality(Users(d)) - Returned[d]
        BY <1>1, RetrieveCounts DEF Core
      <3>2. Cardinality(Users(d)) \in Nat /\ Owners(d) \in Nat  BY OwnersType DEF Core
      <3> QED BY <1>1, <1>2, <1>5, <3>1, <3>2, OneEach, SMTT(30) DEF Owners, One
    <2> QED BY <1>1, <1>3, <2>1, CountStep DEF Core
  <1>7. TypeOK'
    <2>1. number' \in [Chunks -> Nat]  BY <1>1, NumberType DEF Core
    <2> QED BY <1>1, <1>2, <1>3, <1>4, <1>6, <2>1 DEF TypeOK, Core
  <1>8. OwnerInv'
    <2>1. Unsent = loaned /\ Unsent' = loaned \cup {c}  BY <1>1, <1>2 DEF Unsent
    <2>2. \A s \in Subscribers : c \notin used_chunk_list'[s]  BY <1>5 DEF Users
    <2>3. ~ Delivering' /\ ~ Catching'  BY <1>1, <1>2 DEF Delivering, Catching
    <2>4. \A d \in Unsent' : d \notin Range(history) /\ \A s \in Subscribers : d \notin used_chunk_list'[s]
      BY <1>4, <1>5, <2>1, <2>2, SMTT(30) DEF OwnerInv, Core
    <2> QED BY <1>2, <2>3, <2>4 DEF OwnerInv, Core
  <1>9. BoundInv'
    <2>1. Cardinality(loaned \cup {c}) = Cardinality(loaned) + 1 /\ Cardinality(loaned) \in Nat
      BY <1>5, ChunksFinite, FS_AddElement DEF Core, TypeOK
    <2>2. Cardinality(loaned \cup {c}) <= MaxLoans  BY <1>1, <2>1, ConfigTypes, SMTT(30) DEF Core, TypeOK
    <2> QED BY <1>1, <1>2, <1>3, <2>2 DEF BoundInv, Core
  <1>10. ControlInv'
    BY <1>1, <1>2, <1>3 DEF ControlInv, Catching, Core
  <1> QED BY <1>2, <1>4, <1>6, <1>7, <1>8, <1>9, <1>10, SlotFrame DEF Core, NeverOutOfMemory

(* The steps that only retrieve what was returned                               *)
LEMMA RetrieveStep ==
  ASSUME Core, LoanExceedsMaxLoans \/ RetrieveForHistory
  PROVE  Core'
  <1> USE ZenonT(60)
  <1>1. Retrieve /\ Count(EachOf({}), Returned)
    BY DEF LoanExceedsMaxLoans, RetrieveForHistory
  <1>2. UNCHANGED <<static_config, registry, status, subscriber_list_state, connections, submission,
                    held, last, loaned, history, out_of_memory, p_slot, p_chunk, p_pending, sent>>
    BY DEF LoanExceedsMaxLoans, RetrieveForHistory, port, user, local
  <1>3. /\ Slots' = Slots /\ Chunks' = Chunks /\ MaxSubscribers' = MaxSubscribers
        /\ BufferSize' = BufferSize /\ MaxBorrowed' = MaxBorrowed /\ MaxLoans' = MaxLoans
        /\ HistorySize' = HistorySize
    BY <1>2, SameConfig
  <1>4. (p_pc = "idle" /\ p_pc' = "idle") \/ (p_pc = "history" /\ p_pc' = "history_send")
    BY DEF LoanExceedsMaxLoans, RetrieveForHistory
  <1>5. /\ ChannelInv' /\ used_chunk_list' \in [Subscribers -> SUBSET Chunks]
        /\ completion' \in [Subscribers -> SUBSET Chunks]
        /\ \A s \in Subscribers : used_chunk_list'[s] \subseteq used_chunk_list[s]
    BY <1>1, <1>2, RetrieveChannels DEF Core
  <1>6. CountInv' /\ ref_count' \in [Chunks -> Nat] /\ free' \subseteq Chunks
    <2>1. ASSUME NEW d \in Chunks
          PROVE  /\ EachOf({})[d] \in Nat /\ Returned[d] \in Nat /\ Owners(d) \in Nat
                 /\ Returned[d] <= Owners(d)
                 /\ Owners(d)' = Owners(d) + EachOf({})[d] - Returned[d]
      <3>1. /\ Returned[d] \in Nat /\ Returned[d] <= Cardinality(Users(d))
            /\ Cardinality(Users(d)') = Cardinality(Users(d)) - Returned[d]
        BY <1>1, RetrieveCounts DEF Core
      <3>2. Cardinality(Users(d)) \in Nat /\ Owners(d) \in Nat  BY OwnersType DEF Core
      <3> QED BY <1>2, <3>1, <3>2, OneEach, SMTT(30) DEF Owners, One
    <2> QED BY <1>1, <1>3, <2>1, CountStep DEF Core
  <1>7. TypeOK'
    <2>1. number' \in [Chunks -> Nat]  BY <1>1, NumberType DEF Core
    <2> QED BY <1>2, <1>3, <1>4, <1>5, <1>6, <2>1 DEF TypeOK, Core
  <1>8. OwnerInv'
    <2>1. /\ Unsent' = Unsent /\ ~ Delivering' /\ (Catching' => Catching)
      BY <1>2, <1>4 DEF Unsent, Delivering, Catching
    <2> QED BY <1>2, <1>5, <2>1, OwnerFrame DEF Core
  <1>9. BoundInv'  BY <1>2, <1>3 DEF BoundInv, Core
  <1>10. ControlInv'  BY <1>2, <1>3, <1>4 DEF ControlInv, Catching, Core
  <1> QED BY <1>2, <1>5, <1>6, <1>7, <1>8, <1>9, <1>10, SlotFrame DEF Core, NeverOutOfMemory

(* SampleMut::drop(), with or without sending                                   *)
LEMMA DropStep ==
  ASSUME Core, (\E c \in Chunks : ReturnLoanedSample(c)) \/ DropSent
  PROVE  Core'
  <1> USE ZenonT(60)
  <1>1. PICK c \in Chunks :
          /\ c \in loaned /\ loaned' = loaned \ {c} /\ Count(EachOf({}), EachOf({c}))
          /\ p_pc' = "idle" /\ p_chunk' = None
          /\ p_pc = "idle" \/ (p_pc = "drop" /\ c = p_chunk)
    BY DEF ReturnLoanedSample, DropSent, Core, ControlInv, TypeOK
  <1>2. UNCHANGED <<static_config, registry, status, subscriber_list_state, connections, submission,
                    completion, used_chunk_list, held, last, history, out_of_memory, p_slot,
                    p_pending, sent>>
    BY DEF ReturnLoanedSample, DropSent, port, user, channel
  <1>3. /\ Slots' = Slots /\ Chunks' = Chunks /\ MaxSubscribers' = MaxSubscribers
        /\ BufferSize' = BufferSize /\ MaxBorrowed' = MaxBorrowed /\ MaxLoans' = MaxLoans
        /\ HistorySize' = HistorySize /\ Connected' = Connected
    BY <1>2, SameConfig DEF Connected
  <1>4. ChannelInv'
    BY <1>2, <1>3 DEF ChannelInv, OnePlace, Unused, Gone, Core
  <1>5. CountInv' /\ ref_count' \in [Chunks -> Nat] /\ free' \subseteq Chunks
    <2>1. ASSUME NEW d \in Chunks
          PROVE  /\ EachOf({})[d] \in Nat /\ EachOf({c})[d] \in Nat /\ Owners(d) \in Nat
                 /\ EachOf({c})[d] <= Owners(d)
                 /\ Owners(d)' = Owners(d) + EachOf({})[d] - EachOf({c})[d]
      <3>1. Users(d)' = Users(d)  BY <1>2 DEF Users
      <3>2. Cardinality(Users(d)) \in Nat /\ Owners(d) \in Nat  BY OwnersType DEF Core
      <3> QED BY <1>1, <1>2, <3>1, <3>2, OneEach, SMTT(30) DEF Owners, One
    <2> QED BY <1>1, <1>3, <2>1, CountStep DEF Core
  <1>6. TypeOK'
    <2>1. number' \in [Chunks -> Nat]  BY <1>1, NumberType DEF Core
    <2> QED BY <1>1, <1>2, <1>3, <1>5, <2>1 DEF TypeOK, Core
  <1>7. OwnerInv'
    <2>1. Unsent' \subseteq Unsent /\ ~ Delivering' /\ ~ Catching'
      BY <1>1 DEF Unsent, Writable, Delivering, Catching
    <2> QED BY <1>2, <2>1, OwnerFrame DEF Core
  <1>8. BoundInv'
    <2>1. /\ Cardinality(loaned \ {c}) = Cardinality(loaned) - 1 /\ Cardinality(loaned) \in Nat
          /\ MaxLoans \in Nat
      BY <1>1, ChunksFinite, ConfigTypes, FS_RemoveElement DEF Core, TypeOK
    <2>2. Cardinality(loaned \ {c}) <= MaxLoans  BY <2>1, SMTT(30) DEF Core, BoundInv
    <2> QED BY <1>1, <1>2, <1>3, <2>2 DEF BoundInv, Core
  <1>9. ControlInv'  BY <1>1 DEF ControlInv, Catching
  <1> QED BY <1>2, <1>4, <1>5, <1>6, <1>7, <1>8, <1>9, SlotFrame DEF Core, NeverOutOfMemory

(* The publisher's copy of the registry                                         *)
LEMMA UpdateConnectionsStep ==
  ASSUME Core, NEW c \in Chunks \cup {None}, UpdateConnections(c)
  PROVE  Core'
  <1> USE ZenonT(60)
  <1>1. /\ p_pc = "idle" /\ c \in loaned \cup {None} /\ p_chunk' = c
        /\ \/ p_pc' = "send" /\ p_slot' = p_slot /\ c # None
           \/ p_pc' = "update" /\ p_slot' = 1
        /\ subscriber_list_state' = registry
    BY NoneApart DEF UpdateConnections, Core, TypeOK
  <1>2. UNCHANGED <<static_config, registry, status, connections, submission, completion,
                    used_chunk_list, held, last, ref_count, free, number, loaned, history,
                    out_of_memory, p_pending, sent>>
    BY DEF UpdateConnections, port, user, channel, pool, local
  <1>3. /\ Slots' = Slots /\ Chunks' = Chunks /\ MaxSubscribers' = MaxSubscribers
        /\ BufferSize' = BufferSize /\ MaxBorrowed' = MaxBorrowed /\ MaxLoans' = MaxLoans
        /\ HistorySize' = HistorySize /\ Connected' = Connected
    BY <1>2, SameConfig DEF Connected
  <1>4. 1 \in Slots /\ 1 \in 0..MaxSubscribers  BY ConfigTypes, SMTT(30) DEF Slots, Core, TypeOK
  <1>5. TypeOK'  BY <1>1, <1>2, <1>3, <1>4 DEF TypeOK, Core
  <1>6. SlotInv'  BY <1>1, <1>2, <1>3, SMTT(30) DEF SlotInv, Has, Gone, Core
  <1>7. ChannelInv'
    <2>1. \A s \in Subscribers : Gone(s) => \A i \in Slots : registry[i] # s  BY DEF SlotInv, Core
    <2> QED BY <1>1, <1>2, <1>3, <2>1 DEF ChannelInv, OnePlace, Unused, Gone, Core
  <1>8. OwnerInv'
    <2>1. Unsent' = Unsent /\ ~ Delivering' /\ ~ Catching'
      BY <1>1, <1>2 DEF Unsent, Delivering, Catching
    <2> QED BY <1>2, <2>1, OwnerFrame DEF Core
  <1>9. CountInv'  BY <1>2, <1>3 DEF CountInv, Owners, Users, Core
  <1>10. BoundInv'  BY <1>2, <1>3 DEF BoundInv, Core
  <1>11. ControlInv'  BY <1>1, <1>2, <1>3, <1>4 DEF ControlInv, Catching
  <1> QED BY <1>2, <1>5, <1>6, <1>7, <1>8, <1>9, <1>10, <1>11 DEF Core, NeverOutOfMemory

(* Connections of subscribers that are gone are removed, others are added.      *)
LEMMA RemoveStep ==
  ASSUME TypeOK, ChannelInv, CountInv, BoundInv, NEW subs \in SUBSET Connected, RemoveConnections(subs),
         \A s \in subs : Gone(s) /\ \A i \in Slots : subscriber_list_state[i] # s,
         UNCHANGED <<static_config, subscriber_list_state, status, held, loaned, history>>,
         NEW added \in SUBSET (Subscribers \ Connected), \A s \in added : held[s] = {},
         Connected' = (Connected \ subs) \cup added
  PROVE  /\ ChannelInv' /\ CountInv' /\ BoundInv'
         /\ submission' \in [Subscribers -> Seq(Chunks)]
         /\ completion' \in [Subscribers -> SUBSET Chunks]
         /\ used_chunk_list' \in [Subscribers -> SUBSET Chunks]
         /\ last' \in [Subscribers -> Nat]
         /\ ref_count' \in [Chunks -> Nat] /\ free' \subseteq Chunks /\ number' \in [Chunks -> Nat]
         /\ \A s \in Subscribers : used_chunk_list'[s] \subseteq used_chunk_list[s]
  <1> USE ZenonT(60)
  <1>1. /\ Slots' = Slots /\ Chunks' = Chunks /\ Connected \subseteq Subscribers
        /\ BufferSize' = BufferSize /\ MaxBorrowed' = MaxBorrowed /\ MaxLoans' = MaxLoans
        /\ HistorySize' = HistorySize /\ \A s : Gone(s)' = Gone(s)
    BY SameConfig, ConnectedFinite DEF Gone
  <1>2. Forget(subs)  BY DEF RemoveConnections
  <1>3. \A s \in subs : /\ submission'[s] = <<>> /\ completion'[s] = {} /\ used_chunk_list'[s] = {}
                        /\ last'[s] = 0
    BY <1>1, <1>2 DEF Forget
  <1>4. \A s \in Subscribers \ subs :
          /\ submission'[s] = submission[s] /\ completion'[s] = completion[s]
          /\ used_chunk_list'[s] = used_chunk_list[s] /\ last'[s] = last[s]
    BY <1>2 DEF Forget
  <1>5. /\ submission' \in [Subscribers -> Seq(Chunks)]
        /\ completion' \in [Subscribers -> SUBSET Chunks]
        /\ used_chunk_list' \in [Subscribers -> SUBSET Chunks]
        /\ last' \in [Subscribers -> Nat]
    BY <1>2, SMTT(30) DEF Forget, TypeOK
  <1>6. ChannelInv'
    <2>1. ASSUME NEW s \in Connected \ subs PROVE OnePlace(s)'
      BY <1>1, <1>4, <2>1 DEF ChannelInv, OnePlace
    <2>2. ASSUME NEW s \in added PROVE OnePlace(s)'
      <3>1. /\ submission'[s] = <<>> /\ completion'[s] = {} /\ used_chunk_list'[s] = {} /\ held[s] = {}
        BY <1>4, <2>2 DEF ChannelInv, Unused
      <3>2. Range(<<>>) = {} /\ IsInjective(<<>>)  BY SMTT(30) DEF Range, IsInjective
      <3> QED BY <3>1, <3>2 DEF OnePlace
    <2>3. ASSUME NEW s \in Subscribers \ Connected' PROVE Unused(s)'
      <3>1. CASE s \in subs  BY <1>1, <1>3, <3>1 DEF Unused
      <3>2. CASE s \notin subs
        <4>1. s \in Subscribers \ Connected /\ s \in Subscribers \ subs  BY <2>3, <3>2
        <4> QED BY <1>1, <1>4, <4>1 DEF ChannelInv, Unused
      <3> QED BY <3>1, <3>2
    <2> QED BY <2>1, <2>2, <2>3 DEF ChannelInv
  <1>7. CountInv' /\ ref_count' \in [Chunks -> Nat] /\ free' \subseteq Chunks /\ number' \in [Chunks -> Nat]
    <2> DEFINE loss == [c \in Chunks |-> Cardinality({s \in subs : c \in used_chunk_list[s]})]
    <2>1. Count(EachOf({}), loss)  BY DEF RemoveConnections
    <2>2. ASSUME NEW d \in Chunks
          PROVE  /\ EachOf({})[d] \in Nat /\ loss[d] \in Nat /\ Owners(d) \in Nat
                 /\ loss[d] <= Owners(d)
                 /\ Owners(d)' = Owners(d) + EachOf({})[d] - loss[d]
      <3>1. /\ loss[d] \in Nat /\ loss[d] <= Cardinality(Users(d))
            /\ Cardinality(Users(d)') = Cardinality(Users(d)) - loss[d]
        BY <1>2, RemoveCounts
      <3>2. Cardinality(Users(d)) \in Nat /\ Owners(d) \in Nat  BY OwnersType
      <3> HIDE DEF loss
      <3> QED BY <3>1, <3>2, OneEach, SMTT(30) DEF Owners, One
    <2> HIDE DEF loss
    <2> QED BY <1>1, <2>1, <2>2, CountStep, NumberType
  <1>8. BoundInv'
    <2>1. \A s \in Subscribers : Len(submission'[s]) <= BufferSize
      <3>1. Len(<<>>) <= BufferSize  BY ConfigTypes, SMTT(30) DEF TypeOK
      <3> QED BY <1>3, <1>4, <3>1 DEF BoundInv
    <2> QED BY <1>1, <2>1 DEF BoundInv
  <1>9. \A s \in Subscribers : used_chunk_list'[s] \subseteq used_chunk_list[s]
    BY <1>3, <1>4
  <1> QED BY <1>5, <1>6, <1>7, <1>8, <1>9

LEMMA UpdateConnectionStep ==
  ASSUME Core, UpdateConnection
  PROVE  Core'
  <1> USE ZenonT(60)
  <1> DEFINE s == subscriber_list_state[p_slot]
  <1>1. p_pc = "update" /\ p_slot \in Slots /\ p_slot \in 1..MaxSubscribers
    BY DEF UpdateConnection, Core, ControlInv, Slots
  <1>2. /\ UNCHANGED <<static_config, registry, status, subscriber_list_state, held, loaned, history,
                       out_of_memory, p_chunk, sent>>
        /\ Unsent = loaned
    BY <1>1 DEF UpdateConnection, port, local, Unsent
  <1>3. /\ Slots' = Slots /\ Chunks' = Chunks /\ MaxSubscribers' = MaxSubscribers
        /\ BufferSize' = BufferSize /\ MaxBorrowed' = MaxBorrowed /\ MaxLoans' = MaxLoans
        /\ HistorySize' = HistorySize /\ MaxSubscribers \in Nat
    BY <1>2, SameConfig, ConfigTypes DEF Core, TypeOK
  <1>4. ASSUME NextSlot("update", "finish")
        PROVE  /\ p_pc' \in {"update", "finish"} /\ p_slot' \in 0..MaxSubscribers
               /\ p_pc' = "update" => p_slot' \in Slots
    BY <1>1, <1>3, <1>4, SMTT(30) DEF NextSlot, Slots
  <1>5. connections \in [Slots -> Subscribers \cup {None}] /\ s \in Subscribers \cup {None}
    BY <1>1 DEF Core, TypeOK
  <1>6. CASE s \in {None, connections[p_slot]}
    <2>1. /\ NextSlot("update", "finish")
          /\ UNCHANGED <<connections, submission, completion, used_chunk_list, last, ref_count, free,
                         number, p_pending>>
      BY <1>6 DEF UpdateConnection, channel, pool
    <2>2. Connected' = Connected  BY <1>3, <2>1 DEF Connected
    <2>3. TypeOK'  BY <1>2, <1>3, <1>4, <2>1 DEF TypeOK, Core
    <2>4. ChannelInv' /\ SlotInv'
      <3>1. SlotInv'  BY <1>2, <2>1, SlotFrame DEF Core
      <3>2. \A t \in Connected : OnePlace(t)'  BY <2>1, <1>2 DEF ChannelInv, OnePlace, Core
      <3>3. \A t \in Subscribers \ Connected : Unused(t)'
        BY <1>2, <1>3, <2>1 DEF ChannelInv, Unused, Gone, Core
      <3> QED BY <2>2, <3>1, <3>2, <3>3 DEF ChannelInv
    <2>5. CountInv' /\ BoundInv'
      BY <1>2, <1>3, <2>1 DEF CountInv, Owners, Users, BoundInv, Core
    <2>6. ~ Delivering' /\ ~ Catching' /\ Unsent' = loaned
      BY <1>2, <1>4, <2>1 DEF Delivering, Catching, Unsent
    <2>7. OwnerInv'  BY <1>2, <2>1, <2>6, OwnerFrame DEF Core
    <2>8. ControlInv'  BY <1>2, <1>3, <1>4, <2>1, <2>6 DEF ControlInv, Core
    <2> QED BY <1>2, <2>3, <2>4, <2>5, <2>7, <2>8 DEF Core, NeverOutOfMemory
  <1>7. CASE s \notin {None, connections[p_slot]}
    <2> DEFINE subs == Removed({p_slot})
    <2>1. s \in Subscribers /\ s # connections[p_slot]  BY <1>5, <1>7
    <2>2. /\ RemoveConnections(subs)
          /\ \/ /\ connections' = [connections EXCEPT ![p_slot] = s]
                /\ p_pending' = SubSeq(history, IF Len(history) > BufferSize
                                                THEN Len(history) - BufferSize + 1 ELSE 1,
                                       Len(history))
                /\ IF history = <<>> THEN NextSlot("update", "finish")
                                     ELSE p_pc' = "history" /\ p_slot' = p_slot
             \/ /\ connections' = [connections EXCEPT ![p_slot] = None]
                /\ NextSlot("update", "finish") /\ p_pending' = p_pending
      BY <1>7 DEF UpdateConnection
    <2>3. /\ subs \in SUBSET Connected
          /\ \A t \in subs : /\ t = connections[p_slot] /\ t \in Subscribers /\ Gone(t)
                            /\ \A i \in Slots : subscriber_list_state[i] # t
      <3>1. /\ subs \in SUBSET Connected
            /\ \A t \in subs : t = connections[p_slot] /\ t \in Subscribers
        BY <1>1, <1>5 DEF Removed, Connected
      <3> QED BY <1>1, <2>1, <3>1 DEF SlotInv, Has, Core
    <2>4. s \notin Connected
      BY <1>1, <1>5, <2>1 DEF SlotInv, Has, Core, Connected
    <2>5. held[s] = {}
      BY <1>1, <2>1, <2>4 DEF ChannelInv, Unused, Core
    <2>6. \A k \in Slots \ {p_slot} : connections[k] # None => connections[k] # connections[p_slot]
      BY <1>1, <1>5 DEF SlotInv, Has, Core
    <2>7. /\ connections' = [connections EXCEPT ![p_slot] = s] => Connected' = (Connected \ subs) \cup {s}
          /\ connections' = [connections EXCEPT ![p_slot] = None] => Connected' = (Connected \ subs) \cup {}
      BY <1>1, <1>3, <1>5, <2>1, <2>6, NoneApart, SMTT(30) DEF Connected, Removed
    <2>8. connections' \in [Slots -> Subscribers \cup {None}] /\ connections'[p_slot] \in {s, None}
          /\ \A k \in Slots \ {p_slot} : connections'[k] = connections[k]
      BY <1>1, <1>5, <2>1, <2>2
    <2>9. /\ ChannelInv' /\ CountInv' /\ BoundInv'
          /\ submission' \in [Subscribers -> Seq(Chunks)]
          /\ completion' \in [Subscribers -> SUBSET Chunks]
          /\ used_chunk_list' \in [Subscribers -> SUBSET Chunks]
          /\ last' \in [Subscribers -> Nat]
          /\ ref_count' \in [Chunks -> Nat] /\ free' \subseteq Chunks /\ number' \in [Chunks -> Nat]
          /\ \A t \in Subscribers : used_chunk_list'[t] \subseteq used_chunk_list[t]
      <3> HIDE DEF subs, s
      <3>1. CASE Connected' = (Connected \ subs) \cup {s}
        <4>1. {s} \in SUBSET (Subscribers \ Connected) /\ \A t \in {s} : held[t] = {}
          BY <2>1, <2>4, <2>5
        <4> QED BY <1>2, <2>2, <2>3, <3>1, <4>1, RemoveStep DEF Core
      <3>2. CASE Connected' = (Connected \ subs) \cup {}
        <4>1. {} \in SUBSET (Subscribers \ Connected) /\ \A t \in {} : held[t] = {}
          OBVIOUS
        <4> QED BY <1>2, <2>2, <2>3, <3>2, <4>1, RemoveStep DEF Core
      <3> QED BY <2>2, <2>7, <3>1, <3>2
    <2>10. SlotInv'
      BY <1>1, <1>2, <1>3, <2>8, NoneApart, SMTT(30) DEF SlotInv, Has, Gone, Core
    <2>11. CASE NextSlot("update", "finish") /\ p_pending' \in Seq(Chunks)
      <3>1. TypeOK'  BY <1>2, <1>3, <1>4, <2>8, <2>9, <2>11, ZenonT(60) DEF TypeOK, Core
      <3>2. ~ Delivering' /\ ~ Catching' /\ Unsent' = loaned
        BY <1>2, <1>4, <2>11 DEF Delivering, Catching, Unsent
      <3>3. OwnerInv'  BY <1>2, <2>9, <3>2, OwnerFrame DEF Core
      <3>4. ControlInv'  BY <1>2, <1>3, <1>4, <2>11, <3>2 DEF ControlInv, Core
      <3> QED BY <1>2, <2>9, <2>10, <3>1, <3>3, <3>4 DEF Core, NeverOutOfMemory
    <2>12. CASE /\ history # <<>> /\ p_pc' = "history" /\ p_slot' = p_slot /\ connections'[p_slot] = s
                /\ p_pending' = SubSeq(history, IF Len(history) > BufferSize
                                                THEN Len(history) - BufferSize + 1 ELSE 1,
                                       Len(history))
      <3>1. history \in Seq(Chunks) /\ IsInjective(history) /\ BufferSize \in Nat \ {0}
        BY ConfigTypes DEF Core, TypeOK, OwnerInv
      <3>2. /\ p_pending' \in Seq(Chunks) /\ p_pending' # <<>> /\ IsInjective(p_pending')
            /\ Range(p_pending') \subseteq Range(history)
        <4> DEFINE a == IF Len(history) > BufferSize THEN Len(history) - BufferSize + 1 ELSE 1
        <4>1. a \in 1..Len(history)  BY <2>12, <3>1, SMTT(30)
        <4>2. p_pending' = SubSeq(history, a, Len(history))  BY <2>12
        <4> HIDE DEF a
        <4> QED BY <3>1, <4>1, <4>2, Suffix
      <3>3. TypeOK'  BY <1>2, <1>3, <2>8, <2>9, <2>12, <3>2, ZenonT(60) DEF TypeOK, Core
      <3>4. Unsent' = loaned /\ ~ Delivering'  BY <1>2, <2>12 DEF Unsent, Delivering
      <3>5. used_chunk_list'[s] = {}
        <4>1. used_chunk_list[s] = {}  BY <2>1, <2>4 DEF ChannelInv, Unused, Core
        <4> QED BY <2>1, <2>9, <4>1
      <3>6. \A c \in Unsent' : c \notin Range(history) /\ \A t \in Subscribers : c \notin used_chunk_list'[t]
        BY <1>2, <2>9, <3>4 DEF OwnerInv, Core
      <3>7. OwnerInv'  BY <1>2, <2>12, <3>1, <3>2, <3>4, <3>5, <3>6 DEF OwnerInv
      <3>8. ControlInv'  BY <1>1, <1>2, <1>3, <2>1, <2>12, NoneApart DEF ControlInv, Catching, Core
      <3> QED BY <1>2, <2>9, <2>10, <3>3, <3>7, <3>8 DEF Core, NeverOutOfMemory
    <2>13. p_pending' = p_pending => p_pending' \in Seq(Chunks)  BY DEF Core, TypeOK
    <2>14. history = <<>> => SubSeq(history, IF Len(history) > BufferSize
                                          THEN Len(history) - BufferSize + 1 ELSE 1,
                                    Len(history)) \in Seq(Chunks)
      <3>1. BufferSize \in Nat  BY ConfigTypes DEF Core, TypeOK
      <3>2. SubSeq(<<>>, 1, 0) = <<>> /\ <<>> \in Seq(Chunks)  BY SMTT(30)
      <3> QED BY <3>1, <3>2, SMTT(30)
    <2> QED BY <1>1, <1>5, <2>2, <2>11, <2>12, <2>13, <2>14
  <1> QED BY <1>6, <1>7

LEMMA FinishStep ==
  ASSUME Core, FinishUpdateConnectionCycle
  PROVE  Core'
  <1> USE ZenonT(60)
  <1> DEFINE gone == {i \in Slots : connections[i] # subscriber_list_state[i]}
             subs == Removed(gone)
  <1>1. /\ p_pc = "finish" /\ RemoveConnections(subs)
        /\ connections' = [i \in Slots |-> IF i \in gone THEN None ELSE connections[i]]
        /\ p_pc' \in {"idle", "send", "drop"} /\ (p_pc' = "idle" <=> p_chunk = None)
    BY DEF FinishUpdateConnectionCycle
  <1>2. UNCHANGED <<static_config, registry, status, subscriber_list_state, held, loaned, history,
                    out_of_memory, p_slot, p_chunk, p_pending, sent>>
    BY DEF FinishUpdateConnectionCycle, port, local
  <1>3. /\ Slots' = Slots /\ Chunks' = Chunks /\ MaxSubscribers' = MaxSubscribers
        /\ BufferSize' = BufferSize /\ MaxBorrowed' = MaxBorrowed /\ MaxLoans' = MaxLoans
        /\ HistorySize' = HistorySize
    BY <1>2, SameConfig
  <1>4. connections \in [Slots -> Subscribers \cup {None}]  BY DEF Core, TypeOK
  <1>5. /\ subs \in SUBSET Connected
        /\ \A t \in subs : Gone(t) /\ \A i \in Slots : subscriber_list_state[i] # t
    <2>1. subs \in SUBSET Connected  BY DEF Removed, Connected
    <2>2. ASSUME NEW t \in subs PROVE Gone(t) /\ \A i \in Slots : subscriber_list_state[i] # t
      <3>1. PICK k \in gone : connections[k] = t  BY DEF Removed
      <3>2. t \in Subscribers /\ k \in Slots /\ subscriber_list_state[k] # t
        BY <1>4, <3>1 DEF Removed
      <3> QED BY <3>1, <3>2 DEF SlotInv, Has, Core
    <2> QED BY <2>1, <2>2
  <1>6. Connected' = (Connected \ subs) \cup {}
    <2>1. \A k \in Slots \ gone : connections[k] # None => connections[k] \notin subs
      <3>1. ASSUME NEW k \in Slots \ gone, connections[k] \in subs PROVE FALSE
        <4>1. subscriber_list_state[k] = connections[k]  OBVIOUS
        <4> QED BY <1>5, <3>1, <4>1
      <3> QED BY <3>1
    <2> QED BY <1>1, <1>3, <1>4, <2>1 DEF Connected, Removed
  <1>7. /\ ChannelInv' /\ CountInv' /\ BoundInv'
        /\ submission' \in [Subscribers -> Seq(Chunks)]
        /\ completion' \in [Subscribers -> SUBSET Chunks]
        /\ used_chunk_list' \in [Subscribers -> SUBSET Chunks]
        /\ last' \in [Subscribers -> Nat]
        /\ ref_count' \in [Chunks -> Nat] /\ free' \subseteq Chunks /\ number' \in [Chunks -> Nat]
        /\ \A t \in Subscribers : used_chunk_list'[t] \subseteq used_chunk_list[t]
    <2> HIDE DEF subs
    <2>1. {} \in SUBSET (Subscribers \ Connected) /\ \A t \in {} : held[t] = {}
      OBVIOUS
    <2> QED BY <1>1, <1>2, <1>5, <1>6, <2>1, RemoveStep, ZenonT(60) DEF Core
  <1>8. SlotInv'
    <2>1. \A k \in Slots : connections'[k] \in {connections[k], None}  BY <1>1
    <2> QED BY <1>2, <1>3, <2>1, NoneApart, SMTT(30) DEF SlotInv, Has, Gone, Core
  <1>9. TypeOK'
    <2>1. connections' \in [Slots -> Subscribers \cup {None}]  BY <1>1, <1>4
    <2> QED BY <1>1, <1>2, <1>3, <1>7, <2>1, SMTT(30) DEF TypeOK, Core
  <1>10. Unsent' \subseteq Unsent /\ ~ Delivering' /\ ~ Catching'
    BY <1>1, <1>2 DEF Unsent, Writable, Delivering, Catching
  <1>11. OwnerInv'  BY <1>2, <1>7, <1>10, OwnerFrame DEF Core
  <1>12. ControlInv'  BY <1>1, <1>2, <1>10 DEF ControlInv, Core
  <1> QED BY <1>2, <1>7, <1>8, <1>9, <1>11, <1>12 DEF Core, NeverOutOfMemory

LEMMA AddToHistoryStep ==
  ASSUME Core, AddSampleToHistory
  PROVE  Core'
  <1> USE ZenonT(60)
  <1> DEFINE full == Len(history) = HistorySize
             old == IF full /\ HistorySize > 0 THEN {Head(history)} ELSE {}
             new == IF HistorySize > 0 THEN {p_chunk} ELSE {}
             loss == [c \in Chunks |-> Returned[c] + One(c \in old)]
  <1>1. /\ p_pc = "send" /\ p_pc' = "deliver" /\ p_slot' = 1 /\ sent' = sent + 1 /\ Retrieve
        /\ history' = IF HistorySize = 0 THEN <<>>
                      ELSE Append(IF full THEN Tail(history) ELSE history, p_chunk)
        /\ Count(EachOf(new), loss)
    BY DEF AddSampleToHistory
  <1>2. UNCHANGED <<static_config, registry, status, subscriber_list_state, connections, submission,
                    held, last, loaned, out_of_memory, p_chunk, p_pending>>
    BY DEF AddSampleToHistory, port, user
  <1>3. /\ Slots' = Slots /\ Chunks' = Chunks /\ MaxSubscribers' = MaxSubscribers
        /\ BufferSize' = BufferSize /\ MaxBorrowed' = MaxBorrowed /\ MaxLoans' = MaxLoans
        /\ HistorySize' = HistorySize
    BY <1>2, SameConfig
  <1>4. /\ ChannelInv' /\ used_chunk_list' \in [Subscribers -> SUBSET Chunks]
        /\ completion' \in [Subscribers -> SUBSET Chunks]
        /\ \A s \in Subscribers : used_chunk_list'[s] \subseteq used_chunk_list[s]
    BY <1>1, <1>2, RetrieveChannels DEF Core
  <1>5. /\ p_chunk \in loaned /\ p_chunk \in Chunks /\ p_chunk \notin Range(history)
        /\ \A s \in Subscribers : p_chunk \notin used_chunk_list[s]
    BY <1>1 DEF Core, ControlInv, OwnerInv, Unsent, TypeOK
  <1>6. /\ history \in Seq(Chunks) /\ IsInjective(history) /\ HistorySize \in Nat
        /\ Len(history) \in Nat /\ Len(history) <= HistorySize
    BY ConfigTypes, SMTT(30) DEF Core, TypeOK, OwnerInv, BoundInv
  <1>7. /\ history' \in Seq(Chunks) /\ IsInjective(history') /\ Len(history') <= HistorySize
        /\ Range(history') = (Range(history) \ old) \cup new
        /\ old \subseteq Range(history) /\ p_chunk \notin old
    <2>1. CASE HistorySize = 0
      <3>1. history' = <<>> /\ history = <<>> /\ old = {} /\ new = {}  BY <1>1, <1>6, <2>1, SMTT(30)
      <3>2. Range(<<>>) = {}  BY SMTT(30) DEF Range
      <3> QED BY <1>6, <2>1, <3>1, <3>2
    <2>2. CASE HistorySize > 0 /\ full
      <3>1. /\ history # <<>> /\ history' = Append(Tail(history), p_chunk)
            /\ old = {Head(history)} /\ new = {p_chunk}
        BY <1>1, <1>6, <2>2, SMTT(30)
      <3> HIDE DEF full, old, new, loss
      <3>2. /\ Tail(history) \in Seq(Chunks) /\ Len(Tail(history)) = Len(history) - 1
            /\ Range(history) = Range(Tail(history)) \cup {Head(history)}
            /\ Head(history) \notin Range(Tail(history)) /\ IsInjective(Tail(history))
        BY <1>6, <3>1, HeadAndTail
      <3>3. p_chunk \notin Range(Tail(history)) /\ p_chunk # Head(history)  BY <1>5, <3>2
      <3>4. /\ history' \in Seq(Chunks) /\ Len(history') = Len(Tail(history)) + 1
            /\ Range(history') = Range(Tail(history)) \cup {p_chunk} /\ IsInjective(history')
        <4>1. p_chunk \in Chunks /\ Tail(history) \in Seq(Chunks) /\ IsInjective(Tail(history))
              /\ p_chunk \notin Range(Tail(history))
          BY <1>5, <3>2, <3>3
        <4> DEFINE q == Append(Tail(history), p_chunk)
        <4>2. /\ q \in Seq(Chunks) /\ Len(q) = Len(Tail(history)) + 1
              /\ Range(q) = Range(Tail(history)) \cup {p_chunk} /\ IsInjective(q)
          BY <4>1, Appended
        <4> QED BY <3>1, <4>2
      <3>5. Len(history') <= HistorySize  BY <1>6, <3>2, <3>4, SMTT(30)
      <3> QED BY <3>1, <3>2, <3>3, <3>4, <3>5
    <2>3. CASE HistorySize > 0 /\ ~ full
      <3>1. history' = Append(history, p_chunk) /\ old = {} /\ new = {p_chunk}
        BY <1>1, <1>6, <2>3, SMTT(30)
      <3>2. /\ history' \in Seq(Chunks) /\ Len(history') = Len(history) + 1
            /\ Range(history') = Range(history) \cup {p_chunk} /\ IsInjective(history')
        BY <1>5, <1>6, <3>1, Appended
      <3>3. Len(history') <= HistorySize  BY <1>6, <2>3, <3>2, SMTT(30)
      <3> QED BY <3>1, <3>2, <3>3
    <2> QED BY <1>6, <2>1, <2>2, <2>3, SMTT(30)
  <1> HIDE DEF full, old
  <1>8. CountInv' /\ ref_count' \in [Chunks -> Nat] /\ free' \subseteq Chunks
    <2>1. ASSUME NEW d \in Chunks
          PROVE  /\ EachOf(new)[d] \in Nat /\ loss[d] \in Nat /\ Owners(d) \in Nat
                 /\ loss[d] <= Owners(d)
                 /\ Owners(d)' = Owners(d) + EachOf(new)[d] - loss[d]
      <3> DEFINE l == One(d \in loaned)
                 h == One(d \in Range(history))
                 n == Cardinality(Users(d))
                 o == One(d \in old)
                 g == One(d \in new)
      <3>1. /\ Returned[d] \in Nat /\ Returned[d] <= n
            /\ Cardinality(Users(d)') = n - Returned[d]
        BY <1>1, RetrieveCounts DEF Core
      <3>2. n \in Nat /\ Owners(d) \in Nat  BY OwnersType DEF Core
      <3>3. l \in Nat /\ h \in Nat /\ o \in Nat /\ g \in Nat /\ o <= h  BY <1>7, SMTT(30) DEF One
      <3>4. One(d \in Range(history')) = h + g - o
        <4>1. d \in new => d \notin Range(history) /\ d \notin old  BY <1>5, <1>7
        <4> HIDE DEF new
        <4> QED BY <1>7, <4>1, SMTT(30) DEF One
      <3>5. Owners(d) = l + h + n /\ Owners(d)' = l + (h + g - o) + (n - Returned[d])
        BY <1>2, <3>1, <3>4 DEF Owners
      <3>6. EachOf(new)[d] = g /\ loss[d] = Returned[d] + o  BY OneEach
      <3> HIDE DEF l, h, n, o, g, loss, new
      <3> QED BY <3>1, <3>2, <3>3, <3>5, <3>6, SMTT(30)
    <2> HIDE DEF loss, new
    <2> QED BY <1>1, <1>3, <2>1, CountStep DEF Core
  <1>9. TypeOK'
    <2> HIDE DEF new, loss
    <2>1. number' \in [Chunks -> Nat]  BY <1>1, NumberType DEF Core
    <2>2. 1 \in 0..MaxSubscribers  BY ConfigTypes, SMTT(30) DEF Core, TypeOK
    <2>3. p_pc' = "deliver" /\ p_slot' \in 0..MaxSubscribers /\ sent' \in Nat
      BY <1>1, <2>2, SMTT(30) DEF Core, TypeOK
    <2> QED BY <1>2, <1>3, <1>4, <1>7, <1>8, <2>1, <2>3 DEF TypeOK, Core
  <1>10. OwnerInv'
    <2>1. Unsent' = loaned \ {p_chunk} /\ Unsent = loaned /\ ~ Catching'
      BY <1>1, <1>2 DEF Unsent, Writable, Catching
    <2>2. \A c \in Unsent' : /\ c \notin Range(history')
                             /\ \A s \in Subscribers : c \notin used_chunk_list'[s]
      BY <1>4, <1>7, <2>1 DEF OwnerInv, Core
    <2>3. \A k \in 1..MaxSubscribers :
            connections[k] # None => p_chunk \notin used_chunk_list'[connections[k]]
      BY <1>4, <1>5 DEF Core, TypeOK, Slots
    <2> QED BY <1>1, <1>2, <1>3, <1>7, <2>1, <2>2, <2>3 DEF OwnerInv
  <1>11. BoundInv'  BY <1>2, <1>3, <1>7 DEF BoundInv, Core
  <1>12. ControlInv'
    <2>1. 1 \in Slots  BY ConfigTypes, SMTT(30) DEF Core, TypeOK, Slots
    <2> QED BY <1>1, <1>2, <1>3, <1>5, <2>1, NoneApart DEF ControlInv, Catching, Core
  <1> QED BY <1>2, <1>4, <1>8, <1>9, <1>10, <1>11, <1>12, SlotFrame DEF Core, NeverOutOfMemory

(* The next slot, or the end of the loop                                        *)
LEMMA Advance ==
  ASSUME static_config \in Configs, p_slot \in Slots, NEW here, NEW label, NextSlot(here, label)
  PROVE  /\ p_slot' \in 0..MaxSubscribers /\ p_pc' \in {here, label}
         /\ p_slot # MaxSubscribers => p_slot' = p_slot + 1 /\ p_slot' \in Slots /\ p_pc' = here
         /\ p_slot = MaxSubscribers => p_pc' = label
  BY ConfigTypes DEF NextSlot, Slots

(* What a step that sends to one connection leaves as it is                     *)
LEMMA SendFrame ==
  ASSUME Core, NEW s \in Connected, NEW c \in Chunks, c \notin used_chunk_list[s], TrySend(s, c),
         UNCHANGED <<static_config, registry, status, subscriber_list_state, connections, completion,
                     held, last, loaned, history, out_of_memory, p_chunk, sent>>,
         p_slot' \in 0..MaxSubscribers, p_pending' \in Seq(Chunks),
         p_pc' \in {"update", "history", "finish", "deliver", "drop"}
  PROVE  /\ TypeOK' /\ SlotInv' /\ ChannelInv' /\ CountInv' /\ BoundInv' /\ NeverOutOfMemory'
         /\ used_chunk_list'[s] \subseteq used_chunk_list[s] \cup {c}
         /\ \A t \in Subscribers \ {s} : used_chunk_list'[t] = used_chunk_list[t]
  <1> USE ZenonT(60)
  <1>1. /\ ChannelInv' /\ CountInv'
        /\ submission' \in [Subscribers -> Seq(Chunks)]
        /\ used_chunk_list' \in [Subscribers -> SUBSET Chunks]
        /\ ref_count' \in [Chunks -> Nat] /\ free' \subseteq Chunks /\ number' \in [Chunks -> Nat]
        /\ Len(submission'[s]) <= BufferSize
        /\ used_chunk_list'[s] \subseteq used_chunk_list[s] \cup {c}
        /\ \A t \in Subscribers \ {s} :
             submission'[t] = submission[t] /\ used_chunk_list'[t] = used_chunk_list[t]
    BY TrySendStep DEF Core
  <1>2. /\ Slots' = Slots /\ Chunks' = Chunks /\ MaxSubscribers' = MaxSubscribers
        /\ BufferSize' = BufferSize /\ MaxBorrowed' = MaxBorrowed /\ MaxLoans' = MaxLoans
        /\ HistorySize' = HistorySize
    BY SameConfig
  <1>3. TypeOK'
    BY <1>1, <1>2, ZenonT(60) DEF TypeOK, Core
  <1>4. BoundInv'
    BY <1>1, <1>2 DEF BoundInv, Core
  <1>5. SlotInv'  BY SlotFrame DEF Core
  <1>6. NeverOutOfMemory'  BY DEF NeverOutOfMemory, Core
  <1> QED BY <1>1, <1>3, <1>4, <1>5, <1>6

(* Slots of different connections have different subscribers.                   *)
LEMMA OneSlotEach ==
  ASSUME TypeOK, SlotInv, NEW i \in Slots, NEW j \in Slots, connections[i] # None,
         connections[i] = connections[j]
  PROVE  i = j
  <1>1. connections[i] \in Subscribers  BY ZenonT(60) DEF TypeOK
  <1> QED BY <1>1, ZenonT(60) DEF SlotInv, Has

LEMMA DeliverOffsetStep ==
  ASSUME Core, DeliverOffset
  PROVE  Core'
  <1> USE ZenonT(60)
  <1>1. /\ p_pc = "deliver" /\ NextSlot("deliver", "drop")
        /\ UNCHANGED <<static_config, registry, status, subscriber_list_state, connections, completion,
                       held, last, loaned, history, out_of_memory, p_chunk, p_pending, sent>>
    BY DEF DeliverOffset, port, user, local
  <1>2. /\ p_slot \in Slots /\ p_chunk # None /\ p_chunk \in loaned /\ p_chunk \in Chunks
        /\ static_config \in Configs
    BY <1>1 DEF Core, ControlInv, TypeOK
  <1>3. /\ p_slot' \in 0..MaxSubscribers /\ p_pc' \in {"deliver", "drop"}
        /\ p_slot # MaxSubscribers => p_slot' = p_slot + 1 /\ p_slot' \in Slots /\ p_pc' = "deliver"
        /\ p_slot = MaxSubscribers => p_pc' = "drop"
    BY <1>1, <1>2, Advance
  <1>4. /\ Slots' = Slots /\ Chunks' = Chunks /\ MaxSubscribers' = MaxSubscribers
        /\ BufferSize' = BufferSize /\ MaxBorrowed' = MaxBorrowed /\ MaxLoans' = MaxLoans
        /\ HistorySize' = HistorySize
    BY <1>1, SameConfig
  <1>5. MaxSubscribers \in Nat \ {0} /\ connections \in [Slots -> Subscribers \cup {None}]
    BY ConfigTypes DEF Core, TypeOK
  <1>6. p_pending \in Seq(Chunks)  BY DEF Core, TypeOK
  <1>7. /\ TypeOK' /\ SlotInv' /\ ChannelInv' /\ CountInv' /\ BoundInv' /\ NeverOutOfMemory'
        /\ \A t \in Subscribers :
             /\ used_chunk_list'[t] \subseteq used_chunk_list[t] \cup {p_chunk}
             /\ t # connections[p_slot] => used_chunk_list'[t] = used_chunk_list[t]
    <2>1. CASE connections[p_slot] = None
      <3>1. UNCHANGED <<submission, used_chunk_list, ref_count, free, number>>
        BY <2>1 DEF DeliverOffset, pool
      <3>2. TypeOK'  BY <1>1, <1>3, <1>4, <3>1 DEF TypeOK, Core
      <3>3. ChannelInv'
        <4>1. Connected' = Connected  BY <1>1, <1>4 DEF Connected
        <4>2. \A t : OnePlace(t)' <=> OnePlace(t)  BY <1>1, <3>1 DEF OnePlace
        <4>3. \A t : Unused(t)' <=> Unused(t)  BY <1>1, <1>4, <3>1 DEF Unused, Gone
        <4> QED BY <4>1, <4>2, <4>3 DEF ChannelInv, Core
      <3>4. CountInv'  BY <1>1, <1>4, <3>1 DEF CountInv, Owners, Users, Core
      <3>5. BoundInv'  BY <1>1, <1>4, <3>1 DEF BoundInv, Core
      <3>6. SlotInv'  BY <1>1, SlotFrame DEF Core
      <3> QED BY <1>1, <3>1, <3>2, <3>3, <3>4, <3>5, <3>6 DEF NeverOutOfMemory, Core
    <2>2. CASE connections[p_slot] # None
      <3> DEFINE s == connections[p_slot]
      <3>1. s \in Connected /\ s \in Subscribers  BY <1>2, <1>5, <2>2 DEF Connected
      <3>2. p_chunk \notin used_chunk_list[s]
        <4>1. p_slot \in p_slot..MaxSubscribers  BY <1>2, <1>5, SMTT(30) DEF Slots
        <4> QED BY <1>1, <2>2, <4>1 DEF Core, OwnerInv, Delivering
      <3>3. TrySend(s, p_chunk)  BY <2>2 DEF DeliverOffset
      <3>4. p_pending' \in Seq(Chunks) /\ p_pc' \in {"update", "history", "finish", "deliver", "drop"}
        BY <1>1, <1>3, <1>6
      <3> HIDE DEF s
      <3>5. /\ TypeOK' /\ SlotInv' /\ ChannelInv' /\ CountInv' /\ BoundInv' /\ NeverOutOfMemory'
            /\ used_chunk_list'[s] \subseteq used_chunk_list[s] \cup {p_chunk}
            /\ \A t \in Subscribers \ {s} : used_chunk_list'[t] = used_chunk_list[t]
        BY <1>1, <1>2, <1>3, <3>1, <3>2, <3>3, <3>4, SendFrame
      <3> QED BY <3>1, <3>5 DEF s
    <2> QED BY <2>1, <2>2
  <1>8. ControlInv'
    BY <1>1, <1>2, <1>3, <1>4, <1>5 DEF ControlInv, Catching, Core
  <1>9. OwnerInv'
    <2>1. Unsent' = Unsent /\ p_chunk \notin Unsent
      BY <1>1, <1>3 DEF Unsent, Writable
    <2>2. \A c \in Unsent' : /\ c \notin Range(history')
                             /\ \A s \in Subscribers : c \notin used_chunk_list'[s]
      BY <1>1, <1>7, <2>1 DEF OwnerInv, Core
    <2>3. ASSUME Delivering', NEW k \in p_slot'..MaxSubscribers, connections[k] # None
          PROVE  p_chunk \notin used_chunk_list'[connections[k]]
      <3>1. p_slot' = p_slot + 1 /\ p_slot' \in Slots  BY <1>3, <2>3 DEF Delivering
      <3>2. k \in Slots /\ k # p_slot /\ k \in p_slot..MaxSubscribers
        BY <1>2, <1>5, <3>1, SMTT(30) DEF Slots
      <3>3. connections[k] \in Subscribers /\ connections[k] # connections[p_slot]
        BY <1>2, <1>5, <2>3, <3>2, OneSlotEach DEF Core
      <3>4. p_chunk \notin used_chunk_list[connections[k]]
        BY <1>1, <2>3, <3>2 DEF OwnerInv, Delivering, Core
      <3> QED BY <1>7, <3>3, <3>4
    <2>4. ~ Catching'  BY <1>3 DEF Catching
    <2>5. IsInjective(history')  BY <1>1 DEF OwnerInv, Core
    <2> QED BY <1>1, <1>4, <2>2, <2>3, <2>4, <2>5 DEF OwnerInv
  <1> QED BY <1>7, <1>8, <1>9 DEF Core

LEMMA DeliverHistoryStep ==
  ASSUME Core, DeliverSampleHistory
  PROVE  Core'
  <1> USE ZenonT(60)
  <1> DEFINE s == connections[p_slot]
             c == Head(p_pending)
  <1>1. /\ p_pc = "history_send" /\ TrySend(s, c) /\ p_pending' = Tail(p_pending)
        /\ IF Tail(p_pending) = <<>> THEN NextSlot("update", "finish")
                                     ELSE p_pc' = "history" /\ p_slot' = p_slot
        /\ UNCHANGED <<static_config, registry, status, subscriber_list_state, connections, completion,
                       held, last, loaned, history, out_of_memory, p_chunk, sent>>
    BY DEF DeliverSampleHistory, port, user, local
  <1>2. /\ p_slot \in Slots /\ s # None /\ static_config \in Configs
        /\ p_pending \in Seq(Chunks)
    BY <1>1 DEF Core, ControlInv, Catching, TypeOK
  <1>3. /\ p_pending # <<>> /\ IsInjective(p_pending) /\ Range(p_pending) \subseteq Range(history)
        /\ Range(p_pending) \cap used_chunk_list[s] = {}
    BY <1>1 DEF Core, OwnerInv, Catching
  <1>4. /\ c \in Chunks /\ Tail(p_pending) \in Seq(Chunks)
        /\ Range(p_pending) = Range(Tail(p_pending)) \cup {c}
        /\ c \notin Range(Tail(p_pending)) /\ IsInjective(Tail(p_pending))
    BY <1>2, <1>3, HeadAndTail
  <1>5. s \in Connected /\ s \in Subscribers
    <2>1. connections \in [Slots -> Subscribers \cup {None}]  BY DEF Core, TypeOK
    <2> QED BY <1>2, <2>1 DEF Connected
  <1> HIDE DEF s, c
  <1>6. /\ p_slot' \in 0..MaxSubscribers /\ p_pc' \in {"update", "history", "finish"}
        /\ p_pc' \in {"update", "history"} => p_slot' \in Slots
        /\ p_pc' = "history" => p_slot' = p_slot /\ Tail(p_pending) # <<>>
    <2>1. CASE Tail(p_pending) = <<>>
      <3>1. NextSlot("update", "finish")  BY <1>1, <2>1
      <3> QED BY <1>2, <3>1, Advance, SMTT(30)
    <2>2. CASE Tail(p_pending) # <<>>
      BY <1>1, <1>2, <2>2, ConfigTypes, SMTT(30) DEF Slots
    <2> QED BY <2>1, <2>2
  <1>7. /\ TypeOK' /\ SlotInv' /\ ChannelInv' /\ CountInv' /\ BoundInv' /\ NeverOutOfMemory'
        /\ used_chunk_list'[s] \subseteq used_chunk_list[s] \cup {c}
        /\ \A t \in Subscribers \ {s} : used_chunk_list'[t] = used_chunk_list[t]
    <2>1. c \notin used_chunk_list[s]  BY <1>3, <1>4
    <2>2. p_pending' \in Seq(Chunks) /\ p_pc' \in {"update", "history", "finish", "deliver", "drop"}
      BY <1>1, <1>4, <1>6
    <2> QED BY <1>1, <1>4, <1>5, <1>6, <2>1, <2>2, SendFrame
  <1>8. Slots' = Slots /\ MaxSubscribers' = MaxSubscribers  BY <1>1, SameConfig
  <1>9. ControlInv'
    BY <1>1, <1>2, <1>6, <1>8 DEF ControlInv, Catching, Core, s
  <1>10. OwnerInv'
    <2>1. Unsent' = loaned /\ Unsent = loaned /\ ~ Delivering'
      BY <1>1, <1>6 DEF Unsent, Writable, Delivering
    <2>2. c \in Range(history)  BY <1>3, <1>4
    <2>3. \A d \in Unsent' : /\ d \notin Range(history')
                             /\ \A t \in Subscribers : d \notin used_chunk_list'[t]
      BY <1>1, <1>7, <2>1, <2>2 DEF OwnerInv, Core
    <2>4. ASSUME Catching'
          PROVE  /\ p_pending' # <<>> /\ IsInjective(p_pending')
                 /\ Range(p_pending') \subseteq Range(history)
                 /\ connections'[p_slot'] = s
                 /\ Range(p_pending') \cap used_chunk_list'[s] = {}
      <3>1. p_slot' = p_slot /\ Tail(p_pending) # <<>>  BY <1>6, <2>4 DEF Catching
      <3>2. connections'[p_slot'] = s  BY <1>1, <3>1 DEF s
      <3> QED BY <1>1, <1>3, <1>4, <1>7, <3>1, <3>2
    <2>5. IsInjective(history')  BY <1>1 DEF OwnerInv, Core
    <2> QED BY <1>1, <2>1, <2>3, <2>4, <2>5 DEF OwnerInv
  <1> QED BY <1>7, <1>9, <1>10 DEF Core

------------------------------------------------------------------------------
(* The size of the data segment                                                 *)

(* A sequence has no more elements than its length.                             *)
LEMMA ElementCount ==
  ASSUME NEW S, NEW q \in Seq(S)
  PROVE  /\ IsFiniteSet(Range(q)) /\ Cardinality(Range(q)) \in Nat
         /\ Cardinality(Range(q)) <= Len(q)
         /\ IsInjective(q) => Cardinality(Range(q)) = Len(q)
  <1>1. Len(q) \in Nat /\ DOMAIN q = 1..Len(q)  OBVIOUS
  <1>2. q \in Surjection(1..Len(q), Range(q))  BY <1>1 DEF Range, Surjection
  <1>3. IsFiniteSet(1..Len(q)) /\ Cardinality(1..Len(q)) = Len(q)  BY <1>1, FS_Interval
  <1>4. IsInjective(q) => q \in Injection(1..Len(q), Range(q))
    BY <1>1, <1>2, ZenonT(60) DEF IsInjective, Injection, Surjection
  <1> QED BY <1>2, <1>3, <1>4, FS_Surjection, FS_CardinalityType

(* The chunks on their way to or with a subscriber of a connection              *)
InUse == UNION {Range(submission[s]) \cup held[s] : s \in Connected}

(* Each connection has at most BufferSize + MaxBorrowed of them: its slot and a *)
(* number up to that bound tell them apart.                                     *)
LEMMA InUseCount ==
  ASSUME Core
  PROVE  /\ IsFiniteSet(InUse) /\ Cardinality(InUse) \in Nat
         /\ Cardinality(InUse) <= MaxSubscribers * (BufferSize + MaxBorrowed)
  <1> USE ZenonT(60)
  <1> DEFINE M == BufferSize + MaxBorrowed
             Enum(s) == CHOOSE e : e \in Surjection(1..Cardinality(held[s]), held[s])
             Item(s, k) == IF k <= BufferSize THEN submission[s][k] ELSE Enum(s)[k - BufferSize]
             Is(i, k) == /\ connections[i] # None
                         /\ \/ k \in 1..Len(submission[connections[i]])
                            \/ /\ k > BufferSize
                               /\ k - BufferSize \in 1..Cardinality(held[connections[i]])
             D == {d \in Slots \X (1..M) : Is(d[1], d[2])}
             F == [d \in D |-> Item(connections[d[1]], d[2])]
  <1>1. /\ MaxSubscribers \in Nat /\ BufferSize \in Nat /\ MaxBorrowed \in Nat /\ M \in Nat
        /\ static_config \in Configs
    BY ConfigTypes, SMTT(30) DEF Core, TypeOK
  <1>2. connections \in [Slots -> Subscribers \cup {None}]  BY DEF Core, TypeOK
  <1>3. ASSUME NEW s \in Connected
        PROVE  /\ submission[s] \in Seq(Chunks) /\ Len(submission[s]) \in Nat
               /\ DOMAIN submission[s] = 1..Len(submission[s])
               /\ Len(submission[s]) <= BufferSize
               /\ Cardinality(held[s]) \in Nat /\ Cardinality(held[s]) <= MaxBorrowed
               /\ Enum(s) \in Surjection(1..Cardinality(held[s]), held[s])
    <2>1. s \in Subscribers  BY ConnectedFinite DEF Core
    <2>2. submission[s] \in Seq(Chunks) /\ held[s] \in SUBSET Chunks  BY <2>1 DEF Core, TypeOK
    <2>3. Len(submission[s]) \in Nat /\ DOMAIN submission[s] = 1..Len(submission[s])  BY <2>2, SMTT(30)
    <2>4. Len(submission[s]) <= BufferSize /\ Cardinality(held[s]) <= MaxBorrowed
      BY <2>1 DEF Core, BoundInv
    <2>5. IsFiniteSet(held[s]) /\ Cardinality(held[s]) \in Nat  BY <1>1, <2>2, ChunksFinite
    <2>6. \E e : e \in Surjection(1..Cardinality(held[s]), held[s])
      BY <2>5, FS_CardinalityType DEF ExistsBijection, Bijection
    <2>7. Enum(s) \in Surjection(1..Cardinality(held[s]), held[s])  BY <2>6
    <2> HIDE DEF Enum
    <2> QED BY <2>2, <2>3, <2>4, <2>5, <2>7
  <1> HIDE DEF Enum
  <1>4. ASSUME NEW i \in Slots, NEW k \in 1..M, Is(i, k)
        PROVE  Item(connections[i], k) \in InUse
    <2> DEFINE s == connections[i]
    <2>1. s \in Connected  BY <1>2, <1>4 DEF Connected
    <2> HIDE DEF M
    <2>2. Range(submission[s]) \cup held[s] \subseteq InUse  BY <2>1 DEF InUse
    <2>3. CASE k \in 1..Len(submission[s])
      <3>1. k <= BufferSize  BY <1>1, <1>3, <2>1, <2>3, SMTT(30)
      <3>2. submission[s][k] \in Range(submission[s])  BY <1>3, <2>1, <2>3 DEF Range
      <3> QED BY <2>2, <3>1, <3>2
    <2>4. CASE k > BufferSize /\ k - BufferSize \in 1..Cardinality(held[s])
      <3>1. ~ (k <= BufferSize)  BY <1>1, <2>4, SMTT(30)
      <3>2. Enum(s)[k - BufferSize] \in held[s]  BY <1>3, <2>1, <2>4 DEF Surjection
      <3> QED BY <2>2, <3>1, <3>2
    <2> QED BY <1>4, <2>3, <2>4
  <1>5. ASSUME NEW c \in InUse
        PROVE  \E i \in Slots, k \in 1..M : Is(i, k) /\ Item(connections[i], k) = c
    <2>1. PICK s \in Connected : c \in Range(submission[s]) \cup held[s]  BY DEF InUse
    <2>2. PICK i \in Slots : connections[i] = s /\ s # None  BY <2>1 DEF Connected
    <2>3. CASE c \in Range(submission[s])
      <3>1. PICK k \in 1..Len(submission[s]) : submission[s][k] = c
        BY <1>3, <2>1, <2>3 DEF Range
      <3>2. k \in 1..M /\ k <= BufferSize  BY <1>1, <1>3, <2>1, SMTT(30)
      <3>3. Is(i, k) /\ Item(connections[i], k) = c  BY <2>2, <3>1, <3>2
      <3> QED BY <3>2, <3>3
    <2>4. CASE c \in held[s]
      <3>1. PICK n \in 1..Cardinality(held[s]) : Enum(s)[n] = c
        BY <1>3, <2>1, <2>4 DEF Surjection
      <3> DEFINE k == n + BufferSize
      <3>2. k \in 1..M /\ k > BufferSize /\ k - BufferSize = n /\ ~ (k <= BufferSize)
        BY <1>1, <1>3, <2>1, SMTT(30)
      <3> HIDE DEF k
      <3>3. Is(i, k) /\ Item(connections[i], k) = c  BY <2>2, <3>1, <3>2
      <3> QED BY <3>2, <3>3
    <2> QED BY <2>1, <2>3, <2>4
  <1>6. F \in Surjection(D, InUse)
    <2> HIDE DEF Is, Item, M
    <2>1. ASSUME NEW d \in D PROVE F[d] \in InUse  BY <1>4
    <2>2. ASSUME NEW c \in InUse PROVE \E d \in D : F[d] = c
      <3>1. PICK i \in Slots, k \in 1..M : Is(i, k) /\ Item(connections[i], k) = c  BY <1>5
      <3>2. <<i, k>> \in D /\ F[<<i, k>>] = c  BY <3>1
      <3> QED BY <3>2
    <2> HIDE DEF D
    <2>3. F \in [D -> InUse]  BY <2>1
    <2> HIDE DEF F
    <2> QED BY <2>2, <2>3 DEF Surjection
  <1>7. /\ IsFiniteSet(Slots \X (1..M))
        /\ Cardinality(Slots \X (1..M)) = MaxSubscribers * M
    <2>1. IsFiniteSet(Slots) /\ Cardinality(Slots) = MaxSubscribers
      <3>1. 1 \in Int /\ MaxSubscribers \in Int  BY <1>1, SMTT(30)
      <3> QED BY <1>1, <3>1, FS_Interval, SMTT(30) DEF Slots
    <2>2. IsFiniteSet(1..M) /\ Cardinality(1..M) = M
      <3> HIDE DEF M
      <3> QED BY <1>1, FS_Interval, SMTT(30)
    <2> HIDE DEF M
    <2> QED BY <2>1, <2>2, FS_Product
  <1>8. IsFiniteSet(D) /\ Cardinality(D) <= MaxSubscribers * M
    <2>1. D \in SUBSET (Slots \X (1..M))  OBVIOUS
    <2> HIDE DEF D, M
    <2>2. IsFiniteSet(D) /\ Cardinality(D) <= Cardinality(Slots \X (1..M))
      BY <1>7, <2>1, FS_Subset
    <2> QED BY <1>7, <2>2
  <1> HIDE DEF D, F
  <1>9. IsFiniteSet(InUse) /\ Cardinality(InUse) <= Cardinality(D)
    BY <1>6, <1>8, FS_Surjection
  <1>10. Cardinality(InUse) \in Nat /\ Cardinality(D) \in Nat
    BY <1>8, <1>9, FS_CardinalityType
  <1>11. \A a, b \in Nat : a * b \in Nat  BY SMTT(30)
  <1> DEFINE P == MaxSubscribers * M
  <1>12. P \in Nat  BY <1>1, <1>11
  <1>13. Cardinality(D) <= P  BY <1>8
  <1>14. P = MaxSubscribers * (BufferSize + MaxBorrowed)  OBVIOUS
  <1> HIDE DEF P
  <1>15. Cardinality(InUse) <= P  BY <1>9, <1>10, <1>12, <1>13, SMTT(30)
  <1> QED BY <1>9, <1>10, <1>14, <1>15

(* A chunk that could not be loaned is loaned, in the history or in use.        *)
LEMMA Occupied ==
  ASSUME Core, NEW c \in Chunks, c \notin free,
         ~ (ref_count[c] > 0 /\ ref_count[c] = Returned[c])
  PROVE  c \in loaned \cup Range(history) \cup InUse
  <1> USE ZenonT(60)
  <1> SUFFICES ASSUME c \notin loaned, c \notin Range(history) PROVE c \in InUse
    OBVIOUS
  <1> DEFINE R == {s \in Connected : c \in completion[s]}
  <1>1. ref_count[c] = Cardinality(Users(c)) /\ ref_count[c] # 0 /\ Cardinality(Users(c)) \in Nat
    BY OwnersType, SMTT(30) DEF Core, CountInv, Owners, One
  <1>2. Cardinality(R) # Cardinality(Users(c))  BY <1>1, SMTT(30) DEF Returned
  <1>3. Users(c) \subseteq Connected  BY UsersFinite DEF Core
  <1>4. PICK s \in Users(c) : s \notin R
    <2>1. R \subseteq Users(c)
      BY ConnectedFinite DEF Users, ChannelInv, OnePlace, Core
    <2> QED BY <1>2, <2>1
  <1>5. s \in Connected /\ c \in used_chunk_list[s] /\ c \notin completion[s]
    BY <1>3, <1>4 DEF Users
  <1>6. c \in Range(submission[s]) \cup held[s]
    BY <1>5 DEF Core, ChannelInv, OnePlace
  <1> QED BY <1>5, <1>6 DEF InUse

(* required_amount_of_samples_per_data_segment() is enough: a publisher with    *)
(* fewer loans than it may have finds a chunk.                                  *)
LEMMA LoanSucceeds ==
  ASSUME Core, Cardinality(loaned) < MaxLoans
  PROVE  \E c \in Chunks : c \in free \/ (ref_count[c] > 0 /\ ref_count[c] = Returned[c])
  <1> USE ZenonT(60)
  <1> SUFFICES ASSUME \A c \in Chunks : /\ c \notin free
                                       /\ ~ (ref_count[c] > 0 /\ ref_count[c] = Returned[c])
               PROVE  FALSE
    OBVIOUS
  <1> DEFINE H == Range(history)
             A == loaned \cup H
             B == A \cup InUse
             P == MaxSubscribers * (BufferSize + MaxBorrowed)
  <1>1. /\ MaxSubscribers \in Nat /\ BufferSize \in Nat /\ MaxBorrowed \in Nat /\ MaxLoans \in Nat
        /\ HistorySize \in Nat /\ static_config \in Configs
        /\ history \in Seq(Chunks) /\ loaned \in SUBSET Chunks
    BY ConfigTypes DEF Core, TypeOK
  <1>2. Chunks \subseteq B  BY Occupied
  <1>3. IsFiniteSet(loaned) /\ Cardinality(loaned) \in Nat  BY <1>1, ChunksFinite
  <1>4. IsFiniteSet(H) /\ Cardinality(H) \in Nat /\ Cardinality(H) <= HistorySize
    <2>1. /\ IsFiniteSet(H) /\ Cardinality(H) \in Nat /\ Cardinality(H) <= Len(history)
      BY <1>1, ElementCount
    <2>2. Len(history) <= HistorySize /\ Len(history) \in Nat  BY <1>1, SMTT(30) DEF Core, BoundInv
    <2> HIDE DEF H
    <2> QED BY <1>1, <2>1, <2>2, SMTT(30)
  <1>5. IsFiniteSet(InUse) /\ Cardinality(InUse) \in Nat /\ Cardinality(InUse) <= P
    BY InUseCount
  <1> HIDE DEF H
  <1>6. IsFiniteSet(A) /\ Cardinality(A) \in Nat /\ Cardinality(A) <= Cardinality(loaned) + Cardinality(H)
    <2>1. IsFiniteSet(A) /\ Cardinality(A) = Cardinality(loaned) + Cardinality(H) - Cardinality(loaned \cap H)
      BY <1>3, <1>4, FS_Union
    <2>2. IsFiniteSet(loaned \cap H) /\ Cardinality(loaned \cap H) \in Nat
      BY <1>3, FS_Intersection, FS_CardinalityType
    <2>3. Cardinality(A) \in Nat  BY <2>1, FS_CardinalityType
    <2> HIDE DEF A
    <2> QED BY <1>3, <1>4, <2>1, <2>2, <2>3, SMTT(30)
  <1> HIDE DEF A
  <1>7. IsFiniteSet(B) /\ Cardinality(B) \in Nat /\ Cardinality(B) <= Cardinality(A) + Cardinality(InUse)
    <2>1. IsFiniteSet(B) /\ Cardinality(B) = Cardinality(A) + Cardinality(InUse) - Cardinality(A \cap InUse)
      BY <1>5, <1>6, FS_Union
    <2>2. IsFiniteSet(A \cap InUse) /\ Cardinality(A \cap InUse) \in Nat
      BY <1>6, FS_Intersection, FS_CardinalityType
    <2>3. Cardinality(B) \in Nat  BY <2>1, FS_CardinalityType
    <2> HIDE DEF B
    <2> QED BY <1>5, <1>6, <2>1, <2>2, <2>3, SMTT(30)
  <1> HIDE DEF B
  <1>8. Cardinality(Chunks) <= Cardinality(B) /\ Cardinality(Chunks) = P + HistorySize + MaxLoans
    <2>1. Chunks \in SUBSET B  BY <1>2
    <2> QED BY <1>1, <1>7, <2>1, FS_Subset, ChunksFinite DEF required_amount_of_samples_per_data_segment
  <1>9. P \in Nat
    <2>1. \A a, b, c \in Nat : a * (b + c) \in Nat  BY SMTT(30)
    <2> QED BY <1>1, <2>1
  <1> HIDE DEF P
  <1> QED BY <1>1, <1>3, <1>4, <1>5, <1>6, <1>7, <1>8, <1>9, SMTT(30)

------------------------------------------------------------------------------
(* The invariant                                                                *)

LEMMA SubscriberStep ==
  ASSUME Core, NEW s \in Subscribers, Subscriber(s)
  PROVE  Core'
  <1> USE ZenonT(60)
  <1>1. TypeOK' /\ static_config' = static_config /\ UNCHANGED publisher
    BY SubscriberType DEF Core
  <1>2. UNCHANGED <<subscriber_list_state, connections, used_chunk_list, ref_count, free, number,
                    loaned, history, out_of_memory, p_pc, p_slot, p_chunk, p_pending, sent>>
    BY <1>1 DEF publisher, pool, local
  <1>3. Slots' = Slots /\ Chunks' = Chunks  BY <1>1, SameConfig
  <1>4. SlotInv' /\ ChannelInv' /\ BoundInv'
    BY SubscriberSlots, SubscriberChannels, SubscriberBounds DEF Core
  <1>5. ControlInv'  BY <1>2, <1>3 DEF ControlInv, Catching, Core
  <1>6. OwnerInv'
    <2>1. Unsent' = Unsent /\ Delivering' = Delivering /\ Catching' = Catching
      BY <1>2 DEF Unsent, Writable, Delivering, Catching
    <2> QED BY <1>1, <1>2, <2>1, OwnerFrame DEF Core
  <1>7. CountInv'  BY <1>2, <1>3 DEF CountInv, Owners, Users, Core
  <1>8. NeverOutOfMemory'  BY <1>2 DEF NeverOutOfMemory, Core
  <1> QED BY <1>1, <1>4, <1>5, <1>6, <1>7, <1>8 DEF Core

LEMMA LoanInv ==
  ASSUME Core, NEW c \in Chunks, Loan(c)
  PROVE  Core'
  <1> USE ZenonT(60)
  <1>1. Cardinality(loaned) < MaxLoans  BY DEF Loan
  <1>2. PICK d \in Chunks : d \in free \/ (ref_count[d] > 0 /\ ref_count[d] = Returned[d])
    BY <1>1, LoanSucceeds
  <1>3. out_of_memory' = out_of_memory
    <2>1. free \cup {e \in Chunks : ref_count[e] > 0 /\ ref_count[e] = Returned[e]} # {}
      BY <1>2
    <2> QED BY <2>1 DEF Loan
  <1> QED BY <1>3, LoanStep

LEMMA StutterInv ==
  ASSUME Core, UNCHANGED vars
  PROVE  Core'
  <1> USE ZenonT(60)
  <1>1. UNCHANGED <<static_config, registry, subscriber_list_state, connections, submission,
                    completion, used_chunk_list, held, status, ref_count, free, loaned, history,
                    p_pc, p_slot, p_chunk, p_pending, out_of_memory, sent, number, last>>
    BY DEF vars
  <1>2. Slots' = Slots /\ Chunks' = Chunks /\ MaxSubscribers' = MaxSubscribers
        /\ BufferSize' = BufferSize /\ MaxBorrowed' = MaxBorrowed /\ MaxLoans' = MaxLoans
        /\ HistorySize' = HistorySize
    BY <1>1, SameConfig
  <1>3. TypeOK'  BY <1>1, <1>2 DEF TypeOK, Core
  <1>4. SlotInv'  BY <1>1, SlotFrame DEF Core
  <1>5. ControlInv'  BY <1>1, <1>2 DEF ControlInv, Catching, Core
  <1>6. ChannelInv'
    <2>1. Connected' = Connected  BY <1>1, <1>2 DEF Connected
    <2>2. \A t : OnePlace(t)' <=> OnePlace(t)  BY <1>1 DEF OnePlace
    <2>3. \A t : Unused(t)' <=> Unused(t)  BY <1>1, <1>2 DEF Unused, Gone
    <2> QED BY <2>1, <2>2, <2>3 DEF ChannelInv, Core
  <1>7. OwnerInv'
    <2>1. Unsent' = Unsent /\ Delivering' = Delivering /\ Catching' = Catching
      BY <1>1 DEF Unsent, Writable, Delivering, Catching
    <2> QED BY <1>1, <2>1, OwnerFrame DEF Core
  <1>8. CountInv'  BY <1>1, <1>2 DEF CountInv, Owners, Users, Core
  <1>9. BoundInv'  BY <1>1, <1>2 DEF BoundInv, Core
  <1> QED BY <1>1, <1>3, <1>4, <1>5, <1>6, <1>7, <1>8, <1>9 DEF Core, NeverOutOfMemory

LEMMA CoreNext == Core /\ [Next]_vars => Core'
  <1> USE ZenonT(60)
  <1> SUFFICES ASSUME Core, [Next]_vars PROVE Core'
    OBVIOUS
  <1>1. CASE UNCHANGED vars  BY <1>1, StutterInv
  <1>2. ASSUME NEW s \in Subscribers, Subscriber(s) PROVE Core'
    BY <1>2, SubscriberStep
  <1>3. ASSUME NEW c \in Chunks, Loan(c) PROVE Core'  BY <1>3, LoanInv
  <1>4. ASSUME NEW c \in Chunks, ReturnLoanedSample(c) PROVE Core'
    BY <1>4, DropStep
  <1>5. CASE LoanExceedsMaxLoans  BY <1>5, RetrieveStep
  <1>6. ASSUME NEW c \in Chunks \cup {None}, UpdateConnections(c) PROVE Core'
    BY <1>6, UpdateConnectionsStep
  <1>7. CASE UpdateConnection  BY <1>7, UpdateConnectionStep
  <1>8. CASE RetrieveForHistory  BY <1>8, RetrieveStep
  <1>9. CASE DeliverSampleHistory  BY <1>9, DeliverHistoryStep
  <1>10. CASE FinishUpdateConnectionCycle  BY <1>10, FinishStep
  <1>11. CASE AddSampleToHistory  BY <1>11, AddToHistoryStep
  <1>12. CASE DeliverOffset  BY <1>12, DeliverOffsetStep
  <1>13. CASE DropSent  BY <1>13, DropStep
  <1> QED
    BY <1>1, <1>2, <1>3, <1>4, <1>5, <1>6, <1>7, <1>8, <1>9, <1>10, <1>11, <1>12, <1>13
    DEF Next, Publisher, Continue

LEMMA CoreInit == Init => Core
  <1> USE ZenonT(60)
  <1> SUFFICES ASSUME Init PROVE Core
    OBVIOUS
  <1>1. /\ static_config \in Configs
        /\ registry = [i \in Slots |-> None] /\ subscriber_list_state = [i \in Slots |-> None]
        /\ connections = [i \in Slots |-> None]
        /\ submission = [s \in Subscribers |-> <<>>]
        /\ completion = [s \in Subscribers |-> {}] /\ used_chunk_list = [s \in Subscribers |-> {}]
        /\ held = [s \in Subscribers |-> {}] /\ status = [s \in Subscribers |-> "new"]
        /\ ref_count = [c \in Chunks |-> 0] /\ free = Chunks /\ loaned = {} /\ history = <<>>
        /\ p_pc = "idle" /\ p_slot = 0 /\ p_chunk = None /\ p_pending = <<>>
        /\ out_of_memory = FALSE /\ sent = 0 /\ number = [c \in Chunks |-> 0]
        /\ last = [s \in Subscribers |-> 0]
    BY DEF Init
  <1>2. /\ MaxSubscribers \in Nat /\ BufferSize \in Nat /\ MaxBorrowed \in Nat /\ MaxLoans \in Nat
        /\ HistorySize \in Nat
    BY <1>1, ConfigTypes
  <1>3. Range(<<>>) = {} /\ IsInjective(<<>>) /\ <<>> \in Seq(Chunks) /\ Len(<<>>) = 0
        /\ Cardinality({}) = 0
    BY FS_EmptySet, SMTT(30) DEF Range, IsInjective
  <1>4. TypeOK
    <2>1. 0 \in 0..MaxSubscribers  BY <1>2, SMTT(30)
    <2> QED BY <1>1, <1>3, <2>1 DEF TypeOK
  <1>5. SlotInv  BY <1>1, NoneApart DEF SlotInv, Has, Gone
  <1>6. ControlInv  BY <1>1 DEF ControlInv, Catching
  <1>7. ChannelInv
    <2>1. Connected = {}  BY <1>1 DEF Connected
    <2>2. \A s \in Subscribers : Unused(s)  BY <1>1 DEF Unused
    <2> QED BY <2>1, <2>2 DEF ChannelInv
  <1>8. OwnerInv  BY <1>1, <1>3 DEF OwnerInv, Unsent, Delivering, Catching
  <1>9. CountInv
    <2>1. \A c : Users(c) = {}  BY <1>1 DEF Users
    <2>2. ASSUME NEW c \in Chunks PROVE Owners(c) = 0
      <3>1. c \notin loaned /\ c \notin Range(history) /\ Cardinality(Users(c)) = 0
        BY <1>1, <1>3, <2>1
      <3> QED BY <3>1, SMTT(30) DEF Owners, One
    <2> QED BY <1>1, <2>2 DEF CountInv
  <1>10. BoundInv  BY <1>1, <1>2, <1>3, SMTT(30) DEF BoundInv
  <1> QED BY <1>1, <1>4, <1>5, <1>6, <1>7, <1>8, <1>9, <1>10 DEF Core, NeverOutOfMemory

THEOREM CoreInvariant == Spec => []Core
  BY CoreInit, CoreNext, PTL DEF Spec

(* The history has each chunk at most once.                                     *)
LEMMA HistoryCount ==
  ASSUME NEW S, NEW h \in Seq(S), IsInjective(h), NEW c
  PROVE  Cardinality({k \in 1..Len(h) : h[k] = c}) = One(c \in Range(h))
  <1> USE ZenonT(60)
  <1> DEFINE K == {k \in 1..Len(h) : h[k] = c}
  <1>1. DOMAIN h = 1..Len(h)  BY SMTT(30)
  <1>2. CASE c \in Range(h)
    <2>1. PICK j \in 1..Len(h) : h[j] = c  BY <1>1, <1>2 DEF Range
    <2>2. K = {j}  BY <1>1, <2>1 DEF IsInjective
    <2> QED BY <1>2, <2>2, FS_Singleton DEF One
  <1>3. CASE c \notin Range(h)
    <2>1. K = {}  BY <1>1, <1>3 DEF Range
    <2> QED BY <1>3, <2>1, FS_EmptySet DEF One
  <1> QED BY <1>2, <1>3

LEMMA CoreReferences == Core => ReferencesExact
  <1> USE ZenonT(60)
  <1> SUFFICES ASSUME Core PROVE ReferencesExact
    OBVIOUS
  <1>1. ASSUME NEW c \in Chunks
        PROVE  /\ ref_count[c] = One(c \in loaned)
                               + Cardinality({k \in 1..Len(history) : history[k] = c})
                               + Cardinality({s \in Subscribers : c \in used_chunk_list[s]})
               /\ c \in free <=> ref_count[c] = 0
    <2>1. history \in Seq(Chunks) /\ IsInjective(history)
      BY DEF Core, TypeOK, OwnerInv
    <2>2. Cardinality({k \in 1..Len(history) : history[k] = c}) = One(c \in Range(history))
      BY <2>1, HistoryCount
    <2>3. ref_count[c] = Owners(c) /\ (c \in free <=> ref_count[c] = 0)
      BY DEF Core, CountInv
    <2> QED BY <2>2, <2>3 DEF Owners, Users
  <1>2. ASSUME NEW s \in Connected
        PROVE  /\ used_chunk_list[s] = Range(submission[s]) \cup held[s] \cup completion[s]
               /\ Cardinality(used_chunk_list[s])
                    = Len(submission[s]) + Cardinality(held[s]) + Cardinality(completion[s])
    <2> DEFINE A == Range(submission[s])
               B == held[s]
               C == completion[s]
    <2>1. s \in Subscribers  BY ConnectedFinite DEF Core
    <2>2. /\ submission[s] \in Seq(Chunks) /\ B \in SUBSET Chunks /\ C \in SUBSET Chunks
          /\ static_config \in Configs
      BY <2>1 DEF Core, TypeOK
    <2>3. OnePlace(s)  BY DEF Core, ChannelInv
    <2>4. /\ used_chunk_list[s] = A \cup B \cup C /\ IsInjective(submission[s])
          /\ A \cap B = {} /\ A \cap C = {} /\ B \cap C = {}
      BY <2>3 DEF OnePlace
    <2>5. /\ IsFiniteSet(B) /\ Cardinality(B) \in Nat /\ IsFiniteSet(C) /\ Cardinality(C) \in Nat
      BY <2>2, ChunksFinite
    <2>6. IsFiniteSet(A) /\ Cardinality(A) \in Nat /\ Cardinality(A) = Len(submission[s])
      BY <2>2, <2>4, ElementCount
    <2> HIDE DEF A, B, C
    <2>7. IsFiniteSet(A \cup B) /\ Cardinality(A \cup B) = Cardinality(A) + Cardinality(B)
      <3>1. /\ IsFiniteSet(A \cup B)
            /\ Cardinality(A \cup B) = Cardinality(A) + Cardinality(B) - Cardinality(A \cap B)
        BY <2>5, <2>6, FS_Union
      <3>2. Cardinality(A \cap B) = 0  BY <2>4, FS_EmptySet
      <3> QED BY <2>5, <2>6, <3>1, <3>2, SMTT(30)
    <2>8. Cardinality((A \cup B) \cup C) = Cardinality(A \cup B) + Cardinality(C)
      <3>1. Cardinality((A \cup B) \cup C)
              = Cardinality(A \cup B) + Cardinality(C) - Cardinality((A \cup B) \cap C)
        BY <2>5, <2>7, FS_Union
      <3>2. (A \cup B) \cap C = {}  BY <2>4
      <3>3. Cardinality((A \cup B) \cap C) = 0  BY <3>2, FS_EmptySet
      <3> QED BY <2>5, <2>6, <2>7, <3>1, <3>3, SMTT(30)
    <2>9. Cardinality(used_chunk_list[s]) = Len(submission[s]) + Cardinality(B) + Cardinality(C)
      BY <2>4, <2>6, <2>7, <2>8
    <2> QED BY <2>4, <2>9 DEF A, B, C
  <1>3. TypeOK  BY DEF Core
  <1> QED BY <1>1, <1>2, <1>3 DEF ReferencesExact

(* The reference counts are exact: borrow_sample() and release_sample() are     *)
(* called once for every owner a chunk gains or loses, whatever subscribers do  *)
(* meanwhile, and no offset is on a connection twice.                           *)
THEOREM ReferenceCounting == Spec => []ReferencesExact
  BY CoreInvariant, CoreReferences, PTL

LEMMA CoreNoWrite == Core => NoWriteWhileRead
  <1> USE ZenonT(60)
  <1> SUFFICES ASSUME Core, NEW s \in Connected, NEW c \in held[s] \cup Range(submission[s])
               PROVE  c \notin Writable /\ c \notin free
    BY DEF NoWriteWhileRead
  <1>1. s \in Subscribers  BY ConnectedFinite DEF Core
  <1>2. c \in used_chunk_list[s]  BY DEF Core, ChannelInv, OnePlace
  <1>3. c \in Chunks  BY <1>1, <1>2 DEF Core, TypeOK
  <1>4. c \notin Writable
    <2>1. Writable \subseteq Unsent  BY DEF Unsent, Writable
    <2> QED BY <1>1, <1>2, <2>1 DEF Core, OwnerInv
  <1>5. c \notin free
    <2>1. s \in Users(c)  BY <1>1, <1>2 DEF Users
    <2>2. IsFiniteSet(Users(c)) /\ Cardinality(Users(c)) \in Nat
      BY <1>3, UsersFinite DEF Core
    <2>3. Cardinality(Users(c)) # 0  BY <2>1, <2>2, FS_EmptySet
    <2>4. ref_count[c] = Owners(c) /\ (c \in free <=> ref_count[c] = 0)
      BY <1>3 DEF Core, CountInv
    <2>5. Owners(c) # 0  BY <2>2, <2>3, SMTT(30) DEF Owners, One
    <2> QED BY <2>4, <2>5
  <1> QED BY <1>4, <1>5

(* loan() never hands out, and the pool never holds, a chunk that a connected   *)
(* subscriber reads or will read.                                               *)
THEOREM WritersAndReadersApart == Spec => []NoWriteWhileRead
  BY CoreInvariant, CoreNoWrite, PTL

(* required_amount_of_samples_per_data_segment() is enough for every service:   *)
(* no loan within the limits fails with OutOfMemory.                            *)
THEOREM DataSegmentSuffices == Spec => []NeverOutOfMemory
  <1>1. Core => NeverOutOfMemory  BY ZenonT(60) DEF Core
  <1> QED BY <1>1, CoreInvariant, PTL

------------------------------------------------------------------------------
(* What a step does to the buffers of subscribers                               *)

(* Buffers change when connections of subscribers that are gone are removed,    *)
(* when a chunk is sent to one connection, and when a subscriber receives.      *)
LEMMA BufferSteps ==
  ASSUME Core, [Next]_vars
  PROVE  \/ submission' = submission
         \/ \E subs : Forget(subs) /\ \A t \in subs : t \in Subscribers /\ Gone(t)
         \/ \E t \in Connected, c \in Chunks : TrySend(t, c)
         \/ \E t \in Subscribers : Receive(t)
  <1> USE ZenonT(60)
  <1>1. connections \in [Slots -> Subscribers \cup {None}] /\ p_chunk \in Chunks \cup {None}
        /\ p_pending \in Seq(Chunks)
    BY DEF Core, TypeOK
  <1>2. ASSUME NEW slots \in SUBSET Slots,
               \A i \in slots : connections[i] # subscriber_list_state[i]
        PROVE  \A t \in Removed(slots) : t \in Subscribers /\ Gone(t)
    <2> SUFFICES ASSUME NEW t \in Removed(slots) PROVE t \in Subscribers /\ Gone(t)
      OBVIOUS
    <2>1. PICK i \in slots : connections[i] = t /\ t # None  BY DEF Removed
    <2>2. i \in Slots /\ t \in Subscribers  BY <1>1, <2>1
    <2> QED BY <1>2, <2>1, <2>2 DEF Core, SlotInv
  <1>3. CASE UpdateConnection
    <2>1. p_pc = "update"  BY <1>3 DEF UpdateConnection
    <2>2. p_slot \in Slots  BY <2>1 DEF Core, ControlInv
    <2>3. CASE subscriber_list_state[p_slot] \in {None, connections[p_slot]}
      BY <1>3, <2>3 DEF UpdateConnection, channel
    <2>4. CASE subscriber_list_state[p_slot] \notin {None, connections[p_slot]}
      <3>1. Forget(Removed({p_slot}))  BY <1>3, <2>4 DEF UpdateConnection, RemoveConnections
      <3>2. \A t \in Removed({p_slot}) : t \in Subscribers /\ Gone(t)  BY <1>2, <2>2, <2>4
      <3> QED BY <3>1, <3>2
    <2> QED BY <2>3, <2>4
  <1>4. CASE FinishUpdateConnectionCycle
    <2> DEFINE gone == {i \in Slots : connections[i] # subscriber_list_state[i]}
    <2>1. Forget(Removed(gone))
      BY <1>4 DEF FinishUpdateConnectionCycle, RemoveConnections
    <2>2. \A t \in Removed(gone) : t \in Subscribers /\ Gone(t)  BY <1>2
    <2> HIDE DEF gone
    <2> QED BY <2>1, <2>2
  <1>5. CASE DeliverSampleHistory
    <2>1. p_pc = "history_send" /\ TrySend(connections[p_slot], Head(p_pending))
      BY <1>5 DEF DeliverSampleHistory
    <2>2. p_slot \in Slots /\ connections[p_slot] # None /\ p_pending # <<>>
      BY <2>1 DEF Core, ControlInv, OwnerInv, Catching
    <2>3. connections[p_slot] \in Connected  BY <2>2 DEF Connected
    <2>4. Head(p_pending) \in Chunks  BY <1>1, <2>2, SMTT(30)
    <2> QED BY <2>1, <2>3, <2>4
  <1>6. CASE DeliverOffset
    <2>1. p_pc = "deliver"  BY <1>6 DEF DeliverOffset
    <2>2. p_slot \in Slots /\ p_chunk # None  BY <2>1 DEF Core, ControlInv
    <2>3. CASE connections[p_slot] = None  BY <1>6, <2>3 DEF DeliverOffset
    <2>4. CASE connections[p_slot] # None
      <3>1. connections[p_slot] \in Connected  BY <2>2, <2>4 DEF Connected
      <3>2. p_chunk \in Chunks  BY <1>1, <2>2
      <3>3. TrySend(connections[p_slot], p_chunk)  BY <1>6, <2>4 DEF DeliverOffset
      <3> QED BY <3>1, <3>2, <3>3
    <2> QED BY <2>3, <2>4
  <1>7. CASE \/ \E c \in Chunks : Loan(c) \/ ReturnLoanedSample(c)
             \/ LoanExceedsMaxLoans \/ RetrieveForHistory \/ AddSampleToHistory \/ DropSent
             \/ \E c \in Chunks \cup {None} : UpdateConnections(c)
             \/ UNCHANGED vars
    BY <1>7 DEF Loan, ReturnLoanedSample, LoanExceedsMaxLoans, RetrieveForHistory,
                AddSampleToHistory, DropSent, UpdateConnections, channel, vars
  <1>8. ASSUME NEW s \in Subscribers, Subscriber(s)
        PROVE  submission' = submission \/ Receive(s)
    BY <1>8 DEF Subscriber, Subscribe, DropSubscriber, Die, RemoveDeadSubscriber, ReleaseOffset
  <1> QED
    BY <1>3, <1>4, <1>5, <1>6, <1>7, <1>8 DEF Next, Publisher, Continue

LEMMA KeptStep ==
  ASSUME Core, [Next]_vars, ~ SafeOverflow, NEW s \in Subscribers, status[s] = "active"
  PROVE  \/ StartsWith(submission'[s], submission[s])
         \/ submission'[s] = Tail(submission[s]) /\ held'[s] # held[s]
  <1> USE ZenonT(60)
  <1>1. /\ submission \in [Subscribers -> Seq(Chunks)] /\ submission[s] \in Seq(Chunks)
        /\ held \in [Subscribers -> SUBSET Chunks]
    BY DEF Core, TypeOK
  <1>2. StartsWith(submission[s], submission[s])  BY <1>1, SMTT(30) DEF StartsWith
  <1>3. CASE submission' = submission  BY <1>2, <1>3
  <1>4. ASSUME NEW subs, Forget(subs), \A t \in subs : t \in Subscribers /\ Gone(t)
        PROVE  StartsWith(submission'[s], submission[s])
    <2>1. s \notin subs  BY <1>4 DEF Gone
    <2>2. submission'[s] = submission[s]  BY <1>4, <2>1 DEF Forget
    <2> QED BY <1>2, <2>2
  <1>5. ASSUME NEW t \in Connected, NEW c \in Chunks, TrySend(t, c)
        PROVE  StartsWith(submission'[s], submission[s])
    <2>1. CASE submission' = submission  BY <1>2, <2>1
    <2>2. CASE submission' = [submission EXCEPT ![t] = Append(submission[t], c)]
      <3>1. submission'[s] \in {submission[s], Append(submission[s], c)}  BY <1>1, <2>2
      <3>2. StartsWith(Append(submission[s], c), submission[s])  BY <1>1, SMTT(30) DEF StartsWith
      <3> QED BY <1>2, <3>1, <3>2
    <2> QED BY <1>5, <2>1, <2>2 DEF TrySend
  <1>6. ASSUME NEW t \in Subscribers, Receive(t)
        PROVE  \/ StartsWith(submission'[s], submission[s])
               \/ submission'[s] = Tail(submission[s]) /\ held'[s] # held[s]
    <2>1. CASE s # t
      <3>1. submission'[s] = submission[s]  BY <1>1, <1>6, <2>1 DEF Receive
      <3> QED BY <1>2, <3>1
    <2>2. CASE s = t
      <3>1. /\ submission[s] # <<>> /\ submission'[s] = Tail(submission[s])
            /\ held'[s] = held[s] \cup {Head(submission[s])}
        BY <1>1, <1>6, <2>2 DEF Receive
      <3>2. OnePlace(s)  BY <3>1 DEF Core, ChannelInv, Unused
      <3>3. Head(submission[s]) \in Range(submission[s])  BY <1>1, <3>1, SMTT(30) DEF Range
      <3>4. Head(submission[s]) \notin held[s]  BY <3>2, <3>3 DEF OnePlace
      <3> QED BY <3>1, <3>4
    <2> QED BY <2>1, <2>2
  <1> QED BY <1>3, <1>4, <1>5, <1>6, BufferSteps

(* Without safe overflow neither the publisher nor a change of the registry     *)
(* takes a delivered sample away from a subscriber that exists.                 *)
THEOREM DeliveredIsKept == Spec => KeptUntilReceived
  <1>1. Core /\ [Next]_vars =>
          [~ SafeOverflow =>
             \A s \in Subscribers :
                 \/ status[s] # "active"
                 \/ StartsWith(submission'[s], submission[s])
                 \/ submission'[s] = Tail(submission[s]) /\ held'[s] # held[s]]_vars
    BY KeptStep, ZenonT(60)
  <1> QED BY <1>1, CoreInvariant, PTL DEF Spec, KeptUntilReceived

------------------------------------------------------------------------------
(* The order of samples                                                         *)

(* The numbers f of the elements of q rise, starting above low.                 *)
Rise(f, q, low) ==
  \A k \in 1..Len(q) : f[q[k]] > low /\ \A j \in 1..(k - 1) : f[q[j]] < f[q[k]]

(* The last of these numbers                                                    *)
Top(f, q, low) == IF q = <<>> THEN low ELSE f[q[Len(q)]]

(* The history is in order and ends with the sample sent last.                  *)
HistoryOrder ==
  /\ Rise(number, history, 0)
  /\ history # <<>> => number[history[Len(history)]] = sent
  /\ HistorySize > 0 /\ sent > 0 => history # <<>>

(* So is every buffer, ...                                                      *)
BufferOrder ==
  \A s \in Connected : Rise(number, submission[s], last[s]) /\ Newest(s) <= sent

(* ... and what is delivered next is newer than what is in it.                  *)
DeliverOrder ==
  Delivering => /\ number[p_chunk] = sent
                /\ \A s \in Connected : \A k \in p_slot..MaxSubscribers :
                     connections[k] = s => Newest(s) < sent

CatchOrder ==
  Catching => /\ \A s \in Connected : connections[p_slot] = s => Rise(number, p_pending, Newest(s))
              /\ p_pending[Len(p_pending)] = history[Len(history)]

(* Who has not got the newest sample yet is about to get it.                    *)
NewestReached ==
  SafeOverflow /\ HistorySize > 0 /\ sent > 0 =>
    \A s \in Connected : \A i \in Slots :
      connections[i] = s => \/ Newest(s) = sent
                            \/ Delivering /\ i >= p_slot
                            \/ Catching /\ i = p_slot

OrderInv == HistoryOrder /\ BufferOrder /\ DeliverOrder /\ CatchOrder /\ NewestReached

LEMMA RiseTop ==
  ASSUME NEW S, NEW f \in [S -> Nat], NEW q \in Seq(S), NEW low \in Nat, Rise(f, q, low)
  PROVE  /\ Top(f, q, low) \in Nat /\ low <= Top(f, q, low)
         /\ q # <<>> => low < Top(f, q, low)
         /\ \A d \in Range(q) : f[d] <= Top(f, q, low)
  <1>1. Len(q) \in Nat /\ DOMAIN q = 1..Len(q) /\ \A k \in 1..Len(q) : q[k] \in S
    OBVIOUS
  <1>2. CASE q = <<>>
    <2>1. Top(f, q, low) = low  BY <1>2, ZenonT(60) DEF Top
    <2>2. Range(q) = {}  BY <1>2 DEF Range
    <2> QED BY <1>2, <2>1, <2>2
  <1>3. CASE q # <<>>
    <2> DEFINE n == Len(q)
    <2>1. n \in 1..n /\ q[n] \in S  BY <1>1, <1>3
    <2>2. Top(f, q, low) = f[q[n]] /\ f[q[n]] \in Nat  BY <1>3, <2>1, ZenonT(60) DEF Top
    <2>3. f[q[n]] > low /\ \A j \in 1..(n - 1) : f[q[j]] < f[q[n]]  BY <2>1, ZenonT(60) DEF Rise
    <2>4. ASSUME NEW k \in 1..n PROVE f[q[k]] <= f[q[n]]
      <3>1. f[q[k]] \in Nat  BY <1>1, ZenonT(60)
      <3>2. k = n \/ k \in 1..(n - 1)  BY <2>1
      <3> HIDE DEF n
      <3> QED BY <2>2, <2>3, <3>1, <3>2
    <2>5. \A d \in Range(q) : f[d] <= f[q[n]]  BY <1>1, <2>4, ZenonT(60) DEF Range
    <2> HIDE DEF n
    <2> QED BY <2>2, <2>3, <2>5
  <1> QED BY <1>2, <1>3, ZenonT(60)

LEMMA RiseTail ==
  ASSUME NEW S, NEW f \in [S -> Nat], NEW q \in Seq(S), NEW low \in Nat, Rise(f, q, low), q # <<>>
  PROVE  /\ Rise(f, Tail(q), f[Head(q)]) /\ Rise(f, Tail(q), low)
         /\ low < f[Head(q)] /\ f[Head(q)] \in Nat
         /\ Top(f, Tail(q), f[Head(q)]) = Top(f, q, low)
         /\ Tail(q) # <<>> => Tail(q)[Len(Tail(q))] = q[Len(q)]
         /\ Tail(q) = <<>> => Head(q) = q[Len(q)]
  <1> USE ZenonT(60)
  <1> DEFINE t == Tail(q)
             n == Len(q)
  <1>1. /\ n \in Nat \ {0} /\ Head(q) = q[1] /\ t \in Seq(S) /\ Len(t) = n - 1
        /\ \A k \in 1..(n - 1) : t[k] = q[k + 1]
        /\ \A k \in 1..n : q[k] \in S
    BY SMTT(30)
  <1> HIDE DEF t
  <1>2. \A k \in 1..n : f[q[k]] \in Nat  BY <1>1
  <1>3. f[q[1]] > low /\ f[q[1]] \in Nat
    <2>1. 1 \in 1..n  BY <1>1, SMTT(30)
    <2> QED BY <1>2, <2>1 DEF Rise
  <1>4. ASSUME NEW k \in 1..(n - 1)
        PROVE  /\ f[t[k]] > low /\ f[t[k]] > f[q[1]]
               /\ \A j \in 1..(k - 1) : f[t[j]] < f[t[k]]
    <2>1. k + 1 \in 1..n /\ 1 \in 1..((k + 1) - 1)  BY <1>1, SMTT(30)
    <2>2. f[q[k + 1]] > low /\ \A j \in 1..((k + 1) - 1) : f[q[j]] < f[q[k + 1]]
      BY <2>1 DEF Rise
    <2>3. f[q[1]] < f[q[k + 1]] /\ t[k] = q[k + 1]  BY <1>1, <2>1, <2>2
    <2>4. f[q[k + 1]] \in Nat  BY <1>2, <2>1
    <2>5. ASSUME NEW j \in 1..(k - 1) PROVE f[t[j]] < f[t[k]]
      <3>1. j \in 1..(n - 1) /\ j + 1 \in 1..((k + 1) - 1)  BY <1>1, SMTT(30)
      <3> QED BY <1>1, <2>2, <2>3, <3>1
    <2> QED BY <1>3, <2>2, <2>3, <2>4, <2>5
  <1>5. Rise(f, t, f[q[1]]) /\ Rise(f, t, low)  BY <1>1, <1>4 DEF Rise
  <1>6. CASE n = 1
    <2>1. t = <<>>  BY <1>1, <1>6, SMTT(30)
    <2> QED BY <1>1, <1>3, <1>5, <1>6, <2>1 DEF Top, t
  <1>7. CASE n # 1
    <2>1. n - 1 \in 1..(n - 1) /\ (n - 1) + 1 = n  BY <1>1, <1>7, SMTT(30)
    <2>2. t # <<>> /\ t[Len(t)] = q[n]  BY <1>1, <2>1, SMTT(30)
    <2> QED BY <1>1, <1>3, <1>5, <2>2 DEF Top, t
  <1> QED BY <1>6, <1>7

LEMMA RiseAppend ==
  ASSUME NEW S, NEW f \in [S -> Nat], NEW q \in Seq(S), NEW low \in Nat, Rise(f, q, low),
         NEW c \in S, Top(f, q, low) < f[c]
  PROVE  Rise(f, Append(q, c), low) /\ Top(f, Append(q, c), low) = f[c]
         /\ Append(q, c)[Len(Append(q, c))] = c /\ Append(q, c) # <<>>
  <1> USE ZenonT(60)
  <1> DEFINE a == Append(q, c)
             n == Len(q)
  <1>1. /\ n \in Nat /\ Len(a) = n + 1 /\ a[n + 1] = c /\ a # <<>>
        /\ \A k \in 1..n : a[k] = q[k] /\ q[k] \in S
        /\ DOMAIN q = 1..n
    <2>1. n \in Nat /\ DOMAIN q = 1..n /\ \A k \in 1..n : q[k] \in S  BY SMTT(30)
    <2>2. Len(a) = n + 1 /\ a[n + 1] = c  BY SMTT(30)
    <2>3. \A k \in 1..n : a[k] = q[k]  BY SMTT(30)
    <2>4. a # <<>>  BY <2>1, <2>2, SMTT(30)
    <2> QED BY <2>1, <2>2, <2>3, <2>4
  <1> HIDE DEF a, n
  <1>2. /\ Top(f, q, low) \in Nat /\ low <= Top(f, q, low)
        /\ \A d \in Range(q) : f[d] <= Top(f, q, low)
    BY RiseTop
  <1>3. f[c] \in Nat /\ f[c] > low  BY <1>2, SMTT(30)
  <1>4. \A k \in 1..n : f[q[k]] < f[c]
    <2>1. ASSUME NEW k \in 1..n PROVE f[q[k]] < f[c]
      <3>1. q[k] \in Range(q) /\ q[k] \in S  BY <1>1 DEF Range
      <3>2. f[q[k]] \in Nat  BY <3>1
      <3> QED BY <1>2, <1>3, <3>1, <3>2, SMTT(30)
    <2> QED BY <2>1
  <1>5. ASSUME NEW k \in 1..(n + 1)
        PROVE  f[a[k]] > low /\ \A j \in 1..(k - 1) : f[a[j]] < f[a[k]]
    <2>1. CASE k = n + 1
      <3>1. \A j \in 1..(k - 1) : j \in 1..n  BY <1>1, <2>1, SMTT(30)
      <3> QED BY <1>1, <1>3, <1>4, <2>1, <3>1
    <2>2. CASE k # n + 1
      <3>1. k \in 1..n /\ \A j \in 1..(k - 1) : j \in 1..n  BY <1>1, <2>2, SMTT(30)
      <3>2. f[q[k]] > low /\ \A j \in 1..(k - 1) : f[q[j]] < f[q[k]]  BY <3>1 DEF Rise, n
      <3> QED BY <1>1, <3>1, <3>2
    <2> QED BY <2>1, <2>2
  <1>6. Rise(f, a, low)  BY <1>1, <1>5 DEF Rise
  <1> QED BY <1>1, <1>6 DEF Top, a

(* Only the numbers of the elements matter.                                     *)
LEMMA RiseSame ==
  ASSUME NEW S, NEW q \in Seq(S), NEW f, NEW g, NEW low, Rise(f, q, low),
         \A d \in Range(q) : g[d] = f[d]
  PROVE  Rise(g, q, low)
  <1>1. Len(q) \in Nat /\ DOMAIN q = 1..Len(q)  OBVIOUS
  <1>2. \A k \in 1..Len(q) : g[q[k]] = f[q[k]]  BY <1>1, ZenonT(60) DEF Range
  <1>3. \A k \in 1..Len(q) : \A j \in 1..(k - 1) : j \in 1..Len(q)  BY <1>1
  <1> QED BY <1>2, <1>3, ZenonT(60) DEF Rise

LEMMA TopSame ==
  ASSUME NEW S, NEW q \in Seq(S), NEW f, NEW g, NEW low, \A d \in Range(q) : g[d] = f[d]
  PROVE  Top(g, q, low) = Top(f, q, low)
  <1>1. Len(q) \in Nat /\ DOMAIN q = 1..Len(q)  OBVIOUS
  <1>2. q # <<>> => Len(q) \in 1..Len(q)  BY <1>1
  <1> QED BY <1>1, <1>2, ZenonT(60) DEF Top, Range

LEMMA RiseSuffix ==
  ASSUME NEW S, NEW f \in [S -> Nat], NEW q \in Seq(S), IsInjective(q), NEW a \in 1..Len(q),
         NEW low \in Nat, Rise(f, q, low)
  PROVE  LET r == SubSeq(q, a, Len(q)) IN Rise(f, r, low) /\ r[Len(r)] = q[Len(q)]
  <1> USE ZenonT(60)
  <1> DEFINE r == SubSeq(q, a, Len(q))
  <1>1. /\ r \in Seq(S) /\ r # <<>> /\ Len(r) = Len(q) - a + 1
        /\ \A i \in 1..Len(r) : i + a - 1 \in 1..Len(q) /\ r[i] = q[i + a - 1]
    BY Suffix
  <1>2. Len(q) \in Nat /\ a \in Nat /\ 1 <= a /\ a <= Len(q)  BY SMTT(30)
  <1> HIDE DEF r
  <1>3. ASSUME NEW k \in 1..Len(r)
        PROVE  f[r[k]] > low /\ \A j \in 1..(k - 1) : f[r[j]] < f[r[k]]
    <2>1. k + a - 1 \in 1..Len(q) /\ r[k] = q[k + a - 1]  BY <1>1
    <2>2. f[q[k + a - 1]] > low
          /\ \A j \in 1..((k + a - 1) - 1) : f[q[j]] < f[q[k + a - 1]]
      BY <2>1 DEF Rise
    <2>3. ASSUME NEW j \in 1..(k - 1) PROVE f[r[j]] < f[r[k]]
      <3>1. j \in 1..Len(r) /\ j + a - 1 \in 1..((k + a - 1) - 1)  BY <1>1, <1>2, SMTT(30)
      <3>2. r[j] = q[j + a - 1]  BY <1>1, <3>1
      <3> QED BY <2>1, <2>2, <3>1, <3>2
    <2> QED BY <2>1, <2>2, <2>3
  <1>4. Rise(f, r, low)  BY <1>3 DEF Rise
  <1>5. r[Len(r)] = q[Len(q)]
    <2>1. Len(r) \in 1..Len(r) /\ Len(r) + a - 1 = Len(q)  BY <1>1, <1>2, SMTT(30)
    <2> QED BY <1>1, <2>1
  <1> QED BY <1>4, <1>5 DEF r

------------------------------------------------------------------------------
(* Numbers of chunks that somebody owns                                         *)

Owned(d) ==
  \/ d \in loaned \/ d \in Range(history)
  \/ \E s \in Subscribers : d \in used_chunk_list[s]

LEMMA OwnedNotFree == Core => \A d \in Chunks : Owned(d) => d \notin free
  <1> USE ZenonT(60)
  <1> SUFFICES ASSUME Core, NEW d \in Chunks, Owned(d), d \in free PROVE FALSE
    OBVIOUS
  <1>1. ref_count[d] = Owners(d) /\ ref_count[d] = 0  BY DEF Core, CountInv
  <1>2. IsFiniteSet(Users(d)) /\ Cardinality(Users(d)) \in Nat  BY UsersFinite DEF Core
  <1>3. One(d \in loaned) + One(d \in Range(history)) + Cardinality(Users(d)) = 0
    BY <1>1 DEF Owners
  <1>4. d \notin loaned /\ d \notin Range(history) /\ Cardinality(Users(d)) = 0
    BY <1>2, <1>3, SMTT(30) DEF One
  <1>5. Users(d) = {}  BY <1>2, <1>4, FS_EmptySet
  <1> QED BY <1>4, <1>5 DEF Owned, Users

LEMMA OwnedNotFreeNext == Core' => \A d \in Chunks' : Owned(d)' => d \notin free'
  <1>1. (Core => \A d \in Chunks : Owned(d) => d \notin free)'  BY OwnedNotFree, PTL
  <1> QED BY <1>1, ZenonT(60)

LEMMA CountNumbers ==
  ASSUME Core', Chunks' = Chunks, NEW gain, NEW loss, Count(gain, loss), NEW d \in Chunks, Owned(d)'
  PROVE  number'[d] = IF p_pc = "send" /\ d = p_chunk THEN sent + 1 ELSE number[d]
  <1>1. d \notin free'  BY OwnedNotFreeNext, ZenonT(60)
  <1> QED BY <1>1, ZenonT(60) DEF Count

(* Who is not being sent and has an owner keeps its number.                     *)
Keeps == \A d \in Chunks : Owned(d)' /\ ~ (p_pc = "send" /\ d = p_chunk) => number'[d] = number[d]

LEMMA PoolSteps ==
  ASSUME [Next]_vars
  PROVE  static_config' = static_config /\ (UNCHANGED pool \/ \E gain, loss : Count(gain, loss))
  <1> USE ZenonT(60)
  <1>1. ASSUME NEW s \in Subscribers, Subscriber(s) PROVE static_config' = static_config /\ UNCHANGED pool
    BY <1>1 DEF Subscriber, Subscribe, Receive, ReleaseOffset, DropSubscriber, Die,
                RemoveDeadSubscriber, port, publisher
  <1>2. ASSUME UpdateConnection \/ FinishUpdateConnectionCycle
        PROVE  static_config' = static_config /\ (UNCHANGED pool \/ \E gain, loss : Count(gain, loss))
    BY <1>2 DEF UpdateConnection, FinishUpdateConnectionCycle, RemoveConnections, port
  <1>3. ASSUME DeliverSampleHistory \/ DeliverOffset
        PROVE  static_config' = static_config /\ (UNCHANGED pool \/ \E gain, loss : Count(gain, loss))
    BY <1>3 DEF DeliverSampleHistory, DeliverOffset, TrySend, port
  <1>4. ASSUME NEW c \in Chunks, Loan(c) \/ ReturnLoanedSample(c)
        PROVE  static_config' = static_config /\ \E gain, loss : Count(gain, loss)
    BY <1>4 DEF Loan, ReturnLoanedSample, port
  <1>5. ASSUME LoanExceedsMaxLoans \/ RetrieveForHistory \/ AddSampleToHistory \/ DropSent
        PROVE  static_config' = static_config /\ \E gain, loss : Count(gain, loss)
    BY <1>5 DEF LoanExceedsMaxLoans, RetrieveForHistory, AddSampleToHistory, DropSent, port
  <1>6. ASSUME NEW c \in Chunks \cup {None}, UpdateConnections(c)
        PROVE  static_config' = static_config /\ UNCHANGED pool
    BY <1>6 DEF UpdateConnections, port
  <1>7. CASE UNCHANGED vars  BY <1>7 DEF vars, pool
  <1> QED
    BY <1>1, <1>2, <1>3, <1>4, <1>5, <1>6, <1>7 DEF Next, Publisher, Continue

LEMMA NumbersKept ==
  ASSUME Core', [Next]_vars
  PROVE  Keeps
  <1> USE ZenonT(60)
  <1>1. Chunks' = Chunks  BY PoolSteps, SameConfig
  <1>2. CASE UNCHANGED pool  BY <1>2 DEF pool, Keeps
  <1>3. ASSUME NEW gain, NEW loss, Count(gain, loss) PROVE Keeps
    <2> SUFFICES ASSUME NEW d \in Chunks, Owned(d)', ~ (p_pc = "send" /\ d = p_chunk)
                 PROVE  number'[d] = number[d]
      BY DEF Keeps
    <2>1. number'[d] = IF p_pc = "send" /\ d = p_chunk THEN sent + 1 ELSE number[d]
      BY <1>1, <1>3, CountNumbers
    <2> QED BY <2>1
  <1> QED BY <1>2, <1>3, PoolSteps

(* What is on a connection or in the history has been sent.                     *)
LEMMA NotBeingSent ==
  ASSUME Core, p_pc = "send"
  PROVE  p_chunk \notin Range(history) /\ \A s \in Subscribers : p_chunk \notin used_chunk_list[s]
  BY ZenonT(60) DEF Core, ControlInv, OwnerInv, Unsent

LEMMA BufferType ==
  ASSUME Core, NEW s \in Connected
  PROVE  /\ s \in Subscribers /\ submission[s] \in Seq(Chunks) /\ last[s] \in Nat
         /\ Range(submission[s]) \subseteq Chunks /\ Range(submission[s]) \subseteq used_chunk_list[s]
         /\ number \in [Chunks -> Nat] /\ sent \in Nat
         /\ Newest(s) = Top(number, submission[s], last[s])
  <1> USE ZenonT(60)
  <1>1. s \in Subscribers  BY ConnectedFinite DEF Core
  <1>2. /\ submission[s] \in Seq(Chunks) /\ last[s] \in Nat /\ number \in [Chunks -> Nat]
        /\ sent \in Nat
    BY <1>1 DEF Core, TypeOK
  <1>3. Range(submission[s]) \subseteq Chunks  BY <1>2, Elements
  <1>4. Range(submission[s]) \subseteq used_chunk_list[s]  BY DEF Core, ChannelInv, OnePlace
  <1>5. Newest(s) = Top(number, submission[s], last[s])  BY DEF Newest, Top
  <1> QED BY <1>1, <1>2, <1>3, <1>4, <1>5

(* Whoever keeps its buffer keeps its order and its newest sample.              *)
LEMMA SameBuffer ==
  ASSUME Core, Core', OrderInv, Keeps, NEW s \in Connected, s \in Connected',
         submission'[s] = submission[s], last'[s] = last[s]
  PROVE  Rise(number', submission'[s], last'[s]) /\ Newest(s)' = Newest(s)
  <1> USE ZenonT(60)
  <1> PICK q : q = submission[s]  OBVIOUS
  <1>1. /\ s \in Subscribers /\ q \in Seq(Chunks) /\ Range(q) \subseteq Chunks
        /\ Range(q) \subseteq used_chunk_list[s] /\ Newest(s) = Top(number, q, last[s])
    BY BufferType
  <1>2. Range(submission'[s]) \subseteq used_chunk_list'[s]
    BY DEF Core, ChannelInv, OnePlace
  <1>3. \A d \in Range(q) : number'[d] = number[d]
    BY <1>1, <1>2, NotBeingSent DEF Keeps, Owned
  <1>4. Rise(number, q, last[s])  BY DEF OrderInv, BufferOrder
  <1>5. Rise(number', q, last[s]) /\ Top(number', q, last[s]) = Top(number, q, last[s])
    <2>1. q \in Seq(Chunks)  BY <1>1
    <2>2. Rise(number', q, last[s])  BY <1>3, <1>4, <2>1, RiseSame
    <2>3. Top(number', q, last[s]) = Top(number, q, last[s])  BY <1>3, <2>1, TopSame, SMTT(30)
    <2> QED BY <2>2, <2>3
  <1>6. Newest(s)' = Top(number', submission'[s], last'[s])  BY DEF Newest, Top
  <1> QED BY <1>1, <1>5, <1>6

LEMMA SameHistory ==
  ASSUME Core, Core', OrderInv, Keeps, UNCHANGED <<static_config, history, sent>>
  PROVE  HistoryOrder' /\ \A d \in Range(history) : number'[d] = number[d]
  <1> USE ZenonT(60)
  <1>1. history \in Seq(Chunks) /\ HistorySize' = HistorySize
    BY SameConfig DEF Core, TypeOK
  <1>2. Range(history) \subseteq Chunks  BY <1>1, Elements
  <1>3. \A d \in Range(history) : number'[d] = number[d]
    BY <1>2, NotBeingSent DEF Keeps, Owned
  <1>4. Rise(number, history, 0)  BY DEF OrderInv, HistoryOrder
  <1>5. Rise(number', history, 0)  BY <1>1, <1>3, <1>4, RiseSame
  <1>6. history # <<>> => history[Len(history)] \in Range(history)
    BY <1>1, SMTT(30) DEF Range
  <1> QED BY <1>1, <1>3, <1>5, <1>6 DEF OrderInv, HistoryOrder

(* Steps that change no connection, and no buffer but by receiving              *)
LEMMA FrameOrder ==
  ASSUME Core, Core', OrderInv, Keeps, UNCHANGED <<static_config, connections, history, sent>>,
         \A s \in Connected : Rise(number', submission'[s], last'[s]) /\ Newest(s)' = Newest(s),
         Delivering' <=> Delivering, Catching' <=> Catching,
         Delivering \/ Catching => UNCHANGED <<p_slot, p_chunk, p_pending>>
  PROVE  OrderInv'
  <1> USE ZenonT(60)
  <1>1. /\ Slots' = Slots /\ MaxSubscribers' = MaxSubscribers /\ HistorySize' = HistorySize
        /\ SafeOverflow' = SafeOverflow
    BY SameConfig
  <1>2. Connected' = Connected  BY <1>1 DEF Connected
  <1>3. HistoryOrder' /\ \A d \in Range(history) : number'[d] = number[d]
    BY SameHistory
  <1>4. BufferOrder'  BY <1>2 DEF OrderInv, BufferOrder
  <1>5. DeliverOrder'
    <2> SUFFICES ASSUME Delivering' PROVE DeliverOrder'  BY DEF DeliverOrder
    <2>1. Delivering /\ UNCHANGED <<p_slot, p_chunk>>  OBVIOUS
    <2>2. p_chunk' # None /\ p_chunk' \in loaned' /\ p_pc # "send"
      BY <2>1 DEF Core, ControlInv, Delivering
    <2>3. p_chunk \in Chunks  BY <2>1, <2>2 DEF Core, TypeOK
    <2>4. number'[p_chunk] = number[p_chunk]  BY <2>1, <2>2, <2>3 DEF Keeps, Owned
    <2> QED BY <1>1, <1>2, <2>1, <2>4 DEF OrderInv, DeliverOrder
  <1>6. CatchOrder'
    <2> SUFFICES ASSUME Catching' PROVE CatchOrder'  BY DEF CatchOrder
    <2>1. Catching /\ UNCHANGED <<p_slot, p_pending>>  OBVIOUS
    <2>2. Range(p_pending) \subseteq Range(history) /\ p_pending \in Seq(Chunks)
      BY <2>1 DEF Core, OwnerInv, TypeOK
    <2>3. \A d \in Range(p_pending) : number'[d] = number[d]  BY <1>3, <2>2
    <2>4. ASSUME NEW s \in Connected, connections[p_slot] = s
          PROVE  Rise(number', p_pending, Newest(s)')
      <3>1. Rise(number, p_pending, Newest(s))  BY <2>1, <2>4 DEF OrderInv, CatchOrder
      <3>2. Rise(number', p_pending, Newest(s))  BY <2>2, <2>3, <3>1, RiseSame
      <3> QED BY <3>2
    <2> QED BY <1>2, <2>1, <2>4 DEF OrderInv, CatchOrder
  <1>7. NewestReached'  BY <1>1, <1>2 DEF OrderInv, NewestReached
  <1> QED BY <1>3, <1>4, <1>5, <1>6, <1>7 DEF OrderInv

LEMMA QuietOrder ==
  ASSUME Core, Core', OrderInv, Keeps,
         UNCHANGED <<static_config, connections, submission, last, history, sent>>,
         Delivering' <=> Delivering, Catching' <=> Catching,
         Delivering \/ Catching => UNCHANGED <<p_slot, p_chunk, p_pending>>
  PROVE  OrderInv'
  <1> USE ZenonT(60)
  <1>1. Connected' = Connected  BY SameConfig DEF Connected
  <1>2. \A s \in Connected : Rise(number', submission'[s], last'[s]) /\ Newest(s)' = Newest(s)
    BY <1>1, SameBuffer
  <1> QED BY <1>2, FrameOrder

(* A newer sample at the end of a buffer, the oldest evicted or not             *)
LEMMA SendOrder ==
  ASSUME Core, Core', OrderInv, Keeps, p_pc # "send", NEW s \in Connected, NEW c \in Chunks,
         c \notin used_chunk_list[s], TrySend(s, c), Newest(s) < number[c],
         UNCHANGED <<static_config, connections, last>>
  PROVE  /\ Rise(number', submission'[s], last'[s])
         /\ Newest(s)' = number[c] \/ (~ SafeOverflow /\ Newest(s)' = Newest(s))
         /\ \A t \in Connected \ {s} :
              Rise(number', submission'[t], last'[t]) /\ Newest(t)' = Newest(t)
  <1> USE ZenonT(60)
  <1>1. Connected' = Connected /\ BufferSize \in Nat \ {0}
    <2>1. Connected' = Connected  BY SameConfig DEF Connected
    <2>2. static_config \in Configs  BY DEF Core, TypeOK
    <2> QED BY <2>1, <2>2, ConfigTypes
  <1>2. submission \in [Subscribers -> Seq(Chunks)] /\ Connected \subseteq Subscribers
    BY ConnectedFinite DEF Core, TypeOK
  <1>3. CASE Full(s) /\ ~ SafeOverflow
    <2>1. submission' = submission  BY <1>3 DEF TrySend, Full
    <2> QED BY <1>1, <1>3, <2>1, SameBuffer
  <1>4. CASE ~ (Full(s) /\ ~ SafeOverflow)
    <2>1. submission' = [submission EXCEPT ![s] = Append(Kept(s), c)]
      BY <1>4 DEF TrySend, Full, Kept
    <2>2. \A t \in Connected \ {s} : submission'[t] = submission[t]
      BY <1>2, <2>1
    <2>3. \A t \in Connected \ {s} :
            Rise(number', submission'[t], last'[t]) /\ Newest(t)' = Newest(t)
      BY <1>1, <2>2, SameBuffer
    <2> DEFINE q == submission[s]
               k == Kept(s)
               a == Append(k, c)
    <2>4. /\ q \in Seq(Chunks) /\ last[s] \in Nat /\ number \in [Chunks -> Nat]
          /\ Newest(s) = Top(number, q, last[s]) /\ Rise(number, q, last[s])
      BY BufferType DEF OrderInv, BufferOrder
    <2>5. k \in Seq(Chunks)  BY MakeRoom DEF Core
    <2>6. Rise(number, k, last[s]) /\ Top(number, k, last[s]) < number[c]
      <3>1. CASE ~ Full(s)
        <4>1. k = q  BY <3>1 DEF Kept
        <4> QED BY <2>4, <4>1
      <3>2. CASE Full(s)
        <4>1. k = Tail(q) /\ q # <<>>  BY <1>1, <3>2 DEF Kept, Full
        <4>2. /\ Rise(number, k, last[s]) /\ Top(number, k, number[Head(q)]) = Top(number, q, last[s])
              /\ last[s] < number[Head(q)] /\ number[Head(q)] \in Nat
          <5> HIDE DEF q, k
          <5>1. /\ Rise(number, Tail(q), last[s])
                /\ Top(number, Tail(q), number[Head(q)]) = Top(number, q, last[s])
                /\ last[s] < number[Head(q)] /\ number[Head(q)] \in Nat
            BY <2>4, <4>1, RiseTail
          <5> QED BY <4>1, <5>1
        <4>3. number[c] \in Nat  BY <2>4
        <4> HIDE DEF q, k
        <4>4. Top(number, k, last[s]) < number[c]
          <5>1. CASE k = <<>>
            <6>1. number[Head(q)] < number[c] /\ Top(number, k, last[s]) = last[s]
              BY <2>4, <4>2, <5>1 DEF Top
            <6> QED BY <2>4, <4>2, <4>3, <6>1, SMTT(30)
          <5>2. CASE k # <<>>
            <6>1. Top(number, k, last[s]) = Top(number, k, number[Head(q)])
              BY <5>2 DEF Top
            <6> QED BY <2>4, <4>2, <6>1
          <5> QED BY <5>1, <5>2
        <4> QED BY <4>2, <4>4
      <3> QED BY <3>1, <3>2
    <2>7. submission'[s] = a /\ last'[s] = last[s]  BY <1>2, <2>1
    <2> HIDE DEF q, k
    <2>8. Rise(number, a, last[s]) /\ Top(number, a, last[s]) = number[c]
      BY <2>4, <2>5, <2>6, RiseAppend, SMTT(30)
    <2>9. a \in Seq(Chunks)  BY <2>5, SMTT(30)
    <2>10. Range(submission'[s]) \subseteq used_chunk_list'[s]
      BY <1>1 DEF Core, ChannelInv, OnePlace
    <2> HIDE DEF a
    <2>11. \A d \in Range(a) : number'[d] = number[d]
      <3>1. Range(a) \subseteq Chunks  BY <2>9, Elements
      <3> QED BY <1>2, <2>7, <2>10, <3>1 DEF Keeps, Owned
    <2>12. Rise(number', a, last[s]) /\ Top(number', a, last[s]) = number[c]
      <3>1. Rise(number', a, last[s])  BY <2>8, <2>9, <2>11, RiseSame
      <3>2. Top(number', a, last[s]) = Top(number, a, last[s])  BY <2>9, <2>11, TopSame, SMTT(30)
      <3> QED BY <2>8, <3>1, <3>2
    <2>13. Newest(s)' = Top(number', submission'[s], last'[s])  BY DEF Newest, Top
    <2> QED BY <2>3, <2>7, <2>12, <2>13
  <1> QED BY <1>3, <1>4

LEMMA ReceiveOrder ==
  ASSUME Core, Core', OrderInv, Keeps, NEW s \in Subscribers, Receive(s)
  PROVE  OrderInv'
  <1> USE ZenonT(60)
  <1>1. UNCHANGED <<static_config, connections, history, sent, number, p_pc, p_slot, p_chunk, p_pending>>
    BY DEF Receive, publisher, port, pool, local
  <1>2. /\ Slots' = Slots /\ MaxSubscribers' = MaxSubscribers /\ HistorySize' = HistorySize
        /\ SafeOverflow' = SafeOverflow /\ Delivering' = Delivering /\ Catching' = Catching
    BY <1>1, SameConfig DEF Delivering, Catching
  <1>3. Connected' = Connected /\ Connected \subseteq Subscribers
    BY <1>1, <1>2, ConnectedFinite DEF Connected, Core
  <1>4. /\ submission \in [Subscribers -> Seq(Chunks)] /\ last \in [Subscribers -> Nat]
        /\ submission[s] # <<>>
        /\ submission' = [submission EXCEPT ![s] = Tail(@)]
        /\ last' = [last EXCEPT ![s] = number[Head(submission[s])]]
    BY DEF Core, TypeOK, Receive
  <1>5. ASSUME NEW t \in Connected
        PROVE  Rise(number', submission'[t], last'[t]) /\ Newest(t)' = Newest(t)
    <2>1. CASE t # s
      <3>1. submission'[t] = submission[t] /\ last'[t] = last[t]  BY <1>3, <1>4, <2>1
      <3> QED BY <1>3, <3>1, SameBuffer
    <2>2. CASE t = s
      <3>1. submission'[s] = Tail(submission[s]) /\ last'[s] = number[Head(submission[s])]
        BY <1>4
      <3>2. /\ submission[s] \in Seq(Chunks) /\ last[s] \in Nat /\ number \in [Chunks -> Nat]
            /\ Newest(s) = Top(number, submission[s], last[s]) /\ Rise(number, submission[s], last[s])
        BY <2>2, BufferType DEF OrderInv, BufferOrder
      <3>3. /\ Rise(number, Tail(submission[s]), number[Head(submission[s])])
            /\ Top(number, Tail(submission[s]), number[Head(submission[s])])
                 = Top(number, submission[s], last[s])
        BY <1>4, <3>2, RiseTail
      <3>4. Newest(s)' = Top(number', submission'[s], last'[s])  BY DEF Newest, Top
      <3> QED BY <1>1, <2>2, <3>1, <3>2, <3>3, <3>4
    <2> QED BY <2>1, <2>2
  <1> QED BY <1>1, <1>2, <1>5, FrameOrder

(* Steps that remove connections and may make one                               *)
LEMMA RemoveOrder ==
  ASSUME Core, Core', OrderInv, Keeps, ~ Delivering, ~ Catching, ~ Delivering',
         UNCHANGED <<static_config, history, sent>>, NEW subs, Forget(subs),
         \A i \in Slots : connections'[i] # None =>
            /\ connections'[i] \notin subs
            /\ \/ connections'[i] = connections[i]
               \/ /\ connections'[i] \in Subscribers \ Connected
                  /\ history = <<>> \/ (Catching' /\ i = p_slot'),
         Catching' => /\ p_slot' \in Slots /\ connections'[p_slot'] \in Subscribers \ Connected
                      /\ p_pending' \in Seq(Chunks) /\ Range(p_pending') \subseteq Range(history)
                      /\ Rise(number, p_pending', 0)
                      /\ p_pending'[Len(p_pending')] = history[Len(history)]
  PROVE  OrderInv'
  <1> USE ZenonT(60)
  <1>1. /\ Slots' = Slots /\ Chunks' = Chunks /\ HistorySize' = HistorySize
        /\ SafeOverflow' = SafeOverflow
    BY SameConfig
  <1>2. Connected \subseteq Subscribers /\ None \notin Subscribers /\ sent \in Nat
    BY ConnectedFinite, NoneApart DEF Core, TypeOK
  <1>3. ASSUME NEW t, NEW i \in Slots, connections'[i] = t, t # None, connections[i] = t
        PROVE  /\ t \in Connected
               /\ Rise(number', submission'[t], last'[t]) /\ Newest(t)' = Newest(t)
    <2>1. t \in Connected /\ t \in Connected'  BY <1>1, <1>3 DEF Connected
    <2>2. submission'[t] = submission[t] /\ last'[t] = last[t]
      BY <1>2, <1>3, <2>1 DEF Forget
    <2>3. Rise(number', submission'[t], last'[t]) /\ Newest(t)' = Newest(t)
      BY <2>1, <2>2, SameBuffer
    <2> QED BY <2>1, <2>3
  <1>4. ASSUME NEW t \in Subscribers \ Connected, t \notin subs
        PROVE  Rise(number', submission'[t], last'[t]) /\ Newest(t)' = 0
    <2>1. submission'[t] = <<>> /\ last'[t] = 0
      BY <1>4 DEF Forget, Core, ChannelInv, Unused
    <2>2. Rise(number', <<>>, 0)  BY SMTT(30) DEF Rise
    <2> QED BY <2>1, <2>2 DEF Newest
  <1>5. HistoryOrder' /\ \A d \in Range(history) : number'[d] = number[d]
    BY SameHistory
  <1>6. BufferOrder'
    <2> SUFFICES ASSUME NEW t \in Connected'
                 PROVE  Rise(number', submission'[t], last'[t]) /\ Newest(t)' <= sent
      BY DEF BufferOrder
    <2>1. PICK i \in Slots : connections'[i] = t /\ t # None  BY <1>1 DEF Connected
    <2>2. CASE connections'[i] = connections[i]
      BY <1>3, <2>1, <2>2 DEF OrderInv, BufferOrder
    <2>3. CASE t \in Subscribers \ Connected
      <3>1. Rise(number', submission'[t], last'[t]) /\ Newest(t)' = 0  BY <1>4, <2>1, <2>3
      <3>2. 0 <= sent  BY <1>2, SMTT(30)
      <3> QED BY <3>1, <3>2
    <2> QED BY <2>1, <2>2, <2>3
  <1>7. CatchOrder'
    <2> SUFFICES ASSUME Catching' PROVE CatchOrder'  BY DEF CatchOrder
    <2>1. /\ p_slot' \in Slots /\ connections'[p_slot'] \in Subscribers \ Connected
          /\ p_pending' \in Seq(Chunks) /\ Range(p_pending') \subseteq Range(history)
          /\ Rise(number, p_pending', 0)
          /\ p_pending'[Len(p_pending')] = history[Len(history)]
      OBVIOUS
    <2>2. Rise(number', p_pending', 0)
      <3>1. \A d \in Range(p_pending') : number'[d] = number[d]  BY <1>5, <2>1
      <3> QED BY <2>1, <3>1, RiseSame
    <2>3. ASSUME NEW t, connections'[p_slot'] = t PROVE Newest(t)' = 0
      BY <1>2, <1>4, <2>1, <2>3
    <2> QED BY <2>1, <2>2, <2>3 DEF CatchOrder
  <1>8. NewestReached'
    <2> SUFFICES ASSUME SafeOverflow, HistorySize > 0, sent > 0,
                        NEW t \in Connected', NEW i \in Slots, connections'[i] = t
                 PROVE  Newest(t)' = sent \/ (Catching' /\ i = p_slot')
      BY <1>1 DEF NewestReached
    <2>1. t # None  BY DEF Connected
    <2>2. CASE connections[i] = t
      BY <1>3, <2>1, <2>2 DEF OrderInv, NewestReached
    <2>3. CASE connections[i] # t
      BY <2>1, <2>3 DEF OrderInv, HistoryOrder
    <2> QED BY <2>2, <2>3
  <1> QED BY <1>5, <1>6, <1>7, <1>8 DEF OrderInv, DeliverOrder

LEMMA UpdateConnectionOrder ==
  ASSUME Core, Core', OrderInv, Keeps, UpdateConnection
  PROVE  OrderInv'
  <1> USE ZenonT(60)
  <1> DEFINE s == subscriber_list_state[p_slot]
             subs == Removed({p_slot})
  <1>1. p_pc = "update" /\ UNCHANGED <<static_config, history, sent>>
    BY DEF UpdateConnection, port, local
  <1>2. ~ Delivering /\ ~ Catching  BY <1>1 DEF Delivering, Catching
  <1>3. ASSUME NextSlot("update", "finish") PROVE ~ Delivering' /\ ~ Catching'
    BY <1>3 DEF NextSlot, Delivering, Catching
  <1>4. /\ p_slot \in Slots /\ connections \in [Slots -> Subscribers \cup {None}]
        /\ s \in Subscribers \cup {None}
    <2>1. p_slot \in Slots  BY <1>1 DEF Core, ControlInv
    <2> QED BY <2>1 DEF Core, TypeOK
  <1>5. CASE s \in {None, connections[p_slot]}
    <2>1. NextSlot("update", "finish") /\ UNCHANGED <<connections, submission, last>>
      BY <1>5 DEF UpdateConnection, channel
    <2> QED BY <1>1, <1>2, <1>3, <2>1, QuietOrder
  <1>6. CASE s \notin {None, connections[p_slot]}
    <2>1. /\ Forget(subs)
          /\ \/ /\ connections' = [connections EXCEPT ![p_slot] = s]
                /\ p_pending' = SubSeq(history, IF Len(history) > BufferSize
                                                THEN Len(history) - BufferSize + 1 ELSE 1,
                                       Len(history))
                /\ IF history = <<>> THEN NextSlot("update", "finish")
                                     ELSE p_pc' = "history" /\ p_slot' = p_slot
             \/ /\ connections' = [connections EXCEPT ![p_slot] = None]
                /\ NextSlot("update", "finish") /\ p_pending' = p_pending
      BY <1>6 DEF UpdateConnection, RemoveConnections
    <2>2. s \in Subscribers \ Connected /\ \A t \in subs : t \in Connected /\ t = connections[p_slot]
      <3>1. s \in Subscribers /\ s # connections[p_slot]  BY <1>4, <1>6
      <3>2. s \notin Connected  BY <1>4, <3>1 DEF SlotInv, Has, Core, Connected
      <3>3. \A t \in subs : t \in Connected /\ t = connections[p_slot]
        BY <1>4 DEF Connected, Removed
      <3> QED BY <3>1, <3>2, <3>3
    <2>3. \A i \in Slots \ {p_slot} : connections[i] # None => connections[i] # connections[p_slot]
      BY <1>4, OneSlotEach DEF Core
    <2> HIDE DEF s, subs
    <2>4. connections'[p_slot] \in {s, None} /\ \A i \in Slots \ {p_slot} : connections'[i] = connections[i]
      BY <1>4, <2>1
    <2>5. CASE NextSlot("update", "finish") /\ (connections'[p_slot] = None \/ history = <<>>)
      <3>1. ~ Delivering' /\ ~ Catching'  BY <1>3, <2>5
      <3>2. \A i \in Slots : connections'[i] # None =>
               /\ connections'[i] \notin subs
               /\ \/ connections'[i] = connections[i]
                  \/ /\ connections'[i] \in Subscribers \ Connected
                     /\ history = <<>> \/ (Catching' /\ i = p_slot')
        BY <2>2, <2>3, <2>4, <2>5
      <3> QED BY <1>1, <1>2, <2>1, <3>1, <3>2, RemoveOrder
    <2>6. CASE /\ history # <<>> /\ p_pc' = "history" /\ p_slot' = p_slot /\ connections'[p_slot] = s
               /\ p_pending' = SubSeq(history, IF Len(history) > BufferSize
                                               THEN Len(history) - BufferSize + 1 ELSE 1,
                                      Len(history))
      <3>1. ~ Delivering' /\ Catching'  BY <2>6 DEF Delivering, Catching
      <3>2. \A i \in Slots : connections'[i] # None =>
               /\ connections'[i] \notin subs
               /\ \/ connections'[i] = connections[i]
                  \/ /\ connections'[i] \in Subscribers \ Connected
                     /\ history = <<>> \/ (Catching' /\ i = p_slot')
        BY <2>2, <2>3, <2>4, <2>6, <3>1
      <3>3. /\ history \in Seq(Chunks) /\ IsInjective(history) /\ BufferSize \in Nat \ {0}
            /\ number \in [Chunks -> Nat] /\ 0 \in Nat /\ Rise(number, history, 0)
        BY ConfigTypes DEF Core, TypeOK, OwnerInv, OrderInv, HistoryOrder
      <3> DEFINE a == IF Len(history) > BufferSize THEN Len(history) - BufferSize + 1 ELSE 1
      <3>4. a \in 1..Len(history)  BY <2>6, <3>3, SMTT(30)
      <3>5. p_pending' = SubSeq(history, a, Len(history))  BY <2>6
      <3> HIDE DEF a
      <3>6. /\ p_pending' \in Seq(Chunks) /\ Range(p_pending') \subseteq Range(history)
            /\ Rise(number, p_pending', 0) /\ p_pending'[Len(p_pending')] = history[Len(history)]
        BY <3>3, <3>4, <3>5, Suffix, RiseSuffix, ZenonT(60)
      <3>7. p_slot' \in Slots /\ connections'[p_slot'] \in Subscribers \ Connected
        BY <1>4, <2>2, <2>6
      <3> QED BY <1>1, <1>2, <2>1, <3>1, <3>2, <3>6, <3>7, RemoveOrder
    <2> QED BY <1>4, <2>1, <2>5, <2>6
  <1> QED BY <1>5, <1>6

LEMMA FinishOrder ==
  ASSUME Core, Core', OrderInv, Keeps, FinishUpdateConnectionCycle
  PROVE  OrderInv'
  <1> USE ZenonT(60)
  <1> DEFINE gone == {i \in Slots : connections[i] # subscriber_list_state[i]}
             subs == Removed(gone)
  <1>1. /\ p_pc = "finish" /\ p_pc' \in {"idle", "send", "drop"}
        /\ UNCHANGED <<static_config, history, sent>> /\ Forget(subs)
        /\ connections' = [i \in Slots |-> IF i \in gone THEN None ELSE connections[i]]
    BY DEF FinishUpdateConnectionCycle, RemoveConnections, port, local
  <1>2. ~ Delivering /\ ~ Catching /\ ~ Delivering' /\ ~ Catching'
    BY <1>1 DEF Delivering, Catching
  <1>3. ASSUME NEW i \in Slots, connections'[i] # None
        PROVE  connections'[i] = connections[i] /\ connections'[i] \notin subs
    <2>1. i \notin gone /\ connections'[i] = connections[i]  BY <1>1, <1>3
    <2>2. \A j \in gone : connections[j] # connections[i]
      BY <1>3, <2>1, OneSlotEach DEF Core
    <2> QED BY <2>1, <2>2 DEF Removed
  <1> HIDE DEF subs
  <1> QED BY <1>1, <1>2, <1>3, RemoveOrder

LEMMA DeliverHistoryOrder ==
  ASSUME Core, Core', OrderInv, Keeps, DeliverSampleHistory
  PROVE  OrderInv'
  <1> USE ZenonT(60)
  <1> PICK s : s = connections[p_slot]  OBVIOUS
  <1> PICK c : c = Head(p_pending)  OBVIOUS
  <1> PICK r : r = Tail(p_pending)  OBVIOUS
  <1>1. /\ p_pc = "history_send" /\ TrySend(s, c) /\ p_pending' = r
        /\ IF r = <<>> THEN NextSlot("update", "finish") ELSE p_pc' = "history" /\ p_slot' = p_slot
        /\ UNCHANGED <<static_config, connections, last, history, sent>>
    BY DEF DeliverSampleHistory, port, user, local
  <1>2. Catching /\ ~ Delivering /\ p_pc # "send"  BY <1>1 DEF Catching, Delivering
  <1>3. ~ Delivering' /\ (Catching' <=> r # <<>>)
    BY <1>1 DEF NextSlot, Catching, Delivering
  <1>4. /\ p_slot \in Slots /\ s # None /\ p_pending \in Seq(Chunks) /\ history \in Seq(Chunks)
        /\ p_pending # <<>> /\ IsInjective(p_pending) /\ Range(p_pending) \subseteq Range(history)
        /\ Range(p_pending) \cap used_chunk_list[s] = {}
    BY <1>1, <1>2 DEF Core, ControlInv, OwnerInv, TypeOK
  <1>5. /\ c \in Chunks /\ r \in Seq(Chunks) /\ Range(p_pending) = Range(r) \cup {c}
    BY <1>4, HeadAndTail
  <1>6. s \in Connected /\ c \notin used_chunk_list[s]  BY <1>4, <1>5 DEF Connected
  <1>7. /\ number \in [Chunks -> Nat] /\ sent \in Nat /\ Newest(s) \in Nat /\ Newest(s) <= sent
    <2>1. /\ submission[s] \in Seq(Chunks) /\ last[s] \in Nat /\ number \in [Chunks -> Nat]
          /\ sent \in Nat /\ Newest(s) = Top(number, submission[s], last[s])
          /\ Rise(number, submission[s], last[s]) /\ Newest(s) <= sent
      BY <1>6, BufferType DEF OrderInv, BufferOrder
    <2>2. Top(number, submission[s], last[s]) \in Nat  BY <2>1, RiseTop
    <2> QED BY <2>1, <2>2
  <1>8. /\ Rise(number, p_pending, Newest(s))
        /\ p_pending[Len(p_pending)] = history[Len(history)]
    BY <1>2, <1>6 DEF OrderInv, CatchOrder
  <1>9. /\ Rise(number, r, number[c]) /\ Rise(number, r, Newest(s)) /\ Newest(s) < number[c]
        /\ r # <<>> => r[Len(r)] = history[Len(history)]
        /\ r = <<>> => c = history[Len(history)]
    BY <1>4, <1>7, <1>8, RiseTail
  <1>10. history # <<>> /\ number[history[Len(history)]] = sent
    <2>1. c \in Range(history)  BY <1>4, <1>5
    <2>2. history # <<>>  BY <2>1, SMTT(30) DEF Range
    <2> QED BY <2>2 DEF OrderInv, HistoryOrder
  <1>11. number[c] <= sent
    <2>1. Rise(number, history, 0) /\ 0 \in Nat  BY DEF OrderInv, HistoryOrder
    <2>2. \A d \in Range(history) : number[d] <= Top(number, history, 0)
      BY <1>4, <1>7, <2>1, RiseTop
    <2>3. Top(number, history, 0) = sent  BY <1>10 DEF Top
    <2> QED BY <1>4, <1>5, <2>2, <2>3
  <1>12. /\ Rise(number', submission'[s], last'[s])
         /\ Newest(s)' = number[c] \/ (~ SafeOverflow /\ Newest(s)' = Newest(s))
         /\ \A t \in Connected \ {s} :
              Rise(number', submission'[t], last'[t]) /\ Newest(t)' = Newest(t)
    BY <1>1, <1>2, <1>5, <1>6, <1>9, SendOrder
  <1>13. /\ Slots' = Slots /\ SafeOverflow' = SafeOverflow /\ HistorySize' = HistorySize
         /\ Connected' = Connected
    BY <1>1, SameConfig DEF Connected
  <1>14. HistoryOrder' /\ \A d \in Range(history) : number'[d] = number[d]
    BY <1>1, SameHistory
  <1>15. BufferOrder'
    BY <1>1, <1>7, <1>11, <1>12, <1>13 DEF OrderInv, BufferOrder
  <1>16. CatchOrder'
    <2> SUFFICES ASSUME Catching' PROVE CatchOrder'  BY DEF CatchOrder
    <2>1. r # <<>> /\ p_slot' = p_slot  BY <1>1, <1>3
    <2>2. Rise(number, r, Newest(s)')  BY <1>9, <1>12
    <2>3. \A d \in Range(r) : number'[d] = number[d]  BY <1>4, <1>5, <1>14
    <2>4. Rise(number', r, Newest(s)')  BY <1>5, <2>2, <2>3, RiseSame
    <2>5. connections'[p_slot'] = s  BY <1>1, <2>1
    <2> QED BY <1>1, <1>9, <2>1, <2>4, <2>5 DEF CatchOrder
  <1>17. NewestReached'
    <2> SUFFICES ASSUME SafeOverflow, HistorySize > 0, sent > 0,
                        NEW t \in Connected, NEW i \in Slots, connections[i] = t
                 PROVE  Newest(t)' = sent \/ (Catching' /\ i = p_slot')
      BY <1>1, <1>13 DEF NewestReached
    <2>1. CASE i = p_slot
      <3>1. t = s  BY <2>1
      <3>2. CASE r = <<>>  BY <1>9, <1>10, <1>12, <3>1, <3>2
      <3>3. CASE r # <<>>  BY <1>1, <1>3, <2>1, <3>3
      <3> QED BY <3>2, <3>3
    <2>2. CASE i # p_slot
      <3>1. t # s  BY <1>4, <2>2, OneSlotEach DEF Core
      <3>2. Newest(t) = sent  BY <1>2, <2>2 DEF OrderInv, NewestReached
      <3> QED BY <1>12, <3>1, <3>2
    <2> QED BY <2>1, <2>2
  <1> QED BY <1>3, <1>14, <1>15, <1>16, <1>17 DEF OrderInv, DeliverOrder

LEMMA DeliverOffsetOrder ==
  ASSUME Core, Core', OrderInv, Keeps, DeliverOffset
  PROVE  OrderInv'
  <1> USE ZenonT(60)
  <1> PICK s : s = connections[p_slot]  OBVIOUS
  <1>1. /\ p_pc = "deliver" /\ NextSlot("deliver", "drop")
        /\ UNCHANGED <<static_config, connections, last, loaned, history, sent, p_chunk>>
    BY DEF DeliverOffset, port, user, local
  <1>2. Delivering /\ ~ Catching /\ p_pc # "send" /\ ~ Catching'
    BY <1>1 DEF Delivering, Catching, NextSlot
  <1>3. /\ p_slot \in Slots /\ p_chunk # None /\ p_chunk \in loaned
    BY <1>1 DEF Core, ControlInv
  <1>4. p_chunk \in Chunks /\ MaxSubscribers \in Nat /\ static_config \in Configs /\ sent \in Nat
    BY <1>3, ConfigTypes DEF Core, TypeOK
  <1>5. p_slot \in p_slot..MaxSubscribers /\ Slots = 1..MaxSubscribers /\ p_slot \in Nat
    BY <1>3, <1>4, SMTT(30) DEF Slots
  <1>6. /\ Slots' = Slots /\ SafeOverflow' = SafeOverflow /\ HistorySize' = HistorySize
        /\ MaxSubscribers' = MaxSubscribers /\ Connected' = Connected
    BY <1>1, SameConfig DEF Connected
  <1>7. /\ number[p_chunk] = sent
        /\ \A t \in Connected : \A k \in p_slot..MaxSubscribers :
             connections[k] = t => Newest(t) < sent
    BY <1>2 DEF OrderInv, DeliverOrder
  <1>8. /\ \A t \in Connected : Rise(number', submission'[t], last'[t])
        /\ \A t \in Connected \ {s} : Newest(t)' = Newest(t)
        /\ s # None => Newest(s)' = sent \/ (~ SafeOverflow /\ Newest(s)' = Newest(s))
    <2>1. CASE s = None
      <3>1. submission' = submission  BY <2>1 DEF DeliverOffset
      <3> QED BY <1>1, <1>6, <2>1, <3>1, SameBuffer
    <2>2. CASE s # None
      <3>1. TrySend(s, p_chunk)  BY <2>2 DEF DeliverOffset
      <3>2. s \in Connected  BY <1>3, <2>2 DEF Connected
      <3>3. p_chunk \notin used_chunk_list[s]  BY <1>2, <1>5, <2>2 DEF Core, OwnerInv
      <3>4. Newest(s) < number[p_chunk]  BY <1>5, <1>7, <3>2
      <3>5. /\ Rise(number', submission'[s], last'[s])
            /\ Newest(s)' = number[p_chunk] \/ (~ SafeOverflow /\ Newest(s)' = Newest(s))
            /\ \A t \in Connected \ {s} :
                 Rise(number', submission'[t], last'[t]) /\ Newest(t)' = Newest(t)
        BY <1>1, <1>2, <1>4, <3>1, <3>2, <3>3, <3>4, SendOrder
      <3> QED BY <1>7, <3>5
    <2> QED BY <2>1, <2>2
  <1>9. ASSUME NEW t \in Connected, NEW i \in Slots, connections[i] = t, i # p_slot
        PROVE  Newest(t)' = Newest(t)
    <2>1. t # None  BY DEF Connected
    <2>2. t # s  BY <1>3, <1>9, <2>1, OneSlotEach DEF Core
    <2> QED BY <1>8, <2>2
  <1>10. /\ p_slot # MaxSubscribers => Delivering' /\ p_slot' = p_slot + 1
         /\ p_slot = MaxSubscribers => ~ Delivering'
    BY <1>1, <1>3, <1>4, Advance, SMTT(30) DEF Delivering
  <1>11. HistoryOrder'  BY <1>1, SameHistory
  <1>12. BufferOrder'
    <2> SUFFICES ASSUME NEW t \in Connected PROVE Newest(t)' <= sent
      BY <1>1, <1>6, <1>8 DEF BufferOrder
    <2>1. Newest(t) <= sent /\ sent <= sent  BY <1>4, SMTT(30) DEF OrderInv, BufferOrder
    <2>2. t = s => s # None  BY DEF Connected
    <2> QED BY <1>8, <2>1, <2>2
  <1>13. DeliverOrder'
    <2> SUFFICES ASSUME Delivering'
                 PROVE  /\ number'[p_chunk] = sent
                        /\ \A t \in Connected : \A k \in p_slot'..MaxSubscribers :
                             connections[k] = t => Newest(t)' < sent
      BY <1>1, <1>6 DEF DeliverOrder
    <2>1. number'[p_chunk] = number[p_chunk]
      BY <1>1, <1>2, <1>3, <1>4 DEF Keeps, Owned
    <2>2. p_slot' = p_slot + 1  BY <1>10
    <2>3. \A k \in p_slot'..MaxSubscribers : k \in p_slot..MaxSubscribers /\ k \in Slots /\ k # p_slot
      BY <1>4, <1>5, <2>2, SMTT(30)
    <2> QED BY <1>7, <1>9, <2>1, <2>3
  <1>14. NewestReached'
    <2> SUFFICES ASSUME SafeOverflow, HistorySize > 0, sent > 0,
                        NEW t \in Connected, NEW i \in Slots, connections[i] = t
                 PROVE  Newest(t)' = sent \/ (Delivering' /\ i >= p_slot')
      BY <1>1, <1>6 DEF NewestReached
    <2>1. CASE i = p_slot
      <3>1. t = s /\ s # None  BY <2>1 DEF Connected
      <3> QED BY <1>8, <3>1
    <2>2. CASE ~ (i >= p_slot)
      <3>1. i # p_slot  BY <1>5, <2>2, SMTT(30)
      <3>2. Newest(t) = sent  BY <1>2, <2>2 DEF OrderInv, NewestReached
      <3> QED BY <1>9, <3>1, <3>2
    <2>3. CASE i # p_slot /\ i >= p_slot
      <3>1. p_slot # MaxSubscribers /\ i >= p_slot + 1  BY <1>4, <1>5, <2>3, SMTT(30)
      <3> QED BY <1>10, <3>1
    <2> QED BY <2>1, <2>2, <2>3
  <1> QED BY <1>2, <1>11, <1>12, <1>13, <1>14 DEF OrderInv, CatchOrder

LEMMA AddToHistoryOrder ==
  ASSUME Core, Core', OrderInv, Keeps, AddSampleToHistory
  PROVE  OrderInv'
  <1> USE ZenonT(60)
  <1> DEFINE k == IF Len(history) = HistorySize THEN Tail(history) ELSE history
  <1>1. /\ p_pc = "send" /\ p_pc' = "deliver" /\ p_slot' = 1 /\ sent' = sent + 1
        /\ history' = IF HistorySize = 0 THEN <<>> ELSE Append(k, p_chunk)
        /\ UNCHANGED <<static_config, connections, submission, last, loaned, p_chunk>>
    BY DEF AddSampleToHistory, port, user
  <1>2. /\ Slots' = Slots /\ Chunks' = Chunks /\ HistorySize' = HistorySize
        /\ MaxSubscribers' = MaxSubscribers /\ Connected' = Connected
    BY <1>1, SameConfig DEF Connected
  <1>3. /\ Delivering' /\ ~ Catching'  BY <1>1 DEF Delivering, Catching
  <1>4. /\ p_chunk # None /\ p_chunk \in loaned /\ p_chunk \notin Range(history)
    BY <1>1, NotBeingSent DEF Core, ControlInv
  <1>5. /\ p_chunk \in Chunks /\ sent \in Nat /\ number \in [Chunks -> Nat]
        /\ number' \in [Chunks -> Nat] /\ history \in Seq(Chunks) /\ IsInjective(history)
        /\ HistorySize \in Nat /\ MaxSubscribers \in Nat
    BY <1>2, <1>4, ConfigTypes DEF Core, TypeOK, OwnerInv
  <1>6. number'[p_chunk] = sent + 1
    <2>1. PICK gain, loss : Count(gain, loss)  BY DEF AddSampleToHistory
    <2>2. \A d : d \in loaned' => Owned(d)'  BY DEF Owned
    <2>3. p_chunk \notin free'  BY <1>1, <1>2, <1>4, <1>5, <2>2, OwnedNotFreeNext
    <2> QED BY <1>1, <1>5, <2>1, <2>3 DEF Count
  <1>7. ASSUME NEW t \in Connected
        PROVE  /\ Rise(number', submission'[t], last'[t])
               /\ Newest(t)' < sent + 1 /\ Newest(t)' <= sent + 1
    <2>1. Rise(number', submission'[t], last'[t]) /\ Newest(t)' = Newest(t)
      BY <1>1, <1>2, SameBuffer
    <2>2. Newest(t) <= sent /\ Newest(t) = Top(number, submission[t], last[t])
          /\ submission[t] \in Seq(Chunks) /\ last[t] \in Nat /\ Rise(number, submission[t], last[t])
      BY BufferType DEF OrderInv, BufferOrder
    <2>3. Newest(t) \in Nat  BY <1>5, <2>2, RiseTop
    <2>4. Newest(t) < sent + 1 /\ Newest(t) <= sent + 1  BY <1>5, <2>2, <2>3, SMTT(30)
    <2> QED BY <2>1, <2>4
  <1>8. BufferOrder'  BY <1>1, <1>2, <1>7 DEF BufferOrder
  <1>9. DeliverOrder'  BY <1>1, <1>2, <1>6, <1>7 DEF DeliverOrder
  <1>10. NewestReached'
    <2>1. \A i \in Slots : i >= 1  BY <1>5, SMTT(30) DEF Slots
    <2> QED BY <1>1, <1>2, <1>3, <2>1 DEF NewestReached
  <1>11. HistoryOrder'
    <2>1. CASE HistorySize = 0
      <3>1. history' = <<>> /\ ~ (HistorySize' > 0)  BY <1>1, <1>2, <2>1, SMTT(30)
      <3>2. Rise(number', <<>>, 0)  BY SMTT(30) DEF Rise
      <3> QED BY <3>1, <3>2 DEF HistoryOrder
    <2>2. CASE HistorySize # 0
      <3>1. /\ Rise(number, history, 0) /\ 0 \in Nat
            /\ history # <<>> => number[history[Len(history)]] = sent
        BY DEF OrderInv, HistoryOrder
      <3>2. /\ k \in Seq(Chunks) /\ IsInjective(k) /\ Range(k) \subseteq Range(history)
            /\ Rise(number, k, 0) /\ Top(number, k, 0) <= sent
        <4>1. CASE Len(history) = HistorySize
          <5>1. history # <<>> /\ k = Tail(history)  BY <1>5, <2>2, <4>1, SMTT(30)
          <5>2. k \in Seq(Chunks) /\ IsInjective(k) /\ Range(k) \subseteq Range(history)
            BY <1>5, <5>1, HeadAndTail, ZenonT(60)
          <5>3. /\ Rise(number, k, 0)
                /\ k # <<>> => k[Len(k)] = history[Len(history)]
            BY <1>5, <3>1, <5>1, RiseTail
          <5> HIDE DEF k
          <5>4. Top(number, k, 0) \in {0, sent}  BY <3>1, <5>1, <5>3 DEF Top
          <5> QED BY <1>5, <5>2, <5>3, <5>4, SMTT(30)
        <4>2. CASE Len(history) # HistorySize
          <5>1. k = history  BY <4>2
          <5> HIDE DEF k
          <5>2. Top(number, k, 0) \in {0, sent}  BY <3>1, <5>1 DEF Top
          <5> QED BY <1>5, <3>1, <5>1, <5>2, SMTT(30)
        <4> QED BY <4>1, <4>2
      <3>3. history' = Append(k, p_chunk)  BY <1>1, <2>2
      <3> HIDE DEF k
      <3>4. p_chunk \notin Range(k)  BY <1>4, <3>2
      <3>5. Range(history') = Range(k) \cup {p_chunk}
        BY <1>5, <3>2, <3>3, <3>4, Appended, SMTT(30)
      <3>6. \A d \in Range(k) : number'[d] = number[d]
        <4>1. Range(k) \subseteq Chunks  BY <3>2, Elements
        <4> QED BY <3>4, <3>5, <4>1 DEF Keeps, Owned
      <3>7. Rise(number', k, 0) /\ Top(number', k, 0) = Top(number, k, 0)
        <4>1. Rise(number', k, 0)  BY <3>2, <3>6, RiseSame
        <4>2. Top(number', k, 0) = Top(number, k, 0)  BY <3>2, <3>6, TopSame, SMTT(30)
        <4> QED BY <4>1, <4>2
      <3>8. Top(number', k, 0) < number'[p_chunk]
        <4>1. Top(number, k, 0) \in Nat  BY <1>5, <3>1, <3>2, RiseTop
        <4> QED BY <1>5, <1>6, <3>2, <3>7, <4>1, SMTT(30)
      <3>9. /\ Rise(number', history', 0) /\ history' # <<>>
            /\ history'[Len(history')] = p_chunk
        <4> PICK f : f = number'  OBVIOUS
        <4>1. f \in [Chunks -> Nat] /\ Rise(f, k, 0) /\ Top(f, k, 0) < f[p_chunk]
          BY <1>5, <3>7, <3>8
        <4>2. k \in Seq(Chunks) /\ p_chunk \in Chunks /\ 0 \in Nat  BY <1>5, <3>1, <3>2
        <4>3. Rise(f, Append(k, p_chunk), 0)  BY <4>1, <4>2, RiseAppend
        <4>4. /\ Append(k, p_chunk) # <<>>
              /\ Append(k, p_chunk)[Len(Append(k, p_chunk))] = p_chunk
          BY <4>2, SMTT(30)
        <4> QED BY <3>3, <4>3, <4>4
      <3> QED BY <1>1, <1>6, <3>9 DEF HistoryOrder
    <2> QED BY <2>1, <2>2
  <1> QED BY <1>3, <1>8, <1>9, <1>10, <1>11 DEF OrderInv, CatchOrder

LEMMA OrderNext ==
  ASSUME Core, Core', OrderInv, [Next]_vars
  PROVE  OrderInv'
  <1> USE ZenonT(60)
  <1>1. Keeps  BY NumbersKept
  <1>2. ASSUME UNCHANGED <<static_config, connections, submission, last, history, sent, p_pc, p_slot,
                           p_chunk, p_pending>>
        PROVE  OrderInv'
    <2>1. (Delivering' <=> Delivering) /\ (Catching' <=> Catching)
      BY <1>2 DEF Delivering, Catching
    <2> QED BY <1>1, <1>2, <2>1, QuietOrder
  <1>3. ASSUME NEW c \in Chunks, Loan(c) \/ ReturnLoanedSample(c) PROVE OrderInv'
    BY <1>2, <1>3 DEF Loan, ReturnLoanedSample, port, channel, user
  <1>4. CASE LoanExceedsMaxLoans  BY <1>2, <1>4 DEF LoanExceedsMaxLoans, port, user, local
  <1>5. ASSUME UNCHANGED <<static_config, connections, submission, last, history, sent>>,
               ~ Delivering, ~ Catching, ~ Delivering', ~ Catching'
        PROVE  OrderInv'
    BY <1>1, <1>5, QuietOrder
  <1>6. ASSUME NEW c \in Chunks \cup {None}, UpdateConnections(c) PROVE OrderInv'
    <2>1. ~ Delivering /\ ~ Catching /\ ~ Delivering' /\ ~ Catching'
      BY <1>6 DEF UpdateConnections, Delivering, Catching
    <2> QED BY <1>5, <1>6, <2>1 DEF UpdateConnections, port, channel, user, local
  <1>7. CASE DropSent
    <2>1. ~ Delivering /\ ~ Catching /\ ~ Delivering' /\ ~ Catching'
      BY <1>7 DEF DropSent, Delivering, Catching
    <2> QED BY <1>5, <1>7, <2>1 DEF DropSent, port, channel, user
  <1>8. CASE RetrieveForHistory
    <2>1. ~ Delivering /\ Catching /\ ~ Delivering' /\ Catching'
      BY <1>8 DEF RetrieveForHistory, Delivering, Catching
    <2>2. UNCHANGED <<static_config, connections, submission, last, history, sent, p_slot, p_chunk,
                      p_pending>>
      BY <1>8 DEF RetrieveForHistory, port, user, local
    <2> QED BY <1>1, <2>1, <2>2, QuietOrder
  <1>9. CASE Continue
    BY <1>1, <1>7, <1>8, <1>9, UpdateConnectionOrder, DeliverHistoryOrder, FinishOrder,
       AddToHistoryOrder, DeliverOffsetOrder DEF Continue
  <1>10. ASSUME NEW s \in Subscribers, Subscriber(s) PROVE OrderInv'
    <2>1. CASE Receive(s)  BY <1>1, <2>1, ReceiveOrder
    <2>2. CASE ~ Receive(s)
      BY <1>2, <1>10, <2>2 DEF Subscriber, Subscribe, DropSubscriber, Die,
         RemoveDeadSubscriber, ReleaseOffset, publisher, port, user, local
    <2> QED BY <2>1, <2>2
  <1>11. CASE UNCHANGED vars  BY <1>2, <1>11 DEF vars
  <1> QED BY <1>3, <1>4, <1>6, <1>9, <1>10, <1>11 DEF Next, Publisher

LEMMA OrderInit == Init => OrderInv
  <1> USE ZenonT(60)
  <1> SUFFICES ASSUME Init PROVE OrderInv  OBVIOUS
  <1>1. history = <<>> /\ p_pc = "idle" /\ sent = 0 /\ connections = [i \in Slots |-> None]
    BY DEF Init
  <1>2. Connected = {}  BY <1>1 DEF Connected
  <1>3. ~ Delivering /\ ~ Catching  BY <1>1 DEF Delivering, Catching
  <1>4. HistoryOrder  BY <1>1, SMTT(30) DEF HistoryOrder, Rise
  <1>5. NewestReached  BY <1>1, SMTT(30) DEF NewestReached
  <1> QED BY <1>2, <1>3, <1>4, <1>5 DEF OrderInv, BufferOrder, DeliverOrder, CatchOrder

LEMMA OrderNewest == Core /\ OrderInv => InOrderUpToNewest
  <1> USE ZenonT(60)
  <1> SUFFICES ASSUME Core, OrderInv, NEW s \in Connected
               PROVE  /\ \A k \in 1..Len(submission[s]) :
                            number[submission[s][k]]
                              > IF k = 1 THEN last[s] ELSE number[submission[s][k - 1]]
                      /\ (SafeOverflow /\ p_pc = "idle" /\ HistorySize > 0 /\ sent > 0)
                         => Newest(s) = sent
    BY DEF InOrderUpToNewest
  <1> DEFINE q == submission[s]
  <1>1. /\ q \in Seq(Chunks) /\ number \in [Chunks -> Nat] /\ Rise(number, q, last[s])
    BY BufferType DEF OrderInv, BufferOrder
  <1> HIDE DEF q
  <1>2. ASSUME NEW k \in 1..Len(q)
        PROVE  number[q[k]] > IF k = 1 THEN last[s] ELSE number[q[k - 1]]
    <2>1. number[q[k]] > last[s] /\ \A j \in 1..(k - 1) : number[q[j]] < number[q[k]]
      BY <1>1 DEF Rise
    <2>2. CASE k = 1  BY <2>1, <2>2
    <2>3. CASE k # 1
      <3>1. k - 1 \in 1..(k - 1) /\ k - 1 \in 1..Len(q)  BY <1>1, <2>3, SMTT(30)
      <3>2. number[q[k - 1]] < number[q[k]]  BY <2>1, <3>1
      <3>3. number[q[k - 1]] \in Nat /\ number[q[k]] \in Nat  BY <1>1, <3>1, SMTT(30)
      <3> QED BY <2>3, <3>2, <3>3
    <2> QED BY <2>2, <2>3
  <1>3. ASSUME SafeOverflow, p_pc = "idle", HistorySize > 0, sent > 0
        PROVE  Newest(s) = sent
    <2>1. PICK i \in Slots : connections[i] = s  BY DEF Connected
    <2>2. ~ Delivering /\ ~ Catching  BY <1>3 DEF Delivering, Catching
    <2> QED BY <1>3, <2>1, <2>2 DEF OrderInv, NewestReached
  <1> QED BY <1>2, <1>3 DEF q

(* Samples reach a subscriber in the order they were sent, the history first;   *)
(* with safe overflow the newest one is never lost.                             *)
THEOREM SamplesInOrder == Spec => []InOrderUpToNewest
  <1>1. Core /\ Core' /\ OrderInv /\ [Next]_vars => OrderInv'  BY OrderNext, ZenonT(60)
  <1>2. Spec => []OrderInv  BY <1>1, OrderInit, CoreInvariant, PTL DEF Spec
  <1> QED BY <1>2, CoreInvariant, OrderNewest, PTL
==============================================================================
