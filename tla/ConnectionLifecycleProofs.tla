----------------------- MODULE ConnectionLifecycleProofs -----------------------
(* For any number of storages created under the name of a connection: living     *)
(* ports meet, and nothing is left behind.                                        *)
EXTENDS ConnectionLifecycle, TLAPS

PortPc == {"new", "idle", "open", "create", "init", "reserve", "segment", "free", "drop",
           "unlink", "gone"}
CleanerPc == {"off", "open", "remove", "unlink", "segment", "release", "done", "skipped"}
Storage == [ready: BOOLEAN, state: (SUBSET Ports) \cup {Marked}]

TypeOK ==
    /\ storages \in Seq(Storage) /\ linked \in 0..Len(storages)
    /\ segment \in BOOLEAN /\ compatible \in BOOLEAN /\ timed_out \in BOOLEAN
    /\ alive \in [Ports -> BOOLEAN] /\ owns \in [Ports -> BOOLEAN]
    /\ registered \in [Ports -> {"joining", "registered", "left"}]
    /\ pc \in [Ports -> PortPc] /\ c_pc \in [Ports -> CleanerPc]
    /\ storage \in [Ports -> 0..Len(storages)] /\ c_storage \in [Ports -> 0..Len(storages)]

(* Where a port that is in the state word of its storage can be.                  *)
Hold == {"segment", "idle", "free", "drop"}

(* What the storages are to a port and to the cleaner of its node.  The state     *)
(* word shows a living port exactly while it uses the storage.                    *)
PortInv(p) ==
    /\ pc[p] \in {"init", "reserve", "segment", "drop", "unlink"} => storage[p] # 0
    /\ pc[p] \in {"new", "open", "create", "gone"} => storage[p] = 0
    /\ pc[p] = "init" => owns[p]
    /\ owns[p] => pc[p] \in {"init", "reserve", "unlink"}
    /\ pc[p] = "reserve" => storages[storage[p]].ready
    /\ pc[p] = "unlink" => State(storage[p]) = Marked
    /\ pc[p] \in {"free", "gone"} => registered[p] = "left"
    /\ alive[p] /\ registered[p] = "left" => pc[p] \in {"free", "drop", "unlink", "gone"}
    /\ c_pc[p] # "off" => ~alive[p] /\ (registered[p] = "registered" \/ c_pc[p] = "done")
    /\ c_pc[p] = "done" => registered[p] = "left"
    /\ c_pc[p] = "remove" => c_storage[p] # 0 /\ storages[c_storage[p]].ready
    /\ alive[p] => \A g \in 1..Len(storages) :
                      p \in State(g) <=> g = storage[p] /\ pc[p] \in Hold

(* A port enters the state word only once the storage is readable.                *)
StorageInv == \A g \in 1..Len(storages) : State(g) # {} => storages[g].ready

(* Nobody else uses a storage before its creator has made it readable.            *)
CreatorInv ==
    \A p \in Ports :
       pc[p] = "init" => ~storages[storage[p]].ready /\ storage[Peer(p)] # storage[p]

(* One of the two ports has been dropped: nobody connects any more.               *)
Over == \E p \in Ports : registered[p] = "left"

(* A storage in use is the one the name leads to.  Only when the connection is    *)
(* over and nobody is about to create another one may the name be gone, namely    *)
(* for a port that could not reserve its place or is itself about to unlink.      *)
Mapped(p) ==
    storage[p] # 0 =>
       \/ linked = storage[p]
       \/ /\ linked = 0 /\ Over /\ State(storage[p]) = Marked
          /\ pc[p] \in {"reserve", "unlink"} /\ pc[Peer(p)] \notin {"open", "create"}

(* While both ports live and agree, a port leaves a storage only when one of the  *)
(* ports is dropped.                                                              *)
MeetInv ==
    compatible /\ (\A p \in Ports : alive[p]) =>
       /\ ~segment => registered["sender"] = "left"
       /\ \A g \in 1..Len(storages) : State(g) = Marked => Over
       /\ \A p \in Ports :
             /\ pc[p] \in {"open", "create"} \/ storage[p] # 0 => registered[Peer(p)] # "joining"
             /\ pc[p] = "drop" => Over
             /\ Mapped(p)

(* The cleaner of the dead port has not looked for its connection yet, or has     *)
(* found the one that is linked.                                                  *)
Pending(p) ==
    /\ ~alive[p] /\ registered[p] = "registered"
    /\ c_pc[p] \in {"off", "open"} \/ (c_pc[p] = "remove" /\ c_storage[p] = linked)

(* Somebody is responsible for the linked storage: its creator, every port in     *)
(* its state word, and, once it is marked, the one who has to unlink it.          *)
LinkInv ==
    linked # 0 =>
       /\ State(linked) = {} =>
             \E p \in Ports : storage[p] = linked /\ pc[p] \in {"init", "reserve"}
       /\ \A p \in Ports : p \in State(linked) => alive[p] \/ DiedUnregistered(p) \/ Pending(p)
       /\ State(linked) = Marked =>
             \E p \in Ports : \/ alive[p] /\ pc[p] = "unlink"
                              \/ DiedUnregistered(p) \/ Pending(p) \/ c_pc[p] = "unlink"

(* The data segment goes with the sender.                                         *)
SegmentInv ==
    /\ registered["sender"] = "left" /\ pc["sender"] # "free" => ~segment
    /\ c_pc["sender"] \in {"release", "done"} => ~segment

(* The inductive invariant.                                                       *)
IInv ==
    /\ TypeOK /\ (\A p \in Ports : PortInv(p)) /\ StorageInv /\ CreatorInv
    /\ MeetInv /\ LinkInv /\ SegmentInv

------------------------------------------------------------------------------
(* Each port is the peer of the other.                                            *)
LEMMA Peers ==
  /\ "sender" \in Ports /\ "receiver" \in Ports
  /\ \A p \in Ports : /\ Peer(p) \in Ports /\ Peer(p) # p /\ Peer(Peer(p)) = p
                      /\ \A q \in Ports : q = p \/ q = Peer(p)
  BY ZenonT(60) DEF Ports, Peer

(* The state of the destroyed connection shows no port.                           *)
LEMMA MarkedShowsNoPort == Marked # {} /\ \A p \in Ports : p \notin Marked
  BY ZenonT(60) DEF Marked, Ports

(* What a port or the name refers to exists.                                      *)
LEMMA InRange ==
  ASSUME TypeOK
  PROVE  /\ Len(storages) \in Nat
         /\ linked # 0 => linked \in 1..Len(storages)
         /\ \A q \in Ports : /\ storage[q] # 0 => storage[q] \in 1..Len(storages)
                             /\ c_storage[q] # 0 => c_storage[q] \in 1..Len(storages)
  BY DEF TypeOK

(* One storage changes.                                                           *)
LEMMA StorageChanged ==
  ASSUME NEW s \in Seq(Storage), NEW g \in 1..Len(s), NEW e \in Storage,
         NEW t, t = [s EXCEPT ![g] = e]
  PROVE  /\ t \in Seq(Storage) /\ Len(t) = Len(s) /\ t[g] = e
         /\ \A h \in 1..Len(s) : h # g => t[h] = s[h]
  <1>1. t \in [1..Len(s) -> Storage] /\ Len(s) \in Nat
    OBVIOUS
  <1>2. t \in Seq(Storage)
    BY <1>1
  <1> QED
    BY <1>1, <1>2

(* The state word of one storage changes.                                         *)
LEMMA StateChanged ==
  ASSUME storages \in Seq(Storage), NEW g \in 1..Len(storages),
         NEW v \in (SUBSET Ports) \cup {Marked},
         storages' = [storages EXCEPT ![g].state = v]
  PROVE  /\ storages' \in Seq(Storage) /\ Len(storages') = Len(storages)
         /\ storages'[g].state = v
         /\ \A h \in 1..Len(storages) : storages'[h].ready = storages[h].ready
         /\ \A h \in 1..Len(storages) : h # g => storages'[h].state = storages[h].state
  <1> DEFINE e == [storages[g] EXCEPT !.state = v]
  <1>1. storages[g] \in Storage
    OBVIOUS
  <1>2. e \in Storage /\ e.state = v /\ e.ready = storages[g].ready
    BY <1>1, ZenonT(60) DEF Storage
  <1>3. storages' = [storages EXCEPT ![g] = e]
    BY ZenonT(60)
  <1> HIDE DEF e
  <1>4. /\ storages' \in Seq(Storage) /\ Len(storages') = Len(storages)
        /\ storages'[g] = e /\ \A h \in 1..Len(storages) : h # g => storages'[h] = storages[h]
    BY <1>2, <1>3, StorageChanged
  <1> QED
    BY <1>2, <1>4, ZenonT(60)

(* A storage becomes readable.                                                    *)
LEMMA ReadyChanged ==
  ASSUME TypeOK, NEW p \in Ports, storage[p] # 0, InitStorage(p)
  PROVE  /\ storages' \in Seq(Storage) /\ Len(storages') = Len(storages)
         /\ storages'[storage[p]].ready
         /\ \A h \in 1..Len(storages) : storages'[h].state = storages[h].state
         /\ \A h \in 1..Len(storages) : h # storage[p] => storages'[h].ready = storages[h].ready
  <1> DEFINE g == storage[p]
             e == [storages[g] EXCEPT !.ready = TRUE]
  <1>1. g \in 1..Len(storages) /\ storages[g] \in Storage /\ storages \in Seq(Storage)
    BY DEF TypeOK
  <1>2. e \in Storage
    BY <1>1, ZenonT(60) DEF Storage
  <1>3. storages' = [storages EXCEPT ![g] = e]
    BY ZenonT(60) DEF InitStorage
  <1>4. e.ready /\ e.state = storages[g].state
    BY <1>1, ZenonT(60) DEF Storage
  <1> HIDE DEF e, g
  <1>5. /\ storages' \in Seq(Storage) /\ Len(storages') = Len(storages)
        /\ storages'[g] = e /\ \A h \in 1..Len(storages) : h # g => storages'[h] = storages[h]
    BY <1>1, <1>2, <1>3, StorageChanged
  <1> QED
    BY <1>4, <1>5, ZenonT(60) DEF g

(* A storage is created.                                                          *)
LEMMA StorageCreated ==
  ASSUME storages \in Seq(Storage),
         storages' = Append(storages, [ready |-> FALSE, state |-> {}])
  PROVE  /\ storages' \in Seq(Storage) /\ Len(storages') = Len(storages) + 1
         /\ ~storages'[Len(storages) + 1].ready /\ storages'[Len(storages) + 1].state = {}
         /\ \A h \in 1..Len(storages) : storages'[h] = storages[h]
  <1>1. [ready |-> FALSE, state |-> {}] \in Storage
    BY ZenonT(60) DEF Storage
  <1> QED
    BY <1>1

(* At the beginning nothing exists but the data segment.                          *)
LEMMA InitInv == LifecycleInit => IInv
  <1> SUFFICES ASSUME LifecycleInit PROVE IInv
    BY ZenonT(60)
  <1>1. TypeOK
    <2>1. storages \in Seq(Storage) /\ 0 \in 0..Len(storages)
      BY DEF LifecycleInit
    <2> QED
      BY <2>1, ZenonT(60) DEF LifecycleInit, TypeOK, PortPc, CleanerPc
  <1>2. Len(storages) = 0 /\ \A g \in 1..Len(storages) : FALSE
    BY DEF LifecycleInit
  <1>3. ASSUME NEW p \in Ports PROVE PortInv(p)
    BY <1>2, ZenonT(60) DEF LifecycleInit, PortInv
  <1>4. MeetInv
    BY <1>2, Peers, ZenonT(60) DEF LifecycleInit, MeetInv, Mapped
  <1>5. StorageInv /\ CreatorInv /\ LinkInv /\ SegmentInv
    BY <1>2, Peers, ZenonT(60) DEF LifecycleInit, StorageInv, CreatorInv, LinkInv, SegmentInv
  <1> QED
    BY <1>1, <1>3, <1>4, <1>5, ZenonT(60) DEF IInv

(* Nothing of port q and of its cleaner changes.                                  *)
SamePort(q) ==
    /\ pc'[q] = pc[q] /\ storage'[q] = storage[q] /\ owns'[q] = owns[q]
    /\ registered'[q] = registered[q] /\ alive'[q] = alive[q]
    /\ c_pc'[q] = c_pc[q] /\ c_storage'[q] = c_storage[q]

(* The storages change without touching q: they stay readable, stay marked, and   *)
(* a new one does not show q.                                                     *)
SameFor(q) ==
    /\ Len(storages) <= Len(storages')
    /\ \A g \in 1..Len(storages) :
          /\ storages[g].ready => storages'[g].ready
          /\ storages[g].state = Marked => storages'[g].state = Marked
          /\ q \in storages'[g].state <=> q \in storages[g].state
    /\ \A g \in 1..Len(storages') : g > Len(storages) => q \notin storages'[g].state

(* What one port does leaves the other one's view intact.                         *)
LEMMA OtherPort ==
  ASSUME TypeOK, storages' \in Seq(Storage), NEW q \in Ports, PortInv(q), SamePort(q), SameFor(q)
  PROVE  PortInv(q)'
  <1>1. /\ storage[q] \in 0..Len(storages) /\ c_storage[q] \in 0..Len(storages)
        /\ Len(storages) \in Nat /\ Len(storages') \in Nat
    BY DEF TypeOK
  <1>2. alive[q] => \A g \in 1..Len(storages') :
                       q \in storages'[g].state <=> g = storage[q] /\ pc[q] \in Hold
    <2> SUFFICES ASSUME alive[q], NEW g \in 1..Len(storages')
                 PROVE  q \in storages'[g].state <=> g = storage[q] /\ pc[q] \in Hold
      BY ZenonT(60)
    <2>1. CASE g > Len(storages)
      BY <1>1, <2>1 DEF SameFor
    <2>2. CASE g \in 1..Len(storages)
      <3>1. q \in storages'[g].state <=> q \in storages[g].state
        BY <2>2, ZenonT(60) DEF SameFor
      <3>2. q \in storages[g].state <=> g = storage[q] /\ pc[q] \in Hold
        BY <2>2, ZenonT(60) DEF PortInv, State
      <3> QED
        BY <3>1, <3>2, ZenonT(60)
    <2> QED
      BY <1>1, <2>1, <2>2
  <1>3. /\ storage[q] # 0 => storage[q] \in 1..Len(storages)
        /\ c_storage[q] # 0 => c_storage[q] \in 1..Len(storages)
    BY <1>1
  <1>4. /\ pc[q] = "reserve" => storages'[storage[q]].ready
        /\ pc[q] = "unlink" => storages'[storage[q]].state = Marked
        /\ c_pc[q] = "remove" => c_storage[q] # 0 /\ storages'[c_storage[q]].ready
    BY <1>3 DEF PortInv, SameFor, State
  <1> QED
    BY <1>2, <1>4, ZenonT(60) DEF PortInv, SamePort, State

------------------------------------------------------------------------------
(* Steps of a living port that change neither the storages nor the name.          *)
LocalStep(p) ==
    \/ New(p) \/ Register(p) \/ UpdateConnections(p) \/ OpenStorage(p)
    \/ (CreateStorage(p) /\ linked # 0) \/ (p = "receiver" /\ OpenSegment)
    \/ Leave(p) \/ (p = "sender" /\ FreeSegment)

(* The port goes from one place to another; it may map the linked storage.        *)
Moves(p, from, to) == pc[p] = from /\ pc'[p] = to

LocalEffect(p) ==
    \/ /\ UNCHANGED segment /\ storage'[p] = storage[p] /\ registered'[p] = registered[p]
       /\ \/ Moves(p, "new", "idle")
          \/ Moves(p, "new", "open") /\ registered[Peer(p)] = "registered"
          \/ /\ Moves(p, "idle", "open") /\ storage[p] = 0
             /\ registered[p] = "registered" /\ registered[Peer(p)] = "registered"
          \/ /\ Moves(p, "idle", "drop") /\ storage[p] # 0 /\ registered[Peer(p)] # "registered"
          \/ Moves(p, "open", "create") /\ linked = 0
          \/ Moves(p, "create", "open") \/ Moves(p, "open", "idle")
          \/ Moves(p, "segment", "idle")
          \/ Moves(p, "segment", "drop") /\ ~segment
    \/ /\ UNCHANGED segment /\ storage'[p] = linked /\ registered'[p] = registered[p]
       /\ Moves(p, "open", "reserve") /\ linked # 0 /\ storages[linked].ready
    \/ /\ UNCHANGED segment /\ storage'[p] = storage[p]
       /\ Moves(p, "idle", "idle") /\ registered[p] = "joining" /\ registered'[p] = "registered"
    \/ /\ UNCHANGED segment /\ storage'[p] = storage[p] /\ registered'[p] = "left"
       /\ \/ Moves(p, "idle", "free") /\ p = "sender"
          \/ Moves(p, "idle", "drop") /\ p # "sender" /\ storage[p] # 0
          \/ Moves(p, "idle", "gone") /\ p # "sender" /\ storage[p] = 0
    \/ /\ segment' = FALSE /\ storage'[p] = storage[p] /\ registered'[p] = registered[p]
       /\ p = "sender"
       /\ \/ Moves(p, "free", "drop") /\ storage[p] # 0
          \/ Moves(p, "free", "gone") /\ storage[p] = 0

LEMMA LocalStepEffect ==
  ASSUME TypeOK, NEW p \in Ports, LocalStep(p)
  PROVE  /\ UNCHANGED <<linked, storages, c_pc, c_storage, compatible, alive, owns>>
         /\ alive[p] /\ SamePort(Peer(p)) /\ LocalEffect(p) /\ TypeOK'
  <1> USE DEF Go, shm, cleaner, fixed, Moves
  <1>1. CASE New(p)
    BY <1>1, Peers DEF New, TypeOK, SamePort, LocalEffect, PortPc
  <1>2. CASE Register(p)
    BY <1>2, Peers, ZenonT(60) DEF Register, TypeOK, SamePort, LocalEffect, PortPc
  <1>3. CASE UpdateConnections(p)
    <2>1. UNCHANGED <<linked, storages, c_pc, c_storage, compatible, alive, owns, segment, registered>>
      BY <1>3, ZenonT(60) DEF UpdateConnections
    <2>2. TypeOK'
      BY <1>3, <2>1, ZenonT(60) DEF UpdateConnections, TypeOK, PortPc
    <2>3. SamePort(Peer(p)) /\ alive[p]
      BY <1>3, <2>1, Peers DEF UpdateConnections, TypeOK, SamePort
    <2>4. LocalEffect(p)
      BY <1>3, ZenonT(60) DEF UpdateConnections, TypeOK, LocalEffect
    <2> QED
      BY <2>1, <2>2, <2>3, <2>4, ZenonT(60)
  <1>4. CASE OpenStorage(p)
    <2>1. UNCHANGED <<linked, storages, c_pc, c_storage, compatible, alive, owns, segment, registered>>
      BY <1>4, ZenonT(60) DEF OpenStorage
    <2>2. TypeOK'
      <3>1. pc' \in [Ports -> PortPc] /\ timed_out' \in BOOLEAN
        BY <1>4, ZenonT(60) DEF OpenStorage, TypeOK, PortPc
      <3>2. storage' = storage \/ storage' = [storage EXCEPT ![p] = linked]
        BY <1>4, ZenonT(60) DEF OpenStorage
      <3>3. storage' \in [Ports -> 0..Len(storages)]
        BY <3>2, ZenonT(60) DEF TypeOK
      <3> QED
        BY <2>1, <3>1, <3>3, ZenonT(60) DEF TypeOK
    <2>3. SamePort(Peer(p)) /\ alive[p]
      BY <1>4, <2>1, Peers DEF OpenStorage, TypeOK, SamePort
    <2>4. LocalEffect(p)
      BY <1>4, ZenonT(60) DEF OpenStorage, TypeOK, LocalEffect
    <2> QED
      BY <2>1, <2>2, <2>3, <2>4, ZenonT(60)
  <1>5. CASE p = "receiver" /\ OpenSegment
    BY <1>5, Peers, ZenonT(60) DEF OpenSegment, TypeOK, SamePort, LocalEffect, PortPc
  <1>6. CASE Leave(p)
    BY <1>6, Peers DEF Leave, TypeOK, SamePort, LocalEffect, PortPc
  <1>7. CASE p = "sender" /\ FreeSegment
    BY <1>7, Peers, ZenonT(60) DEF FreeSegment, TypeOK, SamePort, LocalEffect, PortPc
  <1>8. CASE CreateStorage(p) /\ linked # 0
    <2>1. /\ UNCHANGED <<linked, storages, c_pc, c_storage, compatible, alive, owns, segment,
                         registered, storage, timed_out>>
          /\ alive[p] /\ pc[p] = "create" /\ pc' = [pc EXCEPT ![p] = "open"]
      BY <1>8, ZenonT(60) DEF CreateStorage, NewStorage
    <2> QED
      BY <2>1, Peers DEF TypeOK, SamePort, LocalEffect, PortPc
  <1> QED
    BY <1>1, <1>2, <1>3, <1>4, <1>5, <1>6, <1>7, <1>8, ZenonT(60) DEF LocalStep

LEMMA LocalStepInv ==
  ASSUME IInv, NEW p \in Ports, LocalStep(p)
  PROVE  IInv'
  <1>1. /\ TypeOK /\ StorageInv /\ CreatorInv /\ (\A q \in Ports : PortInv(q))
        /\ MeetInv /\ LinkInv /\ SegmentInv
    BY ZenonT(60) DEF IInv
  <1>2. /\ UNCHANGED <<linked, storages, c_pc, c_storage, compatible, alive, owns>>
        /\ alive[p] /\ SamePort(Peer(p)) /\ LocalEffect(p) /\ TypeOK'
    BY <1>1, LocalStepEffect, ZenonT(60)
  <1>3. /\ Peer(p) \in Ports /\ Peer(p) # p /\ Peer(Peer(p)) = p
        /\ \A q \in Ports : q = p \/ q = Peer(p)
    BY Peers, ZenonT(60)
  <1>4. PortInv(Peer(p))'
    <2>1. SameFor(Peer(p)) /\ storages' \in Seq(Storage)
      BY <1>1, <1>2 DEF TypeOK, SameFor, State
    <2> QED
      BY <1>1, <1>2, <1>3, <2>1, OtherPort, ZenonT(60)
  <1>5. PortInv(p)'
    BY <1>1, <1>2 DEF PortInv, Hold, LocalEffect, Moves, State
  <1>6. StorageInv'
    BY <1>1, <1>2, ZenonT(60) DEF StorageInv, State
  <1>10. CreatorInv'
    BY <1>1, <1>2, <1>3, ZenonT(60) DEF CreatorInv, LocalEffect, Moves, SamePort
  <1>7. SegmentInv'
    BY <1>1, <1>2, <1>3, Peers DEF SegmentInv, LocalEffect, Moves, SamePort
  <1>8. LinkInv'
    BY <1>1, <1>2, <1>3 DEF LinkInv, LocalEffect, Moves, SamePort, State, Pending, DiedUnregistered
  <1>9. MeetInv'
    <2> SUFFICES ASSUME compatible, \A q \in Ports : alive[q]
                 PROVE  /\ ~segment' => registered'["sender"] = "left"
                        /\ \A g \in 1..Len(storages) : State(g) = Marked => Over'
                        /\ \A q \in Ports :
                              /\ pc'[q] \in {"open", "create"} \/ storage'[q] # 0
                                    => registered'[Peer(q)] # "joining"
                              /\ pc'[q] = "drop" => Over'
                              /\ Mapped(q)'
      BY <1>2, ZenonT(60) DEF MeetInv, State
    <2>1. Over => Over'
      BY <1>2, <1>3, ZenonT(60) DEF LocalEffect, Moves, SamePort, Over
    <2>2. ~segment' => registered'["sender"] = "left"
      BY <1>1, <1>2, <1>3, Peers DEF PortInv, MeetInv, LocalEffect, Moves, SamePort
    <2>3. ASSUME NEW q \in Ports
          PROVE  pc'[q] \in {"open", "create"} \/ storage'[q] # 0 => registered'[Peer(q)] # "joining"
      BY <1>1, <1>2, <1>3 DEF MeetInv, LocalEffect, Moves, SamePort
    <2>4. pc'[p] = "drop" => Over'
      <3>1. CASE registered'[p] = "left"
        BY <3>1, ZenonT(60) DEF Over
      <3>2. CASE pc[p] = "idle" /\ storage[p] # 0 /\ registered[Peer(p)] # "registered"
        <4>1. registered[Peer(p)] = "left"
          BY <1>1, <1>3, <3>2, ZenonT(60) DEF TypeOK, MeetInv
        <4> QED
          BY <1>3, <2>1, <4>1, ZenonT(60) DEF Over
      <3>3. CASE ~segment
        BY <1>1, <2>1, <3>3, Peers, ZenonT(60) DEF MeetInv, Over
      <3>4. CASE pc[p] = "free"
        BY <1>1, <2>1, <3>4, ZenonT(60) DEF PortInv, Over
      <3> QED
        BY <1>2, <3>1, <3>2, <3>3, <3>4, ZenonT(60) DEF LocalEffect, Moves
    <2>5. pc'[Peer(p)] = "drop" => Over'
      BY <1>1, <1>2, <1>3, <2>1, ZenonT(60) DEF MeetInv, SamePort
    <2>6. Mapped(p)'
      BY <1>1, <1>2, <1>3, <2>1, ZenonT(60) DEF MeetInv, Mapped, LocalEffect, Moves, SamePort
    <2>7. Mapped(Peer(p))'
      <3>1. ASSUME Over, pc[p] \notin {"open", "create"}
            PROVE  pc'[p] \notin {"open", "create"}
        <4>1. registered[p] = "left" \/ registered[Peer(p)] = "left"
          BY <1>3, <3>1, ZenonT(60) DEF Over
        <4> QED
          BY <1>1, <1>2, <3>1, <4>1, ZenonT(60) DEF PortInv, LocalEffect, Moves
      <3> QED
        BY <1>1, <1>2, <1>3, <2>1, <3>1, ZenonT(60) DEF MeetInv, Mapped, SamePort, State
    <2> QED
      BY <1>1, <1>3, <2>1, <2>2, <2>3, <2>4, <2>5, <2>6, <2>7, ZenonT(60) DEF MeetInv
  <1> QED
    BY <1>2, <1>3, <1>4, <1>5, <1>6, <1>7, <1>8, <1>9, <1>10, ZenonT(60) DEF IInv

(* The death of a port: what it leaves is waiting for the cleaner, if it is       *)
(* registered.                                                                    *)
LEMMA DiesInv ==
  ASSUME IInv, NEW p \in Ports, Dies(p)
  PROVE  IInv'
  <1>1. /\ TypeOK /\ StorageInv /\ CreatorInv /\ (\A q \in Ports : PortInv(q))
        /\ MeetInv /\ LinkInv /\ SegmentInv
    BY ZenonT(60) DEF IInv
  <1>2. /\ UNCHANGED <<linked, storages, segment, compatible, registered, pc, storage, owns,
                       c_pc, c_storage, timed_out>>
        /\ ~alive'[p] /\ \A q \in Ports : q # p => alive'[q] = alive[q]
        /\ alive[p] /\ TypeOK'
    BY <1>1, ZenonT(60) DEF Dies, TypeOK, shm, cleaner
  <1>3. ASSUME NEW q \in Ports PROVE PortInv(q)'
    BY <1>1, <1>2, ZenonT(60) DEF PortInv, State
  <1>4. StorageInv' /\ CreatorInv' /\ SegmentInv' /\ MeetInv'
    BY <1>1, <1>2, ZenonT(60) DEF StorageInv, CreatorInv, SegmentInv, MeetInv, State
  <1>5. LinkInv'
    <2>1. DiedUnregistered(p)' \/ Pending(p)'
      BY <1>1, <1>2, ZenonT(60) DEF PortInv, DiedUnregistered, Pending
    <2>2. \A q \in Ports : q # p => /\ DiedUnregistered(q)' = DiedUnregistered(q)
                                   /\ Pending(q)' = Pending(q)
      BY <1>2, ZenonT(60) DEF DiedUnregistered, Pending
    <2> QED
      BY <1>1, <1>2, <2>1, <2>2, ZenonT(60) DEF LinkInv, State
  <1> QED
    BY <1>2, <1>3, <1>4, <1>5, ZenonT(60) DEF IInv

(* A port creates the storage under the free name: nobody else uses one.          *)
LEMMA CreateInv ==
  ASSUME IInv, NEW p \in Ports, CreateStorage(p), linked = 0
  PROVE  IInv'
  <1>1. /\ TypeOK /\ StorageInv /\ CreatorInv /\ (\A q \in Ports : PortInv(q))
        /\ MeetInv /\ LinkInv /\ SegmentInv
    BY ZenonT(60) DEF IInv
  <1>2. /\ Peer(p) \in Ports /\ Peer(p) # p /\ Peer(Peer(p)) = p
        /\ \A q \in Ports : q = p \/ q = Peer(p)
    BY Peers, ZenonT(60)
  <1> DEFINE g == Len(storages) + 1
  <1>3. /\ storages' \in Seq(Storage) /\ Len(storages') = g /\ Len(storages) \in Nat
        /\ ~storages'[g].ready /\ storages'[g].state = {} /\ linked' = g
        /\ \A h \in 1..Len(storages) : storages'[h] = storages[h]
    BY <1>1, StorageCreated DEF CreateStorage, NewStorage, TypeOK
  <1>4. /\ UNCHANGED <<segment, registered, c_pc, c_storage, compatible, alive, timed_out>>
        /\ alive[p] /\ Moves(p, "create", "init") /\ storage'[p] = g /\ owns'[p]
        /\ SamePort(Peer(p))
    BY <1>1, <1>2, <1>3, ZenonT(60) DEF CreateStorage, NewStorage, TypeOK, Moves, Go, SamePort, cleaner, fixed
  <1>5. TypeOK'
    <2>1. pc' \in [Ports -> PortPc] /\ owns' \in [Ports -> BOOLEAN]
      BY <1>1, ZenonT(60) DEF CreateStorage, NewStorage, TypeOK, Go, PortPc
    <2>2. storage' \in [Ports -> 0..g] /\ c_storage \in [Ports -> 0..g]
      <3>1. storage' = [storage EXCEPT ![p] = g]
        BY <1>3, ZenonT(60) DEF CreateStorage, NewStorage
      <3> QED
        BY <1>1, <1>3, <3>1 DEF TypeOK
    <2> QED
      BY <1>1, <1>3, <1>4, <2>1, <2>2, ZenonT(60) DEF TypeOK
  <1> HIDE DEF g
  <1>6. \A q \in Ports : SameFor(q)
    BY <1>3 DEF SameFor, g
  <1>7. PortInv(Peer(p))'
    BY <1>1, <1>2, <1>3, <1>4, <1>6, OtherPort, ZenonT(60)
  <1>8. PortInv(p)'
    <2>1. \A h \in 1..Len(storages') : p \notin storages'[h].state
      <3>1. \A h \in 1..Len(storages) : p \notin storages[h].state
        BY <1>1, <1>4, ZenonT(60) DEF PortInv, State, Hold, Moves
      <3> QED
        BY <1>3, <3>1 DEF g
    <2> QED
      BY <1>1, <1>3, <1>4, <2>1 DEF PortInv, State, Hold, Moves, g
  <1>9. StorageInv' /\ CreatorInv'
    <2>1. StorageInv'
      BY <1>1, <1>3 DEF StorageInv, State, g
    <2>2. storage[Peer(p)] \in 0..Len(storages)
      BY <1>1, <1>2, ZenonT(60) DEF TypeOK
    <2>3. g # storage[Peer(p)]
      BY <1>3, <2>2 DEF g
    <2>4. pc[Peer(p)] = "init" => storages'[storage[Peer(p)]] = storages[storage[Peer(p)]]
      BY <1>1, <1>2, <1>3, <2>2 DEF PortInv
    <2>5. CreatorInv'
      BY <1>1, <1>2, <1>3, <1>4, <2>3, <2>4 DEF CreatorInv, Moves, SamePort
    <2> QED
      BY <2>1, <2>5, ZenonT(60)
  <1>10. SegmentInv'
    BY <1>1, <1>2, <1>4, Peers, ZenonT(60) DEF SegmentInv, Moves, SamePort
  <1>11. LinkInv'
    BY <1>3, <1>4, MarkedShowsNoPort, ZenonT(60) DEF LinkInv, State, Moves
  <1>12. MeetInv'
    <2> SUFFICES ASSUME compatible, \A q \in Ports : alive[q] PROVE MeetInv'
      BY <1>4, ZenonT(60) DEF MeetInv
    <2>1. storage[Peer(p)] = 0
      BY <1>1, <1>2, <1>4, ZenonT(60) DEF MeetInv, Mapped, Moves
    <2>2. \A h \in 1..Len(storages') : State(h)' = Marked => Over'
      BY <1>1, <1>3, <1>4, MarkedShowsNoPort DEF MeetInv, State, Over, g
    <2>3. Mapped(p)' /\ Mapped(Peer(p))'
      BY <1>3, <1>4, <2>1, ZenonT(60) DEF Mapped, SamePort
    <2> QED
      BY <1>1, <1>2, <1>4, <2>1, <2>2, <2>3 DEF MeetInv, Moves, SamePort, Over
  <1> QED
    BY <1>2, <1>5, <1>7, <1>8, <1>9, <1>10, <1>11, <1>12, ZenonT(60) DEF IInv

(* The creator makes the storage readable.                                        *)
LEMMA InitStorageInv ==
  ASSUME IInv, NEW p \in Ports, InitStorage(p)
  PROVE  IInv'
  <1>1. /\ TypeOK /\ StorageInv /\ CreatorInv /\ (\A q \in Ports : PortInv(q))
        /\ MeetInv /\ LinkInv /\ SegmentInv
    BY ZenonT(60) DEF IInv
  <1>2. /\ Peer(p) \in Ports /\ Peer(p) # p /\ Peer(Peer(p)) = p
        /\ \A q \in Ports : q = p \/ q = Peer(p)
    BY Peers, ZenonT(60)
  <1>3. /\ UNCHANGED <<linked, segment, registered, storage, owns, c_pc, c_storage, compatible,
                       alive, timed_out>>
        /\ alive[p] /\ Moves(p, "init", "reserve") /\ SamePort(Peer(p))
        /\ pc' \in [Ports -> PortPc]
    BY <1>1, <1>2, ZenonT(60) DEF InitStorage, TypeOK, Moves, Go, SamePort, cleaner, fixed, PortPc
  <1>4. storage[p] # 0 /\ storage[p] \in 1..Len(storages)
    BY <1>1, <1>3 DEF PortInv, Moves, TypeOK
  <1>5. /\ storages' \in Seq(Storage) /\ Len(storages') = Len(storages)
        /\ storages'[storage[p]].ready
        /\ \A h \in 1..Len(storages) : storages'[h].state = storages[h].state
        /\ \A h \in 1..Len(storages) : h # storage[p] => storages'[h].ready = storages[h].ready
    BY <1>1, <1>4, ReadyChanged, ZenonT(60)
  <1>6. TypeOK'
    BY <1>1, <1>3, <1>5, ZenonT(60) DEF TypeOK
  <1>7. \A h \in 1..Len(storages) : storages[h].ready => storages'[h].ready
    BY <1>5, ZenonT(60)
  <1>8. \A q \in Ports : SameFor(q)
    <2>1. Len(storages) \in Nat
      BY <1>1, InRange, ZenonT(60)
    <2> QED
      BY <1>5, <1>7, <2>1 DEF SameFor
  <1>9. PortInv(Peer(p))'
    BY <1>1, <1>2, <1>3, <1>5, <1>8, OtherPort, ZenonT(60)
  <1>10. PortInv(p)'
    BY <1>1, <1>3, <1>5, ZenonT(60) DEF PortInv, State, Hold, Moves
  <1>11. StorageInv' /\ CreatorInv'
    <2>1. StorageInv'
      BY <1>1, <1>5, <1>7, ZenonT(60) DEF StorageInv, State
    <2>2. pc[Peer(p)] = "init" => /\ storage[Peer(p)] \in 1..Len(storages)
                                  /\ storage[Peer(p)] # storage[p]
      BY <1>1, <1>2 DEF PortInv, CreatorInv, TypeOK
    <2>3. CreatorInv'
      BY <1>1, <1>2, <1>3, <1>5, <2>2 DEF CreatorInv, Moves, SamePort
    <2> QED
      BY <2>1, <2>3, ZenonT(60)
  <1>12. SegmentInv'
    BY <1>1, <1>2, <1>3, Peers, ZenonT(60) DEF SegmentInv, Moves, SamePort
  <1>13. linked # 0 => State(linked)' = State(linked)
    BY <1>1, <1>3, <1>5 DEF State, TypeOK
  <1>14. LinkInv'
    BY <1>1, <1>2, <1>3, <1>13 DEF LinkInv, Moves, SamePort, Pending, DiedUnregistered
  <1>15. MeetInv'
    <2> SUFFICES ASSUME compatible, \A q \in Ports : alive[q] PROVE MeetInv'
      BY <1>3, ZenonT(60) DEF MeetInv
    <2>1. Over' = Over /\ \A h \in 1..Len(storages) : State(h)' = State(h)
      BY <1>3, <1>5, ZenonT(60) DEF Over, State
    <2>2. \A q \in Ports : storage[q] # 0 => State(storage[q])' = State(storage[q])
      BY <1>1, <1>3, <1>5 DEF State, TypeOK
    <2>3. ASSUME NEW q \in Ports PROVE Mapped(q)'
      BY <1>1, <1>2, <1>3, <2>1, <2>2, ZenonT(60) DEF MeetInv, Mapped, Moves, SamePort
    <2> QED
      BY <1>1, <1>2, <1>3, <1>5, <2>1, <2>3, ZenonT(60) DEF MeetInv, Moves, SamePort
  <1> QED
    BY <1>2, <1>6, <1>9, <1>10, <1>11, <1>12, <1>14, <1>15, ZenonT(60) DEF IInv

(* A port that unlinks the name: nobody lives on a connection that is marked.     *)
LEMMA UnlinkInv ==
  ASSUME IInv, NEW p \in Ports, Unlink(p)
  PROVE  IInv'
  <1>1. /\ TypeOK /\ StorageInv /\ CreatorInv /\ (\A q \in Ports : PortInv(q))
        /\ MeetInv /\ LinkInv /\ SegmentInv
    BY ZenonT(60) DEF IInv
  <1>2. /\ Peer(p) \in Ports /\ Peer(p) # p /\ Peer(Peer(p)) = p
        /\ \A q \in Ports : q = p \/ q = Peer(p)
    BY Peers, ZenonT(60)
  <1>3. /\ UNCHANGED <<storages, segment, registered, c_pc, c_storage, compatible, alive, timed_out>>
        /\ alive[p] /\ pc[p] = "unlink" /\ linked' = 0 /\ storage'[p] = 0 /\ ~owns'[p]
        /\ pc'[p] = IF registered[p] = "left" THEN "gone" ELSE "idle"
        /\ SamePort(Peer(p))
    BY <1>1, <1>2, ZenonT(60) DEF Unlink, Unmap, TypeOK, Go, SamePort, cleaner, fixed
  <1>4. TypeOK'
    <2>1. /\ pc' \in [Ports -> PortPc] /\ owns' \in [Ports -> BOOLEAN]
          /\ storage' \in [Ports -> 0..Len(storages)] /\ 0 \in 0..Len(storages)
      BY <1>1 DEF Unlink, Unmap, TypeOK, Go, PortPc
    <2> QED
      BY <1>1, <1>3, <2>1, ZenonT(60) DEF TypeOK
  <1>5. PortInv(Peer(p))'
    <2>1. SameFor(Peer(p))  BY <1>3 DEF SameFor
    <2>2. storages' \in Seq(Storage)  BY <1>1, <1>3, ZenonT(60) DEF TypeOK
    <2> QED
      BY <1>1, <1>2, <1>3, <2>1, <2>2, OtherPort, ZenonT(60)
  <1>6. PortInv(p)'
    BY <1>1, <1>3 DEF PortInv, State, Hold
  <1>7. StorageInv' /\ LinkInv' /\ CreatorInv'
    BY <1>1, <1>2, <1>3 DEF StorageInv, LinkInv, CreatorInv, State, SamePort, PortInv
  <1>8. SegmentInv'
    BY <1>1, <1>2, <1>3, Peers, ZenonT(60) DEF SegmentInv, SamePort
  <1>9. MeetInv'
    <2> SUFFICES ASSUME compatible, \A q \in Ports : alive[q] PROVE MeetInv'
      BY <1>3, ZenonT(60) DEF MeetInv
    <2>1. Over' = Over /\ State(storage[p]) = Marked /\ storage[p] # 0
      BY <1>1, <1>3, ZenonT(60) DEF Over, PortInv
    <2>2. Over
      BY <1>1, <2>1 DEF MeetInv, TypeOK
    <2>3. Mapped(Peer(p))'
      <3> DEFINE q == Peer(p)
      <3> SUFFICES ASSUME storage[q] # 0
                   PROVE  State(storage[q]) = Marked /\ pc[q] \in {"reserve", "unlink"}
        BY <1>2, <1>3, <2>1, <2>2, ZenonT(60) DEF Mapped, SamePort, State
      <3>1. linked = storage[q] => storage[q] = storage[p]
        BY <1>1, <2>1, ZenonT(60) DEF MeetInv, Mapped
      <3>2. linked # storage[q] => State(storage[q]) = Marked /\ pc[q] \in {"reserve", "unlink"}
        BY <1>1, <1>2, ZenonT(60) DEF MeetInv, Mapped
      <3>3. CASE storage[q] = storage[p]
        <4>1. q \notin State(storage[q]) /\ State(storage[q]) # {}
          BY <1>2, <2>1, <3>3, MarkedShowsNoPort, ZenonT(60)
        <4>2. pc[q] \notin Hold /\ pc[q] # "init"
          <5>1. storage[q] \in 1..Len(storages)
            BY <1>1, <1>2 DEF TypeOK
          <5>2. pc[q] \notin Hold
            BY <1>1, <1>2, <4>1, <5>1, ZenonT(60) DEF PortInv
          <5>3. pc[q] # "init"
            BY <1>1, <1>2, <3>3, ZenonT(60) DEF CreatorInv
          <5> QED
            BY <5>2, <5>3, ZenonT(60)
        <4> QED
          BY <1>1, <1>2, <2>1, <3>3, <4>2, ZenonT(60) DEF PortInv, TypeOK, PortPc, Hold
      <3> QED
        BY <3>1, <3>2, <3>3, ZenonT(60)
    <2> QED
      BY <1>1, <1>2, <1>3, <2>1, <2>2, <2>3 DEF MeetInv, SamePort, State, Mapped
  <1> QED
    BY <1>2, <1>4, <1>5, <1>6, <1>7, <1>8, <1>9, ZenonT(60) DEF IInv

(* A port reserves its place: the storage is the one the name leads to.           *)
LEMMA ReserveInv ==
  ASSUME IInv, NEW p \in Ports, ReservePort(p), reserve_port(State(storage[p]), p)
  PROVE  IInv'
  <1>1. /\ TypeOK /\ StorageInv /\ CreatorInv /\ (\A q \in Ports : PortInv(q))
        /\ MeetInv /\ LinkInv /\ SegmentInv
    BY ZenonT(60) DEF IInv
  <1>2. /\ Peer(p) \in Ports /\ Peer(p) # p /\ Peer(Peer(p)) = p
        /\ \A q \in Ports : q = p \/ q = Peer(p)
    BY Peers, ZenonT(60)
  <1> DEFINE g == storage[p]
             v == State(g) \cup {p}
  <1>3. /\ UNCHANGED <<linked, segment, registered, storage, c_pc, c_storage, compatible, alive,
                       timed_out>>
        /\ alive[p] /\ pc[p] = "reserve" /\ ~owns'[p] /\ SamePort(Peer(p))
        /\ pc'[p] \in {"drop", "segment", "idle"} /\ (compatible => pc'[p] # "drop")
    BY <1>1, <1>2, ZenonT(60) DEF ReservePort, TypeOK, Go, SamePort, cleaner, fixed
  <1>4. pc' \in [Ports -> PortPc] /\ owns' \in [Ports -> BOOLEAN]
    BY <1>1, ZenonT(60) DEF ReservePort, TypeOK, Go, PortPc
  <1>5. /\ g # 0 /\ g \in 1..Len(storages) /\ storages[g].ready
        /\ State(g) # Marked /\ registered[p] # "left"
    <2>1. PortInv(p)
      BY <1>1, ZenonT(60)
    <2>2. g # 0 /\ storages[g].ready /\ registered[p] # "left"
      BY <1>3, <2>1, ZenonT(60) DEF PortInv
    <2>3. g \in 1..Len(storages)
      BY <1>1, <2>2 DEF TypeOK
    <2> QED
      BY <2>2, <2>3, ZenonT(60) DEF reserve_port
  <1>6. v \in (SUBSET Ports) \cup {Marked} /\ p \in v /\ v # Marked /\ v # {}
    <2>1. State(g) \in (SUBSET Ports) \cup {Marked}
      <3>1. storages[g] \in Storage
        BY <1>1, <1>5 DEF TypeOK
      <3> QED
        BY <3>1, ZenonT(60) DEF Storage, State
    <2>2. v \in SUBSET Ports
      <3>1. State(g) \in SUBSET Ports
        BY <1>5, <2>1, ZenonT(60)
      <3> QED
        BY <3>1, ZenonT(60)
    <2> QED
      BY <2>2, MarkedShowsNoPort, ZenonT(60)
  <1>7. storages' = [storages EXCEPT ![g].state = v]
    BY ZenonT(60) DEF ReservePort, State
  <1>8. /\ storages' \in Seq(Storage) /\ Len(storages') = Len(storages)
        /\ storages'[g].state = v
        /\ \A h \in 1..Len(storages) : storages'[h].ready = storages[h].ready
        /\ \A h \in 1..Len(storages) : h # g => storages'[h].state = storages[h].state
    BY <1>1, <1>5, <1>6, <1>7, StateChanged, ZenonT(60) DEF TypeOK
  <1>9. TypeOK'
    BY <1>1, <1>3, <1>4, <1>8, ZenonT(60) DEF TypeOK
  <1>10. \A q \in Ports : q # p => (q \in v <=> q \in State(g))
    BY ZenonT(60)
  <1> HIDE DEF v
  <1>11. PortInv(Peer(p))'
    <2>1. Len(storages) \in Nat
      BY <1>1, InRange, ZenonT(60)
    <2>2. SameFor(Peer(p))
      BY <1>2, <1>5, <1>8, <1>10, <2>1 DEF SameFor, State
    <2> QED
      BY <1>1, <1>2, <1>3, <1>8, <2>2, OtherPort, ZenonT(60)
  <1>12. PortInv(p)'
    <2>1. \A h \in 1..Len(storages) : p \in storages'[h].state <=> h = g
      BY <1>1, <1>3, <1>6, <1>8, ZenonT(60) DEF PortInv, State, Hold
    <2> QED
      BY <1>1, <1>3, <1>5, <1>8, <2>1, ZenonT(60) DEF PortInv, State, Hold
  <1>13. StorageInv' /\ CreatorInv'
    <2>1. StorageInv'
      BY <1>1, <1>5, <1>8, ZenonT(60) DEF StorageInv, State
    <2>2. pc[Peer(p)] = "init" => storage[Peer(p)] \in 1..Len(storages)
      BY <1>1, <1>2 DEF PortInv, TypeOK
    <2>3. CreatorInv'
      BY <1>1, <1>2, <1>3, <1>8, <2>2, ZenonT(60) DEF CreatorInv, SamePort
    <2> QED
      BY <2>1, <2>3, ZenonT(60)
  <1>14. SegmentInv'
    BY <1>1, <1>2, <1>3, Peers DEF SegmentInv, SamePort, PortInv
  <1>15. LinkInv'
    <2>1. CASE linked = g
      BY <1>1, <1>2, <1>3, <1>5, <1>6, <1>8, <1>10, <2>1, ZenonT(60)
         DEF LinkInv, SamePort, State, Pending, DiedUnregistered
    <2>2. CASE linked # g /\ linked # 0
      <3>1. State(linked)' = State(linked)
        BY <1>1, <1>3, <1>8, <2>2, InRange, ZenonT(60) DEF State
      <3> QED
        BY <1>1, <1>2, <1>3, <2>2, <3>1 DEF LinkInv, SamePort, Pending, DiedUnregistered
    <2> QED
      BY <1>3, <2>1, <2>2, ZenonT(60) DEF LinkInv
  <1>16. MeetInv'
    <2> SUFFICES ASSUME compatible, \A q \in Ports : alive[q] PROVE MeetInv'
      BY <1>3, ZenonT(60) DEF MeetInv
    <2>1. Over' = Over /\ \A h \in 1..Len(storages) : State(h)' = Marked => State(h) = Marked
      BY <1>3, <1>6, <1>8, ZenonT(60) DEF Over, State
    <2>2. Mapped(p)'
      BY <1>1, <1>3, <1>5, ZenonT(60) DEF MeetInv, Mapped
    <2>3. Mapped(Peer(p))'
      <3>1. storage[Peer(p)] # 0 /\ State(storage[Peer(p)]) = Marked
              => State(storage[Peer(p)])' = Marked
        <4>1. storage'[Peer(p)] = storage[Peer(p)]
          BY <1>3, ZenonT(60) DEF SamePort
        <4>2. storage[Peer(p)] # 0 => storage[Peer(p)] \in 1..Len(storages)
          BY <1>1, <1>2, InRange, ZenonT(60)
        <4> QED
          BY <1>1, <1>2, <1>3, <1>5, <1>8, <4>1, <4>2, ZenonT(60) DEF State
      <3> QED
        BY <1>1, <1>2, <1>3, <2>1, <3>1, ZenonT(60) DEF MeetInv, Mapped, SamePort
    <2> QED
      BY <1>1, <1>2, <1>3, <1>8, <2>1, <2>2, <2>3, ZenonT(60) DEF MeetInv, SamePort
  <1> QED
    BY <1>2, <1>9, <1>11, <1>12, <1>13, <1>14, <1>15, <1>16, ZenonT(60) DEF IInv

(* A port is refused: the connection has been marked for destruction.             *)
LEMMA RefusedInv ==
  ASSUME IInv, NEW p \in Ports, ReservePort(p), ~reserve_port(State(storage[p]), p)
  PROVE  IInv'
  <1>1. /\ TypeOK /\ StorageInv /\ CreatorInv /\ (\A q \in Ports : PortInv(q))
        /\ MeetInv /\ LinkInv /\ SegmentInv
    BY ZenonT(60) DEF IInv
  <1>2. /\ Peer(p) \in Ports /\ Peer(p) # p /\ Peer(Peer(p)) = p
        /\ \A q \in Ports : q = p \/ q = Peer(p)
    BY Peers, ZenonT(60)
  <1>3. /\ UNCHANGED <<linked, storages, segment, registered, c_pc, c_storage, compatible, alive,
                       timed_out>>
        /\ alive[p] /\ pc[p] = "reserve" /\ SamePort(Peer(p))
        /\ \/ pc'[p] = "unlink" /\ storage'[p] = storage[p] /\ owns'[p] = owns[p]
           \/ /\ pc'[p] = (IF registered[p] = "left" THEN "gone" ELSE "idle")
              /\ storage'[p] = 0 /\ ~owns'[p]
    BY <1>1, <1>2, ZenonT(60) DEF ReservePort, Unmap, TypeOK, Go, SamePort, cleaner, fixed
  <1>4. TypeOK'
    <2>1. /\ pc' \in [Ports -> PortPc] /\ owns' \in [Ports -> BOOLEAN]
          /\ storage' \in [Ports -> 0..Len(storages)]
      <3>1. /\ pc \in [Ports -> PortPc] /\ owns \in [Ports -> BOOLEAN]
            /\ storage \in [Ports -> 0..Len(storages)] /\ 0 \in 0..Len(storages)
        BY <1>1 DEF TypeOK
      <3>2. CASE owns[p]
        BY <3>1, <3>2, ZenonT(60) DEF ReservePort, Go, PortPc
      <3>3. CASE ~owns[p]
        BY <3>1, <3>3, ZenonT(60) DEF ReservePort, Unmap, Go, PortPc
      <3> QED
        BY <3>2, <3>3, ZenonT(60)
    <2> QED
      BY <1>1, <1>3, <2>1, ZenonT(60) DEF TypeOK
  <1>5. /\ storage[p] # 0 /\ storage[p] \in 1..Len(storages) /\ registered[p] # "left"
        /\ State(storage[p]) = Marked /\ State(storage[p]) # {}
    <2>1. storage[p] # 0 /\ storage[p] \in 1..Len(storages) /\ registered[p] # "left"
      <3>1. PortInv(p)
        BY <1>1, ZenonT(60)
      <3>2. storage[p] # 0 /\ registered[p] # "left"
        BY <1>3, <3>1, ZenonT(60) DEF PortInv
      <3> QED
        BY <1>1, <3>2 DEF TypeOK
    <2>2. p \notin State(storage[p])
      BY <1>1, <1>3, <2>1, ZenonT(60) DEF PortInv, Hold
    <2> QED
      BY <2>1, <2>2, MarkedShowsNoPort, ZenonT(60) DEF reserve_port
  <1>6. PortInv(Peer(p))'
    <2>1. SameFor(Peer(p))  BY <1>3 DEF SameFor
    <2>2. storages' \in Seq(Storage)  BY <1>1, <1>3, ZenonT(60) DEF TypeOK
    <2> QED
      BY <1>1, <1>2, <1>3, <2>1, <2>2, OtherPort, ZenonT(60)
  <1>7. PortInv(p)'
    BY <1>1, <1>3, <1>5 DEF PortInv, State, Hold
  <1>8. StorageInv' /\ CreatorInv'
    BY <1>1, <1>2, <1>3, <1>5 DEF StorageInv, CreatorInv, State, SamePort, PortInv
  <1>9. SegmentInv'
    BY <1>1, <1>2, <1>3, <1>5, Peers, ZenonT(60) DEF SegmentInv, SamePort
  <1>10. LinkInv'
    BY <1>1, <1>2, <1>3, <1>5 DEF LinkInv, SamePort, State, Pending, DiedUnregistered
  <1>11. MeetInv'
    BY <1>1, <1>2, <1>3, <1>5 DEF MeetInv, Mapped, Over, State, SamePort
  <1> QED
    BY <1>2, <1>4, <1>6, <1>7, <1>8, <1>9, <1>10, <1>11, ZenonT(60) DEF IInv

(* What is left of a state word without port p: a destroyed connection stays      *)
(* destroyed, and the last port out destroys it.                                  *)
LEMMA Removed ==
  ASSUME NEW p \in Ports, NEW u \in (SUBSET Ports) \cup {Marked}, NEW v, v = remove_state(u, p)
  PROVE  /\ v \in (SUBSET Ports) \cup {Marked} /\ p \notin v
         /\ u = Marked => v = Marked
         /\ v = {} => u = {}
         /\ \A q \in Ports : q # p => (q \in v <=> q \in u)
  <1>1. CASE u = Marked
    BY <1>1, MarkedShowsNoPort, ZenonT(60) DEF remove_state
  <1>2. CASE u = {p}
    BY <1>2, MarkedShowsNoPort, ZenonT(60) DEF remove_state
  <1>3. CASE u # Marked /\ u # {p}
    <2>1. u \in SUBSET Ports /\ v = u \ {p}
      BY <1>3, ZenonT(60) DEF remove_state
    <2> QED
      BY <1>3, <2>1, ZenonT(60)
  <1> QED
    BY <1>1, <1>2, <1>3, ZenonT(60)

(* A port removes itself from the state word; the last one goes on to unlink.     *)
LEMMA RemoveInv ==
  ASSUME IInv, NEW p \in Ports, RemovePort(p)
  PROVE  IInv'
  <1>1. /\ TypeOK /\ StorageInv /\ CreatorInv /\ (\A q \in Ports : PortInv(q))
        /\ MeetInv /\ LinkInv /\ SegmentInv
    BY ZenonT(60) DEF IInv
  <1>2. /\ Peer(p) \in Ports /\ Peer(p) # p /\ Peer(Peer(p)) = p
        /\ \A q \in Ports : q = p \/ q = Peer(p)
    BY Peers, ZenonT(60)
  <1> DEFINE g == storage[p]
             v == remove_state(State(g), p)
  <1>3. alive[p] /\ pc[p] = "drop" /\ storages' = [storages EXCEPT ![g].state = v]
    BY ZenonT(60) DEF RemovePort, State
  <1>4. g # 0 /\ g \in 1..Len(storages) /\ p \in State(g) /\ storages[g].ready
    <2>1. PortInv(p)
      BY <1>1, ZenonT(60)
    <2>2. g # 0
      BY <1>3, <2>1, ZenonT(60) DEF PortInv
    <2>3. g \in 1..Len(storages)
      BY <1>1, <2>2 DEF TypeOK
    <2>4. p \in State(g)
      BY <1>3, <2>1, <2>3, ZenonT(60) DEF PortInv, Hold
    <2> QED
      BY <1>1, <2>2, <2>3, <2>4, ZenonT(60) DEF StorageInv
  <1>5. /\ v \in (SUBSET Ports) \cup {Marked} /\ p \notin v
        /\ State(g) = Marked => v = Marked
        /\ v # {}
        /\ \A q \in Ports : q # p => (q \in v <=> q \in State(g))
    <2>1. State(g) \in (SUBSET Ports) \cup {Marked}
      <3>1. storages[g] \in Storage
        BY <1>1, <1>4 DEF TypeOK
      <3> QED
        BY <3>1, ZenonT(60) DEF Storage, State
    <2> QED
      BY <1>4, <2>1, Removed
  <1> HIDE DEF v
  <1>6. /\ storages' \in Seq(Storage) /\ Len(storages') = Len(storages)
        /\ storages'[g].state = v
        /\ \A h \in 1..Len(storages) : storages'[h].ready = storages[h].ready
        /\ \A h \in 1..Len(storages) : h # g => storages'[h].state = storages[h].state
    BY <1>1, <1>3, <1>4, <1>5, StateChanged, ZenonT(60) DEF TypeOK
  <1>7. /\ UNCHANGED <<linked, segment, registered, c_pc, c_storage, compatible, alive, timed_out>>
        /\ SamePort(Peer(p))
        /\ \/ /\ v = Marked /\ pc'[p] = "unlink" /\ storage'[p] = storage[p]
              /\ owns'[p] = owns[p]
           \/ /\ v # Marked /\ pc'[p] = (IF registered[p] = "left" THEN "gone" ELSE "idle")
              /\ storage'[p] = 0 /\ ~owns'[p]
    BY <1>1, <1>2, <1>6, ZenonT(60) DEF RemovePort, Unmap, TypeOK, Go, SamePort, cleaner, fixed
  <1>8. TypeOK'
    <2>1. /\ pc' \in [Ports -> PortPc] /\ owns' \in [Ports -> BOOLEAN]
          /\ storage' \in [Ports -> 0..Len(storages)]
      <3>1. /\ pc \in [Ports -> PortPc] /\ owns \in [Ports -> BOOLEAN]
            /\ storage \in [Ports -> 0..Len(storages)] /\ 0 \in 0..Len(storages)
        BY <1>1 DEF TypeOK
      <3>2. CASE v = Marked
        BY <1>6, <3>1, <3>2, ZenonT(60) DEF RemovePort, Go, PortPc
      <3>3. CASE v # Marked
        BY <1>6, <3>1, <3>3, ZenonT(60) DEF RemovePort, Unmap, Go, PortPc
      <3> QED
        BY <3>2, <3>3, ZenonT(60)
    <2> QED
      BY <1>1, <1>6, <1>7, <2>1, ZenonT(60) DEF TypeOK
  <1>9. PortInv(Peer(p))'
    <2>1. Len(storages) \in Nat
      BY <1>1, InRange, ZenonT(60)
    <2>2. SameFor(Peer(p))
      BY <1>2, <1>4, <1>5, <1>6, <2>1 DEF SameFor, State
    <2> QED
      BY <1>1, <1>2, <1>6, <1>7, <2>2, OtherPort, ZenonT(60)
  <1>10. PortInv(p)'
    <2>1. \A h \in 1..Len(storages) : p \notin storages'[h].state
      BY <1>1, <1>3, <1>5, <1>6, ZenonT(60) DEF PortInv, State
    <2> QED
      BY <1>1, <1>3, <1>4, <1>6, <1>7, <2>1 DEF PortInv, State, Hold
  <1>11. StorageInv' /\ CreatorInv'
    <2>1. StorageInv'
      BY <1>1, <1>4, <1>6, ZenonT(60) DEF StorageInv, State
    <2>2. pc[Peer(p)] = "init" => storage[Peer(p)] \in 1..Len(storages) /\ storage[Peer(p)] # 0
      BY <1>1, <1>2, SMTT(30) DEF PortInv, TypeOK
    <2>3. CreatorInv'
      BY <1>1, <1>2, <1>6, <1>7, <2>2 DEF CreatorInv, SamePort
    <2> QED
      BY <2>1, <2>3, ZenonT(60)
  <1>12. SegmentInv'
    BY <1>1, <1>2, <1>3, <1>7, Peers DEF SegmentInv, SamePort
  <1>13. LinkInv'
    <2>1. CASE linked = g
      BY <1>1, <1>2, <1>3, <1>4, <1>5, <1>6, <1>7, <2>1
         DEF LinkInv, SamePort, State, Pending, DiedUnregistered
    <2>2. CASE linked # g /\ linked # 0
      <3>1. State(linked)' = State(linked)
        BY <1>1, <1>6, <1>7, <2>2, InRange, ZenonT(60) DEF State
      <3> QED
        BY <1>1, <1>2, <1>3, <1>7, <2>2, <3>1 DEF LinkInv, SamePort, Pending, DiedUnregistered
    <2> QED
      BY <1>7, <2>1, <2>2, ZenonT(60) DEF LinkInv
  <1>14. MeetInv'
    <2> SUFFICES ASSUME compatible, \A q \in Ports : alive[q] PROVE MeetInv'
      BY <1>7, ZenonT(60) DEF MeetInv
    <2>1. Over' /\ Over
      BY <1>1, <1>3, <1>7, ZenonT(60) DEF MeetInv, Over
    <2>2. Mapped(p)'
      BY <1>1, <1>3, <1>7, ZenonT(60) DEF MeetInv, Mapped
    <2>3. Mapped(Peer(p))'
      <3>1. storage[Peer(p)] # 0 /\ State(storage[Peer(p)]) = Marked
              => State(storage[Peer(p)])' = Marked
        <4>1. storage'[Peer(p)] = storage[Peer(p)]
          BY <1>7, ZenonT(60) DEF SamePort
        <4>2. storage[Peer(p)] # 0 => storage[Peer(p)] \in 1..Len(storages)
          BY <1>1, <1>2, InRange, ZenonT(60)
        <4> QED
          BY <1>1, <1>2, <1>4, <1>5, <1>6, <1>7, <4>1, <4>2, ZenonT(60) DEF State
      <3> QED
        BY <1>1, <1>2, <1>7, <2>1, <3>1, ZenonT(60) DEF MeetInv, Mapped, SamePort
    <2> QED
      BY <1>1, <1>2, <1>3, <1>6, <1>7, <2>1, <2>2, <2>3, ZenonT(60) DEF MeetInv, SamePort
  <1> QED
    BY <1>2, <1>8, <1>9, <1>10, <1>11, <1>12, <1>13, <1>14, ZenonT(60) DEF IInv

------------------------------------------------------------------------------
(* Steps of a cleaner that do not touch the storages.                             *)
CleanerStep(p) ==
    \/ ListConnections(p) \/ CleanerOpen(p) \/ CleanerUnlink(p) \/ CleanerRemoveSegment(p)
    \/ CleanerRelease(p) \/ CleanerDies(p)

CMoves(p, from, to) == c_pc[p] = from /\ c_pc'[p] = to

CleanerEffect(p) ==
    \/ /\ UNCHANGED <<linked, segment>> /\ registered'[p] = registered[p]
       /\ \/ /\ CMoves(p, "off", "open") /\ ~alive[p] /\ registered[p] = "registered"
          \/ /\ CMoves(p, "off", AfterConnections(p)) /\ linked = 0
             /\ ~alive[p] /\ registered[p] = "registered"
          \/ CMoves(p, "open", "skipped") /\ (linked = 0 \/ ~storages[linked].ready)
          \/ /\ CMoves(p, "open", "remove") /\ linked # 0 /\ storages[linked].ready
             /\ c_storage'[p] = linked
          \/ c_pc[p] \notin {"off", "skipped", "done"} /\ c_pc'[p] = "off"
    \/ /\ UNCHANGED segment /\ registered'[p] = registered[p]
       /\ CMoves(p, "unlink", AfterConnections(p)) /\ linked' = 0
    \/ /\ UNCHANGED linked /\ registered'[p] = registered[p]
       /\ CMoves(p, "segment", "release") /\ segment' = FALSE
    \/ /\ UNCHANGED <<linked, segment>>
       /\ CMoves(p, "release", "done") /\ registered'[p] = "left"

LEMMA CleanerStepEffect ==
  ASSUME TypeOK, NEW p \in Ports, CleanerStep(p)
  PROVE  /\ UNCHANGED <<storages, pc, storage, owns, compatible, alive>>
         /\ SamePort(Peer(p)) /\ CleanerEffect(p) /\ TypeOK'
  <1> USE DEF CGo, shm, fixed, CMoves
  <1>1. CASE ListConnections(p)
    BY <1>1, Peers, ZenonT(60) DEF ListConnections, TypeOK, SamePort, CleanerEffect, CleanerPc, AfterConnections
  <1>2. CASE CleanerOpen(p)
    <2>1. UNCHANGED <<linked, storages, pc, storage, owns, compatible, alive, segment, registered,
                      timed_out>>
      BY <1>2, ZenonT(60) DEF CleanerOpen
    <2>2. c_pc' \in [Ports -> CleanerPc] /\ c_storage' \in [Ports -> 0..Len(storages)]
      BY <1>2, ZenonT(60) DEF CleanerOpen, TypeOK, CleanerPc
    <2>3. SamePort(Peer(p))
      BY <1>2, <2>1, Peers, ZenonT(60) DEF CleanerOpen, TypeOK, SamePort
    <2>4. CleanerEffect(p)
      BY <1>2, ZenonT(60) DEF CleanerOpen, TypeOK, CleanerEffect
    <2> QED
      BY <2>1, <2>2, <2>3, <2>4, ZenonT(60) DEF TypeOK
  <1>3. CASE CleanerUnlink(p)
    BY <1>3, Peers DEF CleanerUnlink, TypeOK, SamePort, CleanerEffect, CleanerPc, AfterConnections
  <1>4. CASE CleanerRemoveSegment(p)
    <2>1. /\ UNCHANGED <<linked, storages, pc, storage, owns, compatible, alive, registered,
                         timed_out, c_storage>>
          /\ c_pc[p] = "segment" /\ c_pc' = [c_pc EXCEPT ![p] = "release"]
      BY <1>4, ZenonT(60) DEF CleanerRemoveSegment
    <2>2. segment' = FALSE
      BY <1>4, ZenonT(60) DEF CleanerRemoveSegment
    <2>3. c_pc' \in [Ports -> CleanerPc] /\ c_pc'[p] = "release" /\ SamePort(Peer(p))
      BY <2>1, Peers, ZenonT(60) DEF TypeOK, CleanerPc, SamePort
    <2>4. CleanerEffect(p)
      BY <2>1, <2>2, <2>3, ZenonT(60) DEF CleanerEffect
    <2>5. segment' \in BOOLEAN
      BY <2>2, ZenonT(60)
    <2> QED
      BY <2>1, <2>3, <2>4, <2>5, ZenonT(60) DEF TypeOK
  <1>5. CASE CleanerRelease(p)
    BY <1>5, Peers DEF CleanerRelease, TypeOK, SamePort, CleanerEffect, CleanerPc
  <1>6. CASE CleanerDies(p)
    <2>1. UNCHANGED <<linked, storages, pc, storage, owns, compatible, alive, segment, registered,
                      timed_out>>
      BY <1>6, ZenonT(60) DEF CleanerDies
    <2>2. c_pc' \in [Ports -> CleanerPc] /\ c_storage' \in [Ports -> 0..Len(storages)]
      BY <1>6 DEF CleanerDies, TypeOK, CleanerPc
    <2>3. SamePort(Peer(p)) /\ CleanerEffect(p)
      BY <1>6, <2>1, Peers DEF CleanerDies, TypeOK, SamePort, CleanerEffect
    <2> QED
      BY <2>1, <2>2, <2>3, ZenonT(60) DEF TypeOK
  <1> QED
    BY <1>1, <1>2, <1>3, <1>4, <1>5, <1>6, ZenonT(60) DEF CleanerStep

(* The cleaner gives a dead port up only when the linked storage does not need    *)
(* it; a cleaner that dies leaves the port to the next one.                       *)
LEMMA CleanerStepInv ==
  ASSUME IInv, NEW p \in Ports, CleanerStep(p)
  PROVE  IInv'
  <1>1. /\ TypeOK /\ StorageInv /\ CreatorInv /\ (\A q \in Ports : PortInv(q))
        /\ MeetInv /\ LinkInv /\ SegmentInv
    BY ZenonT(60) DEF IInv
  <1>2. /\ Peer(p) \in Ports /\ Peer(p) # p /\ Peer(Peer(p)) = p
        /\ \A q \in Ports : q = p \/ q = Peer(p)
    BY Peers, ZenonT(60)
  <1>3. /\ UNCHANGED <<storages, pc, storage, owns, compatible, alive>>
        /\ SamePort(Peer(p)) /\ CleanerEffect(p) /\ TypeOK'
    BY <1>1, CleanerStepEffect, ZenonT(60)
  <1>4. /\ ~alive[p] /\ (c_pc[p] # "done" => registered[p] = "registered") /\ c_pc[p] # "done"
    BY <1>1, <1>3, ZenonT(60) DEF PortInv, CleanerEffect, CMoves
  <1>5. PortInv(Peer(p))'
    <2>1. SameFor(Peer(p))  BY <1>3 DEF SameFor
    <2>2. storages' \in Seq(Storage)  BY <1>1, <1>3, ZenonT(60) DEF TypeOK
    <2> QED
      BY <1>1, <1>2, <1>3, <2>1, <2>2, OtherPort, ZenonT(60)
  <1>6. PortInv(p)'
    BY <1>1, <1>3, <1>4, ZenonT(60) DEF PortInv, CleanerEffect, CMoves, State, AfterConnections
  <1>7. StorageInv' /\ CreatorInv' /\ MeetInv'
    BY <1>1, <1>3, <1>4, ZenonT(60) DEF StorageInv, CreatorInv, MeetInv, State
  <1>8. SegmentInv'
    BY <1>1, <1>2, <1>3, Peers DEF SegmentInv, CleanerEffect, CMoves, SamePort, AfterConnections
  <1>9. LinkInv'
    <2> SUFFICES ASSUME linked' # 0 PROVE LinkInv'
      BY ZenonT(60) DEF LinkInv
    <2>1. linked' = linked /\ linked \in 1..Len(storages)
      BY <1>1, <1>3 DEF CleanerEffect, TypeOK
    <2>2. Pending(Peer(p))' = Pending(Peer(p))
              /\ DiedUnregistered(Peer(p))' = DiedUnregistered(Peer(p))
      BY <1>3, <2>1, ZenonT(60) DEF Pending, DiedUnregistered, SamePort
    <2>3. CASE ~storages[linked].ready
      <3>1. State(linked) = {}
        BY <1>1, <2>1, <2>3, ZenonT(60) DEF StorageInv
      <3> QED
        BY <1>1, <1>3, <2>1, <3>1, MarkedShowsNoPort, ZenonT(60) DEF LinkInv, State
    <2>4. CASE storages[linked].ready
      <3>1. ~DiedUnregistered(p)
        BY <1>4, ZenonT(60) DEF DiedUnregistered
      <3>2. Pending(p) \/ c_pc[p] = "unlink" => Pending(p)' \/ (c_pc'[p] = "unlink")
        BY <1>3, <1>4, <2>1, <2>4, ZenonT(60) DEF Pending, CleanerEffect, CMoves
      <3>3. Pending(p) => Pending(p)'
        BY <1>3, <1>4, <2>1, <2>4, ZenonT(60) DEF Pending, CleanerEffect, CMoves
      <3> QED
        BY <1>1, <1>2, <1>3, <1>4, <2>1, <2>2, <3>1, <3>2, <3>3, ZenonT(60) DEF LinkInv, State, SamePort
    <2> QED
      BY <2>3, <2>4, ZenonT(60)
  <1> QED
    BY <1>2, <1>3, <1>5, <1>6, <1>7, <1>8, <1>9, ZenonT(60) DEF IInv

(* The cleaner removes the dead port from the storage it has found: if that is    *)
(* the linked one and nobody is left, the cleaner goes on to unlink it.           *)
LEMMA CleanerRemoveInv ==
  ASSUME IInv, NEW p \in Ports, CleanerRemovePort(p)
  PROVE  IInv'
  <1>1. /\ TypeOK /\ StorageInv /\ CreatorInv /\ (\A q \in Ports : PortInv(q))
        /\ MeetInv /\ LinkInv /\ SegmentInv
    BY ZenonT(60) DEF IInv
  <1>2. /\ Peer(p) \in Ports /\ Peer(p) # p /\ Peer(Peer(p)) = p
        /\ \A q \in Ports : q = p \/ q = Peer(p)
    BY Peers, ZenonT(60)
  <1> DEFINE g == c_storage[p]
             v == remove_state(State(g), p)
  <1>3. c_pc[p] = "remove" /\ storages' = [storages EXCEPT ![g].state = v]
    BY ZenonT(60) DEF CleanerRemovePort, State
  <1>4. /\ g # 0 /\ g \in 1..Len(storages) /\ storages[g].ready
        /\ ~alive[p] /\ registered[p] = "registered"
    <2>1. PortInv(p)
      BY <1>1, ZenonT(60)
    <2>2. g # 0 /\ storages[g].ready /\ ~alive[p] /\ registered[p] = "registered"
      BY <1>3, <2>1, ZenonT(60) DEF PortInv
    <2> QED
      BY <1>1, <2>2 DEF TypeOK
  <1>5. /\ v \in (SUBSET Ports) \cup {Marked} /\ p \notin v
        /\ State(g) = Marked => v = Marked
        /\ v = {} => State(g) = {}
        /\ \A q \in Ports : q # p => (q \in v <=> q \in State(g))
    <2>1. State(g) \in (SUBSET Ports) \cup {Marked}
      <3>1. storages[g] \in Storage
        BY <1>1, <1>4 DEF TypeOK
      <3> QED
        BY <3>1, ZenonT(60) DEF Storage, State
    <2> QED
      BY <2>1, Removed
  <1> HIDE DEF v
  <1>6. /\ storages' \in Seq(Storage) /\ Len(storages') = Len(storages)
        /\ storages'[g].state = v
        /\ \A h \in 1..Len(storages) : storages'[h].ready = storages[h].ready
        /\ \A h \in 1..Len(storages) : h # g => storages'[h].state = storages[h].state
    BY <1>1, <1>3, <1>4, <1>5, StateChanged, ZenonT(60) DEF TypeOK
  <1>7. /\ UNCHANGED <<linked, segment, registered, pc, storage, owns, compatible, alive, timed_out>>
        /\ SamePort(Peer(p)) /\ c_storage'[p] = 0
        /\ c_pc'[p] = IF v = Marked THEN "unlink" ELSE AfterConnections(p)
    BY <1>1, <1>2, <1>6, ZenonT(60) DEF CleanerRemovePort, TypeOK, CGo, SamePort, fixed
  <1>8. TypeOK'
    <2>1. c_pc' \in [Ports -> CleanerPc] /\ c_storage' \in [Ports -> 0..Len(storages)]
      BY <1>1 DEF CleanerRemovePort, TypeOK, CGo, CleanerPc, AfterConnections
    <2> QED
      BY <1>1, <1>6, <1>7, <2>1, ZenonT(60) DEF TypeOK
  <1>9. PortInv(Peer(p))'
    <2>1. Len(storages) \in Nat
      BY <1>1, InRange, ZenonT(60)
    <2>2. SameFor(Peer(p))
      BY <1>2, <1>4, <1>5, <1>6, <2>1 DEF SameFor, State
    <2> QED
      BY <1>1, <1>2, <1>6, <1>7, <2>2, OtherPort, ZenonT(60)
  <1>10. PortInv(p)'
    <2>1. storage[p] # 0 => storage[p] \in 1..Len(storages)
      BY <1>1 DEF TypeOK
    <2>2. /\ pc[p] = "reserve" => storages'[storage[p]].ready
          /\ pc[p] = "unlink" => storages'[storage[p]].state = Marked
      BY <1>1, <1>5, <1>6, <2>1, ZenonT(60) DEF PortInv, State
    <2> QED
      BY <1>1, <1>4, <1>7, <2>2, ZenonT(60) DEF PortInv, State, AfterConnections
  <1>11. StorageInv' /\ CreatorInv' /\ MeetInv'
    <2>1. StorageInv'
      BY <1>1, <1>4, <1>6, ZenonT(60) DEF StorageInv, State
    <2>2. \A q \in Ports : pc[q] = "init" => storage[q] \in 1..Len(storages)
      BY <1>1 DEF PortInv, TypeOK
    <2>3. CreatorInv'
      BY <1>1, <1>6, <1>7, <2>2, ZenonT(60) DEF CreatorInv
    <2> QED
      BY <1>4, <1>7, <2>1, <2>3, ZenonT(60) DEF MeetInv
  <1>12. SegmentInv'
    BY <1>1, <1>2, <1>3, <1>7, Peers, ZenonT(60) DEF SegmentInv, SamePort, AfterConnections
  <1>13. LinkInv'
    <2>1. CASE linked = g
      <3>1. /\ Pending(Peer(p))' = Pending(Peer(p))
            /\ DiedUnregistered(Peer(p))' = DiedUnregistered(Peer(p))
        BY <1>7, ZenonT(60) DEF Pending, DiedUnregistered, SamePort
      <3> QED
        BY <1>1, <1>2, <1>4, <1>5, <1>6, <1>7, <2>1, <3>1, ZenonT(60) DEF LinkInv, SamePort, State
    <2>2. CASE linked # g /\ linked # 0
      <3>1. State(linked)' = State(linked)
        BY <1>1, <1>6, <1>7, <2>2, InRange, ZenonT(60) DEF State
      <3>2. ~alive[p] /\ ~DiedUnregistered(p) /\ ~Pending(p)
        BY <1>3, <1>4, <2>2, ZenonT(60) DEF DiedUnregistered, Pending
      <3>3. /\ Pending(Peer(p))' = Pending(Peer(p))
            /\ DiedUnregistered(Peer(p))' = DiedUnregistered(Peer(p))
        BY <1>7, ZenonT(60) DEF Pending, DiedUnregistered, SamePort
      <3> QED
        BY <1>1, <1>2, <1>3, <1>7, <2>2, <3>1, <3>2, <3>3, ZenonT(60) DEF LinkInv, SamePort
    <2> QED
      BY <1>7, <2>1, <2>2, ZenonT(60) DEF LinkInv
  <1> QED
    BY <1>2, <1>8, <1>9, <1>10, <1>11, <1>12, <1>13, ZenonT(60) DEF IInv

------------------------------------------------------------------------------
(* Every step preserves the invariant.                                            *)
LEMMA NextInv == IInv /\ [LifecycleNext]_lifecycleVars => IInv'
  <1> SUFFICES ASSUME IInv, [LifecycleNext]_lifecycleVars PROVE IInv'
    BY ZenonT(60)
  <1>1. CASE UNCHANGED lifecycleVars
    BY <1>1 DEF lifecycleVars, IInv, TypeOK, PortInv, StorageInv, CreatorInv, MeetInv, Mapped, Over, LinkInv,
                SegmentInv, Pending, DiedUnregistered, State
  <1>2. ASSUME NEW p \in Ports, LocalStep(p) PROVE IInv'
    BY <1>2, LocalStepInv, ZenonT(60)
  <1>3. ASSUME NEW p \in Ports, CreateStorage(p) PROVE IInv'
    <2>1. CASE linked = 0
      BY <1>3, <2>1, CreateInv, ZenonT(60)
    <2>2. CASE linked # 0
      BY <1>3, <2>2, LocalStepInv, ZenonT(60) DEF LocalStep
    <2> QED
      BY <2>1, <2>2, ZenonT(60)
  <1>4. ASSUME NEW p \in Ports, InitStorage(p) PROVE IInv'
    BY <1>4, InitStorageInv, ZenonT(60)
  <1>5. ASSUME NEW p \in Ports, ReservePort(p) PROVE IInv'
    <2>1. CASE reserve_port(State(storage[p]), p)
      BY <1>5, <2>1, ReserveInv, ZenonT(60)
    <2>2. CASE ~reserve_port(State(storage[p]), p)
      BY <1>5, <2>2, RefusedInv, ZenonT(60)
    <2> QED
      BY <2>1, <2>2, ZenonT(60)
  <1>6. ASSUME NEW p \in Ports, RemovePort(p) \/ Unlink(p) \/ Dies(p) PROVE IInv'
    BY <1>6, RemoveInv, UnlinkInv, DiesInv, ZenonT(60)
  <1>7. ASSUME NEW p \in Ports, CleanerStep(p) \/ CleanerRemovePort(p) PROVE IInv'
    BY <1>7, CleanerStepInv, CleanerRemoveInv, ZenonT(60)
  <1>8. CASE LifecycleNext
    <2>1. PICK p \in Ports : \/ LocalStep(p) \/ CreateStorage(p) \/ InitStorage(p) \/ ReservePort(p)
                             \/ RemovePort(p) \/ Unlink(p) \/ Dies(p)
                             \/ CleanerStep(p) \/ CleanerRemovePort(p)
      BY <1>8, ZenonT(60) DEF LifecycleNext, Attempt, Cleanup, LocalStep, CleanerStep
    <2> QED
      BY <1>2, <1>3, <1>4, <1>5, <1>6, <1>7, <2>1, ZenonT(60)
  <1> QED
    BY <1>1, <1>8, ZenonT(60)

(* The invariant holds always, whatever dies.                                     *)
THEOREM Invariance == LifecycleSpec => []IInv
  BY InitInv, NextInv, PTL DEF LifecycleSpec

(* Two living ports with the same settings meet in one storage, however their     *)
(* creations, late unlinks and failed reservations in create_or_open_shm and      *)
(* cleanup_shared_memory interleave.                                              *)
THEOREM LivingPortsMeet == LifecycleSpec => []PortsMeet
  <1>1. IInv => PortsMeet
    <2> SUFFICES ASSUME IInv, NEW p \in Ports,
                        compatible, alive[p], alive[Peer(p)], Connected(p)
                 PROVE  linked = storage[p] /\ p \in State(linked)
      BY ZenonT(60) DEF PortsMeet
    <2>1. TypeOK /\ PortInv(p) /\ MeetInv
      BY ZenonT(60) DEF IInv
    <2>2. \A q \in Ports : alive[q]
      BY Peers, ZenonT(60)
    <2>3. pc[p] = "idle" /\ storage[p] # 0
      BY ZenonT(60) DEF Connected
    <2>4. linked = storage[p]
      BY <2>1, <2>2, <2>3, ZenonT(60) DEF MeetInv, Mapped
    <2>5. storage[p] \in 1..Len(storages)
      BY <2>1, <2>3 DEF TypeOK
    <2>6. p \in State(storage[p])
      BY <2>1, <2>3, <2>5, ZenonT(60) DEF PortInv, Hold
    <2> QED
      BY <2>4, <2>6, ZenonT(60)
  <1> QED
    BY <1>1, Invariance, PTL

(* When both ports are finished, the last one out of cleanup_shared_memory or the *)
(* cleaner of a dead node has unlinked the connection, and the data segment is    *)
(* gone, except after the deaths that no clean-up covers.                         *)
THEOREM AllCleanedUp == LifecycleSpec => []NothingLeftBehind
  <1>1. IInv => NothingLeftBehind
    <2> SUFFICES ASSUME IInv, \A p \in Ports : Finished(p)
                 PROVE  /\ linked # 0 => \E p \in Ports : DiedCreating(p) \/ DiedUnregistered(p)
                        /\ segment => DiedUnregistered("sender") \/ c_pc["sender"] = "skipped"
      BY ZenonT(60) DEF NothingLeftBehind
    <2>1. TypeOK /\ (\A p \in Ports : PortInv(p)) /\ LinkInv /\ SegmentInv
      BY ZenonT(60) DEF IInv
    <2>2. segment => DiedUnregistered("sender") \/ c_pc["sender"] = "skipped"
      BY <2>1, Peers, ZenonT(60) DEF Finished, SegmentInv, PortInv, DiedUnregistered
    <2>3. ASSUME linked # 0 PROVE \E p \in Ports : DiedCreating(p) \/ DiedUnregistered(p)
      <3>1. linked \in 1..Len(storages) /\ State(linked) \in (SUBSET Ports) \cup {Marked}
        <4>1. linked \in 1..Len(storages)
          BY <2>1, <2>3 DEF TypeOK
        <4>2. storages[linked] \in Storage
          BY <2>1, <4>1 DEF TypeOK
        <4> QED
          BY <4>1, <4>2, ZenonT(60) DEF Storage, State
      <3>2. ASSUME NEW p \in Ports
            PROVE  /\ ~Pending(p) /\ c_pc[p] # "unlink"
                   /\ pc[p] # "gone" => ~alive[p]
                   /\ pc[p] = "gone" => storage[p] = 0
        BY <2>1, ZenonT(60) DEF Finished, PortInv, Pending
      <3>3. CASE State(linked) = {}
        BY <2>1, <2>3, <3>2, <3>3, ZenonT(60) DEF LinkInv, DiedCreating
      <3>4. CASE State(linked) = Marked
        BY <2>1, <2>3, <3>2, <3>4, ZenonT(60) DEF LinkInv
      <3>5. CASE State(linked) # {} /\ State(linked) # Marked
        <4>1. PICK p \in Ports : p \in State(linked)
          BY <3>1, <3>5, ZenonT(60)
        <4>2. ~alive[p]
          BY <2>1, <3>1, <3>2, <4>1, ZenonT(60) DEF PortInv, Hold
        <4> QED
          BY <2>1, <2>3, <3>2, <4>1, <4>2, ZenonT(60) DEF LinkInv
      <3> QED
        BY <3>3, <3>4, <3>5, ZenonT(60)
    <2> QED
      BY <2>2, <2>3, ZenonT(60)
  <1> QED
    BY <1>1, Invariance, PTL
=============================================================================
