------------------------- MODULE ConnectionLifecycle -------------------------
(***************************************************************************)
(* How the shared memory of one zero copy connection comes into being and  *)
(* goes away: iceoryx2-cal/src/zero_copy_connection/common.rs on top of    *)
(* iceoryx2-cal/src/dynamic_storage/posix_shared_memory.rs, used by the    *)
(* publisher and the subscriber of the connection and by the clean-up of   *)
(* dead nodes in iceoryx2/src/service/stale_resource_cleanup.rs.           *)
(*                                                                         *)
(* The name of a connection is made of the ids of its two ports, and ids   *)
(* are unique, so the only users of the name are these two ports and the   *)
(* cleaners of their nodes.  Either port may find the storage missing and  *)
(* create it; whoever removes the last port from the state word unlinks    *)
(* the storage BY NAME, one step later.  Every creation is a storage of    *)
(* its own, so that a late unlink can hit the wrong one.                   *)
(*                                                                         *)
(* A port dies between any two steps (its pc then stays where it was).     *)
(* The cleaner of its node looks only at ports that are registered in the  *)
(* service; at most one cleaner works at a time (ProcessMonitoring), it    *)
(* may die as well, and another one starts over.                           *)
(***************************************************************************)
EXTENDS Naturals, Sequences

CONSTANT MaxStorages   \* how many storages are created under the name

ASSUME MaxStoragesAssumption == MaxStorages \in Nat \ {0}

Ports == {"sender", "receiver"}

Peer(p) == CHOOSE q \in Ports : q # p

Marked == {"MarkedForDestruction"}

VARIABLES
  linked,       \* the storage the name refers to, 0: none
  storages,     \* the storages created so far: initialised?, state word
  segment,      \* the data segment of the sender exists
  compatible,   \* both ports ask for the same connection settings
  alive,        \* per port: its process lives
  registered,   \* per port: "joining", "registered", "left"
  pc,           \* per port: where it is in the code
  storage,      \* per port: the storage it has mapped, 0: none
  owns,         \* per port: it unlinks the name when it drops the storage
  c_pc,         \* per port: where the cleaner of the dead port is
  c_storage,    \* per port: the storage the cleaner has mapped
  timed_out     \* an opener gave up waiting for the initialisation

lifecycleVars == <<linked, storages, segment, compatible, alive, registered, pc,
          storage, owns, c_pc, c_storage, timed_out>>

shm == <<linked, storages>>
cleaner == <<c_pc, c_storage>>
fixed == <<compatible, alive, timed_out>>

State(g) == storages[g].state
Connected(p) == pc[p] = "idle" /\ storage[p] # 0

LifecycleInit ==
  /\ linked = 0 /\ storages = << >> /\ segment = TRUE
  /\ compatible \in BOOLEAN
  /\ alive = [p \in Ports |-> TRUE]
  /\ registered = [p \in Ports |-> "joining"]
  /\ pc = [p \in Ports |-> "new"]
  /\ storage = [p \in Ports |-> 0] /\ owns = [p \in Ports |-> FALSE]
  /\ c_pc = [p \in Ports |-> "off"] /\ c_storage = [p \in Ports |-> 0]
  /\ timed_out = FALSE

Go(p, here) == pc' = [pc EXCEPT ![p] = here]

\* The port no longer uses a storage: an attempt failed, the peer has left, or
\* the port itself is being dropped.
Unmap(p) ==
  /\ storage' = [storage EXCEPT ![p] = 0]
  /\ owns' = [owns EXCEPT ![p] = FALSE]
  /\ Go(p, IF registered[p] = "left" THEN "gone" ELSE "idle")

---------------------------------------------------------------------------
remove_state_keeps_last(state, p) ==
  IF state = Marked THEN Marked ELSE state \ {p}

\* remove_state: the last port out marks the storage for destruction.
remove_state(state, p) ==
  IF state \in {Marked, {p}} THEN Marked ELSE state \ {p}

\* reserve_port: TRUE if the port may add itself to the state word.
reserve_port(state, p) == p \notin state /\ state # Marked

---------------------------------------------------------------------------
\* Publisher::new, Subscriber::new: the ports already registered are connected
\* first, the new port is registered last.
New(p) ==
  /\ alive[p] /\ pc[p] = "new"
  /\ Go(p, IF registered[Peer(p)] = "registered" THEN "open" ELSE "idle")
  /\ UNCHANGED <<shm, segment, registered, storage, owns, cleaner, fixed>>

Register(p) ==
  /\ alive[p] /\ pc[p] = "idle" /\ registered[p] = "joining"
  /\ registered' = [registered EXCEPT ![p] = "registered"]
  /\ UNCHANGED <<shm, segment, pc, storage, owns, cleaner, fixed>>

\* update_connections after a change of the registry: connect to a peer that
\* is listed, drop the connection to one that no longer is.
UpdateConnections(p) ==
  /\ alive[p] /\ pc[p] = "idle" /\ registered[p] = "registered"
  /\ \/ registered[Peer(p)] = "registered" /\ storage[p] = 0 /\ Go(p, "open")
     \/ registered[Peer(p)] # "registered" /\ storage[p] # 0 /\ Go(p, "drop")
  /\ UNCHANGED <<shm, segment, registered, storage, owns, cleaner, fixed>>

\* open_impl: a storage that is not readable yet is waited for, until the
\* timeout.
OpenStorage(p) ==
  /\ alive[p] /\ pc[p] = "open"
  /\ \/ /\ linked = 0 /\ Go(p, "create")
        /\ UNCHANGED <<storage, timed_out>>
     \/ /\ linked # 0 /\ storages[linked].ready /\ Go(p, "reserve")
        /\ storage' = [storage EXCEPT ![p] = linked]
        /\ UNCHANGED timed_out
     \/ /\ linked # 0 /\ ~storages[linked].ready /\ Go(p, "idle")
        /\ timed_out' = TRUE
        /\ UNCHANGED storage
  /\ UNCHANGED <<shm, segment, registered, owns, cleaner, compatible, alive>>

NewStorage_replaces(p) ==
  /\ Len(storages) < MaxStorages
  /\ linked' = Len(storages) + 1
  /\ storages' = Append(storages, [ready |-> FALSE, state |-> {}])
  /\ storage' = [storage EXCEPT ![p] = linked']
  /\ owns' = [owns EXCEPT ![p] = TRUE]
  /\ Go(p, "init")

\* The name is free: the storage gets it, with the creator as its owner.
NewStorage(p) ==
  /\ linked = 0 /\ Len(storages) < MaxStorages
  /\ linked' = Len(storages) + 1
  /\ storages' = Append(storages, [ready |-> FALSE, state |-> {}])
  /\ storage' = [storage EXCEPT ![p] = linked']
  /\ owns' = [owns EXCEPT ![p] = TRUE]
  /\ Go(p, "init")

CreateStorage_gives_up(p) ==
  /\ alive[p] /\ pc[p] = "create"
  /\ \/ NewStorage(p)
     \/ linked # 0 /\ Go(p, "idle") /\ UNCHANGED <<shm, storage, owns>>
  /\ UNCHANGED <<segment, registered, cleaner, fixed>>

\* create_impl, exclusively: if somebody else was faster, open again.
CreateStorage(p) ==
  /\ alive[p] /\ pc[p] = "create"
  /\ \/ NewStorage(p)
     \/ linked # 0 /\ Go(p, "open") /\ UNCHANGED <<shm, storage, owns>>
  /\ UNCHANGED <<segment, registered, cleaner, fixed>>

\* init_impl: construct the content, set the version, make it readable.
InitStorage(p) ==
  /\ alive[p] /\ pc[p] = "init"
  /\ storages' = [storages EXCEPT ![storage[p]].ready = TRUE]
  /\ Go(p, "reserve")
  /\ UNCHANGED <<linked, segment, registered, storage, owns, cleaner, fixed>>

\* create_or_open_shm after open_or_create: reserve the port; the creator gives
\* its ownership up, the opener compares the settings.  If the port cannot be
\* reserved, the storage is dropped, and unlinked by a creator.
ReservePort(p) ==
  LET g == storage[p] IN
  /\ alive[p] /\ pc[p] = "reserve"
  /\ IF reserve_port(State(g), p)
     THEN /\ storages' = [storages EXCEPT ![g].state = @ \cup {p}]
          /\ Go(p, IF ~owns[p] /\ ~compatible THEN "drop"
                   ELSE IF p = "receiver" THEN "segment" ELSE "idle")
          /\ owns' = [owns EXCEPT ![p] = FALSE]
          /\ UNCHANGED storage
     ELSE /\ IF owns[p] THEN Go(p, "unlink") /\ UNCHANGED <<storage, owns>>
                        ELSE Unmap(p)
          /\ UNCHANGED storages
  /\ UNCHANGED <<linked, segment, registered, cleaner, fixed>>

\* Connection::new of the receiver opens the data segment of the sender next.
OpenSegment ==
  /\ alive["receiver"] /\ pc["receiver"] = "segment"
  /\ Go("receiver", IF segment THEN "idle" ELSE "drop")
  /\ UNCHANGED <<shm, segment, registered, storage, owns, cleaner, fixed>>

\* Publisher::drop, Subscriber::drop: the handle is released first, then the
\* data segment (a publisher), then the connections.  A port that finds no room
\* in the registry is dropped as well, without having been registered.
Leave(p) ==
  /\ alive[p] /\ pc[p] = "idle"
  /\ registered' = [registered EXCEPT ![p] = "left"]
  /\ Go(p, IF p = "sender" THEN "free" ELSE IF storage[p] # 0 THEN "drop" ELSE "gone")
  /\ UNCHANGED <<shm, segment, storage, owns, cleaner, fixed>>

FreeSegment ==
  /\ alive["sender"] /\ pc["sender"] = "free"
  /\ segment' = FALSE
  /\ Go("sender", IF storage["sender"] # 0 THEN "drop" ELSE "gone")
  /\ UNCHANGED <<shm, registered, storage, owns, cleaner, fixed>>

\* cleanup_shared_memory: Drop of Sender and Receiver, and of a port whose
\* settings are incompatible.
RemovePort(p) ==
  LET g == storage[p] IN
  /\ alive[p] /\ pc[p] = "drop"
  /\ storages' = [storages EXCEPT ![g].state = remove_state(@, p)]
  /\ IF storages'[g].state = Marked
     THEN Go(p, "unlink") /\ UNCHANGED <<storage, owns>>
     ELSE Unmap(p)
  /\ UNCHANGED <<linked, segment, registered, cleaner, fixed>>

\* Drop of a storage with ownership: whatever has the name now is unlinked.
Unlink(p) ==
  /\ alive[p] /\ pc[p] = "unlink"
  /\ linked' = 0
  /\ Unmap(p)
  /\ UNCHANGED <<storages, segment, registered, cleaner, fixed>>

\* The process of the port crashes.
Dies(p) ==
  /\ alive[p] /\ pc[p] # "gone"
  /\ alive' = [alive EXCEPT ![p] = FALSE]
  /\ UNCHANGED <<shm, segment, compatible, registered, pc, storage, owns,
                 cleaner, timed_out>>

---------------------------------------------------------------------------
CGo(p, here) == c_pc' = [c_pc EXCEPT ![p] = here]

\* What comes after the connections of the dead port: a sender's segment.
AfterConnections(p) == IF p = "sender" THEN "segment" ELSE "release"

\* remove_sender_port_from_all_connections and its twin list the connections.
ListConnections(p) ==
  /\ ~alive[p] /\ registered[p] = "registered" /\ c_pc[p] = "off"
  /\ CGo(p, IF linked # 0 THEN "open" ELSE AfterConnections(p))
  /\ UNCHANGED <<shm, segment, registered, pc, storage, owns, c_storage, fixed>>

\* open_storage, without a timeout.  If the connection has vanished meanwhile
\* (CleanupRaceDetected) or is not initialised, the port is skipped for good.
CleanerOpen(p) ==
  /\ c_pc[p] = "open"
  /\ IF linked = 0 \/ ~storages[linked].ready
     THEN CGo(p, "skipped") /\ UNCHANGED c_storage
     ELSE CGo(p, "remove") /\ c_storage' = [c_storage EXCEPT ![p] = linked]
  /\ UNCHANGED <<shm, segment, registered, pc, storage, owns, fixed>>

\* remove_sender, remove_receiver.
CleanerRemovePort(p) ==
  LET g == c_storage[p] IN
  /\ c_pc[p] = "remove"
  /\ storages' = [storages EXCEPT ![g].state = remove_state(@, p)]
  /\ CGo(p, IF storages'[g].state = Marked THEN "unlink" ELSE AfterConnections(p))
  /\ c_storage' = [c_storage EXCEPT ![p] = 0]
  /\ UNCHANGED <<linked, segment, registered, pc, storage, owns, fixed>>

CleanerUnlink(p) ==
  /\ c_pc[p] = "unlink"
  /\ linked' = 0
  /\ CGo(p, AfterConnections(p))
  /\ UNCHANGED <<storages, segment, registered, pc, storage, owns, c_storage, fixed>>

\* remove_data_segment_of_port.
CleanerRemoveSegment(p) ==
  /\ c_pc[p] = "segment"
  /\ segment' = FALSE
  /\ CGo(p, "release")
  /\ UNCHANGED <<shm, registered, pc, storage, owns, c_storage, fixed>>

\* PortCleanupAction::RemovePort: the port is released from the registry.
CleanerRelease(p) ==
  /\ c_pc[p] = "release"
  /\ registered' = [registered EXCEPT ![p] = "left"]
  /\ CGo(p, "done")
  /\ UNCHANGED <<shm, segment, pc, storage, owns, c_storage, fixed>>

\* The cleaner crashes; another one starts over.
CleanerDies(p) ==
  /\ c_pc[p] \notin {"off", "skipped", "done"}
  /\ CGo(p, "off")
  /\ c_storage' = [c_storage EXCEPT ![p] = 0]
  /\ UNCHANGED <<shm, segment, registered, pc, storage, owns, fixed>>

---------------------------------------------------------------------------
Attempt(p) ==
  \/ OpenStorage(p) \/ CreateStorage(p) \/ InitStorage(p) \/ ReservePort(p)
  \/ p = "receiver" /\ OpenSegment

Cleanup(p) ==
  \/ ListConnections(p) \/ CleanerOpen(p) \/ CleanerRemovePort(p)
  \/ CleanerUnlink(p) \/ CleanerRemoveSegment(p) \/ CleanerRelease(p)

LifecycleNext ==
  \E p \in Ports :
    \/ New(p) \/ Register(p) \/ UpdateConnections(p) \/ Attempt(p)
    \/ Leave(p) \/ (p = "sender" /\ FreeSegment) \/ RemovePort(p) \/ Unlink(p)
    \/ Dies(p) \/ Cleanup(p) \/ CleanerDies(p)

LifecycleSpec == LifecycleInit /\ [][LifecycleNext]_lifecycleVars

\* The thread of a port that is connecting keeps running.
LifecycleFairness == \A p \in Ports : WF_lifecycleVars(Attempt(p))

LifecycleFairSpec == LifecycleSpec /\ LifecycleFairness

---------------------------------------------------------------------------
\* While both ports live and ask for the same settings, the name leads to the
\* storage that a connected port uses, and its state word shows the port: the
\* peer finds it there, and two connected ports share it.  No creation race and
\* no unlink by name that comes late, of an owner whose reservation failed or of
\* the last port out, separates them.  (After the death of the peer its cleaner
\* may unlink a storage that the living port has created meanwhile.)
PortsMeet ==
  \A p \in Ports :
    compatible /\ alive[p] /\ alive[Peer(p)] /\ Connected(p) =>
      linked = storage[p] /\ p \in State(linked)

\* The port is finished, or its node is dead and nobody will clean up any more.
Finished(p) ==
  \/ pc[p] = "gone"
  \/ ~alive[p] /\ (registered[p] # "registered" \/ c_pc[p] = "skipped")

\* Deaths the clean-up does not cover: before the port was registered or after it
\* was released, where the cleaner does not find it; and while it creates the
\* storage, as long as the state word does not show it.
DiedUnregistered(p) ==
  ~alive[p] /\ registered[p] # "registered" /\ c_pc[p] # "done"

DiedCreating(p) == ~alive[p] /\ pc[p] \in {"init", "reserve"}

\* When both ports have left or have been cleaned up after their death, the
\* connection is unlinked, unless a port died in one of the uncovered windows;
\* and the data segment is removed, unless the sender died unregistered or the
\* cleaner skipped it because the connection vanished between list and open or
\* was just being created.
NothingLeftBehind ==
  (\A p \in Ports : Finished(p)) =>
    /\ linked # 0 => \E p \in Ports : DiedCreating(p) \/ DiedUnregistered(p)
    /\ segment => DiedUnregistered("sender") \/ c_pc["sender"] = "skipped"

\* If both ports live on, stay registered with the same settings, and no wait
\* exceeds the timeout, then a port that began to connect is connected in the
\* end: open_or_create does not loop for ever between opening and creating.
ConnectsInTheEnd ==
  [](compatible /\ ~timed_out /\ \A p \in Ports : alive[p] /\ registered[p] # "left")
    => \A p \in Ports : pc[p] = "open" ~> Connected(p)

=============================================================================
