--------------------------- MODULE ServiceLifecycle ---------------------------
(***************************************************************************)
(* How a service comes into being, is shared by nodes and goes away:       *)
(* open_or_create() of iceoryx2/src/service/builder/publish_subscribe.rs   *)
(* and builder/mod.rs, the drop of ServiceState and the removal of a dead  *)
(* node in service/mod.rs, on the file of the static config                *)
(* (iceoryx2-cal/src/static_storage/file.rs) and the shared memory of the  *)
(* dynamic config, which registers the nodes.                              *)
(*                                                                         *)
(* Both resources are found and removed BY NAME.  Every creation has a     *)
(* number, so that the model tells the resources of one creation from      *)
(* those of the next.  A node announces its interest with a tag, the only  *)
(* thing the cleaner of a dead node looks for.                             *)
(*                                                                         *)
(* A node uses the service through one handle at a time; the counter of    *)
(* RegisteredServices for further handles is not modelled, and a node      *)
(* whose creation failed in the end, which stays registered, makes no      *)
(* further call.  The node registry is the Container with its lock on the  *)
(* last removal: an index is taken first and then activated, deactivated   *)
(* first and then released, and a process may die in between.  A dead node *)
(* has at most one cleaner (ProcessMonitoring), which may die too.         *)
(***************************************************************************)
EXTENDS Naturals, FiniteSets

CONSTANTS
  Nodes,
  max_nodes,      \* capacity of the node registry
  MaxCreations,   \* how many static configs are created
  MaxDeaths       \* bound: how many nodes die

ASSUME ConstantsAssumption == {max_nodes, MaxCreations} \subseteq Nat \ {0}

VARIABLES
  static, dynamic,  \* the creation the two names refer to, 0: none
  unlocked,         \* creations whose static config has its content
  ready,            \* creations whose dynamic config is initialised
  borrowed,         \* per creation: the nodes with an index of the registry
  nodes,            \* per creation: those whose index is active
  locked,           \* creations whose registry is locked: marked for destruction
  created,          \* number of creations so far
  tag,              \* nodes with a service tag
  alive,            \* nodes whose process lives
  pc, st, dy,       \* per node: where it is, the configs it has open
  c_pc, c_dy,       \* per node: the cleaner that removes the dead node
  disputed,         \* history: a cleaner removed resources for a node that was
                    \* not registered in them, or a registered creator failed
  mixed             \* history: creations joined with the static config of another

vars == <<static, dynamic, unlocked, ready, borrowed, nodes, locked, created, tag,
          alive, pc, st, dy, c_pc, c_dy, disputed, mixed>>

Creations == 1..MaxCreations

names == <<static, dynamic>>
registry == <<borrowed, nodes, locked, mixed>>
content == <<unlocked, ready, created>>
cleaner == <<c_pc, c_dy, disputed>>

Init ==
  /\ static = 0 /\ dynamic = 0 /\ created = 0
  /\ unlocked = {} /\ ready = {} /\ locked = {} /\ tag = {}
  /\ borrowed = [g \in Creations |-> {}] /\ nodes = [g \in Creations |-> {}]
  /\ alive = Nodes
  /\ pc = [n \in Nodes |-> "idle"]
  /\ st = [n \in Nodes |-> 0] /\ dy = [n \in Nodes |-> 0]
  /\ c_pc = [n \in Nodes |-> "off"] /\ c_dy = [n \in Nodes |-> 0]
  /\ disputed = FALSE /\ mixed = {}

At(n, here) == n \in alive /\ pc[n] = here
Go(n, here) == pc' = [pc EXCEPT ![n] = here]

\* The node has given up, or has left: it holds nothing.
Release(n) ==
  /\ Go(n, "idle")
  /\ st' = [st EXCEPT ![n] = 0] /\ dy' = [dy EXCEPT ![n] = 0]

---------------------------------------------------------------------------
IsServiceAvailable_despite_lock(n) ==
  /\ At(n, "idle")
  /\ \/ static = 0 /\ Go(n, "tag_create") /\ UNCHANGED st
     \/ /\ static # 0
        /\ st' = [st EXCEPT ![n] = static]
        /\ Go(n, "tag_open")
  /\ UNCHANGED <<names, content, registry, tag, alive, dy, cleaner>>

\* open_or_create_impl, is_service_available: without a static config the
\* service is created, with one that has its content it is opened.  A locked one
\* is waited for; after the timeout the call fails.
IsServiceAvailable(n) ==
  /\ At(n, "idle")
  /\ \/ static = 0 /\ Go(n, "tag_create") /\ UNCHANGED st
     \/ /\ static \in unlocked
        /\ st' = [st EXCEPT ![n] = static]
        /\ Go(n, "tag_open")
  /\ UNCHANGED <<names, content, registry, tag, alive, dy, cleaner>>

CreateTag(n) ==
  /\ \/ At(n, "tag_create") /\ Go(n, "create_static")
     \/ At(n, "tag_open") /\ Go(n, "open_dynamic")
  /\ tag' = tag \cup {n}
  /\ UNCHANGED <<names, content, registry, alive, st, dy, cleaner>>

\* A failure drops the tag, after what else the call owns.  A creator that failed
\* after it was registered stays so.
DropTag(n) ==
  /\ \/ At(n, "drop_tag") /\ Release(n)
     \/ At(n, "fail_tag") /\ Go(n, "failed") /\ UNCHANGED <<st, dy>>
  /\ tag' = tag \ {n}
  /\ UNCHANGED <<names, content, registry, alive, cleaner>>

\* create_static_config_storage: exclusively, and locked.
CreateStatic(n) ==
  /\ At(n, "create_static")
  /\ \/ /\ static = 0 /\ created < MaxCreations
        /\ created' = created + 1
        /\ static' = created'
        /\ st' = [st EXCEPT ![n] = created']
        /\ Go(n, "create_dynamic")
     \/ /\ static # 0
        /\ Go(n, "drop_tag")
        /\ UNCHANGED <<created, static, st>>
  /\ UNCHANGED <<dynamic, unlocked, ready, registry, tag, alive, dy, cleaner>>

\* create_dynamic_config_storage: a dynamic config that still exists makes the
\* call fail (ServiceInCorruptedState), which removes the static config again.
CreateDynamic(n) ==
  /\ At(n, "create_dynamic")
  /\ \/ /\ dynamic = 0
        /\ dynamic' = st[n]
        /\ dy' = [dy EXCEPT ![n] = st[n]]
        /\ Go(n, "init")
     \/ /\ dynamic # 0
        /\ Go(n, "drop_static")
        /\ UNCHANGED <<dynamic, dy>>
  /\ UNCHANGED <<static, content, registry, tag, alive, st, cleaner>>

DropStatic(n) ==
  /\ \/ At(n, "drop_static") /\ Go(n, "drop_tag")
     \/ At(n, "fail_static") /\ Go(n, "fail_tag")
  /\ static' = 0
  /\ UNCHANGED <<dynamic, content, registry, tag, alive, st, dy, cleaner>>

InitDynamic(n) ==
  /\ At(n, "init")
  /\ ready' = ready \cup {dy[n]}
  /\ Go(n, "register_first")
  /\ UNCHANGED <<names, unlocked, created, registry, tag, alive, st, dy, cleaner>>

\* An index of the registry for the node, refused when the registry is marked for
\* destruction or full.
CanBorrow(n) == dy[n] \notin locked /\ Cardinality(borrowed[dy[n]]) < max_nodes
Borrow(n) == borrowed' = [borrowed EXCEPT ![dy[n]] = @ \cup {n}]

\* register_node_id of the creator, which must not fail: "since event the first
\* NodeId could not be registered" is a fatal panic.
RegisterFirst(n) ==
  /\ At(n, "register_first")
  /\ \/ CanBorrow(n) /\ Borrow(n) /\ Go(n, "activate_first")
     \/ ~CanBorrow(n) /\ Go(n, "panicked") /\ UNCHANGED borrowed
  /\ UNCHANGED <<names, content, nodes, locked, mixed, tag, alive, st, dy, cleaner>>

\* ... and the index is active: from now on a cleaner finds the node.
Activate(n) ==
  /\ \/ At(n, "activate_first") /\ Go(n, "unlock")
     \/ At(n, "activate") /\ Go(n, "open")
  /\ nodes' = [nodes EXCEPT ![dy[n]] = @ \cup {n}]
  /\ UNCHANGED <<names, content, borrowed, locked, mixed, tag, alive, st, dy, cleaner>>

\* The static config gets its content, only now: the service is complete.
Unlock(n) ==
  /\ At(n, "unlock")
  /\ unlocked' = unlocked \cup {st[n]}
  /\ Go(n, "open")
  /\ UNCHANGED <<names, ready, created, registry, tag, alive, st, dy, cleaner>>

\* The content could not be serialised or written: the call removes the static
\* config and the tag, but owns neither the dynamic config nor the registration.
FailUnlock(n) ==
  /\ At(n, "unlock")
  /\ Go(n, "fail_static")
  /\ disputed' = TRUE
  /\ UNCHANGED <<names, content, registry, tag, alive, st, dy, c_pc, c_dy>>

\* open_dynamic_config_storage: missing is a failure, a config that is not
\* initialised is waited for until a timeout, and the whole call repeated.
OpenDynamic(n) ==
  /\ At(n, "open_dynamic")
  /\ IF dynamic \in ready
     THEN dy' = [dy EXCEPT ![n] = dynamic] /\ Go(n, "register")
     ELSE Go(n, "drop_tag") /\ UNCHANGED dy
  /\ UNCHANGED <<names, content, registry, tag, alive, st, cleaner>>

Join(n) ==
  /\ Borrow(n)
  /\ mixed' = IF st[n] = dy[n] THEN mixed ELSE mixed \cup {dy[n]}
  /\ Go(n, "activate")

Register_despite_lock(n) ==
  /\ At(n, "register")
  /\ IF Cardinality(borrowed[dy[n]]) >= max_nodes
     THEN Go(n, "drop_tag") /\ UNCHANGED <<borrowed, mixed>>
     ELSE Join(n)
  /\ UNCHANGED <<names, content, nodes, locked, tag, alive, st, dy, cleaner>>

\* ... and register_node_id.
Register(n) ==
  /\ At(n, "register")
  /\ \/ CanBorrow(n) /\ Join(n)
     \/ ~CanBorrow(n) /\ Go(n, "drop_tag") /\ UNCHANGED <<borrowed, mixed>>
  /\ UNCHANGED <<names, content, nodes, locked, tag, alive, st, dy, cleaner>>

\* deregister_node_id: the index is deactivated first ...
Deactivate(g, n) ==
  nodes' = [nodes EXCEPT ![g] = @ \ {n}] /\ UNCHANGED <<borrowed, locked, mixed>>

\* ... and then released, LockIfLastIndex: the last node out locks the registry.
ReleaseIndex(g, n) ==
  /\ borrowed' = [borrowed EXCEPT ![g] = @ \ {n}] /\ UNCHANGED <<nodes, mixed>>
  /\ locked' = IF borrowed[g] = {n} THEN locked \cup {g} ELSE locked

\* ServiceState::drop: the tag goes first, then the node leaves the registry; the
\* last one drops the dynamic and then the static config with ownership.
RemoveTag(n) ==
  /\ At(n, "open")
  /\ tag' = tag \ {n}
  /\ Go(n, "deregister")
  /\ UNCHANGED <<names, content, registry, alive, st, dy, cleaner>>

Deregister(n) ==
  /\ At(n, "deregister")
  /\ Deactivate(dy[n], n)
  /\ Go(n, "release")
  /\ UNCHANGED <<names, content, tag, alive, st, dy, cleaner>>

DeregisterRelease(n) ==
  /\ At(n, "release")
  /\ ReleaseIndex(dy[n], n)
  /\ IF borrowed[dy[n]] = {n} THEN Go(n, "unlink_dynamic") /\ UNCHANGED <<st, dy>>
                              ELSE Release(n)
  /\ UNCHANGED <<names, content, tag, alive, cleaner>>

UnlinkDynamic(n) ==
  /\ At(n, "unlink_dynamic")
  /\ dynamic' = 0
  /\ Go(n, "unlink_static")
  /\ UNCHANGED <<static, content, registry, tag, alive, st, dy, cleaner>>

UnlinkStatic(n) ==
  /\ At(n, "unlink_static")
  /\ static' = 0
  /\ Release(n)
  /\ UNCHANGED <<dynamic, content, registry, tag, alive, cleaner>>

\* The process of the node crashes; its pc stays where it was.
Dies(n) ==
  /\ n \in alive /\ Cardinality(Nodes \ alive) < MaxDeaths
  /\ alive' = alive \ {n}
  /\ UNCHANGED <<names, content, registry, tag, pc, st, dy, cleaner>>

---------------------------------------------------------------------------
CGo(n, here) == c_pc' = [c_pc EXCEPT ![n] = here]

\* __internal_remove_node_from_service for every tag of the dead node: without an
\* initialised dynamic config the service counts as corrupted.
CleanerOpen(n) ==
  /\ n \notin alive /\ n \in tag /\ c_pc[n] = "off"
  /\ IF dynamic \in ready
     THEN /\ CGo(n, "remove_node") /\ c_dy' = [c_dy EXCEPT ![n] = dynamic]
          /\ UNCHANGED disputed
     ELSE /\ CGo(n, "remove_corrupted") /\ UNCHANGED <<c_dy, disputed>>
  /\ UNCHANGED <<names, content, registry, tag, alive, pc, st, dy>>

CleanerRemoveNode_ignores_mark(n) ==
  /\ c_pc[n] = "remove_node"
  /\ IF n \in nodes[c_dy[n]]
     THEN Deactivate(c_dy[n], n) /\ CGo(n, "release_node")
     ELSE UNCHANGED registry /\ CGo(n, "remove_tag")
  /\ UNCHANGED <<names, content, tag, alive, pc, st, dy, c_dy, disputed>>

\* remove_dead_node_id: a node that is not registered only asks whether the
\* registry is locked.
CleanerRemoveNode(n) ==
  /\ c_pc[n] = "remove_node"
  /\ IF n \in nodes[c_dy[n]]
     THEN Deactivate(c_dy[n], n) /\ CGo(n, "release_node") /\ UNCHANGED disputed
     ELSE /\ UNCHANGED registry /\ disputed' = (disputed \/ c_dy[n] \in locked)
          /\ CGo(n, IF c_dy[n] \in locked THEN "remove_static" ELSE "remove_tag")
  /\ UNCHANGED <<names, content, tag, alive, pc, st, dy, c_dy>>

CleanerReleaseNode(n) ==
  /\ c_pc[n] = "release_node"
  /\ ReleaseIndex(c_dy[n], n)
  /\ CGo(n, IF borrowed[c_dy[n]] = {n} THEN "remove_static" ELSE "remove_tag")
  /\ UNCHANGED <<names, content, tag, alive, pc, st, dy, c_dy, disputed>>

\* remove_static_service_config: the static config first ...
CleanerRemoveStatic(n) ==
  /\ c_pc[n] \in {"remove_static", "remove_corrupted"}
  /\ static' = 0
  /\ disputed' = (disputed \/ (c_pc[n] = "remove_corrupted" /\ static # 0))
  /\ CGo(n, IF c_pc[n] = "remove_static" THEN "remove_dynamic" ELSE "remove_tag")
  /\ UNCHANGED <<dynamic, content, registry, tag, alive, pc, st, dy, c_dy>>

\* ... then the dynamic config is dropped with ownership.
CleanerRemoveDynamic(n) ==
  /\ c_pc[n] = "remove_dynamic"
  /\ dynamic' = 0
  /\ CGo(n, "remove_tag")
  /\ UNCHANGED <<static, content, registry, tag, alive, pc, st, dy, c_dy, disputed>>

CleanerRemoveTag(n) ==
  /\ c_pc[n] = "remove_tag"
  /\ tag' = tag \ {n}
  /\ CGo(n, "off")
  /\ c_dy' = [c_dy EXCEPT ![n] = 0]
  /\ UNCHANGED <<names, content, registry, alive, pc, st, dy, disputed>>

CleanerDies(n) ==
  /\ c_pc[n] # "off"
  /\ CGo(n, "off")
  /\ c_dy' = [c_dy EXCEPT ![n] = 0]
  /\ UNCHANGED <<names, content, registry, tag, alive, pc, st, dy, disputed>>

---------------------------------------------------------------------------
Create(n) ==
  \/ CreateStatic(n) \/ CreateDynamic(n) \/ DropStatic(n)
  \/ InitDynamic(n) \/ RegisterFirst(n) \/ Activate(n) \/ Unlock(n) \/ FailUnlock(n)

Open(n) == IsServiceAvailable(n) \/ CreateTag(n) \/ DropTag(n) \/ OpenDynamic(n) \/ Register(n)

Close(n) ==
  RemoveTag(n) \/ Deregister(n) \/ DeregisterRelease(n) \/ UnlinkDynamic(n) \/ UnlinkStatic(n)

Cleanup(n) ==
  \/ CleanerOpen(n) \/ CleanerRemoveNode(n) \/ CleanerReleaseNode(n)
  \/ CleanerRemoveStatic(n) \/ CleanerRemoveDynamic(n) \/ CleanerRemoveTag(n)

Next ==
  \E n \in Nodes :
    Create(n) \/ Open(n) \/ Close(n) \/ Dies(n) \/ Cleanup(n) \/ CleanerDies(n)

Spec == Init /\ [][Next]_vars

---------------------------------------------------------------------------
\* As long as no cleaner acted for a node that was not registered and no creator
\* failed after it was (disputed), a node that has the service open finds it whole:
\* both names lead to the creation it is registered in, and that is not marked for
\* destruction.  Neither the last node that leaves, nor a creator that fails
\* earlier, nor the cleaner of a dead node, all of which remove by name, takes the
\* service from a node that joins meanwhile.
ServiceIntact ==
  \A n \in alive : pc[n] = "open" /\ ~disputed =>
    /\ static = dy[n] /\ dynamic = dy[n]
    /\ n \in nodes[dynamic] /\ dynamic \notin locked

\* The creator can register itself: the static config is unlocked only after it
\* did, so nobody can have joined and left before, up to the nodes that still
\* hold the static config of an earlier creation and open the dynamic config by
\* its name.
FirstNodeRegisters ==
  \A n \in Nodes : pc[n] = "panicked" => dy[n] \in mixed

\* Nobody uses the service and no cleaner has anything left to do.
Quiet ==
  /\ \A n \in alive : pc[n] \in {"idle", "failed"}
  /\ \A n \in Nodes \ alive : n \notin tag /\ c_pc[n] = "off"

DiedAt(where) == \E n \in Nodes \ alive : pc[n] \in where

\* The registry has an entry that nobody will take out: an index lost by a node or a
\* cleaner that died between the two steps of taking or returning it, or the creator
\* that could not write the static config.
Kept(g) ==
  /\ g \in ready \ locked
  /\ borrowed[g] # nodes[g] \/ \E n \in Nodes : pc[n] = "failed" /\ dy[n] = g

\* When all nodes have left or have died and have been cleaned up, in whatever
\* order, the service is gone, unless a node died in a place the clean-up does not
\* cover (a creator before it was registered, a node that has removed its tag and
\* not yet finished to leave), or a registry cannot become empty.  Of a dynamic
\* config that stays, one of its own nodes died there, or its own registry cannot.
ServiceRemoved ==
  Quiet =>
    /\ static # 0 =>
         \/ DiedAt({"register_first", "deregister", "unlink_dynamic", "unlink_static"})
         \/ \E g \in Creations : Kept(g)
    /\ dynamic # 0 =>
         \/ \E n \in Nodes \ alive :
              dy[n] = dynamic /\ pc[n] \in {"init", "register_first", "deregister", "unlink_dynamic"}
         \/ Kept(dynamic)

=============================================================================
