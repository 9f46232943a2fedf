------------------------ MODULE ServiceLifecycleProofs ------------------------
(***************************************************************************)
(* For any number of nodes and creations: a node that has the service open *)
(* finds both configs in place as long as no cleaner acted for a node that *)
(* was not registered, the first registration fails only after a node      *)
(* joined with the static config of another creation, and when everybody   *)
(* has left or has been cleaned up, the configs are gone.                  *)
(***************************************************************************)
EXTENDS ServiceLifecycle, TLAPS

\* The dynamic config of the creation is not initialised yet.
Fresh == {"create_dynamic", "drop_static", "init"}

\* The static config of the creation is locked, and stays so if the creator fails.
Creating == Fresh \cup {"register_first", "activate_first", "unlock"}
Failing == {"fail_static", "fail_tag", "failed"}

Opening == {"tag_open", "open_dynamic", "register"}
Leaving == {"unlink_dynamic", "unlink_static"}

Labels ==
  Creating \cup Opening \cup Leaving
    \cup {"idle", "tag_create", "create_static", "drop_tag", "activate", "open", "deregister",
          "release", "panicked"} \cup Failing

CleanerLabels ==
  {"off", "remove_node", "release_node", "remove_static", "remove_dynamic",
   "remove_corrupted", "remove_tag"}

TypeInv ==
  /\ created \in Nat /\ created <= MaxCreations
  /\ static \in Nat /\ dynamic \in Nat
  /\ unlocked \subseteq Creations /\ ready \subseteq Creations
  /\ borrowed \in [Creations -> SUBSET Nodes] /\ nodes \in [Creations -> SUBSET Nodes]
  /\ alive \subseteq Nodes
  /\ pc \in [Nodes -> Labels] /\ c_pc \in [Nodes -> CleanerLabels]
  /\ st \in [Nodes -> Nat] /\ dy \in [Nodes -> Nat] /\ c_dy \in [Nodes -> Nat]
  /\ disputed \in BOOLEAN

\* Every creation has one creator, which alone knows it until it is unlocked.
CreationInv ==
  /\ \A g \in ready \cup unlocked : g <= created
  /\ \A n \in Nodes : pc[n] \in Creating =>
       st[n] \in Creations /\ st[n] <= created /\ st[n] \notin unlocked
  /\ \A n \in Nodes : pc[n] \in Fresh => st[n] \notin ready
  /\ \A n \in Nodes : pc[n] \in Creating \ {"create_dynamic", "drop_static"} => dy[n] = st[n]
  /\ \A n, m \in Nodes : pc[n] \in Creating /\ pc[m] \in Creating /\ st[n] = st[m] => n = m
  /\ \A n \in Nodes : pc[n] \in Opening => st[n] \in unlocked

\* Where a node has its index taken, and where it is active.
Borrowing == {"activate_first", "activate", "release"}
Active == {"unlock", "open", "deregister"} \cup Failing

\* Nodes are registered in initialised configs only; who is registered stays so
\* until it leaves or its cleaner removes it, and a locked registry is empty.
RegistryInv ==
  /\ locked \subseteq ready
  /\ \A g \in Creations : nodes[g] \subseteq borrowed[g]
  /\ \A g \in Creations : borrowed[g] # {} => g \in ready \ locked
  /\ \A n \in Nodes :
       pc[n] \in Leaving \cup Borrowing \cup Active \cup {"register_first", "register"}
         => dy[n] \in ready
  /\ \A n \in alive : pc[n] \in Active => n \in nodes[dy[n]]
  /\ \A n \in alive : pc[n] \in Borrowing => n \in borrowed[dy[n]]
  /\ \A n \in alive : pc[n] = "release" => n \notin nodes[dy[n]]
  /\ \A n \in Nodes :
       c_pc[n] \in {"remove_node", "release_node", "remove_static", "remove_dynamic"}
         => c_dy[n] \in ready
  /\ \A n \in Nodes : c_pc[n] = "release_node" => n \in borrowed[c_dy[n]] \ nodes[c_dy[n]]
  /\ \A n \in Nodes : c_pc[n] # "off" => n \notin alive

\* Who joins a creation before its creator has registered had read another one.
FirstInv ==
  \A n \in Nodes :
    /\ pc[n] = "register_first" =>
         dy[n] \in mixed \/ (borrowed[dy[n]] = {} /\ dy[n] \notin locked)
    /\ pc[n] = "panicked" => dy[n] \in mixed

\* A config that can be joined has both names.
Joinable == \A g \in ready \ locked : static = g /\ dynamic = g

CreatorOwns ==
  \A n \in alive :
    /\ pc[n] \in Fresh => static = st[n]
    /\ pc[n] = "init" => dynamic = st[n]
    /\ pc[n] \notin Failing

\* Who removes a locked creation finds it under the names.
RemoverOwns ==
  /\ \A n \in alive :
       /\ pc[n] \in Leaving => dy[n] \in locked /\ static = dy[n]
       /\ pc[n] = "unlink_dynamic" => dynamic = dy[n]
  /\ \A n \in Nodes :
       /\ c_pc[n] = "remove_static" => c_dy[n] \in locked /\ static = c_dy[n] /\ dynamic = c_dy[n]
       /\ c_pc[n] = "remove_dynamic" => c_dy[n] \in locked /\ dynamic = c_dy[n]

CleanerRemoves(n) == c_pc[n] \in {"remove_static", "remove_dynamic"}

\* Nobody else removes it.
OneRemover ==
  /\ \A n, m \in alive :
       pc[n] \in Leaving /\ pc[m] \in Leaving /\ dy[n] = dy[m] => n = m
  /\ \A n, m \in Nodes : CleanerRemoves(n) /\ CleanerRemoves(m) /\ c_dy[n] = c_dy[m] => n = m
  /\ \A n \in alive, m \in Nodes : pc[n] \in Leaving /\ CleanerRemoves(m) => dy[n] # c_dy[m]

Owned == Joinable /\ CreatorOwns /\ RemoverOwns /\ OneRemover

\* ... as long as no cleaner has acted for a node that was not registered and no
\* registered creator has failed.
OwnerInv == ~disputed => Owned

IInv == TypeInv /\ CreationInv /\ RegistryInv /\ FirstInv /\ OwnerInv

\* The registry of a new creation is empty.
LEMMA EmptyCount == Cardinality({}) = 0
  <1> DEFINE F(f) == [T \in SUBSET {} |-> IF T = {} THEN 0
                                         ELSE 1 + f[T \ {CHOOSE x : x \in T}]]
             CS == CHOOSE f : f = F(f)
             Z == [T \in SUBSET {} |-> 0]
  <1>1. Z = F(Z)
    BY ZenonT(60)
  <1>2. CS = F(CS)
    <2>1. \E f : f = F(f)
      BY <1>1, ZenonT(60)
    <2> QED BY <2>1, ZenonT(60)
  <1>3. CS[{}] = 0
    <2> HIDE DEF CS
    <2> QED BY <1>2, ZenonT(60)
  <1>4. Cardinality({}) = CS[{}]
    BY ZenonT(60) DEF Cardinality
  <1> QED BY <1>3, <1>4, ZenonT(60)

---------------------------------------------------------------------------
\* The bounds are positive numbers.
LEMMA Bounds == MaxCreations \in Nat \ {0} /\ max_nodes \in Nat \ {0}
  BY ConstantsAssumption, ZenonT(60)

\* Nothing exists yet.
LEMMA InitInv == Init => IInv
  <1> SUFFICES ASSUME Init PROVE IInv OBVIOUS
  <1> USE Bounds DEF Init, Labels, CleanerLabels, Creating, Fresh, Opening, Leaving, Failing,
                     Borrowing, Active
  <1>1. TypeInv
    <2>1. pc \in [Nodes -> Labels] /\ c_pc \in [Nodes -> CleanerLabels]
      BY ZenonT(60)
    <2>2. /\ borrowed \in [Creations -> SUBSET Nodes] /\ nodes \in [Creations -> SUBSET Nodes]
          /\ disputed \in BOOLEAN
      BY ZenonT(60)
    <2>3. st \in [Nodes -> Nat] /\ dy \in [Nodes -> Nat] /\ c_dy \in [Nodes -> Nat]
      BY ZenonT(60)
    <2> QED BY <2>1, <2>2, <2>3 DEF TypeInv
  <1>2. CreationInv /\ RegistryInv /\ FirstInv
    BY ZenonT(60) DEF CreationInv, RegistryInv, FirstInv, Creations
  <1>3. OwnerInv
    BY ZenonT(60) DEF OwnerInv, Owned, Joinable, CreatorOwns, RemoverOwns, OneRemover, CleanerRemoves
  <1> QED BY <1>1, <1>2, <1>3, ZenonT(60) DEF IInv

Step(n) == Create(n) \/ Open(n) \/ Close(n) \/ Dies(n) \/ Cleanup(n) \/ CleanerDies(n)

\* Every step keeps the types.
LEMMA TypeStep ==
  ASSUME IInv, NEW n \in Nodes, Step(n)
  PROVE  TypeInv'
  <1> TypeInv /\ CreationInv /\ RegistryInv
    BY ZenonT(60) DEF IInv
  <1> Creations \subseteq Nat
    BY Bounds DEF Creations
  <1> USE DEF TypeInv, Labels, Creating, Fresh, Opening, Leaving, Failing, CleanerLabels,
              At, Go, CGo, names, registry, content, cleaner
  <1>1. CASE IsServiceAvailable(n)
    <2>1. CASE static = 0
      BY <1>1, <2>1 DEF IsServiceAvailable
    <2>2. CASE static # 0
      BY <1>1, <2>2 DEF IsServiceAvailable
    <2> QED BY <2>1, <2>2, ZenonT(60)
  <1>2. CASE CreateTag(n)
    BY <1>2, ZenonT(60) DEF CreateTag
  <1>3. CASE DropTag(n)
    <2>1. CASE At(n, "drop_tag")
      <3>1. st' = [st EXCEPT ![n] = 0] /\ dy' = [dy EXCEPT ![n] = 0] /\ pc' = [pc EXCEPT ![n] = "idle"]
        BY <1>3, <2>1, ZenonT(60) DEF DropTag, Release
      <3> QED BY <1>3, <3>1, ZenonT(60) DEF DropTag
    <2>2. CASE At(n, "fail_tag")
      BY <1>3, <2>2, ZenonT(60) DEF DropTag
    <2> QED BY <1>3, <2>1, <2>2, ZenonT(60) DEF DropTag
  <1>4. CASE CreateStatic(n)
    BY <1>4, Bounds DEF CreateStatic
  <1>5. CASE CreateDynamic(n)
    BY <1>5 DEF CreateDynamic
  <1>6. CASE DropStatic(n)
    BY <1>6, ZenonT(60) DEF DropStatic
  <1>7. CASE InitDynamic(n)
    <2>1. dy[n] \in Creations
      BY <1>7, ZenonT(60) DEF InitDynamic, CreationInv
    <2> QED BY <1>7, <2>1, ZenonT(60) DEF InitDynamic
  <1>8. CASE RegisterFirst(n)
    BY <1>8 DEF RegisterFirst, Borrow
  <1>9. CASE Unlock(n)
    <2>1. st[n] \in Creations
      BY <1>9, ZenonT(60) DEF Unlock, CreationInv
    <2> QED BY <1>9, <2>1, ZenonT(60) DEF Unlock
  <1>10. CASE OpenDynamic(n)
    BY <1>10, ZenonT(60) DEF OpenDynamic
  <1>11. CASE Register(n)
    BY <1>11 DEF Register, Join, Borrow
  <1>12. CASE RemoveTag(n)
    BY <1>12, ZenonT(60) DEF RemoveTag
  <1>13. CASE Deregister(n)
    <2>1. nodes' \in [Creations -> SUBSET Nodes]
      BY <1>13, ZenonT(60) DEF Deregister, Deactivate
    <2> QED BY <1>13, <2>1, ZenonT(60) DEF Deregister, Deactivate
  <1>14. CASE UnlinkDynamic(n)
    BY <1>14, ZenonT(60) DEF UnlinkDynamic
  <1>15. CASE UnlinkStatic(n)
    BY <1>15, ZenonT(60) DEF UnlinkStatic, Release
  <1>16. CASE Dies(n)
    BY <1>16, ZenonT(60) DEF Dies
  <1>17. CASE CleanerOpen(n)
    BY <1>17, ZenonT(60) DEF CleanerOpen
  <1>18. CASE CleanerRemoveNode(n)
    <2>1. nodes' \in [Creations -> SUBSET Nodes]
      <3>1. nodes' = nodes \/ nodes' = [nodes EXCEPT ![c_dy[n]] = @ \ {n}]
        BY <1>18, ZenonT(60) DEF CleanerRemoveNode, Deactivate
      <3> QED BY <3>1
    <2>2. disputed' \in BOOLEAN
      BY <1>18, ZenonT(60) DEF CleanerRemoveNode
    <2> QED BY <1>18, <2>1, <2>2, ZenonT(60) DEF CleanerRemoveNode, Deactivate
  <1>19. CASE CleanerRemoveStatic(n)
    BY <1>19, ZenonT(60) DEF CleanerRemoveStatic
  <1>20. CASE CleanerRemoveDynamic(n)
    BY <1>20, ZenonT(60) DEF CleanerRemoveDynamic
  <1>21. CASE CleanerRemoveTag(n)
    BY <1>21, ZenonT(60) DEF CleanerRemoveTag
  <1>22. CASE CleanerDies(n)
    BY <1>22, ZenonT(60) DEF CleanerDies
  <1>23. CASE Activate(n)
    <2>1. nodes' \in [Creations -> SUBSET Nodes]
      BY <1>23, ZenonT(60) DEF Activate
    <2>2. pc' \in [Nodes -> Labels]
      BY <1>23 DEF Activate
    <2>3. UNCHANGED <<created, static, dynamic, unlocked, ready, borrowed, alive, st, dy, c_pc, c_dy, disputed>>
      BY <1>23, ZenonT(60) DEF Activate
    <2> QED BY <2>1, <2>2, <2>3, ZenonT(60)
  <1>24. CASE FailUnlock(n)
    BY <1>24, ZenonT(60) DEF FailUnlock
  <1>25. CASE DeregisterRelease(n)
    <2>1. borrowed' \in [Creations -> SUBSET Nodes]
      BY <1>25, ZenonT(60) DEF DeregisterRelease, ReleaseIndex
    <2>2. CASE borrowed[dy[n]] = {n}
      BY <1>25, <2>1, <2>2, ZenonT(60) DEF DeregisterRelease, ReleaseIndex
    <2>3. CASE borrowed[dy[n]] # {n}
      BY <1>25, <2>1, <2>3 DEF DeregisterRelease, ReleaseIndex, Release
    <2> QED BY <2>2, <2>3, ZenonT(60)
  <1>26. CASE CleanerReleaseNode(n)
    <2>1. borrowed' \in [Creations -> SUBSET Nodes]
      BY <1>26, ZenonT(60) DEF CleanerReleaseNode, ReleaseIndex
    <2> QED BY <1>26, <2>1, ZenonT(60) DEF CleanerReleaseNode, ReleaseIndex
  <1> QED BY <1>1, <1>2, <1>3, <1>4, <1>5, <1>6, <1>7, <1>8, <1>9, <1>10, <1>11, <1>12, <1>13, <1>14,
             <1>15, <1>16, <1>17, <1>18, <1>19, <1>20, <1>21, <1>22, <1>23, <1>24, <1>25, <1>26, ZenonT(60)
         DEF Step, Create, Open, Close, Cleanup

\* What the node itself must keep when it moves and creates, initialises and
\* unlocks nothing.
LEMMA Moving ==
  ASSUME TypeInv, CreationInv, NEW n \in Nodes, NEW here, Go(n, here), UNCHANGED content,
         \A m \in Nodes \ {n} : st'[m] = st[m] /\ dy'[m] = dy[m],
         here \in Creating => pc[n] \in Creating /\ st'[n] = st[n],
         here \in Fresh => pc[n] \in Fresh,
         here \in Creating \ {"create_dynamic", "drop_static"} => dy'[n] = st'[n],
         here \in Opening => st'[n] \in unlocked
  PROVE  CreationInv'
  <1> unlocked' = unlocked /\ ready' = ready /\ created' = created
    BY ZenonT(60) DEF content
  <1>0. \A m \in Nodes : pc'[m] = IF m = n THEN here ELSE pc[m]
    BY ZenonT(60) DEF Go, TypeInv
  <1>1. \A m \in Nodes : pc'[m] \in Creating => pc[m] \in Creating /\ st'[m] = st[m]
    BY <1>0, ZenonT(60)
  <1>2. \A m \in Nodes : pc'[m] \in Fresh => st'[m] \notin ready
    BY <1>0, <1>1, ZenonT(60) DEF CreationInv, Creating
  <1>3. \A m \in Nodes : pc'[m] \in Creating \ {"create_dynamic", "drop_static"} => dy'[m] = st'[m]
    BY <1>0, ZenonT(60) DEF CreationInv
  <1>4. \A m \in Nodes : pc'[m] \in Opening => st'[m] \in unlocked
    BY <1>0, ZenonT(60) DEF CreationInv
  <1>5. \A k, m \in Nodes : pc'[k] \in Creating /\ pc'[m] \in Creating /\ st'[k] = st'[m] => k = m
    BY <1>1, ZenonT(60) DEF CreationInv
  <1>6. \A m \in Nodes : pc'[m] \in Creating =>
          st'[m] \in Creations /\ st'[m] <= created /\ st'[m] \notin unlocked
    BY <1>1, ZenonT(60) DEF CreationInv
  <1> QED BY <1>1, <1>2, <1>3, <1>4, <1>5, <1>6, ZenonT(60) DEF CreationInv

\* A creation gets a new number, and is known to others when it is unlocked.
LEMMA CreationStep ==
  ASSUME IInv, NEW n \in Nodes, Step(n)
  PROVE  CreationInv'
  <1> TypeInv /\ CreationInv
    BY ZenonT(60) DEF IInv
  <1> USE DEF TypeInv, CreationInv, Creating, Fresh, Opening, At, content
  <1>1. CASE IsServiceAvailable(n)
    BY <1>1, Moving, ZenonT(60) DEF IsServiceAvailable
  <1>2. CASE CreateTag(n)
    BY <1>2, Moving, ZenonT(60) DEF CreateTag
  <1>3. CASE DropTag(n)
    BY <1>3, Moving, ZenonT(60) DEF DropTag, Release
  <1>4. CASE CreateStatic(n)
    <2>1. CASE static # 0
      BY <1>4, <2>1, Moving, ZenonT(60) DEF CreateStatic
    <2>2. CASE static = 0
      <3>1. created' = created + 1 /\ created' \in Creations /\ ~(created' <= created)
        BY <1>4, <2>2, Bounds DEF CreateStatic, Creations
      <3>2. \A m \in Nodes : pc'[m] = IF m = n THEN "create_dynamic" ELSE pc[m]
        BY <1>4, <2>2, ZenonT(60) DEF CreateStatic, Go
      <3>3. \A m \in Nodes : st'[m] = IF m = n THEN created' ELSE st[m]
        BY <1>4, <2>2, ZenonT(60) DEF CreateStatic
      <3>4. unlocked' = unlocked /\ ready' = ready /\ dy' = dy
        BY <1>4, ZenonT(60) DEF CreateStatic
      <3>5. \A g \in Nat : g <= created => g <= created'
        BY <3>1
      <3> QED BY <3>1, <3>2, <3>3, <3>4, <3>5
    <2> QED BY <2>1, <2>2, ZenonT(60)
  <1>5. CASE CreateDynamic(n)
    BY <1>5, Moving, ZenonT(60) DEF CreateDynamic
  <1>6. CASE DropStatic(n)
    BY <1>6, Moving, ZenonT(60) DEF DropStatic
  <1>7. CASE InitDynamic(n)
    BY <1>7, ZenonT(60) DEF InitDynamic, Go
  <1>8. CASE RegisterFirst(n)
    BY <1>8, Moving, ZenonT(60) DEF RegisterFirst
  <1>9. CASE Unlock(n)
    BY <1>9, ZenonT(60) DEF Unlock, Go
  <1>10. CASE OpenDynamic(n)
    BY <1>10, Moving, ZenonT(60) DEF OpenDynamic
  <1>11. CASE Register(n)
    BY <1>11, Moving, ZenonT(60) DEF Register, Join
  <1>12. CASE RemoveTag(n)
    BY <1>12, Moving, ZenonT(60) DEF RemoveTag
  <1>13. CASE Deregister(n)
    BY <1>13, Moving, ZenonT(60) DEF Deregister
  <1>14. CASE UnlinkDynamic(n)
    BY <1>14, Moving, ZenonT(60) DEF UnlinkDynamic
  <1>15. CASE UnlinkStatic(n)
    BY <1>15, Moving, ZenonT(60) DEF UnlinkStatic, Release
  <1>16. CASE Dies(n)
    BY <1>16, ZenonT(60) DEF Dies
  <1>17. CASE CleanerOpen(n)
    BY <1>17, ZenonT(60) DEF CleanerOpen
  <1>18. CASE CleanerRemoveNode(n)
    BY <1>18, ZenonT(60) DEF CleanerRemoveNode
  <1>19. CASE CleanerRemoveStatic(n)
    BY <1>19, ZenonT(60) DEF CleanerRemoveStatic
  <1>20. CASE CleanerRemoveDynamic(n)
    BY <1>20, ZenonT(60) DEF CleanerRemoveDynamic
  <1>21. CASE CleanerRemoveTag(n)
    BY <1>21, ZenonT(60) DEF CleanerRemoveTag
  <1>22. CASE CleanerDies(n)
    BY <1>22, ZenonT(60) DEF CleanerDies
  <1>23. CASE Activate(n)
    BY <1>23, Moving, ZenonT(60) DEF Activate
  <1>24. CASE FailUnlock(n)
    BY <1>24, Moving, ZenonT(60) DEF FailUnlock
  <1>25. CASE DeregisterRelease(n)
    BY <1>25, Moving, ZenonT(60) DEF DeregisterRelease, Release
  <1>26. CASE CleanerReleaseNode(n)
    BY <1>26, ZenonT(60) DEF CleanerReleaseNode
  <1> QED BY <1>1, <1>2, <1>3, <1>4, <1>5, <1>6, <1>7, <1>8, <1>9, <1>10, <1>11, <1>12, <1>13, <1>14,
             <1>15, <1>16, <1>17, <1>18, <1>19, <1>20, <1>21, <1>22, <1>23, <1>24, <1>25, <1>26, ZenonT(60)
         DEF Step, Create, Open, Close, Cleanup

\* What the node itself must keep when it moves and the registry stays as it is.
LEMMA Staying ==
  ASSUME TypeInv, RegistryInv, NEW n \in Nodes, NEW here, Go(n, here),
         UNCHANGED <<ready, registry, alive, c_pc, c_dy>>,
         \A m \in Nodes \ {n} : dy'[m] = dy[m],
         here \in Leaving \cup Active \cup {"register_first", "register"} => dy'[n] \in ready,
         here \in Active => n \in nodes[dy'[n]], here \notin Borrowing
  PROVE  RegistryInv'
  <1>0. \A m \in Nodes : pc'[m] = IF m = n THEN here ELSE pc[m]
    BY ZenonT(60) DEF Go, TypeInv
  <1>1. UNCHANGED <<ready, borrowed, nodes, locked, alive, c_pc, c_dy>> /\ alive \subseteq Nodes
    BY ZenonT(60) DEF registry, TypeInv
  <1>2. \A m \in Nodes :
          pc'[m] \in Leaving \cup Borrowing \cup Active \cup {"register_first", "register"}
            => dy'[m] \in ready
    BY <1>0, ZenonT(60) DEF RegistryInv
  <1>3. \A m \in alive : pc'[m] \in Active => m \in nodes[dy'[m]]
    BY <1>0, <1>1, ZenonT(60) DEF RegistryInv
  <1>4. /\ \A m \in alive : pc'[m] \in Borrowing => m \in borrowed[dy'[m]]
        /\ \A m \in alive : pc'[m] = "release" => m \notin nodes[dy'[m]]
    BY <1>0, <1>1, ZenonT(60) DEF RegistryInv, Borrowing
  <1> QED BY <1>1, <1>2, <1>3, <1>4, ZenonT(60) DEF RegistryInv

\* The registry is locked when, and only when, the last node leaves it.
LEMMA RegistryStep ==
  ASSUME IInv, NEW n \in Nodes, Step(n)
  PROVE  RegistryInv'
  <1> TypeInv /\ CreationInv /\ RegistryInv
    BY ZenonT(60) DEF IInv
  <1> USE DEF TypeInv, Leaving, Borrowing, Active, Failing, At, content, cleaner
  <1>1. CASE IsServiceAvailable(n)
    BY <1>1, Staying, ZenonT(60) DEF IsServiceAvailable
  <1>2. CASE CreateTag(n)
    BY <1>2, Staying, ZenonT(60) DEF CreateTag
  <1>3. CASE DropTag(n)
    BY <1>3, Staying, ZenonT(60) DEF DropTag, Release, RegistryInv
  <1>4. CASE CreateStatic(n)
    BY <1>4, Staying, ZenonT(60) DEF CreateStatic
  <1>5. CASE CreateDynamic(n)
    BY <1>5, Staying, ZenonT(60) DEF CreateDynamic
  <1>6. CASE DropStatic(n)
    BY <1>6, Staying, ZenonT(60) DEF DropStatic, RegistryInv
  <1>9. CASE Unlock(n)
    BY <1>9, Staying, ZenonT(60) DEF Unlock, RegistryInv
  <1>10. CASE OpenDynamic(n)
    BY <1>10, Staying, ZenonT(60) DEF OpenDynamic
  <1>12. CASE RemoveTag(n)
    BY <1>12, Staying, ZenonT(60) DEF RemoveTag, RegistryInv
  <1>14. CASE UnlinkDynamic(n)
    BY <1>14, Staying, ZenonT(60) DEF UnlinkDynamic, RegistryInv
  <1>15. CASE UnlinkStatic(n)
    BY <1>15, Staying, ZenonT(60) DEF UnlinkStatic, Release
  <1>24. CASE FailUnlock(n)
    BY <1>24, Staying, ZenonT(60) DEF FailUnlock, RegistryInv
  <1> USE DEF RegistryInv, Go, CGo, registry
  <1>7. CASE InitDynamic(n)
    BY <1>7, ZenonT(60) DEF InitDynamic
  <1>8. CASE RegisterFirst(n)
    BY <1>8 DEF RegisterFirst, CanBorrow, Borrow
  <1>11. CASE Register(n)
    BY <1>11 DEF Register, Join, CanBorrow, Borrow
  <1>13. CASE Deregister(n)
    BY <1>13 DEF Deregister, Deactivate
  <1>16. CASE Dies(n)
    BY <1>16, ZenonT(60) DEF Dies
  <1>17. CASE CleanerOpen(n)
    BY <1>17, ZenonT(60) DEF CleanerOpen
  <1>18. CASE CleanerRemoveNode(n)
    BY <1>18 DEF CleanerRemoveNode, Deactivate
  <1>19. CASE CleanerRemoveStatic(n)
    BY <1>19, ZenonT(60) DEF CleanerRemoveStatic
  <1>20. CASE CleanerRemoveDynamic(n)
    BY <1>20, ZenonT(60) DEF CleanerRemoveDynamic
  <1>21. CASE CleanerRemoveTag(n)
    BY <1>21, ZenonT(60) DEF CleanerRemoveTag
  <1>22. CASE CleanerDies(n)
    BY <1>22, ZenonT(60) DEF CleanerDies
  <1>23. CASE Activate(n)
    BY <1>23 DEF Activate
  <1>25. CASE DeregisterRelease(n)
    <2>0. /\ dy[n] \in ready /\ dy[n] \in Creations /\ n \in borrowed[dy[n]] \ nodes[dy[n]]
          /\ n \in alive /\ pc[n] = "release"
      BY <1>25, ZenonT(60) DEF DeregisterRelease
    <2>1. /\ \A g \in Creations : borrowed'[g] = IF g = dy[n] THEN borrowed[g] \ {n} ELSE borrowed[g]
          /\ locked' = IF borrowed[dy[n]] = {n} THEN locked \cup {dy[n]} ELSE locked
          /\ UNCHANGED <<ready, nodes, alive, c_pc, c_dy>>
      BY <1>25, ZenonT(60) DEF DeregisterRelease, ReleaseIndex
    <2>2. /\ pc'[n] \in {"unlink_dynamic", "idle"} /\ (pc'[n] = "unlink_dynamic" => dy'[n] = dy[n])
          /\ \A m \in Nodes \ {n} : pc'[m] = pc[m] /\ dy'[m] = dy[m]
      BY <1>25, ZenonT(60) DEF DeregisterRelease, Release
    <2>3. \A m \in Nodes \ {n} : \A g \in Creations : m \in borrowed'[g] <=> m \in borrowed[g]
      BY <2>1, ZenonT(60)
    <2>4. locked' \subseteq ready /\ \A g \in Creations : borrowed'[g] # {} => g \in ready \ locked'
      BY <2>0, <2>1, ZenonT(60)
    <2>5. \A g \in Creations : nodes[g] \subseteq borrowed'[g]
      BY <2>0, <2>1, ZenonT(60)
    <2>6. \A m \in Nodes :
            pc'[m] \in Leaving \cup Borrowing \cup Active \cup {"register_first", "register"}
              => dy'[m] \in ready
      BY <2>0, <2>2, ZenonT(60)
    <2>7. \A m \in alive : /\ pc'[m] \in Active => m \in nodes[dy'[m]]
                           /\ pc'[m] \in Borrowing => m \in borrowed'[dy'[m]]
                           /\ pc'[m] = "release" => m \notin nodes[dy'[m]]
      BY <2>2, <2>3, ZenonT(60)
    <2>8. \A m \in Nodes : c_pc[m] = "release_node" => m \in borrowed'[c_dy[m]] \ nodes[c_dy[m]]
      BY <2>0, <2>3, ZenonT(60)
    <2> QED BY <2>1, <2>4, <2>5, <2>6, <2>7, <2>8, ZenonT(60)
  <1>26. CASE CleanerReleaseNode(n)
    BY <1>26 DEF CleanerReleaseNode, ReleaseIndex
  <1> QED BY <1>1, <1>2, <1>3, <1>4, <1>5, <1>6, <1>7, <1>8, <1>9, <1>10, <1>11, <1>12, <1>13, <1>14,
             <1>15, <1>16, <1>17, <1>18, <1>19, <1>20, <1>21, <1>22, <1>23, <1>24, <1>25, <1>26, ZenonT(60)
         DEF Step, Create, Open, Close, Cleanup

\* Who leaves a creation had joined it, so its creator has registered or it is mixed.
LEMMA FirstStep ==
  ASSUME IInv, NEW n \in Nodes, Step(n)
  PROVE  FirstInv'
  <1> TypeInv /\ CreationInv /\ RegistryInv /\ FirstInv
    BY ZenonT(60) DEF IInv
  <1> USE DEF TypeInv, FirstInv, At, Go, CGo, content, registry, cleaner
  <1>1. CASE IsServiceAvailable(n)
    BY <1>1, ZenonT(60) DEF IsServiceAvailable
  <1>2. CASE CreateTag(n)
    BY <1>2, ZenonT(60) DEF CreateTag
  <1>3. CASE DropTag(n)
    BY <1>3, ZenonT(60) DEF DropTag, Release
  <1>4. CASE CreateStatic(n)
    BY <1>4, ZenonT(60) DEF CreateStatic
  <1>5. CASE CreateDynamic(n)
    BY <1>5, ZenonT(60) DEF CreateDynamic
  <1>6. CASE DropStatic(n)
    BY <1>6, ZenonT(60) DEF DropStatic
  <1>7. CASE InitDynamic(n)
    <2>1. borrowed[dy[n]] = {} /\ dy[n] \notin locked
      BY <1>7, ZenonT(60) DEF InitDynamic, CreationInv, RegistryInv, Creating, Fresh
    <2> QED BY <1>7, <2>1, ZenonT(60) DEF InitDynamic
  <1>8. CASE RegisterFirst(n)
    <2>1. \A m \in Nodes : pc[m] = "register_first" /\ dy[m] = dy[n] => m = n
      BY <1>8, ZenonT(60) DEF RegisterFirst, CreationInv, Creating
    <2>2. CASE ~CanBorrow(n)
      <3>0. Cardinality({}) < max_nodes
        <4>1. Cardinality({}) = 0
          BY EmptyCount, ZenonT(60)
        <4> QED BY <4>1, Bounds
      <3>1. dy[n] \in mixed
        BY <1>8, <2>2, <3>0, ZenonT(60) DEF RegisterFirst, CanBorrow
      <3> QED BY <1>8, <2>2, <3>1, ZenonT(60) DEF RegisterFirst
    <2>3. CASE CanBorrow(n)
      <3>1. \A m \in Nodes : pc'[m] = IF m = n THEN "activate_first" ELSE pc[m]
        BY <1>8, <2>3, ZenonT(60) DEF RegisterFirst
      <3>2. \A m \in Nodes \ {n} : pc[m] = "register_first" => borrowed'[dy[m]] = borrowed[dy[m]]
        BY <1>8, <2>1, <2>3 DEF RegisterFirst, Borrow, CreationInv, Creating
      <3> QED BY <1>8, <3>1, <3>2, ZenonT(60) DEF RegisterFirst
    <2> QED BY <2>2, <2>3, ZenonT(60)
  <1>9. CASE Unlock(n)
    BY <1>9, ZenonT(60) DEF Unlock
  <1>10. CASE OpenDynamic(n)
    BY <1>10, ZenonT(60) DEF OpenDynamic
  <1>11. CASE Register(n)
    <2>1. \A m \in Nodes : pc[m] = "register_first" => dy[m] = st[m] /\ st[m] \notin unlocked
      BY ZenonT(60) DEF CreationInv, Creating
    <2>2. st[n] \in unlocked
      BY <1>11, ZenonT(60) DEF Register, CreationInv, Opening
    <2>3. CASE ~CanBorrow(n)
      BY <1>11, <2>3, ZenonT(60) DEF Register
    <2>4. CASE CanBorrow(n)
      BY <1>11, <2>1, <2>2, <2>4 DEF Register, Join, Borrow, CreationInv, Creating
    <2> QED BY <2>3, <2>4, ZenonT(60)
  <1>12. CASE RemoveTag(n)
    BY <1>12, ZenonT(60) DEF RemoveTag
  <1>13. CASE Deregister(n)
    BY <1>13, ZenonT(60) DEF Deregister, Deactivate
  <1>14. CASE UnlinkDynamic(n)
    BY <1>14, ZenonT(60) DEF UnlinkDynamic
  <1>15. CASE UnlinkStatic(n)
    BY <1>15, ZenonT(60) DEF UnlinkStatic, Release
  <1>16. CASE Dies(n)
    BY <1>16, ZenonT(60) DEF Dies
  <1>17. CASE CleanerOpen(n)
    BY <1>17, ZenonT(60) DEF CleanerOpen
  <1>18. CASE CleanerRemoveNode(n)
    BY <1>18, ZenonT(60) DEF CleanerRemoveNode, Deactivate
  <1>19. CASE CleanerRemoveStatic(n)
    BY <1>19, ZenonT(60) DEF CleanerRemoveStatic
  <1>20. CASE CleanerRemoveDynamic(n)
    BY <1>20, ZenonT(60) DEF CleanerRemoveDynamic
  <1>21. CASE CleanerRemoveTag(n)
    BY <1>21, ZenonT(60) DEF CleanerRemoveTag
  <1>22. CASE CleanerDies(n)
    BY <1>22, ZenonT(60) DEF CleanerDies
  <1>23. CASE Activate(n)
    BY <1>23, ZenonT(60) DEF Activate
  <1>24. CASE FailUnlock(n)
    BY <1>24, ZenonT(60) DEF FailUnlock
  <1>25. CASE DeregisterRelease(n)
    <2>1. n \in borrowed[dy[n]]
      BY <1>25, ZenonT(60) DEF DeregisterRelease, RegistryInv, Borrowing
    <2>2. \A m \in Nodes : pc'[m] \in {"register_first", "panicked"} => pc'[m] = pc[m] /\ dy'[m] = dy[m]
      BY <1>25, ZenonT(60) DEF DeregisterRelease, Release
    <2>3. \A g \in Creations : borrowed[g] = {} /\ g \notin locked => borrowed'[g] = {} /\ g \notin locked'
      BY <1>25, <2>1, ZenonT(60) DEF DeregisterRelease, ReleaseIndex
    <2>4. \A m \in Nodes : pc[m] = "register_first" => dy[m] \in Creations
      BY ZenonT(60) DEF CreationInv, Creating
    <2> QED BY <1>25, <2>2, <2>3, <2>4, ZenonT(60) DEF DeregisterRelease, ReleaseIndex
  <1>26. CASE CleanerReleaseNode(n)
    <2>1. n \in borrowed[c_dy[n]]
      BY <1>26, ZenonT(60) DEF CleanerReleaseNode, RegistryInv
    <2>2. \A g \in Creations : borrowed[g] = {} /\ g \notin locked => borrowed'[g] = {} /\ g \notin locked'
      BY <1>26, <2>1, ZenonT(60) DEF CleanerReleaseNode, ReleaseIndex
    <2>3. \A m \in Nodes : pc[m] = "register_first" => dy[m] \in Creations
      BY ZenonT(60) DEF CreationInv, Creating
    <2> QED BY <1>26, <2>2, <2>3, ZenonT(60) DEF CleanerReleaseNode, ReleaseIndex
  <1> QED BY <1>1, <1>2, <1>3, <1>4, <1>5, <1>6, <1>7, <1>8, <1>9, <1>10, <1>11, <1>12, <1>13, <1>14,
             <1>15, <1>16, <1>17, <1>18, <1>19, <1>20, <1>21, <1>22, <1>23, <1>24, <1>25, <1>26, ZenonT(60)
         DEF Step, Create, Open, Close, Cleanup

\* The step changes no name and locks nothing, and who creates, leaves or removes
\* did so before.
Quietly ==
  /\ UNCHANGED <<static, dynamic, ready, locked, disputed>>
  /\ \A m \in alive' :
       /\ m \in alive
       /\ pc'[m] \in Fresh \cup Leaving => pc'[m] = pc[m] /\ st'[m] = st[m] /\ dy'[m] = dy[m]
       /\ pc'[m] \in Failing => pc[m] \in Failing
  /\ \A m \in Nodes : c_pc'[m] \in {"remove_static", "remove_dynamic"} =>
       c_pc'[m] = c_pc[m] /\ c_dy'[m] = c_dy[m]

\* The steps that do something to the names or the lock.
Touches(n) ==
  \/ CreateStatic(n) \/ CreateDynamic(n) \/ DropStatic(n) \/ InitDynamic(n) \/ FailUnlock(n)
  \/ DeregisterRelease(n) \/ UnlinkDynamic(n) \/ UnlinkStatic(n)
  \/ CleanerRemoveNode(n) \/ CleanerReleaseNode(n) \/ CleanerRemoveStatic(n)
  \/ CleanerRemoveDynamic(n)

\* All others are quiet.
LEMMA OthersQuiet ==
  ASSUME TypeInv, NEW n \in Nodes, Step(n), ~Touches(n)
  PROVE  Quietly
  <1> USE DEF Quietly, TypeInv, Fresh, Leaving, Failing, At, Go, CGo, names, content, registry, cleaner
  <1>1. CASE IsServiceAvailable(n)
    BY <1>1, ZenonT(60) DEF IsServiceAvailable
  <1>2. CASE CreateTag(n)
    BY <1>2, ZenonT(60) DEF CreateTag
  <1>3. CASE DropTag(n)
    BY <1>3, ZenonT(60) DEF DropTag, Release
  <1>4. CASE RegisterFirst(n)
    BY <1>4, ZenonT(60) DEF RegisterFirst
  <1>5. CASE Unlock(n)
    BY <1>5, ZenonT(60) DEF Unlock
  <1>6. CASE OpenDynamic(n)
    BY <1>6, ZenonT(60) DEF OpenDynamic
  <1>7. CASE Register(n)
    BY <1>7, ZenonT(60) DEF Register, Join
  <1>8. CASE RemoveTag(n)
    BY <1>8, ZenonT(60) DEF RemoveTag
  <1>9. CASE Dies(n)
    BY <1>9, ZenonT(60) DEF Dies
  <1>10. CASE CleanerOpen(n)
    BY <1>10, ZenonT(60) DEF CleanerOpen
  <1>11. CASE CleanerRemoveTag(n)
    BY <1>11, ZenonT(60) DEF CleanerRemoveTag
  <1>12. CASE CleanerDies(n)
    BY <1>12, ZenonT(60) DEF CleanerDies
  <1>13. CASE Activate(n)
    BY <1>13, ZenonT(60) DEF Activate
  <1>14. CASE Deregister(n)
    BY <1>14, ZenonT(60) DEF Deregister, Deactivate
  <1> QED BY <1>1, <1>2, <1>3, <1>4, <1>5, <1>6, <1>7, <1>8, <1>9, <1>10, <1>11, <1>12, <1>13, <1>14,
             ZenonT(60)
         DEF Touches, Step, Create, Open, Close, Cleanup

\* A quiet step keeps what is owned.
LEMMA QuietOwned == ASSUME TypeInv, Owned, Quietly PROVE Owned'
  <1>1. Joinable'
    BY ZenonT(60) DEF Owned, Joinable, Quietly
  <1>2. CreatorOwns'
    BY ZenonT(60) DEF Owned, CreatorOwns, Quietly, Fresh
  <1>3. RemoverOwns'
    BY ZenonT(60) DEF Owned, RemoverOwns, Quietly, Leaving
  <1>4. OneRemover'
    BY DEF Owned, OneRemover, CleanerRemoves, Quietly
  <1> QED BY <1>1, <1>2, <1>3, <1>4, ZenonT(60) DEF Owned

\* What the others know: the creation under the name that is missing or new is no
\* one's, and one that is being created is neither initialised nor locked.
LEMMA Claims ==
  ASSUME TypeInv, CreationInv, RegistryInv, Owned
  PROVE  /\ \A g \in ready : g \in Nat /\ g # 0
         /\ \A m \in alive : pc[m] \in Fresh =>
              st[m] # 0 /\ st[m] \notin ready /\ st[m] \notin locked /\ static = st[m]
         /\ \A m \in alive : pc[m] \in Leaving => dy[m] \in locked /\ dy[m] # 0
         /\ \A m \in Nodes : CleanerRemoves(m) => c_dy[m] \in locked /\ c_dy[m] # 0
         /\ locked \subseteq ready
  <1>1. \A g \in Creations : g \in Nat /\ g # 0
    BY Bounds DEF Creations
  <1> QED BY <1>1, ZenonT(60) DEF TypeInv, CreationInv, RegistryInv, Owned, CreatorOwns, RemoverOwns,
              CleanerRemoves, Creating, Fresh

\* A cleaner that removes a static config it calls corrupted disputes it.
LEMMA Corrupted ==
  ASSUME NEW n \in Nodes, CleanerRemoveStatic(n), ~disputed'
  PROVE  static = 0 \/ c_pc[n] = "remove_static"
  BY ZenonT(60) DEF CleanerRemoveStatic

\* A cleaner removes the configs only if its node was the last one registered.
LEMMA CleanerLocks ==
  ASSUME IInv, NEW n \in Nodes, CleanerReleaseNode(n)
  PROVE  \/ locked' = locked /\ c_pc' = [c_pc EXCEPT ![n] = "remove_tag"]
         \/ /\ c_dy[n] \in ready \ locked /\ locked' = locked \cup {c_dy[n]}
            /\ c_pc' = [c_pc EXCEPT ![n] = "remove_static"]
  <1>1. TypeInv /\ RegistryInv
    BY ZenonT(60) DEF IInv
  <1>2. c_dy[n] \in ready /\ c_dy[n] \in Creations /\ n \in borrowed[c_dy[n]]
    BY <1>1, ZenonT(60) DEF CleanerReleaseNode, TypeInv, RegistryInv
  <1>3. c_dy[n] \notin locked
    BY <1>1, <1>2, ZenonT(60) DEF RegistryInv
  <1> QED BY <1>2, <1>3, ZenonT(60) DEF CleanerReleaseNode, ReleaseIndex, CGo

\* A step that touches the names or the lock, by the one it is about.
LEMMA TouchOwned ==
  ASSUME IInv, NEW n \in Nodes, Touches(n), Owned, ~disputed'
  PROVE  Owned'
  <1> TypeInv /\ CreationInv /\ RegistryInv
    BY ZenonT(60) DEF IInv
  <1>0. /\ \A g \in ready : g \in Nat /\ g # 0
        /\ \A m \in alive : pc[m] \in Fresh =>
             st[m] # 0 /\ st[m] \notin ready /\ st[m] \notin locked /\ static = st[m]
        /\ \A m \in alive : pc[m] \in Leaving => dy[m] \in locked /\ dy[m] # 0
        /\ \A m \in Nodes : CleanerRemoves(m) => c_dy[m] \in locked /\ c_dy[m] # 0
        /\ locked \subseteq ready
    BY Claims, ZenonT(60)
  <1>t. /\ alive \subseteq Nodes /\ pc \in [Nodes -> Labels] /\ c_pc \in [Nodes -> CleanerLabels]
        /\ st \in [Nodes -> Nat] /\ dy \in [Nodes -> Nat] /\ c_dy \in [Nodes -> Nat]
    BY ZenonT(60) DEF TypeInv
  <1>u. \A k, m \in alive : pc[k] \in Fresh /\ pc[m] \in Fresh => k = m
    BY <1>0, ZenonT(60) DEF TypeInv, CreationInv, Creating
  <1>1. CASE CreateStatic(n)
    <2>1. CASE static # 0
      <3>1. Quietly
        BY <1>1, <2>1, ZenonT(60) DEF CreateStatic, Quietly, Fresh, Leaving, Failing, At, Go, TypeInv, registry, cleaner
      <3> QED BY <3>1, QuietOwned, ZenonT(60)
    <2>2. CASE static = 0
      <3>1. /\ UNCHANGED <<dynamic, ready, locked, alive, dy, c_pc, c_dy>>
            /\ pc' = [pc EXCEPT ![n] = "create_dynamic"] /\ st' = [st EXCEPT ![n] = static']
        BY <1>1, <2>2, ZenonT(60) DEF CreateStatic, Go, registry, cleaner
      <3>2. Joinable'
        BY <1>0, <1>t, <1>u, <2>2, <3>1, ZenonT(60) DEF Owned, Joinable, CreatorOwns, RemoverOwns, Fresh, Leaving
      <3>3. CreatorOwns'
        BY <1>0, <1>t, <1>u, <2>2, <3>1, ZenonT(60) DEF Owned, CreatorOwns, RemoverOwns, Fresh, Leaving, Failing
      <3>4. RemoverOwns'
        BY <1>0, <1>t, <1>u, <2>2, <3>1, ZenonT(60) DEF Owned, RemoverOwns, OneRemover, Leaving, CleanerRemoves
      <3>5. OneRemover'
        BY <1>0, <1>t, <1>u, <2>2, <3>1, ZenonT(60) DEF Owned, OneRemover, Leaving, CleanerRemoves
      <3> QED BY <3>2, <3>3, <3>4, <3>5, ZenonT(60) DEF Owned
    <2> QED BY <2>1, <2>2, ZenonT(60)
  <1>2. CASE CreateDynamic(n)
    <2>1. CASE dynamic # 0
      <3>1. /\ UNCHANGED <<static, dynamic, ready, locked, alive, st, dy, c_pc, c_dy>>
            /\ pc' = [pc EXCEPT ![n] = "drop_static"] /\ pc[n] = "create_dynamic" /\ n \in alive
        BY <1>2, <2>1, ZenonT(60) DEF CreateDynamic, At, Go, content, registry, cleaner
      <3>2. Joinable'
        BY <1>0, <1>t, <1>u, <3>1, ZenonT(60) DEF Owned, Joinable, CreatorOwns, RemoverOwns, Fresh, Leaving
      <3>3. CreatorOwns'
        BY <1>0, <1>t, <1>u, <3>1, ZenonT(60) DEF Owned, CreatorOwns, RemoverOwns, Fresh, Leaving, Failing
      <3>4. RemoverOwns'
        BY <1>0, <1>t, <1>u, <3>1, ZenonT(60) DEF Owned, RemoverOwns, OneRemover, Leaving, CleanerRemoves
      <3>5. OneRemover'
        BY <1>0, <1>t, <1>u, <3>1 DEF Owned, OneRemover, Leaving, CleanerRemoves
      <3> QED BY <3>2, <3>3, <3>4, <3>5, ZenonT(60) DEF Owned
    <2>2. CASE dynamic = 0
      <3>1. /\ UNCHANGED <<static, ready, locked, alive, st, c_pc, c_dy>>
            /\ dynamic' = st[n] /\ dy' = [dy EXCEPT ![n] = st[n]]
            /\ pc' = [pc EXCEPT ![n] = "init"] /\ pc[n] = "create_dynamic" /\ n \in alive
        BY <1>2, <2>2, ZenonT(60) DEF CreateDynamic, At, Go, content, registry, cleaner
      <3>2. Joinable'
        BY <1>0, <1>t, <1>u, <2>2, <3>1, ZenonT(60) DEF Owned, Joinable, CreatorOwns, RemoverOwns, Fresh, Leaving
      <3>3. CreatorOwns'
        BY <1>0, <1>t, <1>u, <2>2, <3>1, ZenonT(60) DEF Owned, CreatorOwns, RemoverOwns, Fresh, Leaving, Failing
      <3>4. RemoverOwns'
        BY <1>0, <1>t, <1>u, <2>2, <3>1, ZenonT(60) DEF Owned, RemoverOwns, OneRemover, Leaving, CleanerRemoves
      <3>5. OneRemover'
        BY <1>0, <1>t, <1>u, <2>2, <3>1 DEF Owned, OneRemover, Leaving, CleanerRemoves
      <3> QED BY <3>2, <3>3, <3>4, <3>5, ZenonT(60) DEF Owned
    <2> QED BY <2>1, <2>2, ZenonT(60)
  <1>3. CASE DropStatic(n)
    <2>1. /\ UNCHANGED <<dynamic, ready, locked, alive, st, dy, c_pc, c_dy>> /\ static' = 0
          /\ pc' = [pc EXCEPT ![n] = "drop_tag"] /\ pc[n] = "drop_static" /\ n \in alive
      BY <1>3, ZenonT(60) DEF DropStatic, At, Go, content, registry, cleaner, Owned, CreatorOwns, Failing
    <2>2. Joinable'
      BY <1>0, <1>t, <1>u, <2>1, ZenonT(60) DEF Owned, Joinable, CreatorOwns, RemoverOwns, Fresh, Leaving
    <2>3. CreatorOwns'
      BY <1>0, <1>t, <1>u, <2>1, ZenonT(60) DEF Owned, CreatorOwns, RemoverOwns, Fresh, Leaving, Failing
    <2>4. RemoverOwns'
      BY <1>0, <1>t, <1>u, <2>1, ZenonT(60) DEF Owned, Fresh, RemoverOwns, OneRemover, Leaving, CleanerRemoves
    <2>5. OneRemover'
      BY <1>0, <1>t, <1>u, <2>1 DEF Owned, OneRemover, Leaving, CleanerRemoves
    <2> QED BY <2>2, <2>3, <2>4, <2>5, ZenonT(60) DEF Owned
  <1>4. CASE InitDynamic(n)
    <2>1. /\ UNCHANGED <<static, dynamic, locked, alive, st, dy, c_pc, c_dy>>
          /\ ready' = ready \cup {st[n]} /\ pc' = [pc EXCEPT ![n] = "register_first"]
          /\ pc[n] = "init" /\ n \in alive
      BY <1>4, ZenonT(60) DEF InitDynamic, At, Go, names, registry, cleaner, CreationInv, Creating, Fresh
    <2>2. Joinable'
      BY <1>0, <1>t, <1>u, <2>1, ZenonT(60) DEF Owned, Joinable, CreatorOwns, RemoverOwns, Fresh, Leaving
    <2>3. CreatorOwns'
      BY <1>0, <1>t, <1>u, <2>1, ZenonT(60) DEF Owned, CreatorOwns, RemoverOwns, Fresh, Leaving, Failing
    <2>4. RemoverOwns'
      BY <1>0, <1>t, <1>u, <2>1, ZenonT(60) DEF Owned, RemoverOwns, OneRemover, Leaving, CleanerRemoves
    <2>5. OneRemover'
      BY <1>0, <1>t, <1>u, <2>1 DEF Owned, OneRemover, Leaving, CleanerRemoves
    <2> QED BY <2>2, <2>3, <2>4, <2>5, ZenonT(60) DEF Owned
  <1>5. CASE DeregisterRelease(n)
    <2>0. dy[n] \in ready \ locked /\ n \in alive /\ pc[n] = "release"
      BY <1>5, ZenonT(60) DEF DeregisterRelease, At, TypeInv, RegistryInv, Borrowing
    <2>1. CASE borrowed[dy[n]] = {n}
      <3>1. /\ UNCHANGED <<static, dynamic, ready, alive, st, dy, c_pc, c_dy>>
            /\ locked' = locked \cup {dy[n]} /\ pc' = [pc EXCEPT ![n] = "unlink_dynamic"]
        BY <1>5, <2>1, ZenonT(60) DEF DeregisterRelease, ReleaseIndex, Go, names, content, cleaner
      <3>2. Joinable'
        BY <1>0, <1>t, <2>0, <3>1, ZenonT(60) DEF Owned, Joinable, CreatorOwns, RemoverOwns, Fresh, Leaving
      <3>3. CreatorOwns'
        BY <1>0, <1>t, <2>0, <3>1, ZenonT(60) DEF Owned, CreatorOwns, RemoverOwns, Fresh, Leaving, Failing
      <3>4. RemoverOwns'
        BY <1>0, <1>t, <2>0, <3>1, ZenonT(60)
        DEF Owned, Joinable, RemoverOwns, OneRemover, Leaving, CleanerRemoves
      <3>5. OneRemover'
        BY <1>0, <1>t, <2>0, <3>1 DEF Owned, OneRemover, Leaving, CleanerRemoves
      <3> QED BY <3>2, <3>3, <3>4, <3>5, ZenonT(60) DEF Owned
    <2>2. CASE borrowed[dy[n]] # {n}
      <3>1. Quietly
        BY <1>5, <2>2, ZenonT(60) DEF DeregisterRelease, ReleaseIndex, Quietly, Fresh, Leaving, Failing, At, Go, Release,
           TypeInv, names, content, cleaner
      <3> QED BY <3>1, QuietOwned, ZenonT(60)
    <2> QED BY <2>1, <2>2, ZenonT(60)
  <1>6. CASE UnlinkDynamic(n)
    <2>1. /\ UNCHANGED <<static, ready, locked, alive, st, dy, c_pc, c_dy>> /\ dynamic' = 0
          /\ pc' = [pc EXCEPT ![n] = "unlink_static"] /\ pc[n] = "unlink_dynamic" /\ n \in alive
      BY <1>6, ZenonT(60) DEF UnlinkDynamic, At, Go, content, registry, cleaner
    <2>2. Joinable'
      BY <1>0, <1>t, <1>u, <2>1 DEF Owned, Joinable, CreatorOwns, RemoverOwns, Fresh, Leaving
    <2>3. CreatorOwns'
      BY <1>0, <1>t, <1>u, <2>1, ZenonT(60) DEF Owned, CreatorOwns, RemoverOwns, Fresh, Leaving, Failing
    <2>4. RemoverOwns'
      BY <1>0, <1>t, <1>u, <2>1 DEF Owned, RemoverOwns, OneRemover, Leaving, CleanerRemoves
    <2>5. OneRemover'
      BY <1>0, <1>t, <1>u, <2>1 DEF Owned, OneRemover, Leaving, CleanerRemoves
    <2> QED BY <2>2, <2>3, <2>4, <2>5, ZenonT(60) DEF Owned
  <1>7. CASE UnlinkStatic(n)
    <2>1. /\ UNCHANGED <<dynamic, ready, locked, alive, c_pc, c_dy>> /\ static' = 0
          /\ pc' = [pc EXCEPT ![n] = "idle"] /\ pc[n] = "unlink_static" /\ n \in alive
          /\ st' = [st EXCEPT ![n] = 0] /\ dy' = [dy EXCEPT ![n] = 0]
      BY <1>7, ZenonT(60) DEF UnlinkStatic, Release, At, Go, content, registry, cleaner
    <2>2. Joinable'
      BY <1>0, <1>t, <1>u, <2>1 DEF Owned, Joinable, CreatorOwns, RemoverOwns, Fresh, Leaving
    <2>3. CreatorOwns'
      BY <1>0, <1>t, <1>u, <2>1, ZenonT(60) DEF Owned, CreatorOwns, RemoverOwns, Fresh, Leaving, Failing
    <2>4. RemoverOwns'
      BY <1>0, <1>t, <1>u, <2>1 DEF Owned, RemoverOwns, OneRemover, Leaving, CleanerRemoves
    <2>5. OneRemover'
      BY <1>0, <1>t, <1>u, <2>1 DEF Owned, OneRemover, Leaving, CleanerRemoves
    <2> QED BY <2>2, <2>3, <2>4, <2>5, ZenonT(60) DEF Owned
  <1>8. CASE CleanerReleaseNode(n)
    <2>0. /\ UNCHANGED <<static, dynamic, ready, alive, pc, st, dy, c_dy>>
          /\ c_pc[n] = "release_node"
      BY <1>8, ZenonT(60) DEF CleanerReleaseNode, names, content
    <2>1. CASE locked' = locked /\ c_pc' = [c_pc EXCEPT ![n] = "remove_tag"]
      <3>1. Quietly
        BY <1>8, <2>0, <2>1, ZenonT(60) DEF CleanerReleaseNode, Quietly, TypeInv
      <3> QED BY <3>1, QuietOwned, ZenonT(60)
    <2>2. CASE /\ c_dy[n] \in ready \ locked /\ locked' = locked \cup {c_dy[n]}
               /\ c_pc' = [c_pc EXCEPT ![n] = "remove_static"]
      <3>1. c_dy[n] # 0
        BY <1>0, <2>2, ZenonT(60)
      <3>2. Joinable'
        BY <1>0, <1>t, <2>0, <2>2, <3>1, ZenonT(60) DEF Owned, Joinable, CreatorOwns, RemoverOwns, Fresh, Leaving
      <3>3. CreatorOwns'
        BY <1>0, <1>t, <2>0, <2>2, <3>1, ZenonT(60) DEF Owned, CreatorOwns, RemoverOwns, Fresh, Leaving, Failing
      <3>4. RemoverOwns'
        BY <1>0, <1>t, <2>0, <2>2, <3>1, ZenonT(60)
        DEF Owned, Joinable, RemoverOwns, OneRemover, Leaving, CleanerRemoves
      <3>5. OneRemover'
        BY <1>0, <1>t, <2>0, <2>2, <3>1 DEF Owned, OneRemover, Leaving, CleanerRemoves
      <3> QED BY <3>2, <3>3, <3>4, <3>5, ZenonT(60) DEF Owned
    <2> QED BY <1>8, <2>1, <2>2, CleanerLocks, ZenonT(60)
  <1>9. CASE CleanerRemoveStatic(n)
    <2>0. /\ UNCHANGED <<dynamic, ready, locked, alive, pc, st, dy, c_dy>> /\ static' = 0
          /\ c_pc' = [c_pc EXCEPT ![n] = IF c_pc[n] = "remove_static" THEN "remove_dynamic" ELSE "remove_tag"]
      BY <1>9, ZenonT(60) DEF CleanerRemoveStatic, CGo, content, registry
    <2>1. CASE c_pc[n] = "remove_static"
      <3>2. Joinable'
        BY <1>0, <1>t, <2>0, <2>1, ZenonT(60) DEF Owned, Joinable, CreatorOwns, RemoverOwns, Fresh, Leaving
      <3>3. CreatorOwns'
        BY <1>0, <1>t, <2>0, <2>1, ZenonT(60) DEF Owned, CreatorOwns, RemoverOwns, Fresh, Leaving, Failing
      <3>4. RemoverOwns'
        BY <1>0, <1>t, <2>0, <2>1 DEF Owned, RemoverOwns, OneRemover, Leaving, CleanerRemoves
      <3>5. OneRemover'
        BY <1>0, <1>t, <2>0, <2>1 DEF Owned, OneRemover, Leaving, CleanerRemoves
      <3> QED BY <3>2, <3>3, <3>4, <3>5, ZenonT(60) DEF Owned
    <2>2. CASE c_pc[n] # "remove_static"
      <3>1. static = 0 /\ c_pc' = [c_pc EXCEPT ![n] = "remove_tag"]
        BY <1>9, <2>0, <2>2, Corrupted, ZenonT(60)
      <3>2. Joinable'
        BY <1>0, <1>t, <2>0, <3>1, ZenonT(60) DEF Owned, Joinable, CreatorOwns, RemoverOwns, Fresh, Leaving
      <3>3. CreatorOwns'
        BY <1>0, <1>t, <2>0, <3>1, ZenonT(60) DEF Owned, CreatorOwns, RemoverOwns, Fresh, Leaving, Failing
      <3>4. RemoverOwns'
        BY <1>0, <1>t, <2>0, <3>1, ZenonT(60) DEF Owned, RemoverOwns, OneRemover, Leaving, CleanerRemoves
      <3>5. OneRemover'
        BY <1>0, <1>t, <2>0, <3>1 DEF Owned, OneRemover, Leaving, CleanerRemoves
      <3> QED BY <3>2, <3>3, <3>4, <3>5, ZenonT(60) DEF Owned
    <2> QED BY <2>1, <2>2, ZenonT(60)
  <1>10. CASE CleanerRemoveDynamic(n)
    <2>1. /\ UNCHANGED <<static, ready, locked, alive, pc, st, dy, c_dy>> /\ dynamic' = 0
          /\ c_pc' = [c_pc EXCEPT ![n] = "remove_tag"] /\ c_pc[n] = "remove_dynamic"
      BY <1>10, ZenonT(60) DEF CleanerRemoveDynamic, CGo, content, registry
    <2>2. Joinable'
      BY <1>0, <1>t, <1>u, <2>1 DEF Owned, Joinable, CreatorOwns, RemoverOwns, Fresh, Leaving
    <2>3. CreatorOwns'
      BY <1>0, <1>t, <1>u, <2>1, ZenonT(60) DEF Owned, CreatorOwns, RemoverOwns, Fresh, Leaving, Failing
    <2>4. RemoverOwns'
      BY <1>0, <1>t, <1>u, <2>1 DEF Owned, RemoverOwns, OneRemover, Leaving, CleanerRemoves
    <2>5. OneRemover'
      BY <1>0, <1>t, <1>u, <2>1, ZenonT(60) DEF Owned, OneRemover, Leaving, CleanerRemoves
    <2> QED BY <2>2, <2>3, <2>4, <2>5, ZenonT(60) DEF Owned
  <1>11. CASE CleanerRemoveNode(n)
    <2>1. /\ UNCHANGED <<static, dynamic, ready, locked, alive, pc, st, dy, c_dy>>
          /\ c_pc'[n] \in {"release_node", "remove_tag"}
          /\ \A m \in Nodes \ {n} : c_pc'[m] = c_pc[m]
      BY <1>11, <1>t, ZenonT(60) DEF CleanerRemoveNode, Deactivate, CGo, names, content, registry
    <2>2. disputed' = disputed
      BY <1>11, ZenonT(60) DEF CleanerRemoveNode, TypeInv
    <2>3. Quietly
      BY <1>t, <2>1, <2>2, ZenonT(60) DEF Quietly
    <2> QED BY <2>3, QuietOwned, ZenonT(60)
  <1>12. ~FailUnlock(n)
    BY ZenonT(60) DEF FailUnlock
  <1> QED BY <1>1, <1>2, <1>3, <1>4, <1>5, <1>6, <1>7, <1>8, <1>9, <1>10, <1>11, <1>12, ZenonT(60)
         DEF Touches

---------------------------------------------------------------------------
\* The invariant is inductive.
LEMMA NextInv == IInv /\ [Next]_vars => IInv'
  <1> SUFFICES ASSUME IInv, [Next]_vars PROVE IInv' OBVIOUS
  <1>1. CASE Next
    <2>1. PICK n \in Nodes : Step(n)
      BY <1>1, ZenonT(60) DEF Next, Step
    <2>2. TypeInv' /\ CreationInv' /\ RegistryInv' /\ FirstInv'
      BY <2>1, TypeStep, CreationStep, RegistryStep, FirstStep, ZenonT(60)
    <2>3. OwnerInv'
      <3> SUFFICES ASSUME ~disputed' PROVE Owned'
        BY ZenonT(60) DEF OwnerInv
      <3>1. CASE Touches(n)
        <4>1. ~disputed
          BY <3>1, ZenonT(60) DEF Touches, CreateStatic, CreateDynamic, DropStatic, InitDynamic, FailUnlock,
             DeregisterRelease, UnlinkDynamic, UnlinkStatic, CleanerRemoveNode, CleanerReleaseNode,
             CleanerRemoveStatic, CleanerRemoveDynamic, cleaner
        <4> QED BY <3>1, <4>1, TouchOwned, ZenonT(60) DEF IInv, OwnerInv
      <3>2. CASE ~Touches(n)
        <4>1. Quietly /\ TypeInv
          BY <2>1, <3>2, OthersQuiet, ZenonT(60) DEF IInv
        <4>2. ~disputed
          BY <4>1, ZenonT(60) DEF Quietly
        <4> QED BY <4>1, <4>2, QuietOwned, ZenonT(60) DEF IInv, OwnerInv
      <3> QED BY <3>1, <3>2, ZenonT(60)
    <2> QED BY <2>2, <2>3, ZenonT(60) DEF IInv
  <1>2. CASE UNCHANGED vars
    <2>1. TypeInv' /\ CreationInv'
      BY <1>2, ZenonT(60) DEF vars, IInv, TypeInv, CreationInv
    <2>2. RegistryInv' /\ FirstInv'
      BY <1>2, ZenonT(60) DEF vars, IInv, RegistryInv, FirstInv
    <2>3. Quietly /\ disputed' = disputed
      BY <1>2, ZenonT(60) DEF vars, Quietly
    <2>4. OwnerInv'
      BY <2>3, QuietOwned, ZenonT(60) DEF IInv, OwnerInv
    <2> QED BY <2>1, <2>2, <2>4, ZenonT(60) DEF IInv
  <1> QED BY <1>1, <1>2, ZenonT(60)

\* It holds in every reachable state.
LEMMA Invariance == Spec => []IInv
  BY InitInv, NextInv, PTL DEF Spec

\* For every number of nodes, creations and registry slots: up to the clean-up for
\* a node that was not registered, whoever has the service open finds both configs
\* under their names and is registered in them (ServiceState::drop, the failing
\* creator and __internal_remove_node_from_service remove by name).
THEOREM OpenServiceIsWhole == Spec => []ServiceIntact
  <1>1. IInv => ServiceIntact
    <2> SUFFICES ASSUME IInv, NEW n \in alive, pc[n] = "open", ~disputed
                 PROVE  /\ static = dy[n] /\ dynamic = dy[n]
                        /\ n \in nodes[dynamic] /\ dynamic \notin locked
      BY ZenonT(60) DEF ServiceIntact
    <2>1. n \in Nodes /\ dy[n] \in ready /\ dy[n] \in Creations /\ n \in nodes[dy[n]]
      BY ZenonT(60) DEF IInv, TypeInv, RegistryInv, Active
    <2>2. dy[n] \notin locked
      BY <2>1, ZenonT(60) DEF IInv, RegistryInv
    <2> QED BY <2>1, <2>2, ZenonT(60) DEF IInv, OwnerInv, Owned, Joinable
  <1> QED BY <1>1, Invariance, PTL

\* For every number of nodes, creations and registry slots: the creator's own
\* registration fails only in a config that was joined with the static config of
\* another creation (register_node_id in create_impl, a fatal panic).
THEOREM CreatorRegisters == Spec => []FirstNodeRegisters
  <1>1. IInv => FirstNodeRegisters
    BY ZenonT(60) DEF IInv, FirstInv, FirstNodeRegisters
  <1> QED BY <1>1, Invariance, PTL

---------------------------------------------------------------------------
\* What the removal rests on, disputed or not.  A node is registered only where it
\* has the config open; it has a tag while it does something its cleaner must undo.
Tagged ==
  Creating \cup {"create_static", "open_dynamic", "register", "activate", "open",
                 "fail_static", "fail_tag"}

TagInv ==
  \A n \in Nodes : (n \in alive /\ pc[n] \in Tagged) \/ c_pc[n] # "off" => n \in tag

MemberInv ==
  \A g \in Creations : \A n \in borrowed[g] :
    dy[n] = g /\ pc[n] \in Borrowing \cup Active /\ (n \in nodes[g] => pc[n] \in Active)

\* An empty registry that is not locked waits for its creator.
EmptyInv ==
  \A g \in ready \ locked :
    borrowed[g] # {} \/ \E n \in Nodes : pc[n] = "register_first" /\ dy[n] = g

\* Every dead node that is active in the registry died while it left, had failed, or
\* is left to a cleaner that removes it from this registry.
Attended(g) ==
  \A n \in nodes[g] :
    \/ n \in alive \/ pc[n] \in {"deregister", "failed"}
    \/ n \in tag /\ (c_pc[n] = "off" \/ (c_pc[n] = "remove_node" /\ c_dy[n] = g))

CurrentInv == dynamic \in ready => Attended(dynamic)

\* The cleaner of the dead node will remove the configs: it has not looked yet, or
\* will find the registry locked.
Waits(n) ==
  /\ n \notin alive /\ n \in tag
  /\ c_pc[n] = "off" \/ (c_pc[n] = "remove_node" /\ c_dy[n] \in locked)

\* Somebody removes a dynamic config that cannot be joined ...
DynamicInv ==
  dynamic # 0 =>
    /\ dynamic \notin ready => \E n \in Nodes : pc[n] = "init" /\ dy[n] = dynamic
    /\ dynamic \in locked =>
         \E n \in Nodes : \/ pc[n] = "unlink_dynamic" /\ dy[n] = dynamic
                          \/ Waits(n)
                          \/ c_pc[n] \in {"remove_static", "remove_dynamic"}

\* ... and a static config without a dynamic config that can be joined, unless the
\* members of one whose name has been taken away do so when they leave.
Takes(n) ==
  \/ n \in alive /\ pc[n] \in Fresh
  \/ pc[n] \in Leaving
  \/ Waits(n) \/ c_pc[n] \in {"remove_static", "remove_corrupted"}

StaticInv ==
  static # 0 /\ dynamic \notin ready \ locked =>
    (\E n \in Nodes : Takes(n)) \/ (\E g \in ready \ locked : Attended(g))

RemovalInv == TagInv /\ MemberInv /\ EmptyInv /\ CurrentInv /\ DynamicInv /\ StaticInv

---------------------------------------------------------------------------
\* What a step of node n or of its cleaner leaves of the others.
Others(n) ==
  /\ ready \subseteq ready' /\ locked \subseteq locked'
  /\ \A m \in Nodes \ {n} :
       /\ pc'[m] = pc[m] /\ dy'[m] = dy[m] /\ c_pc'[m] = c_pc[m] /\ c_dy'[m] = c_dy[m]
       /\ m \in alive' <=> m \in alive
       /\ m \in tag' <=> m \in tag
       /\ \A g \in Creations : m \in nodes'[g] <=> m \in nodes[g]
       /\ \A g \in Creations : m \in borrowed'[g] <=> m \in borrowed[g]

Passes(n, from, to) == n \in alive /\ pc[n] = from /\ pc'[n] = to

\* n takes an index of creation g and of no other one, activates it, deactivates it
\* and returns it.
Borrows(n, g) ==
  /\ g \in Creations /\ n \in borrowed'[g] /\ UNCHANGED nodes
  /\ \A h \in Creations \ {g} : borrowed'[h] = borrowed[h]
Activates(n, g) ==
  /\ g \in Creations /\ n \in nodes'[g] /\ UNCHANGED borrowed
  /\ \A h \in Creations \ {g} : nodes'[h] = nodes[h]
Deactivates(n, g) ==
  /\ g \in Creations /\ n \notin nodes'[g] /\ UNCHANGED borrowed
  /\ \A h \in Creations \ {g} : nodes'[h] = nodes[h]
Returns(n, g) ==
  /\ g \in Creations /\ n \notin borrowed'[g] /\ UNCHANGED nodes
  /\ \A h \in Creations \ {g} : borrowed'[h] = borrowed[h]

\* The node opens the service, or gives up.
OpenEffect(n) ==
  /\ UNCHANGED <<static, dynamic, ready, locked, borrowed, nodes, alive, c_pc, c_dy>>
  /\ \/ /\ n \in tag' <=> n \in tag
        /\ dy'[n] = dy[n]
        /\ \/ Passes(n, "idle", "tag_create") \/ Passes(n, "idle", "tag_open")
           \/ Passes(n, "create_static", "drop_tag") \/ Passes(n, "create_dynamic", "drop_static")
           \/ Passes(n, "unlock", "open") \/ Passes(n, "unlock", "fail_static")
           \/ Passes(n, "open_dynamic", "drop_tag") \/ Passes(n, "register", "drop_tag")
           \/ Passes(n, "register_first", "panicked") /\ (dy[n] \in locked \/ borrowed[dy[n]] # {})
     \/ /\ n \in tag' /\ dy'[n] = dy[n]
        /\ Passes(n, "tag_create", "create_static") \/ Passes(n, "tag_open", "open_dynamic")
     \/ n \in tag' /\ (n \in tag <=> n \in tag') /\ Passes(n, "open_dynamic", "register")
     \/ Passes(n, "drop_tag", "idle")
     \/ dy'[n] = dy[n] /\ (Passes(n, "open", "deregister") \/ Passes(n, "fail_tag", "failed"))

\* The node registers itself.
JoinEffect(n) ==
  /\ UNCHANGED <<static, dynamic, ready, locked, alive, dy, c_pc, c_dy, tag>>
  /\ \/ /\ Passes(n, "register_first", "activate_first") \/ Passes(n, "register", "activate")
        /\ Borrows(n, dy[n])
     \/ /\ Passes(n, "activate_first", "unlock") \/ Passes(n, "activate", "open")
        /\ Activates(n, dy[n])

\* The node creates the configs.
CreateEffect(n) ==
  /\ UNCHANGED <<locked, borrowed, nodes, alive, c_pc, c_dy, tag>>
  /\ \/ /\ Passes(n, "create_static", "create_dynamic")
        /\ UNCHANGED <<dynamic, ready>> /\ dy'[n] = dy[n]
     \/ /\ Passes(n, "create_dynamic", "init")
        /\ UNCHANGED <<static, ready>> /\ dynamic = 0 /\ dynamic' = dy'[n] /\ dy'[n] \notin ready
     \/ /\ Passes(n, "drop_static", "drop_tag") \/ Passes(n, "fail_static", "fail_tag")
        /\ UNCHANGED <<dynamic, ready>> /\ dy'[n] = dy[n] /\ static' = 0
     \/ /\ Passes(n, "init", "register_first")
        /\ UNCHANGED <<static, dynamic>> /\ dy'[n] = dy[n]
        /\ ready' = ready \cup {dy[n]} /\ dy[n] \notin locked
        /\ borrowed[dy[n]] = {} /\ nodes[dy[n]] = {}
        /\ dy[n] \in Creations

\* The node leaves; the last one removes the configs.
LeaveEffect(n) ==
  /\ UNCHANGED <<ready, alive, c_pc, c_dy, tag>>
  /\ \/ /\ Passes(n, "deregister", "release")
        /\ UNCHANGED <<static, dynamic, locked>> /\ dy'[n] = dy[n] /\ Deactivates(n, dy[n])
     \/ /\ Passes(n, "release", "unlink_dynamic")
        /\ UNCHANGED <<static, dynamic>> /\ dy'[n] = dy[n] /\ borrowed[dy[n]] = {n}
        /\ locked' = locked \cup {dy[n]} /\ Returns(n, dy[n])
     \/ /\ Passes(n, "release", "idle")
        /\ UNCHANGED <<static, dynamic, locked>> /\ Returns(n, dy[n])
        /\ n \in borrowed[dy[n]] /\ borrowed[dy[n]] # {n}
     \/ /\ Passes(n, "unlink_dynamic", "unlink_static")
        /\ UNCHANGED <<static, locked, borrowed, nodes>> /\ dy'[n] = dy[n] /\ dynamic' = 0
     \/ /\ Passes(n, "unlink_static", "idle")
        /\ UNCHANGED <<dynamic, locked, borrowed, nodes>> /\ static' = 0

DieEffect(n) ==
  /\ UNCHANGED <<static, dynamic, ready, locked, borrowed, nodes, pc, dy, c_pc, c_dy, tag>>
  /\ n \in alive /\ n \notin alive'

CPasses(n, from, to) == c_pc[n] = from /\ c_pc'[n] = to

\* The cleaner looks at the dynamic config, leaves the tag, or dies.
CleanerEffect(n) ==
  /\ UNCHANGED <<static, dynamic, ready, locked, borrowed, nodes, alive, pc, dy>>
  /\ n \notin alive /\ n \in tag
  /\ \/ CPasses(n, "off", "remove_node") /\ n \in tag' /\ dynamic \in ready /\ c_dy'[n] = dynamic
     \/ CPasses(n, "off", "remove_corrupted") /\ n \in tag' /\ dynamic \notin ready
     \/ CPasses(n, "remove_tag", "off")
     \/ c_pc'[n] = "off" /\ n \in tag'

\* The cleaner removes the node, and the configs if it was the last one.
RemoveEffect(n) ==
  /\ UNCHANGED <<ready, alive, pc, dy, tag>>
  /\ n \notin alive /\ n \in tag
  /\ \/ /\ CPasses(n, "remove_node", "release_node")
        /\ UNCHANGED <<static, dynamic, locked>> /\ Deactivates(n, c_dy[n])
        /\ c_dy[n] \notin locked
     \/ /\ CPasses(n, "remove_node", "remove_static")
        /\ UNCHANGED <<static, dynamic, locked, borrowed, nodes>> /\ c_dy[n] \in locked
     \/ /\ CPasses(n, "remove_node", "remove_tag")
        /\ UNCHANGED <<static, dynamic, locked, borrowed, nodes>> /\ c_dy[n] \notin locked
        /\ n \notin nodes[c_dy[n]]
     \/ /\ CPasses(n, "release_node", "remove_static")
        /\ UNCHANGED <<static, dynamic>> /\ Returns(n, c_dy[n])
        /\ locked' = locked \cup {c_dy[n]}
     \/ /\ CPasses(n, "release_node", "remove_tag")
        /\ UNCHANGED <<static, dynamic, locked>> /\ Returns(n, c_dy[n])
        /\ borrowed[c_dy[n]] # {n}
     \/ /\ CPasses(n, "remove_static", "remove_dynamic")
        /\ UNCHANGED <<dynamic, locked, borrowed, nodes>> /\ static' = 0
     \/ /\ CPasses(n, "remove_corrupted", "remove_tag")
        /\ UNCHANGED <<dynamic, locked, borrowed, nodes>> /\ static' = 0
     \/ /\ CPasses(n, "remove_dynamic", "remove_tag")
        /\ UNCHANGED <<static, locked, borrowed, nodes>> /\ dynamic' = 0

Effect(n) ==
  \/ OpenEffect(n) \/ JoinEffect(n) \/ CreateEffect(n) \/ LeaveEffect(n) \/ DieEffect(n)
  \/ CleanerEffect(n) \/ RemoveEffect(n)

\* The steps have these effects.
LEMMA StepEffect ==
  ASSUME IInv, TagInv, NEW n \in Nodes, Step(n)
  PROVE  Others(n) /\ Effect(n)
  <1> TypeInv /\ CreationInv /\ RegistryInv
    BY ZenonT(60) DEF IInv
  <1>0. Cardinality({}) = 0 /\ max_nodes \in Nat \ {0}
    BY EmptyCount, Bounds, ZenonT(60)
  <1>c. c_pc[n] # "off" => n \notin alive /\ n \in tag
    BY ZenonT(60) DEF RegistryInv, TagInv
  <1> USE DEF TypeInv, At, Go, CGo, names, registry, content, cleaner, Others, Effect, Passes, CPasses
  <1>1. CASE IsServiceAvailable(n)
    BY <1>1, ZenonT(60) DEF IsServiceAvailable, OpenEffect
  <1>2. CASE CreateTag(n)
    BY <1>2, ZenonT(60) DEF CreateTag, OpenEffect
  <1>3. CASE DropTag(n)
    BY <1>3, ZenonT(60) DEF DropTag, Release, OpenEffect
  <1>4. CASE CreateStatic(n)
    BY <1>4, ZenonT(60) DEF CreateStatic, OpenEffect, CreateEffect
  <1>5. CASE CreateDynamic(n)
    BY <1>5, ZenonT(60) DEF CreateDynamic, OpenEffect, CreateEffect, CreationInv, Fresh
  <1>6. CASE DropStatic(n)
    BY <1>6, ZenonT(60) DEF DropStatic, CreateEffect
  <1>7. CASE InitDynamic(n)
    <2>1. /\ dy[n] \in Creations /\ dy[n] \notin ready /\ dy[n] \notin locked
          /\ borrowed[dy[n]] = {} /\ nodes[dy[n]] = {}
      BY <1>7, ZenonT(60) DEF InitDynamic, CreationInv, RegistryInv, Fresh, Creating
    <2> QED BY <1>7, <2>1, ZenonT(60) DEF InitDynamic, CreateEffect
  <1>8. CASE RegisterFirst(n)
    <2>1. dy[n] \in Creations
      BY <1>8, ZenonT(60) DEF RegisterFirst, CreationInv, Creating
    <2>2. CASE ~CanBorrow(n)
      <3>0. Cardinality({}) < max_nodes
        BY <1>0
      <3>1. dy[n] \in locked \/ borrowed[dy[n]] # {}
        BY <2>2, <3>0, ZenonT(60) DEF CanBorrow
      <3> QED BY <1>8, <2>2, <3>1, ZenonT(60) DEF RegisterFirst, OpenEffect
    <2>3. CASE CanBorrow(n)
      BY <1>8, <2>1, <2>3 DEF RegisterFirst, Borrow, JoinEffect, Borrows
    <2> QED BY <2>2, <2>3, ZenonT(60)
  <1>9. CASE Unlock(n)
    BY <1>9, ZenonT(60) DEF Unlock, OpenEffect
  <1>10. CASE OpenDynamic(n)
    BY <1>10, ZenonT(60) DEF OpenDynamic, OpenEffect, TagInv, Tagged
  <1>11. CASE Register(n)
    <2>1. dy[n] \in Creations
      BY <1>11, ZenonT(60) DEF Register, RegistryInv
    <2>2. CASE ~CanBorrow(n)
      BY <1>11, <2>2, ZenonT(60) DEF Register, OpenEffect
    <2>3. CASE CanBorrow(n)
      BY <1>11, <2>1, <2>3 DEF Register, Join, Borrow, JoinEffect, Borrows
    <2> QED BY <2>2, <2>3, ZenonT(60)
  <1>12. CASE RemoveTag(n)
    BY <1>12, ZenonT(60) DEF RemoveTag, OpenEffect
  <1>13. CASE Deregister(n)
    <2>1. dy[n] \in Creations /\ n \in alive /\ pc[n] = "deregister"
      BY <1>13, ZenonT(60) DEF Deregister, RegistryInv, Active
    <2>2. /\ \A g \in Creations : nodes'[g] = IF g = dy[n] THEN nodes[g] \ {n} ELSE nodes[g]
          /\ UNCHANGED <<static, dynamic, ready, borrowed, locked, alive, dy, c_pc, c_dy, tag>>
          /\ pc' = [pc EXCEPT ![n] = "release"]
      BY <1>13, ZenonT(60) DEF Deregister, Deactivate
    <2> QED BY <2>1, <2>2, ZenonT(60) DEF LeaveEffect, Deactivates
  <1>14. CASE UnlinkDynamic(n)
    BY <1>14, ZenonT(60) DEF UnlinkDynamic, LeaveEffect
  <1>15. CASE UnlinkStatic(n)
    BY <1>15, ZenonT(60) DEF UnlinkStatic, Release, LeaveEffect
  <1>16. CASE Dies(n)
    BY <1>16, ZenonT(60) DEF Dies, DieEffect
  <1>17. CASE CleanerOpen(n)
    BY <1>17, ZenonT(60) DEF CleanerOpen, CleanerEffect
  <1>18. CASE CleanerRemoveNode(n)
    <2>1. c_dy[n] \in Creations /\ c_pc[n] = "remove_node" /\ n \notin alive /\ n \in tag
      BY <1>c, <1>18, ZenonT(60) DEF CleanerRemoveNode, RegistryInv
    <2>2. UNCHANGED <<static, dynamic, ready, borrowed, locked, alive, pc, dy, tag, c_dy>>
      BY <1>18, ZenonT(60) DEF CleanerRemoveNode, Deactivate
    <2>3. CASE n \in nodes[c_dy[n]]
      <3>1. /\ \A g \in Creations : nodes'[g] = IF g = c_dy[n] THEN nodes[g] \ {n} ELSE nodes[g]
            /\ c_pc' = [c_pc EXCEPT ![n] = "release_node"]
        <4>1. nodes' = [nodes EXCEPT ![c_dy[n]] = @ \ {n}]
          BY <1>18, <2>3, ZenonT(60) DEF CleanerRemoveNode, Deactivate
        <4> QED BY <1>18, <2>3, <4>1, ZenonT(60) DEF CleanerRemoveNode
      <3>2. c_dy[n] \notin locked
        BY <2>1, <2>3, ZenonT(60) DEF RegistryInv
      <3> QED BY <2>1, <2>2, <3>1, <3>2, ZenonT(60) DEF RemoveEffect, Deactivates
    <2>4. CASE n \notin nodes[c_dy[n]]
      <3>1. /\ nodes' = nodes
            /\ c_pc' = [c_pc EXCEPT ![n] = IF c_dy[n] \in locked THEN "remove_static" ELSE "remove_tag"]
        BY <1>18, <2>4, ZenonT(60) DEF CleanerRemoveNode
      <3> QED BY <2>1, <2>2, <2>4, <3>1, ZenonT(60) DEF RemoveEffect
    <2> QED BY <2>3, <2>4, ZenonT(60)
  <1>19. CASE CleanerRemoveStatic(n)
    BY <1>c, <1>19, ZenonT(60) DEF CleanerRemoveStatic, RemoveEffect
  <1>20. CASE CleanerRemoveDynamic(n)
    BY <1>c, <1>20, ZenonT(60) DEF CleanerRemoveDynamic, RemoveEffect
  <1>21. CASE CleanerRemoveTag(n)
    BY <1>c, <1>21, ZenonT(60) DEF CleanerRemoveTag, CleanerEffect
  <1>22. CASE CleanerDies(n)
    BY <1>c, <1>22, ZenonT(60) DEF CleanerDies, CleanerEffect
  <1>23. CASE Activate(n)
    <2>1. dy[n] \in Creations
      BY <1>23, ZenonT(60) DEF Activate, RegistryInv, Borrowing
    <2> QED BY <1>23, <2>1 DEF Activate, JoinEffect, Activates
  <1>24. CASE FailUnlock(n)
    BY <1>24, ZenonT(60) DEF FailUnlock, OpenEffect
  <1>25. CASE DeregisterRelease(n)
    <2>1. dy[n] \in Creations /\ n \in borrowed[dy[n]] /\ n \in alive /\ pc[n] = "release"
      BY <1>25, ZenonT(60) DEF DeregisterRelease, RegistryInv, Borrowing
    <2>2. /\ \A g \in Creations : borrowed'[g] = IF g = dy[n] THEN borrowed[g] \ {n} ELSE borrowed[g]
          /\ UNCHANGED <<static, dynamic, ready, nodes, alive, c_pc, c_dy, tag>>
      BY <1>25, ZenonT(60) DEF DeregisterRelease, ReleaseIndex
    <2>3. CASE borrowed[dy[n]] = {n}
      <3>1. /\ locked' = locked \cup {dy[n]} /\ pc' = [pc EXCEPT ![n] = "unlink_dynamic"]
            /\ dy' = dy
        BY <1>25, <2>3, ZenonT(60) DEF DeregisterRelease, ReleaseIndex
      <3> QED BY <2>1, <2>2, <2>3, <3>1, ZenonT(60) DEF LeaveEffect, Returns
    <2>4. CASE borrowed[dy[n]] # {n}
      <3>1. /\ locked' = locked /\ pc' = [pc EXCEPT ![n] = "idle"]
            /\ dy' = [dy EXCEPT ![n] = 0]
        BY <1>25, <2>4, ZenonT(60) DEF DeregisterRelease, ReleaseIndex, Release
      <3> QED BY <2>1, <2>2, <2>4, <3>1, ZenonT(60) DEF LeaveEffect, Returns
    <2> QED BY <2>3, <2>4, ZenonT(60)
  <1>26. CASE CleanerReleaseNode(n)
    <2>1. c_dy[n] \in Creations /\ c_pc[n] = "release_node" /\ n \notin alive /\ n \in tag
      BY <1>c, <1>26, ZenonT(60) DEF CleanerReleaseNode, RegistryInv
    <2>2. /\ \A g \in Creations : borrowed'[g] = IF g = c_dy[n] THEN borrowed[g] \ {n} ELSE borrowed[g]
          /\ locked' = IF borrowed[c_dy[n]] = {n} THEN locked \cup {c_dy[n]} ELSE locked
          /\ UNCHANGED <<static, dynamic, ready, nodes, alive, pc, dy, tag, c_dy>>
      BY <1>26, ZenonT(60) DEF CleanerReleaseNode, ReleaseIndex
    <2>3. c_pc' = [c_pc EXCEPT ![n] = IF borrowed[c_dy[n]] = {n} THEN "remove_static" ELSE "remove_tag"]
      BY <1>26, ZenonT(60) DEF CleanerReleaseNode
    <2>4. Others(n)
      BY <2>1, <2>2, <2>3, ZenonT(60)
    <2>5. RemoveEffect(n)
      <3>1. CASE borrowed[c_dy[n]] = {n}
        BY <2>1, <2>2, <2>3, <3>1, ZenonT(60) DEF RemoveEffect, Returns
      <3>2. CASE borrowed[c_dy[n]] # {n}
        BY <2>1, <2>2, <2>3, <3>2, ZenonT(60) DEF RemoveEffect, Returns
      <3> QED BY <3>1, <3>2, ZenonT(60)
    <2> QED BY <2>4, <2>5, ZenonT(60)
  <1> QED BY <1>1, <1>2, <1>3, <1>4, <1>5, <1>6, <1>7, <1>8, <1>9, <1>10, <1>11, <1>12, <1>13, <1>14,
             <1>15, <1>16, <1>17, <1>18, <1>19, <1>20, <1>21, <1>22, <1>23, <1>24, <1>25, <1>26, ZenonT(60)
         DEF Step, Create, Open, Close, Cleanup

\* A registry stays attended until it is locked, up to a cleaner that opens
\* another one.
LEMMA AttendedStep ==
  ASSUME IInv, TagInv, MemberInv, TypeInv', NEW n \in Nodes, Others(n), Effect(n),
         NEW g \in Creations, Attended(g)
  PROVE  Attended(g)' \/ (CleanerEffect(n) /\ c_pc[n] = "off" /\ dynamic # g)
  <1>1. /\ nodes[g] \subseteq Nodes /\ (c_pc[n] # "off" => n \notin alive /\ n \in tag)
        /\ n \in nodes[g] => g \in ready \ locked /\ dy[n] = g /\ pc[n] \in Active
        /\ n \in alive /\ pc[n] \in {"unlock", "open", "fail_static", "fail_tag"} => n \in tag
    BY ZenonT(60) DEF IInv, TypeInv, RegistryInv, TagInv, Tagged, Creating, MemberInv
  <1>2. \A m \in Nodes \ {n} : m \in nodes'[g] =>
          \/ m \in alive' \/ pc'[m] \in {"deregister", "failed"}
          \/ m \in tag' /\ (c_pc'[m] = "off" \/ (c_pc'[m] = "remove_node" /\ c_dy'[m] = g))
    BY ZenonT(60) DEF Others, Attended
  <1>3. nodes'[g] \subseteq Nodes
    BY ZenonT(60) DEF TypeInv
  <1>4. n \in nodes'[g] =>
          \/ n \in alive' \/ pc'[n] \in {"deregister", "failed"}
          \/ n \in tag' /\ (c_pc'[n] = "off" \/ (c_pc'[n] = "remove_node" /\ c_dy'[n] = g))
          \/ (CleanerEffect(n) /\ c_pc[n] = "off" /\ dynamic # g)
    <2> SUFFICES ASSUME n \in nodes'[g] PROVE <1>4!2
      BY ZenonT(60)
    <2>1. CASE OpenEffect(n) \/ JoinEffect(n) \/ CreateEffect(n) \/ LeaveEffect(n)
      BY <2>1, ZenonT(60) DEF OpenEffect, JoinEffect, CreateEffect, LeaveEffect, Passes
    <2>2. CASE DieEffect(n)
      BY <1>1, <2>2, ZenonT(60) DEF DieEffect, IInv, RegistryInv, Active, Failing
    <2>3. CASE CleanerEffect(n)
      <3>1. n \in nodes[g] /\ pc'[n] = pc[n] /\ n \notin alive
        BY <2>3, ZenonT(60) DEF CleanerEffect
      <3>2. \/ pc[n] \in {"deregister", "failed"}
            \/ c_pc[n] = "off" \/ c_pc[n] = "remove_node"
        BY <3>1, ZenonT(60) DEF Attended
      <3> QED BY <1>1, <2>3, <3>1, <3>2, ZenonT(60) DEF CleanerEffect, CPasses
    <2>4. CASE RemoveEffect(n)
      BY <1>1, <2>4, ZenonT(60) DEF RemoveEffect, CPasses, Attended, Deactivates, Returns
    <2> QED BY <2>1, <2>2, <2>3, <2>4, ZenonT(60) DEF Effect
  <1> QED BY <1>2, <1>3, <1>4, ZenonT(60) DEF Attended

\* The tags and the registries.
LEMMA MemberStep ==
  ASSUME IInv, TagInv, MemberInv, EmptyInv, TypeInv', NEW n \in Nodes, Others(n), Effect(n)
  PROVE  TagInv' /\ MemberInv' /\ EmptyInv'
  <1>1. \A g \in Creations :
          /\ borrowed[g] \subseteq Nodes /\ borrowed'[g] \subseteq Nodes /\ nodes[g] \subseteq borrowed[g]
    BY ZenonT(60) DEF IInv, TypeInv, RegistryInv
  <1>2. ready' \subseteq Creations /\ ready \subseteq Creations
    BY ZenonT(60) DEF IInv, TypeInv
  <1>3. TagInv'
    <2>1. (n \in alive' /\ pc'[n] \in Tagged) \/ c_pc'[n] # "off" => n \in tag'
      <3>1. CASE OpenEffect(n) \/ JoinEffect(n) \/ CreateEffect(n) \/ LeaveEffect(n)
        BY <3>1, ZenonT(60) DEF OpenEffect, JoinEffect, CreateEffect, LeaveEffect, Passes, TagInv, Tagged, Creating, Fresh, IInv,
                    RegistryInv
      <3>2. CASE DieEffect(n) \/ CleanerEffect(n) \/ RemoveEffect(n)
        BY <3>2, ZenonT(60) DEF DieEffect, CleanerEffect, RemoveEffect, CPasses, TagInv, IInv, RegistryInv
      <3> QED BY <3>1, <3>2, ZenonT(60) DEF Effect
    <2> QED BY <2>1, ZenonT(60) DEF TagInv, Others
  <1>4. MemberInv'
    <2> SUFFICES ASSUME NEW g \in Creations, NEW m \in borrowed'[g]
                 PROVE  /\ dy'[m] = g /\ pc'[m] \in Borrowing \cup Active
                        /\ m \in nodes'[g] => pc'[m] \in Active
      BY ZenonT(60) DEF MemberInv
    <2>1. CASE m # n
      BY <1>1, <2>1, ZenonT(60) DEF Others, MemberInv
    <2>2. CASE m = n
      <3>1. /\ n \in borrowed[g] => dy[n] = g /\ pc[n] \in Borrowing \cup Active
            /\ n \in nodes[g] => n \in borrowed[g] /\ pc[n] \in Active
        BY <1>1, ZenonT(60) DEF MemberInv
      <3>2. CASE OpenEffect(n) \/ CreateEffect(n)
        BY <2>2, <3>1, <3>2, ZenonT(60) DEF OpenEffect, CreateEffect, Passes, Borrowing, Active, Failing
      <3>3. CASE JoinEffect(n)
        BY <2>2, <3>1, <3>3, ZenonT(60)
           DEF JoinEffect, Passes, Borrows, Activates, Borrowing, Active, Failing
      <3>5. CASE LeaveEffect(n)
        BY <2>2, <3>1, <3>5, ZenonT(60)
           DEF LeaveEffect, Passes, Deactivates, Returns, Borrowing, Active, Failing
      <3>4. CASE DieEffect(n) \/ CleanerEffect(n) \/ RemoveEffect(n)
        BY <2>2, <3>1, <3>4, ZenonT(60) DEF DieEffect, CleanerEffect, RemoveEffect, Deactivates, Returns
      <3> QED BY <3>2, <3>3, <3>4, <3>5, ZenonT(60) DEF Effect
    <2> QED BY <2>1, <2>2, ZenonT(60)
  <1>5. EmptyInv'
    <2> SUFFICES ASSUME NEW g \in ready' \ locked', borrowed'[g] = {}
                 PROVE  \E m \in Nodes : pc'[m] = "register_first" /\ dy'[m] = g
      BY ZenonT(60) DEF EmptyInv
    <2>0. g \in Creations /\ g \notin locked
      BY <1>2, ZenonT(60) DEF Others
    <2>1. CASE g \notin ready
      BY <2>1, ZenonT(60) DEF Effect, OpenEffect, JoinEffect, CreateEffect, LeaveEffect, DieEffect, CleanerEffect,
                  RemoveEffect, Passes
    <2>2. CASE g \in ready /\ borrowed[g] # {}
      <3>1. borrowed[g] = {n}
        BY <1>1, <2>0, <2>2, ZenonT(60) DEF Others
      <3>2. CASE LeaveEffect(n)
        BY <2>0, <3>1, <3>2, ZenonT(60) DEF LeaveEffect, Deactivates, Returns
      <3>3. CASE RemoveEffect(n)
        BY <2>0, <3>1, <3>3, ZenonT(60) DEF RemoveEffect, Deactivates, Returns
      <3>4. CASE JoinEffect(n)
        BY <2>0, <3>1, <3>4, ZenonT(60) DEF JoinEffect, Borrows, Activates
      <3> QED BY <2>2, <3>2, <3>3, <3>4, ZenonT(60)
              DEF Effect, OpenEffect, CreateEffect, DieEffect, CleanerEffect
    <2>3. CASE g \in ready /\ borrowed[g] = {}
      <3>1. PICK m \in Nodes : pc[m] = "register_first" /\ dy[m] = g
        BY <2>0, <2>3, ZenonT(60) DEF EmptyInv
      <3>2. CASE m # n
        BY <3>1, <3>2, ZenonT(60) DEF Others
      <3>3. CASE m = n
        <4>1. CASE OpenEffect(n) \/ CreateEffect(n) \/ LeaveEffect(n)
          BY <2>0, <2>3, <3>1, <3>3, <4>1, ZenonT(60) DEF OpenEffect, CreateEffect, LeaveEffect, Passes
        <4>2. CASE JoinEffect(n)
          BY <3>1, <3>3, <4>2, ZenonT(60) DEF JoinEffect, Borrows, Passes
        <4>3. CASE DieEffect(n) \/ CleanerEffect(n) \/ RemoveEffect(n)
          BY <3>1, <3>3, <4>3, ZenonT(60) DEF DieEffect, CleanerEffect, RemoveEffect
        <4> QED BY <4>1, <4>2, <4>3, ZenonT(60) DEF Effect
      <3> QED BY <3>2, <3>3, ZenonT(60)
    <2> QED BY <2>1, <2>2, <2>3, ZenonT(60)
  <1> QED BY <1>3, <1>4, <1>5, ZenonT(60)

\* What is locked is locked by someone who goes on to remove the configs.
LEMMA LockedBy ==
  ASSUME NEW n \in Nodes, Effect(n), NEW g, g \in locked', g \notin locked
  PROVE  (pc'[n] = "unlink_dynamic" /\ dy'[n] = g) \/ c_pc'[n] = "remove_static"
  BY ZenonT(60) DEF Effect, OpenEffect, JoinEffect, CreateEffect, LeaveEffect, DieEffect, CleanerEffect,
         RemoveEffect, Passes, CPasses

\* The dynamic config.
LEMMA DynamicStep ==
  ASSUME IInv, RemovalInv, TypeInv', NEW n \in Nodes, Others(n), Effect(n)
  PROVE  CurrentInv' /\ DynamicInv'
  <1>1. TagInv /\ MemberInv /\ CurrentInv /\ DynamicInv /\ locked \subseteq ready
        /\ ready \subseteq Creations /\ (c_pc[n] # "off" => n \notin alive /\ n \in tag)
        /\ \A g \in ready : g # 0
    BY Bounds DEF RemovalInv, IInv, TypeInv, RegistryInv, TagInv, Creations
  <1>2. \/ dynamic' = dynamic
        \/ dynamic' = 0
        \/ CreateEffect(n) /\ pc'[n] = "init" /\ dy'[n] = dynamic' /\ dynamic' \notin ready'
    <2>1. CASE CreateEffect(n)
      <3>1. dynamic' = dynamic \/ (/\ Passes(n, "create_dynamic", "init") /\ ready' = ready
                                   /\ dynamic' = dy'[n] /\ dy'[n] \notin ready)
        BY <2>1, ZenonT(60) DEF CreateEffect
      <3>2. Passes(n, "create_dynamic", "init") => pc'[n] = "init"
        BY ZenonT(60) DEF Passes
      <3>3. CASE dynamic' = dynamic
        BY <3>3, ZenonT(60)
      <3>4. CASE dynamic' # dynamic
        BY <2>1, <3>1, <3>2, <3>4
      <3> QED BY <3>3, <3>4, ZenonT(60)
    <2>2. CASE ~CreateEffect(n)
      BY <2>2, ZenonT(60) DEF Effect, OpenEffect, JoinEffect, LeaveEffect, DieEffect, CleanerEffect,
             RemoveEffect
    <2> QED BY <2>1, <2>2, ZenonT(60)
  <1>3. 0 \notin ready'
    BY Bounds DEF TypeInv, Creations
  <1>4. CurrentInv'
    <2> SUFFICES ASSUME dynamic' \in ready' PROVE Attended(dynamic)'
      BY ZenonT(60) DEF CurrentInv
    <2>1. dynamic' = dynamic /\ dynamic \in Creations
      BY <1>2, <1>3, ZenonT(60) DEF TypeInv
    <2>2. CASE dynamic \in ready
      <3>1. Attended(dynamic)
        BY <1>1, <2>2, ZenonT(60) DEF CurrentInv
      <3>2. \A g \in Creations : Attended(g) /\ g = dynamic => Attended(g)'
        BY <1>1, AttendedStep, ZenonT(60)
      <3> QED BY <2>1, <3>1, <3>2, ZenonT(60) DEF Attended
    <2>3. CASE dynamic \notin ready
      <3>1. nodes'[dynamic] = {}
        BY <2>1, <2>3, ZenonT(60) DEF Effect, OpenEffect, JoinEffect, CreateEffect, LeaveEffect, DieEffect,
              CleanerEffect, RemoveEffect
      <3> QED BY <2>1, <3>1, ZenonT(60) DEF Attended
    <2> QED BY <2>2, <2>3, ZenonT(60)
  <1>5. ASSUME dynamic' # 0, dynamic' \notin ready'
        PROVE  \E m \in Nodes : pc'[m] = "init" /\ dy'[m] = dynamic'
    <2>1. CASE dynamic' = dynamic
      <3>1. PICK m \in Nodes : pc[m] = "init" /\ dy[m] = dynamic
        BY <1>1, <1>5, <2>1, ZenonT(60) DEF DynamicInv, Others
      <3>2. CASE m # n
        BY <2>1, <3>1, <3>2, ZenonT(60) DEF Others
      <3>3. CASE m = n
        BY <1>5, <2>1, <3>1, <3>3, ZenonT(60)
           DEF Effect, OpenEffect, JoinEffect, CreateEffect, LeaveEffect, DieEffect, CleanerEffect,
               RemoveEffect, Passes
      <3> QED BY <3>2, <3>3, ZenonT(60)
    <2> QED BY <1>2, <1>5, <2>1, ZenonT(60)
  <1>6. ASSUME dynamic' \in locked', dynamic' # 0
        PROVE  \E m \in Nodes : \/ pc'[m] = "unlink_dynamic" /\ dy'[m] = dynamic'
                                \/ Waits(m)'
                                \/ c_pc'[m] \in {"remove_static", "remove_dynamic"}
    <2>1. CASE dynamic' \notin locked
      BY <1>6, <2>1, LockedBy, ZenonT(60)
    <2>2. CASE dynamic' \in locked
      <3>1. dynamic' = dynamic
        BY <1>1, <1>2, <1>6, <2>2, ZenonT(60) DEF Others
      <3>2. PICK m \in Nodes : \/ pc[m] = "unlink_dynamic" /\ dy[m] = dynamic
                               \/ Waits(m)
                               \/ c_pc[m] \in {"remove_static", "remove_dynamic"}
        BY <1>1, <1>6, <2>2, <3>1, ZenonT(60) DEF DynamicInv
      <3>3. CASE m # n
        BY <3>1, <3>2, <3>3, ZenonT(60) DEF Others, Waits
      <3>4. CASE m = n
        <4>1. CASE OpenEffect(n) \/ JoinEffect(n) \/ CreateEffect(n)
          BY <1>1, <3>1, <3>2, <3>4, <4>1, ZenonT(60) DEF OpenEffect, JoinEffect, CreateEffect, Passes, Waits
        <4>2. CASE LeaveEffect(n) \/ DieEffect(n)
          BY <1>1, <1>6, <3>1, <3>2, <3>4, <4>2, ZenonT(60) DEF LeaveEffect, DieEffect, Passes, Waits
        <4>3. CASE CleanerEffect(n)
          BY <1>1, <2>2, <3>1, <3>2, <3>4, <4>3, ZenonT(60) DEF CleanerEffect, CPasses, Waits
        <4>4. CASE RemoveEffect(n)
          BY <1>1, <1>6, <3>1, <3>2, <3>4, <4>4, ZenonT(60) DEF RemoveEffect, CPasses, Waits
        <4> QED BY <4>1, <4>2, <4>3, <4>4, ZenonT(60) DEF Effect
      <3> QED BY <3>3, <3>4, ZenonT(60)
    <2> QED BY <2>1, <2>2, ZenonT(60)
  <1> QED BY <1>4, <1>5, <1>6, ZenonT(60) DEF DynamicInv

\* The static config.
LEMMA StaticStep ==
  ASSUME IInv, RemovalInv, TypeInv', NEW n \in Nodes, Others(n), Effect(n)
  PROVE  StaticInv'
  <1>1. /\ TagInv /\ MemberInv /\ CurrentInv /\ StaticInv /\ locked \subseteq ready
        /\ ready \subseteq Creations /\ (c_pc[n] # "off" => n \notin alive /\ n \in tag)
        /\ n \in alive /\ pc[n] \in Fresh => n \in tag
    BY ZenonT(60) DEF RemovalInv, IInv, TypeInv, RegistryInv, TagInv, Tagged, Creating
  <1> SUFFICES ASSUME static' # 0, dynamic' \notin ready' \ locked'
               PROVE  (\E m \in Nodes : Takes(m)') \/ (\E g \in ready' \ locked' : Attended(g)')
    BY ZenonT(60) DEF StaticInv
  <1>2. ASSUME NEW g \in locked', g \notin locked PROVE Takes(n)'
    BY <1>2, LockedBy, ZenonT(60) DEF Takes, Leaving
  <1>3. CASE static = 0
    BY <1>3, ZenonT(60) DEF Effect, OpenEffect, JoinEffect, CreateEffect, LeaveEffect, DieEffect, CleanerEffect,
                RemoveEffect, Passes, Takes, Fresh
  <1>4. CASE dynamic \in ready \ locked
    <2>1. CASE dynamic' = dynamic
      BY <1>2, <1>4, <2>1, ZenonT(60) DEF Others
    <2>2. CASE dynamic' # dynamic
      <3>1. CASE LeaveEffect(n)
        BY <2>2, <3>1, ZenonT(60) DEF LeaveEffect, Passes, Takes, Leaving
      <3>2. CASE RemoveEffect(n)
        <4>1. dynamic \in ready' \ locked' /\ Attended(dynamic)
          BY <1>1, <1>4, <2>2, <3>2, ZenonT(60) DEF RemoveEffect, CurrentInv
        <4>2. \A g \in Creations : Attended(g) => Attended(g)'
          BY <1>1, <3>2, AttendedStep, ZenonT(60) DEF RemoveEffect, CleanerEffect, CPasses
        <4> QED BY <1>1, <1>4, <4>1, <4>2, ZenonT(60)
      <3>3. CASE CreateEffect(n)
        BY <1>4, <2>2, <3>3, Bounds DEF CreateEffect, IInv, TypeInv, Creations
      <3> QED BY <2>2, <3>1, <3>2, <3>3, ZenonT(60) DEF Effect, OpenEffect, JoinEffect, DieEffect, CleanerEffect
    <2> QED BY <2>1, <2>2, ZenonT(60)
  <1>5. CASE static # 0 /\ dynamic \notin ready \ locked
    <2>1. ASSUME NEW m \in Nodes, Takes(m) PROVE Takes(m)' \/ (\E g \in ready' \ locked' : Attended(g)')
      <3>1. CASE m # n
        BY <2>1, <3>1, ZenonT(60) DEF Others, Takes, Waits
      <3>2. CASE m = n
        <4>1. CASE OpenEffect(n) \/ JoinEffect(n) \/ LeaveEffect(n) \/ DieEffect(n)
          BY <1>1, <2>1, <3>2, <4>1, ZenonT(60)
             DEF OpenEffect, JoinEffect, LeaveEffect, DieEffect, Passes, Takes, Waits, Fresh, Leaving,
                 IInv, RegistryInv
        <4>2. CASE CreateEffect(n)
          <5>1. CASE pc[n] = "init"
            <6>1. /\ dy[n] \in ready' \ locked' /\ nodes'[dy[n]] = {}
              BY <4>2, <5>1, ZenonT(60) DEF CreateEffect, Passes
            <6> QED BY <6>1, ZenonT(60) DEF Attended
          <5>2. CASE pc[n] # "init"
            BY <1>1, <2>1, <3>2, <4>2, <5>2, ZenonT(60) DEF CreateEffect, Passes, Takes, Waits, Fresh, Leaving
          <5> QED BY <5>1, <5>2, ZenonT(60)
        <4>3. CASE CleanerEffect(n)
          BY <1>1, <1>5, <2>1, <3>2, <4>3, ZenonT(60) DEF CleanerEffect, CPasses, Takes, Waits
        <4>4. CASE RemoveEffect(n)
          BY <1>1, <2>1, <3>2, <4>4, ZenonT(60) DEF RemoveEffect, CPasses, Takes, Waits
        <4> QED BY <4>1, <4>2, <4>3, <4>4, ZenonT(60) DEF Effect
      <3> QED BY <3>1, <3>2, ZenonT(60)
    <2>2. ASSUME NEW g \in ready \ locked, Attended(g)
          PROVE  Takes(n)' \/ (g \in ready' \ locked' /\ Attended(g)')
      <3>1. CASE g \in locked'
        BY <1>2, <2>2, <3>1, ZenonT(60)
      <3>2. CASE g \notin locked' /\ ~Attended(g)'
        <4>1. CleanerEffect(n) /\ c_pc[n] = "off"
          BY <1>1, <2>2, <3>2, AttendedStep, ZenonT(60)
        <4>2. n \notin alive' /\ (n \in tag' => Takes(n)')
          BY <1>5, <4>1, ZenonT(60) DEF CleanerEffect, CPasses, Takes, Waits
        <4> QED BY <4>1, <4>2, ZenonT(60) DEF CleanerEffect, CPasses
      <3> QED BY <2>2, <3>1, <3>2, ZenonT(60) DEF Others
    <2> QED BY <1>1, <1>5, <2>1, <2>2, ZenonT(60) DEF StaticInv
  <1> QED BY <1>3, <1>4, <1>5, ZenonT(60)

\* The second invariant follows from the first.
LEMMA RemovalNext == IInv /\ RemovalInv /\ [Next]_vars => RemovalInv'
  <1> SUFFICES ASSUME IInv, RemovalInv, [Next]_vars PROVE RemovalInv' OBVIOUS
  <1>1. CASE Next
    <2>1. PICK n \in Nodes : Step(n)
      BY <1>1, ZenonT(60) DEF Next, Step
    <2>2. Others(n) /\ Effect(n) /\ TypeInv'
      BY <2>1, StepEffect, TypeStep, ZenonT(60) DEF RemovalInv
    <2>3. TagInv' /\ MemberInv' /\ EmptyInv'
      BY <2>2, MemberStep, ZenonT(60) DEF RemovalInv
    <2> QED BY <2>2, <2>3, DynamicStep, StaticStep, ZenonT(60) DEF RemovalInv
  <1>2. CASE UNCHANGED vars
    <2>1. TagInv' /\ MemberInv' /\ EmptyInv'
      BY <1>2, ZenonT(60) DEF vars, RemovalInv, TagInv, MemberInv, EmptyInv
    <2>2. \A n \in Nodes : Waits(n)' = Waits(n) /\ Takes(n)' = Takes(n)
      BY <1>2, ZenonT(60) DEF vars, Waits, Takes
    <2>3. \A g : Attended(g)' = Attended(g)
      BY <1>2, ZenonT(60) DEF vars, Attended
    <2>4. CurrentInv' /\ DynamicInv' /\ StaticInv'
      BY <1>2, <2>2, <2>3, ZenonT(60) DEF vars, RemovalInv, CurrentInv, DynamicInv, StaticInv
    <2> QED BY <2>1, <2>4, ZenonT(60) DEF RemovalInv
  <1> QED BY <1>1, <1>2, ZenonT(60)

LEMMA RemovalInvariance == Spec => [](IInv /\ RemovalInv)
  <1>1. Init => RemovalInv
    BY ZenonT(60) DEF Init, RemovalInv, TagInv, Tagged, Creating, Fresh, MemberInv, EmptyInv, CurrentInv, DynamicInv,
       StaticInv
  <1> QED BY <1>1, InitInv, NextInv, RemovalNext, PTL DEF Spec

\* For every number of nodes, creations and registry slots: when all nodes have left
\* or have been cleaned up (ServiceState::drop, __internal_remove_node_from_service)
\* both configs are gone, up to the deaths and the failure that leave an entry in the
\* registry or a config that no tag leads to.
THEOREM ServiceIsRemoved == Spec => []ServiceRemoved
  <1>1. IInv /\ RemovalInv => ServiceRemoved
    <2> DEFINE Died(g) ==
          \E n \in Nodes \ alive :
            dy[n] = g /\ pc[n] \in {"init", "register_first", "deregister", "unlink_dynamic"}
    <2> SUFFICES ASSUME IInv, RemovalInv, Quiet
                 PROVE  /\ static # 0 =>
                             \/ DiedAt({"register_first", "deregister", "unlink_dynamic", "unlink_static"})
                             \/ \E g \in Creations : Kept(g)
                        /\ dynamic # 0 => Died(dynamic) \/ Kept(dynamic)
      BY ZenonT(60) DEF ServiceRemoved
    <2>1. \A n \in Nodes : /\ c_pc[n] = "off" /\ ~Waits(n)
                           /\ pc[n] \notin {"idle", "failed"} => n \in Nodes \ alive
                           /\ n \notin alive => n \notin tag
      BY ZenonT(60) DEF Quiet, Waits, IInv, RegistryInv
    <2>2. ASSUME NEW g \in ready \ locked, Attended(g), ~Kept(g)
          PROVE  /\ \E n \in Nodes \ alive : dy[n] = g /\ pc[n] \in {"register_first", "deregister"}
                 /\ g \in Creations
      <3>1. g \in Creations /\ borrowed[g] \subseteq Nodes
        BY ZenonT(60) DEF IInv, TypeInv
      <3>2. CASE borrowed[g] # {}
        <4>1. PICK n \in borrowed[g] : TRUE
          BY <3>2, ZenonT(60)
        <4>2. n \in Nodes /\ n \in nodes[g] /\ dy[n] = g /\ pc[n] # "failed"
          BY <2>2, <3>1, ZenonT(60) DEF RemovalInv, MemberInv, Kept
        <4>3. pc[n] \notin {"idle", "failed"}
          BY <3>1, <4>2, ZenonT(60) DEF RemovalInv, MemberInv, Borrowing, Active, Failing
        <4> QED BY <2>1, <2>2, <3>1, <4>2, <4>3, ZenonT(60) DEF Attended
      <3>3. CASE borrowed[g] = {}
        BY <2>1, <3>1, <3>3, ZenonT(60) DEF RemovalInv, EmptyInv
      <3> QED BY <3>2, <3>3, ZenonT(60)
    <2>3. ASSUME dynamic \in ready \ locked, ~Kept(dynamic)
          PROVE  \E n \in Nodes \ alive :
                   dy[n] = dynamic /\ pc[n] \in {"register_first", "deregister"}
      <3>1. Attended(dynamic)
        BY <2>3, ZenonT(60) DEF RemovalInv, CurrentInv
      <3> QED BY <2>2, <2>3, <3>1, ZenonT(60)
    <2>4. dynamic # 0 => Died(dynamic) \/ Kept(dynamic)
      <3>1. CASE dynamic \in ready \ locked
        BY <2>3, <3>1, ZenonT(60)
      <3>2. CASE dynamic \notin ready \ locked
        BY <2>1, <3>2, ZenonT(60) DEF RemovalInv, DynamicInv
      <3> QED BY <3>1, <3>2, ZenonT(60)
    <2>5. ASSUME static # 0, ~ \E g \in Creations : Kept(g)
          PROVE  DiedAt({"register_first", "deregister", "unlink_dynamic", "unlink_static"})
      <3>1. \A g \in ready : g \in Creations
        BY ZenonT(60) DEF IInv, TypeInv
      <3>2. CASE dynamic \in ready \ locked
        BY <2>3, <2>5, <3>1, <3>2, ZenonT(60) DEF DiedAt
      <3>3. CASE dynamic \notin ready \ locked
        <4>1. ASSUME NEW n \in Nodes, Takes(n)
              PROVE  n \in Nodes \ alive /\ pc[n] \in Leaving
          BY <2>1, <4>1, ZenonT(60) DEF Takes, Fresh, Leaving
        <4>2. (\E n \in Nodes : Takes(n)) \/ (\E g \in ready \ locked : Attended(g))
          BY <2>5, <3>3, ZenonT(60) DEF RemovalInv, StaticInv
        <4> QED BY <2>2, <2>5, <3>1, <4>1, <4>2, ZenonT(60) DEF DiedAt, Leaving
      <3> QED BY <3>2, <3>3, ZenonT(60)
    <2> QED BY <2>4, <2>5, ZenonT(60)
  <1> QED BY <1>1, RemovalInvariance, PTL

=============================================================================
