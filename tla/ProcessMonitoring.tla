----------------------------- MODULE ProcessMonitoring -----------------------------
(* How a dead node is noticed and who may clean up after it: the state file and *)
(* the owner_lock file of one process (iceoryx2-bb/posix/src/process_state.rs,  *)
(* iceoryx2-cal/src/monitoring/file_lock.rs), and the cleanup section around    *)
(* the cleaner (iceoryx2/src/node/mod.rs).                                      *)
(*                                                                              *)
(* The owner creates both files, locks the state file for as long as it lives   *)
(* and removes them when it shuts down.  Threads of other processes list the    *)
(* nodes and clean up after the dead ones.  The name of a node is never used    *)
(* again.                                                                       *)
(*                                                                              *)
(* External: the record locks of fcntl() belong to a process.  F_GETLK only     *)
(* reports locks of other processes, and closing any descriptor of a file       *)
(* releases the lock that the process has on it.                                *)
EXTENDS Naturals

CONSTANTS
    Threads,        \* threads that monitor and clean up
    process,        \* process[t] is the process of thread t
    None

Processes == {process[t] : t \in Threads}

ASSUME NoneAssumption == None \notin Processes

VARIABLES
    o_pc,                   \* the owner
    state_file, lock_file,  \* "none", "linked" or "removed"
    permission,             \* of the state file: "init" or "final"
    lock_owner,             \* process that has locked the owner_lock file
    IN_CLEANUP_SECTION,
    pc,
    resources,              \* stale resources of the node: "present" or "removed"
    saw_starting,           \* history: the thread last queried the state lock before the permission was final
    lock_lost               \* history: a cleaner lost its lock to a thread of its own process

files == <<state_file, lock_file, permission>>
monitoringVars ==
    <<o_pc, state_file, lock_file, permission, lock_owner, IN_CLEANUP_SECTION, pc, resources,
      saw_starting, lock_lost>>

MonitoringInit ==
    /\ o_pc = "start"
    /\ state_file = "none" /\ lock_file = "none" /\ permission = "init"
    /\ lock_owner = None
    /\ IN_CLEANUP_SECTION = [p \in Processes |-> FALSE]
    /\ pc = [t \in Threads |-> "idle"]
    /\ resources = "present"
    /\ saw_starting = [t \in Threads |-> FALSE]
    /\ lock_lost = FALSE

------------------------------------------------------------------------------
(* The owner: ProcessGuard                                                      *)

OwnerUnchanged == UNCHANGED <<lock_owner, IN_CLEANUP_SECTION, pc, saw_starting, lock_lost>>

(* ProcessGuard::new(): the owner_lock file, then the state file, which is      *)
(* locked before it gets its final permission                                   *)
CreateOwnerLock ==
    /\ o_pc = "start"
    /\ lock_file' = "linked"
    /\ o_pc' = "create"
    /\ UNCHANGED <<state_file, permission, resources>> /\ OwnerUnchanged

CreateStateFile ==
    /\ o_pc = "create"
    /\ state_file' = "linked"
    /\ o_pc' = "lock"
    /\ UNCHANGED <<lock_file, permission, resources>> /\ OwnerUnchanged

LockStateFile ==
    /\ o_pc = "lock"
    /\ o_pc' = "permit"
    /\ UNCHANGED <<files, resources>> /\ OwnerUnchanged

SetPermission_before_lock ==
    /\ o_pc \in {"lock", "permit"} /\ permission = "init"
    /\ permission' = "final"
    /\ o_pc' = IF o_pc = "lock" THEN "lock" ELSE "alive"
    /\ UNCHANGED <<state_file, lock_file, resources>> /\ OwnerUnchanged

SetPermission ==
    /\ o_pc = "permit"
    /\ permission' = "final"
    /\ o_pc' = "alive"
    /\ UNCHANGED <<state_file, lock_file, resources>> /\ OwnerUnchanged

(* SharedNode::drop() removes what the node has, then the guard is dropped: a   *)
(* file is removed before its descriptor is closed, the state file first.       *)
DropState ==
    /\ o_pc = "alive"
    /\ resources' = "removed" /\ state_file' = "removed"
    /\ o_pc' = "close"
    /\ UNCHANGED <<lock_file, permission>> /\ OwnerUnchanged

DropClose ==
    /\ o_pc = "close"
    /\ o_pc' = "drop_lock"
    /\ UNCHANGED <<files, resources>> /\ OwnerUnchanged

DropOwnerLock ==
    /\ o_pc = "drop_lock"
    /\ lock_file' = "removed"
    /\ o_pc' = "gone"
    /\ UNCHANGED <<state_file, permission, resources>> /\ OwnerUnchanged

OwnerDies ==
    /\ o_pc \notin {"start", "gone", "dead"}
    /\ o_pc' = "dead"
    /\ UNCHANGED <<files, resources>> /\ OwnerUnchanged

(* The lock of the state file is released when its descriptor is closed.        *)
StateLocked == o_pc \in {"permit", "alive", "close"}

------------------------------------------------------------------------------
(* A thread t that lists the nodes: ProcessMonitor                              *)

Goto(t, label) == pc' = [pc EXCEPT ![t] = label]

LockedByOther(t) == lock_owner \notin {None, process[t]}

Cleaning(t) == pc[t] \in {"clean", "drop_state", "drop_lock", "failed_state", "failed_lock"}

(* A descriptor of the owner_lock file is closed.                               *)
CloseOwnerLock(t) ==
    /\ lock_owner' = IF lock_owner = process[t] THEN None ELSE lock_owner
    /\ lock_lost' = (lock_lost \/ (lock_owner = process[t] /\ ~ Cleaning(t)))

(* ProcessMonitor::new() for a node that was found in the list                  *)
MonitorOpen(t) ==
    /\ pc[t] = "idle" /\ state_file = "linked"
    /\ Goto(t, "query")
    /\ UNCHANGED <<o_pc, files, lock_owner, IN_CLEANUP_SECTION, resources, saw_starting, lock_lost>>

(* read_state_from_file(): Alive, or look closer                                *)
MonitorQuery(t) ==
    /\ pc[t] = "query"
    /\ saw_starting' = [saw_starting EXCEPT ![t] = permission = "init"]
    /\ Goto(t, IF StateLocked THEN "idle" ELSE "exists")
    /\ UNCHANGED <<o_pc, files, lock_owner, IN_CLEANUP_SECTION, resources, lock_lost>>

(* DoesNotExist when the state file has been removed, ...                       *)
MonitorExists(t) ==
    /\ pc[t] = "exists"
    /\ Goto(t, IF state_file = "linked" THEN "permission" ELSE "idle")
    /\ UNCHANGED <<o_pc, files, lock_owner, IN_CLEANUP_SECTION, resources, saw_starting, lock_lost>>

(* ... Starting before it has its final permission, ...                         *)
MonitorPermission(t) ==
    /\ pc[t] = "permission"
    /\ Goto(t, IF permission = "init" THEN "idle" ELSE "open_lock")
    /\ UNCHANGED <<o_pc, files, lock_owner, IN_CLEANUP_SECTION, resources, saw_starting, lock_lost>>

(* ... DoesNotExist or CorruptedState without an owner_lock file, ...           *)
MonitorOpenLock(t) ==
    /\ pc[t] = "open_lock"
    /\ Goto(t, IF lock_file = "linked" THEN "query_lock" ELSE "idle")
    /\ UNCHANGED <<o_pc, files, lock_owner, IN_CLEANUP_SECTION, resources, saw_starting, lock_lost>>

(* ... CleaningUp when another process has locked it, and Dead otherwise        *)
MonitorQueryLock(t) ==
    /\ pc[t] = "query_lock"
    /\ Goto(t, IF LockedByOther(t) THEN "idle" ELSE "dead_node")
    /\ CloseOwnerLock(t)
    /\ UNCHANGED <<o_pc, files, IN_CLEANUP_SECTION, resources, saw_starting>>

------------------------------------------------------------------------------
(* A thread t that cleans up: remove_stale_resources() and ProcessCleaner       *)

(* Ok(false): the section is left and nothing was done.                         *)
LeaveSection(t) ==
    /\ IN_CLEANUP_SECTION' = [IN_CLEANUP_SECTION EXCEPT ![process[t]] = FALSE]
    /\ Goto(t, "idle")

(* IN_CLEANUP_SECTION.swap(true)                                                *)
EnterSection(t) ==
    /\ pc[t] = "dead_node"
    /\ Goto(t, IF IN_CLEANUP_SECTION[process[t]] THEN "idle" ELSE "cleaner_open_lock")
    /\ IN_CLEANUP_SECTION' = [IN_CLEANUP_SECTION EXCEPT ![process[t]] = TRUE]
    /\ UNCHANGED <<o_pc, files, lock_owner, resources, saw_starting, lock_lost>>

(* ProcessCleaner::new(): opens both files, ...                                 *)
CleanerOpenLock(t) ==
    /\ pc[t] = "cleaner_open_lock"
    /\ IF lock_file = "linked" THEN Goto(t, "cleaner_open_state") /\ UNCHANGED IN_CLEANUP_SECTION
                               ELSE LeaveSection(t)
    /\ UNCHANGED <<o_pc, files, lock_owner, resources, saw_starting, lock_lost>>

CleanerOpenState(t) ==
    /\ pc[t] = "cleaner_open_state"
    /\ IF state_file = "linked"
       THEN Goto(t, "cleaner_query") /\ UNCHANGED <<lock_owner, lock_lost, IN_CLEANUP_SECTION>>
       ELSE LeaveSection(t) /\ CloseOwnerLock(t)
    /\ UNCHANGED <<o_pc, files, resources, saw_starting>>

CleanerQuery_skipped(t) ==
    /\ pc[t] = "cleaner_query"
    /\ Goto(t, "cleaner_lock")
    /\ UNCHANGED <<o_pc, files, lock_owner, IN_CLEANUP_SECTION, resources, saw_starting, lock_lost>>

(* ... looks at the lock of the owner once more, with InstanceStillAlive as a   *)
(* fatal panic, ...                                                             *)
CleanerQuery(t) ==
    /\ pc[t] = "cleaner_query"
    /\ Goto(t, IF StateLocked THEN "panicked" ELSE "cleaner_lock")
    /\ UNCHANGED <<o_pc, files, lock_owner, IN_CLEANUP_SECTION, resources, saw_starting, lock_lost>>

CleanerLock_shared(t) ==
    /\ pc[t] = "cleaner_lock"
    /\ lock_owner' = process[t] /\ Goto(t, "clean")
    /\ UNCHANGED <<o_pc, files, resources, saw_starting, IN_CLEANUP_SECTION, lock_lost>>

(* ... and locks the owner_lock file.                                           *)
CleanerLock(t) ==
    /\ pc[t] = "cleaner_lock"
    /\ IF LockedByOther(t)
       THEN LeaveSection(t) /\ CloseOwnerLock(t)
       ELSE /\ lock_owner' = process[t] /\ Goto(t, "clean")
            /\ UNCHANGED <<IN_CLEANUP_SECTION, lock_lost>>
    /\ UNCHANGED <<o_pc, files, resources, saw_starting>>

(* acquire_cleaner_lock() fails with Interrupt or InternalError: the section is *)
(* not left.                                                                    *)
CleanerFails(t) ==
    /\ pc[t] \in {"cleaner_open_lock", "cleaner_open_state", "cleaner_query", "cleaner_lock"}
    /\ Goto(t, "idle")
    /\ IF pc[t] = "cleaner_open_lock" THEN UNCHANGED <<lock_owner, lock_lost>>
                                      ELSE CloseOwnerLock(t)
    /\ UNCHANGED <<o_pc, files, IN_CLEANUP_SECTION, resources, saw_starting>>

(* The node is removed from its services and its details are removed.           *)
RemoveNode(t) ==
    /\ pc[t] = "clean"
    /\ resources' = "removed"
    /\ Goto(t, "drop_state")
    /\ UNCHANGED <<o_pc, files, lock_owner, IN_CLEANUP_SECTION, saw_starting, lock_lost>>

(* The services or the details cannot be accessed: cleaner.abandon()            *)
Abandon(t) ==
    /\ pc[t] = "clean"
    /\ CloseOwnerLock(t)
    /\ LeaveSection(t)
    /\ UNCHANGED <<o_pc, files, resources, saw_starting>>

(* cleanup_failure?: a service could not be cleaned up; the cleaner is dropped, *)
(* the section is not left.                                                     *)
CleanupFails(t) ==
    /\ pc[t] = "clean"
    /\ Goto(t, "failed_state")
    /\ UNCHANGED <<o_pc, files, lock_owner, IN_CLEANUP_SECTION, resources, saw_starting, lock_lost>>

DropCleanerState_without_ownership(t) ==
    /\ pc[t] \in {"drop_state", "failed_state"}
    /\ Goto(t, IF pc[t] = "drop_state" THEN "drop_lock" ELSE "failed_lock")
    /\ UNCHANGED <<o_pc, files, lock_owner, IN_CLEANUP_SECTION, resources, saw_starting, lock_lost>>

(* The cleaner is dropped, which removes the files it has taken over.           *)
DropCleanerState(t) ==
    /\ pc[t] \in {"drop_state", "failed_state"}
    /\ state_file' = "removed"
    /\ Goto(t, IF pc[t] = "drop_state" THEN "drop_lock" ELSE "failed_lock")
    /\ UNCHANGED <<o_pc, lock_file, permission, lock_owner, IN_CLEANUP_SECTION, resources,
                   saw_starting, lock_lost>>

DropCleanerLock(t) ==
    /\ pc[t] \in {"drop_lock", "failed_lock"}
    /\ lock_file' = "removed"
    /\ CloseOwnerLock(t)
    /\ IF pc[t] = "drop_lock" THEN LeaveSection(t)
                              ELSE Goto(t, "idle") /\ UNCHANGED IN_CLEANUP_SECTION
    /\ UNCHANGED <<o_pc, state_file, permission, resources, saw_starting>>

ProcessDies(p) ==
    /\ \E t \in Threads : process[t] = p /\ pc[t] # "dead"
    /\ pc' = [t \in Threads |-> IF process[t] = p THEN "dead" ELSE pc[t]]
    /\ lock_owner' = IF lock_owner = p THEN None ELSE lock_owner
    /\ UNCHANGED <<o_pc, files, IN_CLEANUP_SECTION, resources, saw_starting, lock_lost>>

------------------------------------------------------------------------------
Owner == \/ CreateOwnerLock \/ CreateStateFile \/ LockStateFile \/ SetPermission
         \/ DropState \/ DropClose \/ DropOwnerLock \/ OwnerDies

Monitor(t) == \/ MonitorOpen(t) \/ MonitorQuery(t) \/ MonitorExists(t) \/ MonitorPermission(t)
              \/ MonitorOpenLock(t) \/ MonitorQueryLock(t)

Cleaner(t) == \/ EnterSection(t) \/ CleanerOpenLock(t) \/ CleanerOpenState(t) \/ CleanerQuery(t)
              \/ CleanerLock(t) \/ DropCleanerState(t) \/ DropCleanerLock(t)

MonitoringNext ==
    \/ Owner
    \/ \E t \in Threads : \/ Monitor(t) \/ Cleaner(t) \/ CleanerFails(t)
                          \/ RemoveNode(t) \/ Abandon(t) \/ CleanupFails(t)
    \/ \E p \in Processes : ProcessDies(p)

MonitoringSpec == MonitoringInit /\ [][MonitoringNext]_monitoringVars

(* Every thread keeps listing the nodes and cleaning up after the dead ones,    *)
(* and does not have to abandon the cleanup over and over again.                *)
MonitoringFairness ==
    \A t \in Threads : /\ WF_monitoringVars(Monitor(t) \/ Cleaner(t))
                       /\ SF_monitoringVars(RemoveNode(t) \/ CleanupFails(t))

MonitoringFairSpec == MonitoringSpec /\ MonitoringFairness

------------------------------------------------------------------------------
(* Properties                                                                   *)

MonitoringTypeOK ==
    /\ o_pc \in {"start", "create", "lock", "permit", "alive", "close", "drop_lock", "gone", "dead"}
    /\ {state_file, lock_file} \subseteq {"none", "linked", "removed"}
    /\ permission \in {"init", "final"} /\ resources \in {"present", "removed"}
    /\ lock_owner \in Processes \cup {None}
    /\ IN_CLEANUP_SECTION \in [Processes -> BOOLEAN]
    /\ pc \in [Threads -> {"idle", "query", "exists", "permission", "open_lock", "query_lock",
                           "dead_node", "cleaner_open_lock", "cleaner_open_state", "cleaner_query",
                           "cleaner_lock", "clean", "drop_state", "drop_lock", "failed_state",
                           "failed_lock", "panicked", "dead"}]
    /\ saw_starting \in [Threads -> BOOLEAN] /\ lock_lost \in BOOLEAN

(* Nobody removes the resources of a process that is alive: whatever the        *)
(* monitor concluded, the cleaner is only created once the lock of the owner is *)
(* released, and then it has died or removed everything itself.                 *)
OnlyDeadCleanedUp ==
    \A t \in Threads : Cleaning(t) => o_pc \in {"drop_lock", "gone", "dead"}

(* "This should never happen! [...] since the Node is still alive": no thread    *)
(* reaches the fatal panic of acquire_cleaner_lock().                           *)
NodeNeverStillAlive ==
    \A t \in Threads : pc[t] # "panicked"

(* The panic of acquire_cleaner_lock() takes a thread that had queried the lock *)
(* of the state file before the owner finished creating it, and nothing else.   *)
StillAliveOnlyAtStart ==
    \A t \in Threads : pc[t] = "panicked" => saw_starting[t]

(* "The instance that owns the ProcessCleaner is allowed to cleanup all         *)
(* resources - no one else is", since "the lock can be acquired only once in    *)
(* the inter-process context": two threads never clean up the same node.        *)
CleanerExclusive ==
    \A t, u \in Threads : t # u => ~ (Cleaning(t) /\ Cleaning(u))

(* The owner_lock file between processes and IN_CLEANUP_SECTION inside each of  *)
(* them keep all but one thread from cleaning up, until a process has lost the  *)
(* lock to a thread of its own that monitored the node meanwhile.               *)
ExclusiveUntilLockLost ==
    MonitoringTypeOK /\ (lock_lost \/ CleanerExclusive)

(* A thread that will never clean up again: a failure left its process inside   *)
(* the cleanup section, or it has panicked or died.                             *)
Disabled(t) ==
    \/ pc[t] \in {"panicked", "dead"}
    \/ /\ IN_CLEANUP_SECTION[process[t]]
       /\ \A u \in Threads : process[u] = process[t] =>
             pc[u] \in {"idle", "query", "exists", "permission", "open_lock", "query_lock",
                        "dead_node", "panicked", "dead"}

(* A node that has died after it was created is removed in the end, although    *)
(* cleaners die, abandon the cleanup or lose their lock, as long as one process *)
(* is left that can enter its cleanup section.                                  *)
DeadNodeRemoved ==
    (o_pc = "dead" /\ permission = "final") ~>
        (state_file = "removed" \/ \A t \in Threads : Disabled(t))
==============================================================================
