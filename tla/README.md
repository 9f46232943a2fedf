# Formal verification of iceoryx2

TLA+ models of the zero-copy communication path of iceoryx2, of its events and of the
lifecycle of connections, nodes and services, the TLC runs that check them on small
instances, and TLAPS proofs that hold for every instance.
`PROJECT.json` lists components, runs, faulty variants, the source lines of each
definition, findings, hazards and theorems in machine-readable form.

## 1. The system

iceoryx2 lets processes exchange payloads through shared memory without copying
them. A publisher owns a *data segment* of equally sized chunks. It loans a chunk,
writes a payload into it and sends the *offset* of the chunk to every subscriber.
A subscriber reads the payload in place and returns the offset. Nobody holds a
lock that another process waits for, and any process may die at any moment.

| Part | Source | State | Operations |
|---|---|---|---|
| SafelyOverflowingIndexQueue | `iceoryx2-bb/lock-free/src/spsc` | two positions, capacity + 1 slots | push (may evict), pop, is_full, is_empty |
| IndexQueue | same | two positions, capacity slots, has_producer, has_consumer | push, pop, is_full, is_empty, acquire and drop of both ends |
| UniqueIndexSet | `iceoryx2-bb/lock-free/src/mpmc` | tagged head, free list | acquire, release, release that locks |
| Container | same | index set, generations, elements, change counter | add, remove, update_state |
| ZeroCopyConnection | `iceoryx2-cal/src/zero_copy_connection` | submission queue, completion queue, used chunk list, port state | try_send, blocking_send, reclaim, receive, release, acquire_used_offsets, creation and removal |
| Sender, Receiver, Publisher, Subscriber | `iceoryx2/src/port` | connections, reference counts, history, loans | loan, send, update_connections, receive, release, drop |
| Registry | `iceoryx2/src/service/dynamic_config` | Containers of ports and nodes | register, deregister, remove_dead_node_id |
| Event | `iceoryx2-cal/src/event`, notifier, listener | id tracker, signal, reference counter | notify, wait, open, drop |
| Node, monitoring | `iceoryx2/src/node`, `iceoryx2-bb/posix/src/process_state.rs` | lock files, service tags | create, state, cleanup of dead nodes |
| Service | `iceoryx2/src/service/builder` | static and dynamic configuration | create, open, open_or_create, removal by the last node |
| Dynamic storage | `iceoryx2-cal/src/dynamic_storage` | shared memory with a version | create, initialize, open with timeout, remove |
| Request-response, blackboard, waitset, tunnels, bindings | `iceoryx2`, `iceoryx2-services`, `iceoryx2-tunnels`, `iceoryx2-ffi` | see `PROJECT.json` | |

How the parts interact: the submission queue of a connection is a
SafelyOverflowingIndexQueue, its completion queue an IndexQueue. The pool of a data
segment and the slots of a Container come from a UniqueIndexSet. Publishers and
subscribers find each other through Containers, each keeping a private copy that
it refreshes when it sends or receives. The publisher counts the references to a
chunk: one for the user, one for the history, one for each connection it is on.

A node owns a state file that it keeps locked while it lives. Other processes query that
lock; whoever finds a dead node and gets the lock of its owner_lock file cleans up: the
ports of the node leave their connections, and the node leaves the services it has tagged.
Connections, services and events are all found and removed *by name*, and each has a rule
for who removes it last: a state word with a bit per port, a node registry that locks when
the last node leaves, a reference counter.

What makes it hard: evictions race with receive on the same slot; loads return
values that are already old; a process may die between any two accesses; a
subscriber can leave with offsets in each of five places; queues and pools have
fixed sizes that must suffice in the worst case; between the decision to remove a resource
and its removal by name, somebody may have created a new one under the same name.

## 2. Modules

| Module | Models | Used through its promise by |
|---|---|---|
| `OverflowingFifo`, `BoundedFifo` | what the two queues promise | the queues refine them; ZeroCopyConnection is built on them |
| `SafelyOverflowingIndexQueue`, `...Proofs` | the overflowing queue, access by access | ZeroCopyConnection |
| `IndexQueue` | the bounded queue, access by access | ZeroCopyConnection |
| `UniqueIndexSet`, `...Proofs` | the lock-free free list | Container, PublishSubscribe |
| `Container` | the registry and a reader's copy | PublishSubscribe, ServiceLifecycle |
| `IndexQueueAndContainerProofs` | theorems about the bounded queue and about the registry | |
| `ZeroCopyConnection`, `...Proofs` | one channel of a connection | PublishSubscribe |
| `PublishSubscribe`, `...Proofs` | one publisher and its subscribers | |
| `Event` | one listener, its notifiers, their shared storage | |
| `ProcessMonitoring` | one node, its two lock files, those who monitor and clean up | ConnectionLifecycle, ServiceLifecycle |
| `EventAndMonitoringProofs` | theorems about these two | |
| `ConnectionLifecycle`, `...Proofs` | creation, sharing and removal of one connection and its data segment | |
| `ServiceLifecycle`, `...Proofs` | creation, sharing and removal of one service | |
| `MC_*` | the modules TLC starts from | |

Definitions keep the names of the source. A definition `X_<fault>` in front of `X`
is a faulty variant of it, as a plausible bug would make it; replacing `X` by it
breaks the property that `PROJECT.json` names for it. Where one module of proofs is about two
components, or one run checks two, the second names its specification after itself
(`ContainerSpec`, `MonitoringSpec`, `LifecycleSpec`).

### Conventions

*Atomicity.* In the lock-free modules one action is one access to shared memory.
A write to a slot, which is not atomic, takes two steps and leaves `Torn` (in Container
`TornEntry`) in between; in Container the reader's copy also takes two steps. In
ZeroCopyConnection one action is one call of the queue below, except that a push
on a full submission queue is two steps, because the lower level shows that the
queue holds one index too many in between. In PublishSubscribe one action is the
part of a call up to the next point where the other side can tell a difference.

*Memory model.* The accesses of one thread happen in program order. In the two queues a
load of a location written by the other side, Relaxed or Acquire, and the load of a failed
exchange may return any value not older than the last one that the thread has observed;
Acquire adds only that what was written before the value is visible as well. A successful
exchange reads the current value. So `pop` may find the queue empty although it is not, and
may even compare with a `write_position` below the `read_position` it has loaded. Two things
rest on the machine rather than on the language. The load of `read_position` in `pop` is
Relaxed (`safely_overflowing_index_queue.rs:338`): when it returns what a recycling push has
stored, nothing orders the read of the slot after its write, and it is the dependency of the
address on the loaded position that yields the content. And an exchange with Relaxed success
and Acquire failure order is compiled with Acquire. Reorderings beyond this are not modelled
and are listed as a hazard.

In UniqueIndexSet and Container a load on which an exchange follows is checked by that exchange;
the other loads there and in Event are taken as current, which is an abstraction. In
ZeroCopyConnection a `reclaim` that finds nothing means that the completion queue was empty at
some moment after the sender's previous push, because the Acquire load of `write_position` is not
moved before the Release store of that push (x86-64, and `ldar` after `stlr` on AArch64).

*Data.* A payload is what identifies it: the index pushed at position `p` is
`p + 1`, an element of the registry is its generation, a sample is its number.

*Death.* `Die` stops a thread or process for good between two accesses; what it
held stays where it was.

### SafelyOverflowingIndexQueue

`write_position`, `read_position` and `data` are the fields of the struct. `push` is
`PushLoadReadPosition`, `PushBeginWrite`, `PushEndWrite`, `PushPublish`, then, if the
queue was full, `PushEvict` and `PushReadOld`, or `PushEvictFailed`. `pop` is
`PopLoadReadPosition`, `PopLoadWritePosition`, `PopReadSlot` and `PopExchange` or
`PopExchangeFailed`, which repeats. `history` records what was returned by pop and by
eviction. `c_wp` is the `write_position` that the consumer has observed last. The load of the producer's own `write_position` is merged with the load of
`read_position`, since only the producer writes it.

### IndexQueue

As above without eviction, with `AcquireProducer`, `DropProducer` and the same for
the consumer. The constant `HandoffSynchronizes` says whether a thread that takes over
an end of the queue sees what its predecessor did. Inside a connection each end stays
with one port, whose thread-safety policy serializes its users, so the assumption
holds there.

### UniqueIndexSet

`head` is the 64 bit word with its three fields, `next` the free list. The tag has
`AbaModulus` values (65536 in the code). `WindowsStayOpen` bounds how often `head` may
change while a thread is between its load and its exchange: fewer than `AbaModulus`
times. Beyond this bound the code is wrong, as every tagged pointer is. `free`,
`acquired`, `leaked` and `win` are history variables.

### Container

Writers acquire a slot, copy the element, advance the generation and count the
change; removal deactivates, releases and counts. The reader is `update_state`, slot
by slot. `dirty` records the slots changed since the last counted change: this is what
the reader cannot know yet.

### ZeroCopyConnection

The sender reclaims until the completion queue is empty, then sends one sample: this
is the order in `Sender::deliver_offset` and `deliver_sample_history`.
`enable_safe_overflow` is chosen in `Init`, so one run covers both settings. A send is
`try_send` or `blocking_send`; the latter waits in the state "blocked" while the buffer
is full. An entry of the submission queue carries the read position of the completion
queue at the time it was pushed: a receiver that takes the entry has synchronized with
the sender and knows at least that position. `seen` is what the receiver knows.
`ReceiverGone` is the drop or the death of the receiver. `lost` and `corrupted` record the
two error paths.

### PublishSubscribe

The settings of the service are a variable that `Init` chooses from `Configs`, so that one
run covers several services. `registry` and `subscriber_list_state` are the Container and the
publisher's copy. `ref_count` and `free` are the segment state and the pool, `used_chunk_list`
the list of each connection. `p_pc` is the position in the call of the publisher, which is
sequential under its lock. `send_sample` is `UpdateConnections` (with `UpdateConnection`
for each slot, `RetrieveForHistory` and `DeliverSampleHistory` for each sample of the
history, and `FinishUpdateConnectionCycle`), `AddSampleToHistory`, `DeliverOffset` for each
connection and `DropSent`. The creation of a connection may fail; the degradation
callback may then make the call give up. `Loan` may take any free chunk; of the chunks that no
subscriber refers to, which are interchangeable, it takes the smallest.

### Event

The event built from the bit set and the semaphore, step by step. `bits` and `reset_position`
are the bit set, `signals` the semaphore with its maximum, `reference_counter` and
`has_listener` the management segment. `notify` is `Notify`, `NotifyAdd` and `NotifySignal`. All six
wait functions of the listener are `Call`, `Drain`, `WakeUp`, `TimeOut` or `Interrupt`, and
`ResetNext`, one id after the other, or `ResetAll`, one element of the bit set after the other;
the user may call them in any order. A notifier that has left may open the event again.
`Open`, `OpenCheck` and `OpenExchange` are the loop that takes a reference. Everyone may die
at any step; a dead listener is removed by force. `owed` records the ids that were notified and
not handed out yet, `left` those that the last `*_wait_one` left behind when it had taken all
signals and `dropped` those that were taken and not returned, both without the ids that were
notified again since. This event is not the default of the `ipc` and `local` services, which
use sockets.

### ProcessMonitoring

One node, from `ProcessGuard::new` to its drop or its death, and threads of other processes
that run `ProcessMonitor::state`, `ProcessCleaner::new` and `remove_stale_resources`. A file is
"linked" or "removed"; a descriptor that is open keeps working on a removed file. Record locks
follow POSIX: they belong to a process, a process does not see its own, and closing any
descriptor of the file releases them. `lock_lost` and `saw_starting` record the two ways in
which that becomes visible.

### ConnectionLifecycle

The two ports of one connection and the cleaners of their nodes. `linked` is what the name
refers to, `storages` everything that was ever created under it: a port may hold a storage that
no longer has the name. Opening, creating and initialising are the loop of
`open_or_create` with its timeout, `ReservePort` and `RemovePort` are the operations on the state
word, `Unlink` removes the name one step later. A publisher frees its data segment between
leaving the registry and leaving its connections.

### ServiceLifecycle

Nodes that call `open_or_create`, close the service and die, and the cleaners of the dead. A
creation has a number; `static` and `dynamic` are the creations that the two names refer to, so
the model can tell when they differ. `tag` is what a cleaner looks for. The node registry is a
Container: `borrowed` are the nodes that have an index of it and `nodes` those whose index is
active, which is where a cleaner looks. Registering is `Register` (or `RegisterFirst`) and
`Activate`, leaving is `Deregister` and `DeregisterRelease`, for a cleaner `CleanerRemoveNode` and
`CleanerReleaseNode`, and a process may die between the two. `FailUnlock` is the failure of
`serialize` or `unlock` at the end of a creation (`builder/publish_subscribe.rs:601-609`). A fatal
panic ends the node where it is, as in the release profile (`panic = "abort"`, `Cargo.toml:143`);
with unwinding the static config would be dropped as well. `disputed` records that a cleaner
removed by name for a node that was not registered, or that a registered creator failed; `mixed`
that a node joined the dynamic config of one creation with the static config of another.

## 3. Runs

| Run | Instance | States | Shows |
|---|---|---|---|
| `queue_and_monitoring` | capacity 2, 8 pushes; 2 threads of one process, 1 of another | 178 000 | every index is returned exactly once and in order, no slot is read torn, the negative answers of is_full and is_empty are reliable, refinement of OverflowingFifo; only the dead are cleaned up, one cleaner at a time until a lock is lost, the panic only during the start, a dead node is removed in the end |
| `index_queue_and_container` | capacity 2, 12 pushes; 2 writers, 2 slots, 3 additions | 900 000 | intact slots, reliable answers, refinement of BoundedFifo; no torn element, exactness up to uncounted changes, no slot lost but by death, locked means empty, the copy becomes exact |
| `index_queue_handoff` | capacity 2, 3 pushes | | violation, see section 6 |
| `unique_index_set` | 2 threads, capacity 3, tag modulo 5 | 163 000 | one owner per index, intact free list with an exact count, refusals only when exhausted or locked and a lock is final, lock freedom |
| `connection` | buffer 2, 1 borrowed, 4 chunks, 5 sends, with and without overflow; 3 storages | 207 000 | room in the completion queue, exact used chunk list, bounded circulation, a send returns unless the receiver is gone; living ports meet in one storage, nothing is left behind outside the named windows, connecting ends |
| `publish_subscribe` | four services, 2 subscribers, 3 to 5 sends | 707 000 | exact reference counts and used chunk lists, order, the newest sample arrives, no chunk is loaned while read, no loan runs out of memory, a delivered sample stays until received |
| `publish_subscribe_held` | buffer 1 | | violation, see section 6 |
| `event` | 2 notifiers, 2 ids in 2 elements, semaphore up to 2 | 456 000 | no notification is lost, nobody sleeps while an id is pending but for what a `*_wait_one` left, the last user removes the storage, every id is delivered |
| `event_mixed` | 1 notifier, 2 ids | | violation, see section 6 |
| `process_monitoring_panic`, `process_monitoring_exclusive` | 2 threads of one process, 1 of another | | violations, see section 6 |
| `service_lifecycle` | 3 nodes of which at most 2 die, registry of 2, 2 creations | 1 196 000 | an open service is whole, the creator can register, nothing is left behind outside the named windows |

*Two components in one run.* Where a run checks two components that are modelled apart, its MC module
has a variable `subject` that is chosen in the initial state and never changes: it names the
component whose steps the behaviour takes. The other one stays in an initial state, in which its
invariants hold and none of its fair actions is enabled, so each property is checked on its own
component exactly as in a run of its own.

*Bounds.* The number of pushes, additions and sends is bounded in the guards
(`MaxPush`, `MaxAdd`, `MaxSend`). Eight pushes on three slots wrap the queue more than
twice with evictions at every alignment. Three additions to two slots reuse a slot
while the other changes.

The tag of UniqueIndexSet wraps in the run. The exchange compares the whole head with its
count of borrowed indices, so a forgotten tag does harm only if a second thread that
holds one index acquires two more and releases the old one and the first of the two, all
inside the window of the first thread. That takes three indices and four exchanges: with
capacity 3 and five tag values the run contains exactly this case, and two threads suffice
for it.

The four services of `publish_subscribe` are: one slot that two subscribers take in turn,
buffer 2, history 2; two slots, buffer 1; one slot, buffer 1, history 1, no overflow,
DiscardSample, 5 sends; one slot, buffer 1, no overflow, Block. The data segment has exactly the
chunks that `required_amount_of_samples_per_data_segment` yields. All of them are needed at once
only in the third service: one sample held, one buffered, one discarded by the full buffer
but kept in the history, one loaned. It sends more samples than it has chunks, so a chunk
that is lost shows as OutOfMemory.

In `event` the two ids lie in different elements, so the loops over the bits are interrupted
between them, and the semaphore reaches its maximum. In the runs with ProcessMonitoring two threads share a
process and the third has its own: this is the smallest instance with both kinds of
exclusion. In `connection` three storages allow a late unlink to hit a successor
and another attempt to follow. In `service_lifecycle` the registry has room for two of the
three nodes, and a second creation can follow while somebody still removes the first. At most two
nodes die (`MaxDeaths`), so a second one may die anywhere while the first is cleaned up; the
cleaners may die any number of times, and the theorems hold for any number of deaths.

*Deadlock.* All runs end when a bound is reached or when everybody has left or died, so they say
`CHECK_DEADLOCK FALSE`; progress is stated by liveness properties. The only wait in
PublishSubscribe is that of `blocking_send` in ZeroCopyConnection. ServiceLifecycle has no
liveness property: its calls wait only with a timeout.

*Symmetry.* It is used for the nodes of ServiceLifecycle, which are interchangeable: no
property names one, no `CHOOSE` is used and no liveness is checked there.

*Fairness.* A thread that is alive and inside a lock-free operation takes its next step
(`UniqueIndexSet`: weak fairness of each thread's step, which a dead thread never has).
A reader that keeps calling `update_state` finishes it (`Container`). In
`ZeroCopyConnection` the sender continues its delivery (reclaim, then send); a receiver that
is alive receives what is there and its user drops what they hold. The latter is an
assumption on the user, not on the code: a user who keeps all samples they may borrow blocks
the sender. No fairness is assumed for beginning an acquisition, an addition or a removal,
or for deaths. In `Event` the listener's user keeps calling, whichever function, and a call that can
go on does; a timed wait that sleeps again and again times out at some point rather than being
interrupted every time (strong fairness, since a signal may come first); and as long as some
notifier is inside `notify`, some notifier gets on with it, unless it dies. `Delivered` has the
additional premise that the listener is not for ever in its loop over the signals, which fast
notifiers can keep busy. In `ProcessMonitoring` every living thread keeps listing nodes and cleaning up (weak
fairness), and a cleaner does not have to abandon its work infinitely often (strong fairness
of its outcome). In `ConnectionLifecycle` a port that is connecting takes its next step; the
timeout is excluded by the premise of `ConnectsInTheEnd`. `SendReturns` excludes explicitly what the code does
not guarantee: `blocking_send` waits for ever for a receiver that was dropped or has died.

## 4. Proofs

All theorems hold for every value of the constants, so also for an unbounded number of
pushes and sends. Each invariant is proved as `Init => IInv`,
`IInv /\ [Next]_vars => IInv'` and `IInv => Inv`, one step or lemma per action. A leaf that cites
`ZenonT`, or is below a `USE ZenonT` and cites no other prover, is pure first-order or set reasoning
and does not need the SMT solver.

**SafelyOverflowingIndexQueueProofs** (capacity at least 1). The invariant
`UnreadSlotsIntact` alone is not inductive: whether the write of a push hits an unread
slot depends on what the producer knows of `read_position`. `ProducerInv` says that its
value may be stale but that it never misses a full queue: before publishing,
`write_position <= p_rp + Capacity`. So at most Capacity indices are unread, the write
goes to the spare slot, and `SlotsDistinct` (positions less than Capacity + 1 apart
have different slots) keeps the others intact. `ConsumerInv` says that `read_position`
runs ahead of the consumer only through an eviction, after which the queue is full, so a
pop that has passed its check will return an index, although both positions it compared may be
stale: with the bounds on what is_full and is_empty have loaded this gives `AnswersReliable`.
That `pop` returns None only from an empty queue is not claimed, because it is not so. `EvictedInv` orders the two histories for
`ReturnedExactlyOnce`.

**IndexQueueAndContainerProofs**, the bounded queue (capacity at least 1, `HandoffSynchronizes`). The
same argument with a stale read position; the assumption is needed, as the run
`index_queue_handoff` shows. Besides the properties of the run, `AllDeliveredInOrder` is
proved: the consumer gets the accepted indices in order, none missing and none twice.

Both queues are also proved to implement their FIFO (`QueueIsFifo` in both modules). The mapping is the one of the runs; by the invariant the abstract content is the window of numbers
between the two positions, and advancing one position appends to such a window or takes its head. So publishing is the abstract push, a successful exchange of `read_position`
the abstract pop or eviction, and every other step a stutter.

**UniqueIndexSetProofs** (any number of indices and threads, at least two values of the tag). That
the exchange compares the head which the thread has loaded says nothing about the list by itself:
in between, others may have taken the first index and given it back with a different successor.
`Relies` is what a thread between its load and its exchange may rely on: the tag of `head` is ahead
of the tag it has loaded by the number of changes that it missed, modulo `AbaModulus`. This number
stays below `AbaModulus` (`WindowsStayOpen`), so an equal head means that nothing was missed
(`NotOvertaken`), and then the successor that it has read is still the successor. With this an
acquisition takes the head of the list and a release adds to it; `UniqueOwner` is needed in the same
induction, because the index that is released must not be in the list, nor be written by another
thread. An inductive list segment is avoided: `free` is the list as a sequence.

**IndexQueueAndContainerProofs**, the registry (any number of slots and writers). `WriterInv`: every slot is free, in use
or owned by exactly one writer, alive or dead, and the parity of its generation says
which. Hence a slot is written only while its generation is even, and a reader that finds
the same odd generation before and after its copy has copied one element (`ReaderInv`).
`ExactInv` is what makes the early return of `update_state` correct: changes are counted after
they are visible, so slots that differ from the copy of a reader with the current counter have
a change not yet counted.

**ZeroCopyConnectionProofs** (any sizes, any set of chunks, both settings of safe
overflow, the receiver leaving at any point). `Apart`: no offset is in two
places, so an offset that comes back is in the used chunk list, which is `Exact`. `Room`
is the heart of `AlwaysReturned`: for each offset in the submission queue, if the receiver
took everything up to it, it would hold so many samples that they fit into the
completion queue even if it only knew of the reclaims before that offset was sent. The
`+ 1` in `completion_queue_size` is the sample that is pushed on a full buffer before the
oldest one is evicted.

**PublishSubscribeProofs** (every configuration, any set of subscribers, any number of sends). The
invariant `Core` was checked with TLC on the four services before it was proved. `SlotInv`: a
subscriber has one slot for good, and what the publisher knows is behind the registry only for
subscribers that are gone; so a connection that is removed is that of a subscriber that no longer
exists. `ChannelInv`: on a connection every chunk of the used chunk list is in exactly one of the
buffer, the hands of the user and the completion queue, and a subscriber without connection has
none. `OwnerInv`: a chunk not yet sent is on no connection and not in the history, the chunk
being sent is not on a connection that is still to come, and the part of the history that a new
subscriber still has to get is not on its connection. These are what the counting needs: each
`Count` of the model adds and removes exactly the owners that appear and disappear in the same step
(`CountStep`, `RetrieveCounts`, `RemoveCounts`, `TrySendStep`), so `CountInv`, hence
`ReferencesExact`, is kept. `NeverOutOfMemory` is an argument about sizes (`LoanSucceeds`): a chunk
that cannot be had is loaned, in the history, in a buffer or held; `InUseCount` numbers the last two
kinds by slot and place, at most `BufferSize + MaxBorrowed` for each slot, so with a loan still
allowed they are fewer than `required_amount_of_samples_per_data_segment`. `KeptUntilReceived` is
proved from `Core` and the four ways in which a step changes a buffer (`BufferSteps`).

`InOrderUpToNewest` needs a second invariant on top of `Core`, `OrderInv`, also checked with TLC
first. The numbers of the samples rise in the history, which ends with the sample sent last, and in
every buffer, above the number received last (`Rise`, stated for all pairs of positions, because a
statement about neighbours would need an induction). What a connection gets next is newer than what
it has: the chunk being sent on the connections that `deliver_offset` has not reached
(`DeliverOrder`), the rest of the history on the one that catches up (`CatchOrder`). And who does not
have the newest sample is about to get it (`NewestReached`), which holds because an eviction
takes the oldest sample and the history ends with the newest. The number of a chunk must not change
while somebody has it: a chunk with an owner is not in the pool (`OwnedNotFree`, from the
counting), and only the chunk being sent gets a number (`NumbersKept`).

**EventAndMonitoringProofs**, the event (any number of notifiers, ids, bits per element and any semaphore maximum).
`CountInv`: the reference counter is the number of those who were counted and have not left, the
dead included. So it is 0 only once, whoever brings it to 0 is the only one that unlinks
(`UnlinkInv`), and nobody can take a reference afterwards. `SignalInv` is the strengthening of
`NoLostWakeUp`: when there is no signal and no notifier that is about to send one, the pending ids
are still to be visited while the listener loops over them, none is pending while a `*_wait_one`
waits, and between calls and while a `*_wait_all` waits the only pending ones are those that the
last `*_wait_one` left behind.

The monitoring (any threads and processes). `SectionInv`: a process has at most one
thread in its cleanup section. `LockInv`: a cleaner's process has the lock unless it lost it to
one of its own threads. Together they give `ExclusiveUntilLockLost`. `ReleasedInv`: past the last look
at the lock of the owner, the owner has released it for good.

**ServiceLifecycleProofs** (any number of nodes and creations). `CreationInv` gives every creation
one creator, `RegistryInv` relates registration, lock and program positions. The heart of
`ServiceIntact` is `OwnerInv`: as long as nothing is disputed, a creation that can be joined
(initialised and not locked) has both names, and a creation that is being removed, by a failing
creator, by the last node or by a cleaner, has one remover, which finds it under the
names that it removes. It holds because both names are taken exclusively, the dynamic one is
given back first by a node and last by a cleaner, and only who locked the registry removes.
`FirstInv` gives `FirstNodeRegisters`.

The removal is the second part of the module, also when something is disputed. `ServiceRemoved`
speaks of the end; the invariant says who will still do it. Of a dynamic config that cannot be joined there is a
creator that initialises it, or a node or a cleaner that removes it (`DynamicInv`); of a static
config without a dynamic config to join there is somebody who removes it, or a registry whose
members do when they leave (`StaticInv`). Who has an index has the config open (`MemberInv`); a dead
node whose index is active has its tag, died while it left or had failed (`Attended`, `TagInv`), and
a registry without an index taken that is not locked waits for its creator (`EmptyInv`). When all is
quiet, nobody of these is left but nodes that died in the named windows and registries with an entry
that nobody takes out (`Kept`): an index that is taken and not active, or a creator that failed. Of a
dynamic config that stays the theorem says more: it happened to this very config.

**ConnectionLifecycleProofs** (any number of storages created under the name). `PortInv` relates what
a port does to the state word: it shows a living port exactly while the port uses the storage. The
heart of `PortsMeet` is `Mapped`: a storage in use is the one that the name leads to; the name may
be gone only when one of the ports has been dropped and nobody is about to create another storage.
It needs `CreatorInv` (nobody else uses a storage before its creator has made it readable), without
which an owner whose reservation fails could unlink a storage in which the peer has already
reserved its place. `LinkInv` gives `NothingLeftBehind`: for the linked storage there is its
creator, for every port in its state word the port itself or a cleaner, and once it is marked
somebody who has still to unlink it, unless a port died in one of the named windows.

Only model-checked are the liveness properties
(`LockFree`, `EventuallyExact`, `SendReturns`, `Delivered`, `DeadNodeRemoved`, `ConnectsInTheEnd`),
which the proof system does not handle.

## 5. Hazards

`PROJECT.json` lists them with the line where each bites and the property that would notice.
Four are not covered: the Relaxed load and exchange in `pop` (`safely_overflowing_index_queue.rs:338, 355`) and
the Relaxed test of a bit in `set_bit` (`bit_set.rs:191`), which need memory reorderings beyond what
the models have; two threads of one node that open the same service at once
(`node/mod.rs:771`), which needs RegisteredServices; and a connection that is not tried again
after a failure (`publisher.rs:230`), a limitation that is modelled and that no property contradicts.

## 6. Findings

1. `IndexQueue`: `acquire_producer` is documented as "threadsafe ... without
   restrictions", but the hand-over from one thread to another goes through a flag that
   is stored and exchanged `Relaxed`, and `push` loads its own `write_position` `Relaxed`.
   On weakly ordered hardware the new producer may continue from an old position and
   overwrite unread indices (`index_queue_handoff`). SafelyOverflowingIndexQueue loads its
   `write_position` with Acquire for this reason. Connections are not affected.
2. `Sender::remove_connection` takes back all delivered samples when a subscriber is no
   longer registered, on the grounds that "the receiver no longer exist". A `Sample` may
   outlive its `Subscriber`; its chunk can then be loaned and overwritten while it is read
   (`publish_subscribe_held`). `NoWriteWhileRead` holds for registered subscribers.
3. `Listener`: `timed_wait_all` and `blocking_wait_all` are documented to unblock "as soon as an
   EventId was received" (`port/listener.rs:234-235`, `248-249`). A `*_wait_one` takes all signals
   and one id; a `*_wait_all` that follows waits for a signal although further ids are pending
   (`event_mixed`). The ids are not lost: `NoLostWakeUp` and `Delivered` hold up to these (`left`),
   and a listener that uses only one of the two families has none.
4. `Node`: a thread that queries the lock of the state file just before a starting node takes it, and
   the permission just after it became final, reports a living node as dead; asking for the cleaner
   then ends in the panic "This should never happen! ... since the Node is still alive"
   (`node/mod.rs:652-653`, `process_monitoring_panic`). Nothing is cleaned up (`OnlyDeadCleanedUp`),
   and it happens only at the start of a node (`StillAliveOnlyAtStart`).
5. `ProcessCleaner`: its owner "is allowed to cleanup all resources - no one else is"
   (`process_state.rs:734-735`; `node/mod.rs:523` relies on it). A thread that monitors the node which
   another thread of its process cleans up opens and closes the owner_lock file, which gives up the
   record lock of the whole process, and a second process becomes cleaner as well
   (`process_monitoring_exclusive`). Until then there is one cleaner (`ExclusiveUntilLockLost`).

### Observations

Elsewhere a property names an exception: a case in which the code does not give what one may expect,
without a statement in the repository that it does. What the properties say nothing about is this:

- *SafelyOverflowingIndexQueue.* `pop` may return None although an index is in the queue, even after
  `is_empty` has answered false: the `write_position` it loads may be older than the
  `read_position`. The next call finds the index.
- *Event.* `timed_wait_one` evaluates `acquire()` even after the timeout
  (`event/common.rs:484-491`); an id that arrives just then is taken and not returned
  (`dropped`). The reference of a notifier that died is never given back, so the storage stays
  until the listener is removed by force. A notifier that dies between setting the bit and the
  signal leaves an id that only the next signal or call finds.
- *ProcessMonitoring.* A failing
  `acquire_cleaner_lock` (`node/mod.rs:534`) and `cleanup_failure?` (`node/mod.rs:613`) leave
  `IN_CLEANUP_SECTION` set; the process never cleans up again. A node that dies inside
  `ProcessGuard::new` is "Starting" for ever, and one that dies between its two unlinks leaves
  the owner_lock file.
- *ConnectionLifecycle.* A port that dies before it is registered, after it was released, or while
  it creates the storage leaves the connection behind, and a publisher its data segment
  (`DiedUnregistered`, `DiedCreating`). A cleaner that loses the race for a connection, or finds it not
  yet initialised, skips the port; its data segment and registry entry stay ("skipped"). A cleaner
  that has marked a storage and unlinks it late may hit the one that the living port has created
  meanwhile; the peer of that port is dead, and `PortsMeet` speaks of two living ports. A failed
  connection is tried again only after the next change of the registry.
- *ServiceLifecycle.* A closing node removes its tag before it leaves the registry and unlinks the
  configs; dying in between leaves them behind, as does a creator that dies between creating
  the dynamic config and registering. A node that has read the static config of one creation
  may join the dynamic config of the next, and if it leaves before the creator has registered,
  the creator panics, without any crash (`mixed`, `builder/mod.rs:330-332`). The cleaner of a node
  that died before it was registered removes, by name, what it takes to be corrupted or marked
  for destruction, although another node may be creating or removing it (`disputed`). A process
  that dies inside the registry, a node or a cleaner, between the index and its activation or
  between deactivation and release, leaves the index taken: the registry never locks and the
  service stays. The same holds after a creator failed to unlock the static config: it removes
  the static config and its tag and stays registered in a dynamic config that it leaves behind,
  so the service can neither be opened nor created again (`Kept`).

## 7. Not modelled

- *UnrestrictedAtomic and the blackboard*: a two-cell sequence lock whose correctness is a matter
  of memory orderings; the models have stale loads only.
- *Request-response*: the channel states of a connection and their reuse. Its transport is the
  modelled one.
- *Publisher and Subscriber*: a subscriber of several publishers with its list of expired
  connections. One publisher and its subscribers are modelled, and the end of either port.
- *Node*: RegisteredServices (several handles of one service in a node), the details file, the
  listing of nodes. For the same reason a node whose creation failed after it was registered makes no
  further call in ServiceLifecycle.
- *Service builder*: the comparison of settings, `list`, `details`, and the builders of the other
  messaging patterns, which call the same functions.
- *Event*: the socket variants, whose queue is in the operating system; deadlines and the connection
  cache of the Notifier port.
- *Dynamic storage*: version mismatch and failing system calls.
- *Shared memory*: resizing of data segments.
- *Waitset*, which returns what `select` and `epoll` decide; *tunnels and discovery*, which use the
  public API and share no state of their own.
- Wrappers of the operating system, sequential containers, file formats, logging, language
  bindings and the command line, which have no protocol state.

Next would be RegisteredServices and the channel states of request-response.
