---------------------------- MODULE PublishSubscribe ----------------------------
(* A publisher and its subscribers: loaning, sending, the history, connections  *)
(* that follow the registry of subscribers, receiving and releasing             *)
(* (iceoryx2/src/port: publisher.rs, subscriber.rs, details/sender.rs,          *)
(* details/receiver.rs).                                                        *)
(*                                                                              *)
(* The publisher works under its lock, so its calls are sequential; each of its *)
(* steps below ends where subscribers can see a difference.  The registry is    *)
(* used through what Container promises (the publisher's copy is exact when     *)
(* update_state() returns), a connection through what ZeroCopyConnection does:  *)
(* pushing evicts the oldest chunk of a full buffer, the completion queue never *)
(* overflows, so it is just a set here.                                         *)
(*                                                                              *)
(* A definition named <definition>_<fault> is a faulty variant of the one that  *)
(* follows it; it shows which property notices the fault.                       *)
EXTENDS Naturals, Sequences, FiniteSets, Functions

CONSTANTS Configs,        \* the static configurations a service may be created with
          Subscribers,    \* subscriber ports, each created at most once
          None

VARIABLE static_config    \* chosen by the creator of the service, never changed

MaxSubscribers == static_config.max_subscribers
BufferSize == static_config.subscriber_max_buffer_size
MaxBorrowed == static_config.subscriber_max_borrowed_samples
HistorySize == static_config.history_size
SafeOverflow == static_config.enable_safe_overflow  \* a full buffer gives back its oldest
MaxLoans == static_config.max_loaned_samples
Block == static_config.block       \* UnableToDeliverStrategy: Block, else DiscardSample
MaxSend == static_config.max_send  \* bound: number of samples sent

(* SafeOverflow is a choice of the service, MaxLoans and Block are choices of   *)
(* the publisher; MaxSend only bounds the model.                                *)
ASSUME ConfigAssumption ==
    \A cfg \in Configs :
        /\ {cfg.max_subscribers, cfg.subscriber_max_buffer_size,
            cfg.subscriber_max_borrowed_samples, cfg.max_loaned_samples} \subseteq Nat \ {0}
        /\ {cfg.history_size, cfg.max_send} \subseteq Nat
        /\ {cfg.enable_safe_overflow, cfg.block} \subseteq BOOLEAN
ASSUME NoneAssumption == None \notin Subscribers \cup Nat

required_amount_of_samples_per_data_segment ==
    MaxSubscribers * (BufferSize + MaxBorrowed) + HistorySize + MaxLoans

(* The data segment of the publisher                                            *)
Chunks == 1..required_amount_of_samples_per_data_segment

Slots == 1..MaxSubscribers

VARIABLES
    registry,        \* subscribers by slot, in shared memory
    subscriber_list_state,  \* the publisher's copy
    connections,     \* the publisher's connections by slot
    submission, completion, used_chunk_list,   \* per subscriber
    held,            \* per subscriber: chunks of the samples the user holds
    status,          \* per subscriber
    ref_count, free, \* per chunk; the pool of the data segment
    loaned,          \* chunks of the SampleMuts of the user
    history,
    p_pc, p_slot, p_chunk, p_pending,   \* publisher: step, slot, chunk being sent,
                                        \* history still to be delivered
    out_of_memory,   \* a loan failed with OutOfMemory
    sent,            \* number of samples sent
    number,          \* per chunk: number of the sample written into it last
    last             \* per subscriber: number of the sample received last

pool == <<ref_count, free, number>>
channel == <<submission, completion, used_chunk_list>>
local == <<loaned, history, out_of_memory>>
port == <<static_config, registry, status>>
user == <<held, last>>
vars == <<static_config, registry, subscriber_list_state, connections, submission, completion,
          used_chunk_list, held, status, ref_count, free, loaned, history, p_pc, p_slot, p_chunk, p_pending,
          out_of_memory, sent, number, last>>

Init ==
    /\ static_config \in Configs
    /\ registry = [i \in Slots |-> None] /\ subscriber_list_state = registry
    /\ connections = registry
    /\ submission = [s \in Subscribers |-> <<>>]
    /\ completion = [s \in Subscribers |-> {}] /\ used_chunk_list = completion
    /\ held = completion
    /\ status = [s \in Subscribers |-> "new"]
    /\ ref_count = [c \in Chunks |-> 0] /\ free = Chunks
    /\ loaned = {} /\ history = <<>>
    /\ p_pc = "idle" /\ p_slot = 0 /\ p_chunk = None /\ p_pending = <<>>
    /\ out_of_memory = FALSE
    /\ sent = 0 /\ number = [c \in Chunks |-> 0] /\ last = [s \in Subscribers |-> 0]

One(b) == IF b THEN 1 ELSE 0

(* One reference to each chunk of a set                                         *)
EachOf(S) == [c \in Chunks |-> One(c \in S)]

(* borrow_sample() and release_sample(): chunks gain and lose references, the   *)
(* ones that lose their last are deallocated.  send_sample() numbers the chunk  *)
(* it sends.                                                                    *)
Count(gain, loss) ==
    /\ ref_count' = [c \in Chunks |-> ref_count[c] + gain[c] - loss[c]]
    /\ free' = {c \in Chunks : IF c \in free THEN gain[c] = 0
                               ELSE ref_count[c] + gain[c] = loss[c]}
    /\ number' = [c \in Chunks |-> CASE c \in free' -> 0
                                     [] c \notin free' /\ p_pc = "send" /\ c = p_chunk -> sent + 1
                                     [] OTHER -> number[c]]

Connected == {connections[i] : i \in Slots} \ {None}

(* retrieve_returned_samples(): what every connection has returned              *)
Returned == [c \in Chunks |-> Cardinality({s \in Connected : c \in completion[s]})]

Retrieve ==
    /\ used_chunk_list' = [s \in Subscribers |-> IF s \in Connected
                              THEN used_chunk_list[s] \ completion[s] ELSE used_chunk_list[s]]
    /\ completion' = [s \in Subscribers |-> IF s \in Connected THEN {} ELSE completion[s]]

(* Continue with the next slot, or with label after the last one.               *)
NextSlot(here, label) ==
    /\ p_slot' = IF p_slot = MaxSubscribers THEN 0 ELSE p_slot + 1
    /\ p_pc' = IF p_slot = MaxSubscribers THEN label ELSE here

------------------------------------------------------------------------------
(* The publisher                                                                *)

(* Chunks no subscriber refers to are interchangeable: one of them stands for   *)
(* all, and the model takes the smallest.                                       *)
Unseen(S) == {c \in S : \A s \in Subscribers : c \notin held[s] \cup Range(submission[s])}

(* Sender::allocate() for Publisher::loan(); whatever is returned is retrieved  *)
(* first                                                                        *)
Loan(c) ==
    /\ p_pc = "idle" /\ Cardinality(loaned) < MaxLoans /\ sent < MaxSend
    /\ LET available == free \cup {d \in Chunks : ref_count[d] > 0 /\ ref_count[d] = Returned[d]}
       IN IF available = {}
          THEN /\ out_of_memory' = TRUE
               /\ Count(EachOf({}), Returned)
               /\ UNCHANGED loaned
          ELSE /\ c \in available
               /\ c \in Unseen(available) => \A d \in Unseen(available) : c <= d
               /\ loaned' = loaned \cup {c}
               /\ Count(EachOf({c}), Returned)
               /\ UNCHANGED out_of_memory
    /\ Retrieve
    /\ UNCHANGED <<port, subscriber_list_state, connections, submission, user, history,
                   p_pc, p_slot, p_chunk, p_pending, sent>>

(* The early return for too many loans                                          *)
LoanExceedsMaxLoans ==
    /\ p_pc = "idle" /\ Cardinality(loaned) = MaxLoans
    /\ \E s \in Connected : completion[s] # {}
    /\ Count(EachOf({}), Returned)
    /\ Retrieve
    /\ UNCHANGED <<port, subscriber_list_state, connections, submission, user, local,
                   p_pc, p_slot, p_chunk, p_pending, sent>>

(* SampleMut::drop() without sending                                            *)
ReturnLoanedSample(c) ==
    /\ p_pc = "idle" /\ c \in loaned
    /\ loaned' = loaned \ {c}
    /\ Count(EachOf({}), EachOf({c}))
    /\ UNCHANGED <<port, subscriber_list_state, connections, channel, user, history,
                   p_pc, p_slot, p_chunk, p_pending, out_of_memory, sent>>

(* update_connections() by itself (c = None) or as the first part of            *)
(* send_sample(c): nothing to do when the registry has not changed              *)
UpdateConnections(c) ==
    /\ p_pc = "idle"
    /\ c \in loaned \/ (c = None /\ subscriber_list_state # registry)
    /\ p_chunk' = c
    /\ IF subscriber_list_state = registry
       THEN p_pc' = "send" /\ UNCHANGED p_slot
       ELSE p_pc' = "update" /\ p_slot' = 1
    /\ subscriber_list_state' = registry
    /\ UNCHANGED <<port, connections, channel, user, pool, local, p_pending, sent>>

Removed(slots) == {connections[i] : i \in slots} \ {None}

(* Nobody looks at a removed connection again: its state is forgotten.          *)
Forget(subs) ==
    /\ used_chunk_list' = [s \in Subscribers |-> IF s \in subs THEN {} ELSE used_chunk_list[s]]
    /\ completion' = [s \in Subscribers |-> IF s \in subs THEN {} ELSE completion[s]]
    /\ submission' = [s \in Subscribers |-> IF s \in subs THEN <<>> ELSE submission[s]]
    /\ last' = [s \in Subscribers |-> IF s \in subs THEN 0 ELSE last[s]]

RemoveConnections_leaks(subs) == Forget(subs) /\ UNCHANGED pool

(* remove_connection(): acquire_used_offsets() takes back what was delivered.   *)
RemoveConnections(subs) ==
    /\ Count(EachOf({}), [c \in Chunks |-> Cardinality({s \in subs : c \in used_chunk_list[s]})])
    /\ Forget(subs)

UpdateConnection_newest_first ==
    /\ p_pc = "update"
    /\ LET s == subscriber_list_state[p_slot] IN
       IF s \in {None, connections[p_slot]}
       THEN /\ NextSlot("update", "finish")
            /\ UNCHANGED <<connections, channel, last, pool, p_pending>>
       ELSE /\ RemoveConnections(Removed({p_slot}))
            /\ connections' = [connections EXCEPT ![p_slot] = s]
            /\ p_pending' = [k \in 1..Len(history) |-> history[Len(history) - k + 1]]
            /\ IF history = <<>> THEN NextSlot("update", "finish")
                                 ELSE p_pc' = "history" /\ UNCHANGED p_slot
    /\ UNCHANGED <<port, subscriber_list_state, held, local, p_chunk, sent>>

(* update_connection() for one slot of the publisher's copy; the creation of a  *)
(* connection may fail                                                          *)
UpdateConnection ==
    /\ p_pc = "update"
    /\ LET s == subscriber_list_state[p_slot] IN
       IF s \in {None, connections[p_slot]}
       THEN /\ NextSlot("update", "finish")
            /\ UNCHANGED <<connections, channel, last, pool, p_pending>>
       ELSE /\ RemoveConnections(Removed({p_slot}))
            /\ \/ /\ connections' = [connections EXCEPT ![p_slot] = s]
                  /\ p_pending' = SubSeq(history, IF Len(history) > BufferSize
                                                 THEN Len(history) - BufferSize + 1 ELSE 1,
                                         Len(history))
                  /\ IF history = <<>> THEN NextSlot("update", "finish")
                                       ELSE p_pc' = "history" /\ UNCHANGED p_slot
               \/ /\ connections' = [connections EXCEPT ![p_slot] = None]
                  /\ NextSlot("update", "finish")
                  /\ UNCHANGED p_pending
    /\ UNCHANGED <<port, subscriber_list_state, held, local, p_chunk, sent>>

TrySend_without_borrow(s, c) ==
    LET full == Len(submission[s]) = BufferSize
        evicted == IF full THEN {Head(submission[s])} ELSE {}
        kept == IF full THEN Tail(submission[s]) ELSE submission[s]
    IN IF full /\ ~ SafeOverflow
       THEN UNCHANGED <<submission, used_chunk_list, pool>>
       ELSE /\ submission' = [submission EXCEPT ![s] = Append(kept, c)]
            /\ used_chunk_list' = [used_chunk_list EXCEPT ![s] = (@ \cup {c}) \ evicted]
            /\ Count(EachOf({}), EachOf(evicted))

TrySend_always_evicts(s, c) ==
    LET full == Len(submission[s]) = BufferSize
        evicted == IF full THEN {Head(submission[s])} ELSE {}
        kept == IF full THEN Tail(submission[s]) ELSE submission[s]
    IN /\ submission' = [submission EXCEPT ![s] = Append(kept, c)]
       /\ used_chunk_list' = [used_chunk_list EXCEPT ![s] = (@ \cup {c}) \ evicted]
       /\ Count(EachOf({c}), EachOf(evicted))

(* try_send(c) on the connection to s after everything returned was retrieved,  *)
(* with the counting of references that follows; a full buffer without safe     *)
(* overflow discards the sample                                                 *)
TrySend(s, c) ==
    LET full == Len(submission[s]) = BufferSize
        evicted == IF full THEN {Head(submission[s])} ELSE {}
        kept == IF full THEN Tail(submission[s]) ELSE submission[s]
    IN IF full /\ ~ SafeOverflow
       THEN UNCHANGED <<submission, used_chunk_list, pool>>
       ELSE /\ submission' = [submission EXCEPT ![s] = Append(kept, c)]
            /\ used_chunk_list' = [used_chunk_list EXCEPT ![s] = (@ \cup {c}) \ evicted]
            /\ Count(EachOf({c}), EachOf(evicted))

(* deliver_sample_history(): the returned samples are retrieved, then one of    *)
(* the history is sent                                                          *)
RetrieveForHistory ==
    /\ p_pc = "history"
    /\ Retrieve
    /\ Count(EachOf({}), Returned)
    /\ p_pc' = "history_send"
    /\ UNCHANGED <<port, subscriber_list_state, connections, submission, user, local,
                   p_slot, p_chunk, p_pending, sent>>

DeliverSampleHistory ==
    /\ p_pc = "history_send"
    /\ TrySend(connections[p_slot], Head(p_pending))
    /\ p_pending' = Tail(p_pending)
    /\ IF Tail(p_pending) = <<>> THEN NextSlot("update", "finish")
                                 ELSE p_pc' = "history" /\ UNCHANGED p_slot
    /\ UNCHANGED <<port, subscriber_list_state, connections, completion, user, local, p_chunk,
                   sent>>

(* finish_update_connection_cycle(): connections of subscribers that are gone.  *)
(* When a connection could not be created, the degradation callback decides     *)
(* whether send_sample() gives up.                                              *)
FinishUpdateConnectionCycle ==
    /\ p_pc = "finish"
    /\ LET gone == {i \in Slots : connections[i] # subscriber_list_state[i]} IN
       /\ RemoveConnections(Removed(gone))
       /\ connections' = [i \in Slots |-> IF i \in gone THEN None ELSE connections[i]]
    /\ IF p_chunk = None THEN p_pc' = "idle"
       ELSE \/ p_pc' = "send"
            \/ connections' # subscriber_list_state /\ p_pc' = "drop"
    /\ UNCHANGED <<port, subscriber_list_state, held, local, p_slot, p_chunk,
                   p_pending, sent>>

AddSampleToHistory_keeps_oldest ==
    /\ p_pc = "send"
    /\ history' = IF HistorySize = 0 THEN <<>>
                  ELSE Append(IF Len(history) = HistorySize THEN Tail(history) ELSE history,
                              p_chunk)
    /\ Count(EachOf(IF HistorySize > 0 THEN {p_chunk} ELSE {}), Returned)
    /\ Retrieve
    /\ sent' = sent + 1
    /\ p_pc' = "deliver" /\ p_slot' = 1
    /\ UNCHANGED <<port, subscriber_list_state, connections, submission, user, loaned,
                   out_of_memory, p_chunk, p_pending>>

(* send_sample(): add_sample_to_history() and the retrieval of deliver_offset() *)
AddSampleToHistory ==
    /\ p_pc = "send"
    /\ LET full == Len(history) = HistorySize
           old == IF full /\ HistorySize > 0 THEN {Head(history)} ELSE {}
       IN /\ history' = IF HistorySize = 0 THEN <<>>
                        ELSE Append(IF full THEN Tail(history) ELSE history, p_chunk)
          /\ Count(EachOf(IF HistorySize > 0 THEN {p_chunk} ELSE {}),
                   [c \in Chunks |-> Returned[c] + One(c \in old)])
    /\ Retrieve
    /\ sent' = sent + 1
    /\ p_pc' = "deliver" /\ p_slot' = 1
    /\ UNCHANGED <<port, subscriber_list_state, connections, submission, user, loaned,
                   out_of_memory, p_chunk, p_pending>>

(* deliver_offset() for one connection; blocking_send() waits for room in the   *)
(* buffer, without safe overflow                                                *)
DeliverOffset ==
    /\ p_pc = "deliver"
    /\ IF connections[p_slot] = None
       THEN UNCHANGED <<submission, used_chunk_list, pool>>
       ELSE /\ Block /\ ~ SafeOverflow => Len(submission[connections[p_slot]]) < BufferSize
            /\ TrySend(connections[p_slot], p_chunk)
    /\ NextSlot("deliver", "drop")
    /\ UNCHANGED <<port, subscriber_list_state, connections, completion, user, local,
                   p_chunk, p_pending, sent>>

(* SampleMut::drop() after sending                                              *)
DropSent ==
    /\ p_pc = "drop"
    /\ loaned' = loaned \ {p_chunk}
    /\ Count(EachOf({}), EachOf({p_chunk}))
    /\ p_pc' = "idle" /\ p_chunk' = None
    /\ UNCHANGED <<port, subscriber_list_state, connections, channel, user, history,
                   p_slot, p_pending, out_of_memory, sent>>

------------------------------------------------------------------------------
(* The subscribers and their users                                              *)

publisher == <<subscriber_list_state, connections, used_chunk_list, pool, local, p_pc, p_slot,
               p_chunk, p_pending, sent>>

(* Subscriber::new(): connects, then registers                                  *)
Subscribe(s, i) ==
    /\ status[s] = "new" /\ registry[i] = None
    /\ status' = [status EXCEPT ![s] = "active"]
    /\ registry' = [registry EXCEPT ![i] = s]
    /\ UNCHANGED <<publisher, static_config, submission, completion, user>>

(* Subscriber::receive()                                                        *)
Receive(s) ==
    /\ status[s] = "active"
    /\ submission[s] # <<>> /\ Cardinality(held[s]) < MaxBorrowed
    /\ held' = [held EXCEPT ![s] = @ \cup {Head(submission[s])}]
    /\ last' = [last EXCEPT ![s] = number[Head(submission[s])]]
    /\ submission' = [submission EXCEPT ![s] = Tail(@)]
    /\ UNCHANGED <<publisher, port, completion>>

(* Sample::drop(); a Sample may outlive its subscriber, and then it is returned *)
(* to a publisher that may have removed the connection and never retrieves it   *)
ReleaseOffset(s, c) ==
    /\ status[s] \in {"active", "dropped"} /\ c \in held[s]
    /\ held' = [held EXCEPT ![s] = @ \ {c}]
    /\ completion' = IF s \in Connected \/ status[s] = "active"
                     THEN [completion EXCEPT ![s] = @ \cup {c}] ELSE completion
    /\ UNCHANGED <<publisher, port, submission, last>>

Unregister(s) == registry' = [i \in Slots |-> IF registry[i] = s THEN None ELSE registry[i]]

(* Subscriber::drop()                                                           *)
DropSubscriber(s) ==
    /\ status[s] = "active"
    /\ Unregister(s)
    /\ status' = [status EXCEPT ![s] = "dropped"]
    /\ UNCHANGED <<publisher, static_config, submission, completion, user>>

(* The process of the subscriber dies; its port stays registered until another  *)
(* process removes it (remove_dead_node_id).                                    *)
Die(s) ==
    /\ status[s] \in {"active", "dropped"}
    /\ status' = [status EXCEPT ![s] = IF @ = "active" THEN "dead" ELSE "gone"]
    /\ UNCHANGED <<publisher, static_config, registry, submission, completion, user>>

RemoveDeadSubscriber(s) ==
    /\ status[s] = "dead"
    /\ Unregister(s)
    /\ status' = [status EXCEPT ![s] = "gone"]
    /\ UNCHANGED <<publisher, static_config, submission, completion, user>>

------------------------------------------------------------------------------
(* The steps of a call that has begun                                           *)
Continue == \/ UpdateConnection \/ RetrieveForHistory \/ DeliverSampleHistory
            \/ FinishUpdateConnectionCycle
            \/ AddSampleToHistory \/ DeliverOffset \/ DropSent

Publisher == \/ \E c \in Chunks : Loan(c) \/ ReturnLoanedSample(c)
             \/ LoanExceedsMaxLoans
             \/ \E c \in Chunks \cup {None} : UpdateConnections(c)
             \/ Continue

Subscriber(s) == \/ \E i \in Slots : Subscribe(s, i)
                 \/ Receive(s) \/ DropSubscriber(s) \/ Die(s) \/ RemoveDeadSubscriber(s)
                 \/ \E c \in Chunks : ReleaseOffset(s, c)

Next == Publisher \/ \E s \in Subscribers : Subscriber(s)

Spec == Init /\ [][Next]_vars

------------------------------------------------------------------------------
(* Properties                                                                   *)

TypeOK ==
    /\ static_config \in Configs
    /\ {registry, subscriber_list_state, connections} \subseteq [Slots -> Subscribers \cup {None}]
    /\ submission \in [Subscribers -> Seq(Chunks)]
    /\ {completion, used_chunk_list, held} \subseteq [Subscribers -> SUBSET Chunks]
    /\ status \in [Subscribers -> {"new", "active", "dropped", "dead", "gone"}]
    /\ ref_count \in [Chunks -> Nat] /\ free \subseteq Chunks
    /\ loaned \subseteq Chunks /\ history \in Seq(Chunks)
    /\ p_pc \in {"idle", "update", "history", "history_send", "finish", "send", "deliver", "drop"}
    /\ p_slot \in 0..MaxSubscribers /\ p_chunk \in Chunks \cup {None}
    /\ p_pending \in Seq(Chunks) /\ out_of_memory \in BOOLEAN
    /\ sent \in Nat /\ number \in [Chunks -> Nat] /\ last \in [Subscribers -> Nat]

(* The reference count of a chunk is the number of its owners: the user of the  *)
(* publisher, the history and every connection that has it in its used chunk    *)
(* list; the pool holds exactly the chunks without owner.  The list of a        *)
(* connected subscriber has each chunk on its way to, with or from it exactly   *)
(* once: the same offset is never sent twice over one connection                *)
(* ("did_not_send_same_offset_twice").                                          *)
ReferencesExact ==
    /\ TypeOK
    /\ \A c \in Chunks :
          /\ ref_count[c] = One(c \in loaned)
                          + Cardinality({k \in 1..Len(history) : history[k] = c})
                          + Cardinality({s \in Subscribers : c \in used_chunk_list[s]})
          /\ c \in free <=> ref_count[c] = 0
    /\ \A s \in Connected :
          /\ used_chunk_list[s] = Range(submission[s]) \cup held[s] \cup completion[s]
          /\ Cardinality(used_chunk_list[s])
                = Len(submission[s]) + Cardinality(held[s]) + Cardinality(completion[s])

(* Chunks the user of the publisher may write to: loaned and not being sent     *)
Writable == loaned \ {p_chunk}

(* The user of the publisher never gets a chunk that a connected subscriber     *)
(* still reads or will read.                                                    *)
NoWriteWhileRead ==
    \A s \in Connected : (held[s] \cup Range(submission[s])) \cap (Writable \cup free) = {}

(* The data segment is large enough: a loan within the limits never fails with  *)
(* OutOfMemory, whatever subscribers keep, drop or leave behind when they die.  *)
NeverOutOfMemory == ~ out_of_memory

(* The number of the newest sample a subscriber has received or will receive    *)
Newest(s) == IF submission[s] = <<>> THEN last[s] ELSE number[submission[s][Len(submission[s])]]

(* A subscriber receives samples in the order they were sent, none twice, the   *)
(* history first, and with safe overflow the newest sample is never lost: when  *)
(* no call is in progress, every connected subscriber has received it or has it *)
(* at the end of its buffer.                                                    *)
InOrderUpToNewest ==
    \A s \in Connected :
        /\ \A k \in 1..Len(submission[s]) :
              number[submission[s][k]] > IF k = 1 THEN last[s] ELSE number[submission[s][k - 1]]
        /\ (SafeOverflow /\ p_pc = "idle" /\ HistorySize > 0 /\ sent > 0)
           => Newest(s) = sent

StartsWith(q, r) == Len(r) <= Len(q) /\ \A k \in 1..Len(r) : q[k] = r[k]

(* Without safe overflow a delivered sample stays in the buffer of a subscriber *)
(* that exists until it is received.                                            *)
KeptUntilReceived ==
    [][~ SafeOverflow =>
         \A s \in Subscribers :
             \/ status[s] # "active"
             \/ StartsWith(submission'[s], submission[s])
             \/ submission'[s] = Tail(submission[s]) /\ held'[s] # held[s]]_vars

(* No sample a living user holds is handed out for writing, not even after its  *)
(* subscriber was dropped.                                                      *)
HeldSampleStable ==
    \A s \in Subscribers : status[s] \in {"active", "dropped"} => held[s] \cap Writable = {}

==============================================================================
