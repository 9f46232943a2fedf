---------------------------------- MODULE Event ----------------------------------
(* The event concept over shared memory: notifiers set the bit of an id and     *)
(* then signal a semaphore, one listener takes signals and collects ids, and    *)
(* whoever leaves last removes the storage                                      *)
(* (iceoryx2-cal/src/event/common.rs, id_tracker/bit_set.rs,                    *)
(* signal_mechanism/semaphore.rs, iceoryx2-bb/lock-free/src/mpmc/bit_set.rs).   *)
(*                                                                              *)
(* The listener and every notifier live in processes of their own, which may    *)
(* die between any two steps.  A bit is set, tested and cleared in one step:    *)
(* the loops around compare_exchange end with an exchange that did not fail.    *)
(* The loads that precede them are taken to be fresh.                           *)
EXTENDS Naturals, FiniteSets

CONSTANTS
    Notifiers,
    trigger_id_max,
    BITSET_ELEMENT_BITSIZE,   \* ids whose bits share an atomic element
    SEM_VALUE_MAX

ASSUME NotifiersAssumption == IsFiniteSet(Notifiers)
ASSUME BitSetAssumption == trigger_id_max \in Nat /\ BITSET_ELEMENT_BITSIZE \in Nat \ {0}
ASSUME SemaphoreAssumption == SEM_VALUE_MAX \in Nat \ {0}

Ids == 0..trigger_id_max

WaitOne == {"try_wait_one", "timed_wait_one", "blocking_wait_one"}
WaitAll == {"try_wait_all", "timed_wait_all", "blocking_wait_all"}
TryWait == {"try_wait_one", "try_wait_all"}
TimedWait == {"timed_wait_one", "timed_wait_all"}

VARIABLES
    linked,             \* the storage can be found under its name
    reference_counter, has_listener,
    bits,               \* id_tracker: ids whose bit is set
    reset_position,
    signals,            \* signal_mechanism: value of the semaphore
    l_pc, l_call,       \* listener: step, and the call it is in
    l_todo,             \* positions its loop over the bits has still to visit
    n_pc, n_id, n_ref_count,   \* notifiers: step, id to be sent, reference counter loaded
    owed,               \* history: ids notified since they were last handed to the user
    dropped,            \* history: ids a timed_wait_one() took and did not return, ...
    left                \* ... ids the last *_wait_one() that took one left behind, both
                        \* as long as they are not notified again

management == <<reference_counter, has_listener>>
tracker == <<bits, reset_position>>
listener == <<l_pc, l_call, l_todo>>
notifier == <<n_pc, n_id, n_ref_count>>
history == <<owed, dropped, left>>
vars == <<linked, reference_counter, has_listener, bits, reset_position, signals,
          l_pc, l_call, l_todo, n_pc, n_id, n_ref_count, owed, dropped, left>>

(* ListenerBuilder::create()                                                    *)
Init ==
    /\ linked = TRUE
    /\ reference_counter = 1 /\ has_listener = TRUE
    /\ bits = {} /\ reset_position = 0 /\ signals = 0
    /\ l_pc = "idle" /\ l_call = "none" /\ l_todo = {}
    /\ n_pc = [n \in Notifiers |-> "closed"]
    /\ n_id = [n \in Notifiers |-> 0] /\ n_ref_count = [n \in Notifiers |-> 0]
    /\ owed = {} /\ dropped = {} /\ left = {}

NGoto(n, label) == n_pc' = [n_pc EXCEPT ![n] = label]

------------------------------------------------------------------------------
(* A notifier n; one that has left may open the event again                     *)

(* NotifierBuilder::open(): the storage is opened and its counter loaded        *)
Open(n) ==
    /\ n_pc[n] = "closed" /\ linked
    /\ n_ref_count' = [n_ref_count EXCEPT ![n] = reference_counter]
    /\ NGoto(n, "check")
    /\ UNCHANGED <<linked, management, tracker, signals, listener, n_id, history>>

OpenCheck(n) ==
    /\ n_pc[n] = "check"
    /\ IF has_listener /\ n_ref_count[n] # 0
       THEN NGoto(n, "exchange") /\ UNCHANGED n_ref_count
       ELSE NGoto(n, "closed") /\ n_ref_count' = [n_ref_count EXCEPT ![n] = 0]
    /\ UNCHANGED <<linked, management, tracker, signals, listener, n_id, history>>

OpenExchange_plain_store(n) ==
    /\ n_pc[n] = "exchange"
    /\ reference_counter' = n_ref_count[n] + 1
    /\ n_ref_count' = [n_ref_count EXCEPT ![n] = 0] /\ NGoto(n, "idle")
    /\ UNCHANGED <<linked, has_listener, tracker, signals, listener, n_id, history>>

OpenExchange(n) ==
    /\ n_pc[n] = "exchange"
    /\ IF reference_counter = n_ref_count[n]
       THEN /\ reference_counter' = n_ref_count[n] + 1
            /\ n_ref_count' = [n_ref_count EXCEPT ![n] = 0] /\ NGoto(n, "idle")
       ELSE /\ n_ref_count' = [n_ref_count EXCEPT ![n] = reference_counter]
            /\ NGoto(n, "check") /\ UNCHANGED reference_counter
    /\ UNCHANGED <<linked, has_listener, tracker, signals, listener, n_id, history>>

(* notify(): refused with Disconnected when the listener has left               *)
Notify(n, id) ==
    /\ n_pc[n] = "idle" /\ has_listener
    /\ n_id' = [n_id EXCEPT ![n] = id]
    /\ NGoto(n, "add")
    /\ UNCHANGED <<linked, management, tracker, signals, listener, n_ref_count, history>>

(* id_tracker.add(): sets the bit, if it is not set already                     *)
NotifyAdd(n) ==
    /\ n_pc[n] = "add"
    /\ bits' = bits \cup {n_id[n]}
    /\ owed' = owed \cup {n_id[n]}
    /\ dropped' = dropped \ {n_id[n]} /\ left' = left \ {n_id[n]}
    /\ NGoto(n, "signal")
    /\ UNCHANGED <<linked, management, reset_position, signals, listener, n_id, n_ref_count>>

NotifySignal_when_none_pending(n) ==
    /\ n_pc[n] = "signal"
    /\ signals' = IF bits = {n_id[n]} /\ signals < SEM_VALUE_MAX THEN signals + 1 ELSE signals
    /\ n_id' = [n_id EXCEPT ![n] = 0] /\ NGoto(n, "idle")
    /\ UNCHANGED <<linked, management, tracker, listener, n_ref_count, history>>

(* signal_mechanism.notify(): a post that would overflow fails                  *)
NotifySignal(n) ==
    /\ n_pc[n] = "signal"
    /\ signals' = IF signals < SEM_VALUE_MAX THEN signals + 1 ELSE signals
    /\ n_id' = [n_id EXCEPT ![n] = 0] /\ NGoto(n, "idle")
    /\ UNCHANGED <<linked, management, tracker, listener, n_ref_count, history>>

(* Notifier::drop()                                                             *)
DropNotifier(n) ==
    /\ n_pc[n] = "idle"
    /\ reference_counter' = reference_counter - 1
    /\ NGoto(n, IF reference_counter = 1 THEN "unlink" ELSE "closed")
    /\ UNCHANGED <<linked, has_listener, tracker, signals, listener, n_id, n_ref_count, history>>

(* The storage that is owned is removed when it is dropped.                     *)
NotifierUnlink(n) ==
    /\ n_pc[n] = "unlink"
    /\ linked' = FALSE
    /\ NGoto(n, "closed")
    /\ UNCHANGED <<management, tracker, signals, listener, n_id, n_ref_count, history>>

(* A notifier that has not been counted, or is not counted any more, leaves     *)
(* nothing behind but a storage it should have removed.                         *)
NotifierDies(n) ==
    /\ n_pc[n] \in {"check", "exchange", "idle", "add", "signal", "unlink"}
    /\ NGoto(n, CASE n_pc[n] \in {"check", "exchange"} -> "closed"
                  [] n_pc[n] \in {"idle", "add"} -> "dead"
                  [] n_pc[n] = "signal" -> "dead_silent"
                  [] n_pc[n] = "unlink" -> "dead_owner")
    /\ n_id' = [n_id EXCEPT ![n] = 0] /\ n_ref_count' = [n_ref_count EXCEPT ![n] = 0]
    /\ UNCHANGED <<linked, management, tracker, signals, listener, history>>

------------------------------------------------------------------------------
(* The listener                                                                 *)

LGoto(label, todo) ==
    /\ l_pc' = label /\ l_todo' = todo
    /\ l_call' = IF label = "idle" THEN "none" ELSE l_call

(* Any of the wait functions, whichever was called before; timed_wait_all() and *)
(* blocking_wait_all() wait before they look at anything                        *)
Call(call) ==
    /\ l_pc = "idle"
    /\ l_call' = call /\ l_todo' = {}
    /\ l_pc' = IF call \in WaitAll \ TryWait THEN "wait" ELSE "drain"
    /\ UNCHANGED <<linked, management, tracker, signals, notifier, history>>

(* while signal_mechanism.try_wait() {}                                         *)
Drain ==
    /\ l_pc = "drain"
    /\ IF signals > 0 THEN signals' = signals - 1 /\ UNCHANGED listener
                      ELSE /\ LGoto(IF l_call \in WaitOne THEN "next" ELSE "all", Ids)
                           /\ UNCHANGED signals
    /\ UNCHANGED <<linked, management, tracker, notifier, history>>

(* The order in which reset_next() visits positions                             *)
Before(p, q) == IF (p >= reset_position) = (q >= reset_position) THEN p <= q
                                                                 ELSE p >= reset_position

(* Where a call goes on when reset_next() returned None                         *)
AfterNone == IF l_pc = "next" /\ l_call \notin TryWait THEN "wait" ELSE "idle"

ResetNext_from_start ==
    /\ l_pc \in {"next", "next_after_wait", "next_after_timeout"}
    /\ \E p \in l_todo :
         /\ \A q \in l_todo : p <= q
         /\ IF p \in bits
            THEN /\ bits' = bits \ {p} /\ left' = bits \ {p}
                 /\ LGoto("idle", {})
                 /\ IF l_pc = "next_after_timeout"
                    THEN dropped' = dropped \cup {p} /\ UNCHANGED owed
                    ELSE owed' = owed \ {p} /\ dropped' = dropped \ {p}
            ELSE /\ LGoto(IF l_todo = {p} THEN AfterNone ELSE l_pc, l_todo \ {p})
                 /\ UNCHANGED <<bits, history>>
    /\ UNCHANGED <<linked, management, reset_position, signals, notifier>>

(* id_tracker.acquire(), that is, reset_next(), one position after the other.   *)
(* timed_wait_one() calls it also when the wait has timed out, and then drops   *)
(* what it returns.                                                             *)
ResetNext ==
    /\ l_pc \in {"next", "next_after_wait", "next_after_timeout"}
    /\ \E p \in l_todo :
         /\ \A q \in l_todo : Before(p, q)
         /\ IF p \in bits
            THEN /\ bits' = bits \ {p} /\ left' = bits \ {p}
                 /\ reset_position' = p + 1
                 /\ LGoto("idle", {})
                 /\ IF l_pc = "next_after_timeout"
                    THEN dropped' = dropped \cup {p} /\ UNCHANGED owed
                    ELSE owed' = owed \ {p} /\ dropped' = dropped \ {p}
            ELSE /\ LGoto(IF l_todo = {p} THEN AfterNone ELSE l_pc, l_todo \ {p})
                 /\ UNCHANGED <<tracker, history>>
    /\ UNCHANGED <<linked, management, signals, notifier>>

Element(id) == id \div BITSET_ELEMENT_BITSIZE

ResetAll_misses_last_bit ==
    /\ l_pc = "all"
    /\ \E p \in l_todo :
         LET element == {q \in l_todo : Element(q) = Element(p)}
             reported == {q \in bits \cap element : Element(q + 1) = Element(q)}
         IN /\ \A q \in l_todo : Element(p) <= Element(q)
            /\ bits' = bits \ element
            /\ left' = left \ element
            /\ owed' = owed \ reported /\ dropped' = dropped \ reported
            /\ LGoto(IF element = l_todo THEN "idle" ELSE "all", l_todo \ element)
    /\ UNCHANGED <<linked, management, reset_position, signals, notifier>>

(* id_tracker.acquire_all(), that is, reset_all(), one element after the other; *)
(* every bit is handed to the callback                                          *)
ResetAll ==
    /\ l_pc = "all"
    /\ \E p \in l_todo :
         LET element == {q \in l_todo : Element(q) = Element(p)} IN
         /\ \A q \in l_todo : Element(p) <= Element(q)
         /\ bits' = bits \ element /\ left' = left \ element
         /\ owed' = owed \ (bits \cap element) /\ dropped' = dropped \ (bits \cap element)
         /\ LGoto(IF element = l_todo THEN "idle" ELSE "all", l_todo \ element)
    /\ UNCHANGED <<linked, management, reset_position, signals, notifier>>

(* signal_mechanism.timed_wait() or blocking_wait() returns with a signal ...   *)
WakeUp ==
    /\ l_pc = "wait" /\ signals > 0
    /\ signals' = signals - 1
    /\ IF l_call \in WaitOne THEN LGoto("next_after_wait", Ids) ELSE LGoto("drain", {})
    /\ UNCHANGED <<linked, management, tracker, notifier, history>>

(* ... or without one after the timeout ...                                     *)
TimeOut ==
    /\ l_pc = "wait" /\ signals = 0 /\ l_call \in TimedWait
    /\ IF l_call \in WaitOne THEN LGoto("next_after_timeout", Ids) ELSE LGoto("drain", {})
    /\ UNCHANGED <<linked, management, tracker, signals, notifier, history>>

(* ... or with InterruptSignal.                                                 *)
Interrupt ==
    /\ l_pc = "wait" /\ signals = 0
    /\ LGoto("idle", {})
    /\ UNCHANGED <<linked, management, tracker, signals, notifier, history>>

(* Listener::drop()                                                             *)
DropListener ==
    /\ l_pc = "idle"
    /\ has_listener' = FALSE
    /\ LGoto("dropping", {})
    /\ UNCHANGED <<linked, reference_counter, tracker, signals, notifier, history>>

DropListenerRelease ==
    /\ l_pc = "dropping"
    /\ reference_counter' = reference_counter - 1
    /\ LGoto(IF reference_counter = 1 THEN "unlink" ELSE "gone", {})
    /\ UNCHANGED <<linked, has_listener, tracker, signals, notifier, history>>

ListenerUnlink ==
    /\ l_pc = "unlink"
    /\ linked' = FALSE
    /\ LGoto("gone", {})
    /\ UNCHANGED <<management, tracker, signals, notifier, history>>

(* The port is registered until it is dropped; only then will others clean up.  *)
ListenerDies ==
    /\ l_pc \notin {"gone", "dead", "removed", "dead_owner"}
    /\ LGoto(IF l_pc \in {"dropping", "unlink"} THEN "dead_owner" ELSE "dead", {})
    /\ UNCHANGED <<linked, management, tracker, signals, notifier, history>>

(* remove_connection_of_listener(), called by whoever cleans up the dead node   *)
RemoveConnectionOfListener ==
    /\ l_pc = "dead"
    /\ linked' = FALSE
    /\ LGoto("removed", {})
    /\ UNCHANGED <<management, tracker, signals, notifier, history>>

------------------------------------------------------------------------------
Notifier(n) == \/ Open(n) \/ OpenCheck(n) \/ OpenExchange(n)
               \/ \E id \in Ids : Notify(n, id)
               \/ NotifyAdd(n) \/ NotifySignal(n)
               \/ DropNotifier(n) \/ NotifierUnlink(n) \/ NotifierDies(n)

(* The steps of a call that has begun                                           *)
Collect == Drain \/ ResetNext \/ ResetAll \/ WakeUp

Listener == \/ \E call \in WaitOne \cup WaitAll : Call(call)
            \/ Collect \/ TimeOut \/ Interrupt
            \/ DropListener \/ DropListenerRelease \/ ListenerUnlink
            \/ ListenerDies \/ RemoveConnectionOfListener

Next == Listener \/ \E n \in Notifiers : Notifier(n)

Spec == Init /\ [][Next]_vars

(* A listener whose user keeps waiting and whose timed waits are not all ended  *)
(* by an interrupt, and notifiers that finish their calls                       *)
Fairness ==
    /\ WF_vars(Collect \/ \E call \in WaitOne \cup WaitAll : Call(call))
    /\ SF_vars(TimeOut)
    /\ WF_vars(\E n \in Notifiers : NotifyAdd(n) \/ NotifySignal(n))

FairSpec == Spec /\ Fairness

------------------------------------------------------------------------------
(* Properties                                                                   *)

TypeOK ==
    /\ {linked, has_listener} \subseteq BOOLEAN
    /\ reference_counter \in Nat
    /\ bits \subseteq Ids /\ reset_position \in 0..(trigger_id_max + 1)
    /\ signals \in 0..SEM_VALUE_MAX
    /\ l_pc \in {"idle", "drain", "next", "next_after_wait", "next_after_timeout", "all", "wait",
                 "dropping", "unlink", "gone", "dead", "dead_owner", "removed"}
    /\ l_call \in {"none"} \cup WaitOne \cup WaitAll /\ l_todo \subseteq Ids
    /\ n_pc \in [Notifiers -> {"closed", "check", "exchange", "idle", "add", "signal", "unlink",
                               "dead", "dead_silent", "dead_owner"}]
    /\ n_id \in [Notifiers -> Ids] /\ n_ref_count \in [Notifiers -> Nat]
    /\ owed \subseteq Ids /\ dropped \subseteq Ids /\ left \subseteq Ids

(* A notification is pending until the user has got its id, whatever other      *)
(* notifications and collecting loops run at the same time; the exception is an *)
(* id that timed_wait_one() takes after its timeout.                            *)
NothingLost == TypeOK /\ owed \subseteq bits \cup dropped

(* notify() has set a bit and not signalled yet, or never will.                 *)
Unsignalled == \E n \in Notifiers : n_pc[n] \in {"signal", "dead_silent"}

(* "the signals are collected first so that timed or blocking wait do not miss  *)
(* signal notifications": a listener that waits without a signal has no pending *)
(* id, or its notifier is about to signal, whatever calls were made before; the *)
(* only ids a *_wait_all() sleeps on are those that the last *_wait_one() left  *)
(* behind after it had collected the signals and that nobody has notified since.*)
NoLostWakeUp ==
    l_pc = "wait" /\ signals = 0 =>
        Unsignalled \/ bits = {} \/ (l_call \in WaitAll /\ bits \subseteq left)

(* "Unblocks as soon as an EventId was received" (timed_wait_all() and          *)
(* blocking_wait_all() of the listener port): neither waits while an id is      *)
(* pending whose notifier has signalled.                                        *)
WaitAllUnblocks ==
    l_pc = "wait" /\ l_call \in WaitAll /\ signals = 0 => Unsignalled \/ bits = {}

ListenerAlive == l_pc \notin {"gone", "dead", "dead_owner", "removed"}

(* The reference counter keeps the storage for everyone who uses it and makes   *)
(* the last one remove it: it has its name as long as the listener exists or a  *)
(* notifier is connected, and none when all have left without dying.            *)
StorageRemovedByLast ==
    /\ ListenerAlive => linked
    /\ l_pc # "removed" => \A n \in Notifiers : n_pc[n] \in {"idle", "add", "signal"} => linked
    /\ (l_pc = "gone" /\ \A n \in Notifiers : n_pc[n] \in {"closed", "check", "exchange"})
          => ~ linked

(* A listener that keeps calling its wait functions, in any mixture, gets every *)
(* id that was notified, also while other ids are notified again and again, as  *)
(* long as its loop over the signals comes to an end; the exceptions are a      *)
(* notifier that died before it could signal, an id that timed_wait_one()       *)
(* dropped, and a blocking_wait_all() that sleeps on what *_wait_one() left.    *)
Delivered ==
    []<>(l_pc # "drain") =>
    \A id \in Ids :
        id \in owed ~>
            \/ id \notin owed \/ id \in dropped
            \/ \E n \in Notifiers : n_pc[n] = "dead_silent"
            \/ l_pc = "wait" /\ l_call = "blocking_wait_all" /\ id \in left
            \/ ~ has_listener \/ ~ ListenerAlive

==============================================================================
