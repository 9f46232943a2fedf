------------------------ MODULE EventAndMonitoringProofs ------------------------
(* Two services that wait for other processes.                                  *)
(*                                                                              *)
(* Event: for any number of notifiers and ids and any limit of the semaphore no *)
(* notification is lost, no listener sleeps while an id is pending, but for one *)
(* that *_wait_one() has left to *_wait_all(), and the storage is removed by    *)
(* its last user.                                                               *)
(*                                                                              *)
(* ProcessMonitoring: for any number of threads and processes nobody cleans up  *)
(* after a living process, two threads clean up at once only after a process    *)
(* has lost its lock to a thread of its own, and the fatal panic of             *)
(* acquire_cleaner_lock() takes a query of the lock before the owner had set    *)
(* the final permission.                                                        *)
EXTENDS Event, ProcessMonitoring, FiniteSetTheorems, TLAPS

(* Notifiers whose reference is counted; a dead one never gives it back.        *)
Counted == {n \in Notifiers : n_pc[n] \in {"idle", "add", "signal", "dead", "dead_silent"}}

(* The counter is exact: the notifiers, and the listener unless it has given    *)
(* its reference back.                                                          *)
CountInv ==
    \E k \in {0, 1} :
        /\ reference_counter = k + Cardinality(Counted)
        /\ l_pc \in {"gone", "unlink"} => k = 0
        /\ l_pc \notin {"gone", "unlink", "dead_owner"} => k = 1

(* Nobody is counted into a storage that is being removed: its counter is zero  *)
(* for good.                                                                    *)
UnlinkInv ==
    /\ \A n \in Notifiers : n_pc[n] = "exchange" => n_ref_count[n] # 0
    /\ \A n \in Notifiers : n_pc[n] \in {"unlink", "dead_owner"} => reference_counter = 0
    /\ l_pc = "unlink" => /\ reference_counter = 0 /\ linked
                          /\ \A n \in Notifiers : n_pc[n] # "unlink"

(* The name is gone only when nobody is counted or a cleaner has removed it,    *)
(* and stays only when somebody is counted or is about to remove it.            *)
LinkedInv ==
    /\ ~ linked => l_pc = "removed" \/ reference_counter = 0
    /\ linked /\ reference_counter = 0 =>
          \/ l_pc \in {"unlink", "dead_owner"}
          \/ \E n \in Notifiers : n_pc[n] \in {"unlink", "dead_owner"}

(* Without a signal on its way the ids a listener can still find are those it   *)
(* has not looked at yet, and between two calls those the last one left behind. *)
SignalInv ==
    /\ l_pc \in {"next", "next_after_wait", "next_after_timeout"} => l_call \in WaitOne
    /\ l_pc = "wait" => l_call \in WaitOne \cup WaitAll
    /\ ~ Unsignalled /\ signals = 0 =>
          /\ l_pc = "wait" /\ l_call \in WaitOne => bits = {}
          /\ l_pc \in {"next", "next_after_wait", "next_after_timeout", "all"} => bits \subseteq l_todo
          /\ l_pc \in {"idle", "wait"} => bits \subseteq left

LostInv == owed \subseteq bits \cup dropped

IInv == TypeOK /\ CountInv /\ UnlinkInv /\ LinkedInv /\ SignalInv /\ LostInv

------------------------------------------------------------------------------
(* The listener has just created the event.                                     *)
LEMMA InitInv == Init => IInv
  <1> SUFFICES ASSUME Init PROVE IInv OBVIOUS
  <1> USE NotifiersAssumption, BitSetAssumption, SemaphoreAssumption
  <1>1. TypeOK
    BY DEF Init, TypeOK, Ids
  <1>2. Counted = {}
    BY ZenonT(60) DEF Init, Counted
  <1>3. CountInv
    BY <1>2, FS_EmptySet DEF Init, CountInv
  <1>4. UnlinkInv /\ LinkedInv /\ SignalInv /\ LostInv
    BY DEF Init, UnlinkInv, LinkedInv, SignalInv, LostInv
  <1> QED BY <1>1, <1>3, <1>4, ZenonT(60) DEF IInv

(* The counted notifiers are finitely many.                                     *)
LEMMA CountedFinite == IsFiniteSet(Counted) /\ Cardinality(Counted) \in Nat
  BY NotifiersAssumption, FS_Subset, FS_CardinalityType, ZenonT(60) DEF Counted

(* One notifier comes in or goes out, or none.                                  *)
LEMMA CountedStep ==
  ASSUME TypeOK, NEW n \in Notifiers, NEW label, NGoto(n, label)
  PROVE  LET counted == {"idle", "add", "signal", "dead", "dead_silent"} IN
         Cardinality(Counted') =
             IF n_pc[n] \in counted
             THEN IF label \in counted THEN Cardinality(Counted) ELSE Cardinality(Counted) - 1
             ELSE IF label \in counted THEN Cardinality(Counted) + 1 ELSE Cardinality(Counted)
  <1> DEFINE counted == {"idle", "add", "signal", "dead", "dead_silent"}
  <1>1. \A m \in Notifiers : n_pc'[m] = IF m = n THEN label ELSE n_pc[m]
    BY ZenonT(60) DEF TypeOK, NGoto
  <1>2. CASE n_pc[n] \in counted /\ label \in counted
    BY <1>1, <1>2, ZenonT(60) DEF Counted
  <1>3. CASE n_pc[n] \in counted /\ label \notin counted
    <2>1. Counted' = Counted \ {n} /\ n \in Counted
      BY <1>1, <1>3, ZenonT(60) DEF Counted
    <2> QED BY <1>3, <2>1, CountedFinite, FS_RemoveElement, ZenonT(60)
  <1>4. CASE n_pc[n] \notin counted /\ label \in counted
    <2>1. Counted' = Counted \cup {n} /\ n \notin Counted
      BY <1>1, <1>4, ZenonT(60) DEF Counted
    <2> QED BY <1>4, <2>1, CountedFinite, FS_AddElement, ZenonT(60)
  <1>5. CASE n_pc[n] \notin counted /\ label \notin counted
    BY <1>1, <1>5, ZenonT(60) DEF Counted
  <1> QED BY <1>2, <1>3, <1>4, <1>5, ZenonT(60)

(* Who is counted keeps the counter above zero.                                 *)
LEMMA CountedPositive ==
  ASSUME NEW n \in Counted
  PROVE  Cardinality(Counted) > 0
  BY CountedFinite, FS_EmptySet

(* The only way into the counted ones is an exchange on a counter that is not   *)
(* zero; who goes gives the reference back, who dies keeps it.                  *)
LEMMA NotifierCount ==
  ASSUME IInv, NEW n \in Notifiers, Notifier(n)
  PROVE  CountInv' /\ reference_counter' \in Nat
  <1> TypeOK /\ CountInv /\ UnlinkInv
    BY ZenonT(60) DEF IInv
  <1> USE CountedFinite
  <1>0. UNCHANGED l_pc
    BY ZenonT(60) DEF Notifier, Open, OpenCheck, OpenExchange, Notify, NotifyAdd, NotifySignal,
           DropNotifier,
           NotifierUnlink, NotifierDies, listener
  <1>1. CASE Open(n)
    BY <1>0, <1>1, CountedStep DEF Open, management, CountInv, TypeOK
  <1>2. CASE OpenCheck(n)
    BY <1>0, <1>2, CountedStep DEF OpenCheck, management, CountInv, TypeOK
  <1>3. CASE OpenExchange(n)
    BY <1>0, <1>3, CountedStep DEF OpenExchange, CountInv, TypeOK
  <1>4. CASE \E id \in Ids : Notify(n, id)
    BY <1>0, <1>4, CountedStep, ZenonT(60) DEF Notify, management, CountInv, TypeOK
  <1>5. CASE NotifyAdd(n)
    BY <1>0, <1>5, CountedStep, ZenonT(60) DEF NotifyAdd, management, CountInv, TypeOK
  <1>6. CASE NotifySignal(n)
    BY <1>0, <1>6, CountedStep, ZenonT(60) DEF NotifySignal, management, CountInv, TypeOK
  <1>7. CASE DropNotifier(n)
    <2>1. n \in Counted
      BY <1>7, ZenonT(60) DEF DropNotifier, Counted
    <2> QED BY <1>0, <1>7, <2>1, CountedStep, CountedPositive DEF DropNotifier, CountInv, TypeOK
  <1>8. CASE NotifierUnlink(n)
    BY <1>0, <1>8, CountedStep DEF NotifierUnlink, management, CountInv, TypeOK
  <1>9. CASE NotifierDies(n)
    <2>1. CASE n_pc[n] \in {"check", "exchange", "unlink"}
      <3>1. NGoto(n, "closed") \/ NGoto(n, "dead_owner")
        BY <1>9, <2>1, ZenonT(60) DEF NotifierDies
      <3> QED BY <1>0, <1>9, <2>1, <3>1, CountedStep DEF NotifierDies, management, CountInv,
                                                         TypeOK
    <2>2. CASE n_pc[n] \in {"idle", "add", "signal"}
      <3>1. NGoto(n, "dead") \/ NGoto(n, "dead_silent")
        BY <1>9, <2>2, ZenonT(60) DEF NotifierDies
      <3> QED BY <1>0, <1>9, <2>2, <3>1, CountedStep, ZenonT(60) DEF NotifierDies, management, CountInv,
                                                         TypeOK
    <2> QED BY <1>9, <2>1, <2>2, ZenonT(60) DEF NotifierDies
  <1> QED BY <1>1, <1>2, <1>3, <1>4, <1>5, <1>6, <1>7, <1>8, <1>9, ZenonT(60) DEF Notifier

(* Notifiers keep the types.                                                    *)
LEMMA NotifierType ==
  ASSUME IInv, NEW n \in Notifiers, Notifier(n)
  PROVE  TypeOK'
  <1> TypeOK /\ reference_counter' \in Nat
    BY NotifierCount, ZenonT(60) DEF IInv
  <1> USE BitSetAssumption, SemaphoreAssumption
        DEF TypeOK, Ids, NGoto, management, tracker, listener, history
  <1>1. CASE Open(n)
    BY <1>1, ZenonT(60) DEF Open
  <1>2. CASE OpenCheck(n)
    BY <1>2 DEF OpenCheck
  <1>3. CASE OpenExchange(n)
    BY <1>3 DEF OpenExchange
  <1>4. CASE \E id \in Ids : Notify(n, id)
    BY <1>4, ZenonT(60) DEF Notify
  <1>5. CASE NotifyAdd(n)
    BY <1>5, ZenonT(60) DEF NotifyAdd
  <1>6. CASE NotifySignal(n)
    BY <1>6 DEF NotifySignal
  <1>7. CASE DropNotifier(n)
    BY <1>7, ZenonT(60) DEF DropNotifier
  <1>8. CASE NotifierUnlink(n)
    BY <1>8, ZenonT(60) DEF NotifierUnlink
  <1>9. CASE NotifierDies(n)
    BY <1>9 DEF NotifierDies
  <1> QED BY <1>1, <1>2, <1>3, <1>4, <1>5, <1>6, <1>7, <1>8, <1>9, ZenonT(60) DEF Notifier

(* A counter that is zero stays zero; the notifier that made it zero removes    *)
(* the name.                                                                    *)
LEMMA NotifierLinked ==
  ASSUME IInv, NEW n \in Notifiers, Notifier(n)
  PROVE  UnlinkInv' /\ LinkedInv'
  <1> TypeOK /\ UnlinkInv /\ LinkedInv /\ CountInv
    BY ZenonT(60) DEF IInv
  <1>0. n \in Counted => reference_counter > 0
    BY CountedPositive, CountedFinite DEF CountInv
  <1> USE <1>0 DEF TypeOK, UnlinkInv, LinkedInv, Counted, NGoto, management, listener
  <1>1. CASE Open(n)
    BY <1>1, ZenonT(60) DEF Open
  <1>2. CASE OpenCheck(n)
    BY <1>2, ZenonT(60) DEF OpenCheck
  <1>3. CASE OpenExchange(n)
    BY <1>3 DEF OpenExchange
  <1>4. CASE \E id \in Ids : Notify(n, id)
    BY <1>4 DEF Notify
  <1>5. CASE NotifyAdd(n)
    BY <1>5, ZenonT(60) DEF NotifyAdd
  <1>6. CASE NotifySignal(n)
    BY <1>6, ZenonT(60) DEF NotifySignal
  <1>7. CASE DropNotifier(n)
    BY <1>7 DEF DropNotifier
  <1>8. CASE NotifierUnlink(n)
    BY <1>8, ZenonT(60) DEF NotifierUnlink
  <1>9. CASE NotifierDies(n)
    BY <1>9, ZenonT(60) DEF NotifierDies
  <1> QED BY <1>1, <1>2, <1>3, <1>4, <1>5, <1>6, <1>7, <1>8, <1>9, ZenonT(60) DEF Notifier

(* A notifier signals after it has set the bit, and the semaphore has room for  *)
(* at least one signal.                                                         *)
LEMMA NotifierSignal ==
  ASSUME IInv, NEW n \in Notifiers, Notifier(n)
  PROVE  SignalInv' /\ LostInv'
  <1> TypeOK /\ SignalInv /\ LostInv
    BY ZenonT(60) DEF IInv
  <1>0. UNCHANGED listener
    BY ZenonT(60) DEF Notifier, Open, OpenCheck, OpenExchange, Notify, NotifyAdd, NotifySignal,
           DropNotifier, NotifierUnlink, NotifierDies
  <1> USE <1>0, SemaphoreAssumption
        DEF TypeOK, SignalInv, LostInv, Unsignalled, NGoto, tracker, listener, history
  <1>1. CASE Open(n)
    BY <1>1, ZenonT(60) DEF Open
  <1>2. CASE OpenCheck(n)
    BY <1>2, ZenonT(60) DEF OpenCheck
  <1>3. CASE OpenExchange(n)
    BY <1>3, ZenonT(60) DEF OpenExchange
  <1>4. CASE \E id \in Ids : Notify(n, id)
    BY <1>4, ZenonT(60) DEF Notify
  <1>5. CASE NotifyAdd(n)
    BY <1>5, ZenonT(60) DEF NotifyAdd
  <1>6. CASE NotifySignal(n)
    BY <1>6 DEF NotifySignal
  <1>7. CASE DropNotifier(n)
    BY <1>7, ZenonT(60) DEF DropNotifier
  <1>8. CASE NotifierUnlink(n)
    BY <1>8, ZenonT(60) DEF NotifierUnlink
  <1>9. CASE NotifierDies(n)
    BY <1>9, ZenonT(60) DEF NotifierDies
  <1> QED BY <1>1, <1>2, <1>3, <1>4, <1>5, <1>6, <1>7, <1>8, <1>9, ZenonT(60) DEF Notifier

(* The listener keeps the counter exact: it gives its reference back once.      *)
LEMMA ListenerCount ==
  ASSUME IInv, Listener
  PROVE  CountInv' /\ reference_counter' \in Nat
  <1> TypeOK /\ CountInv
    BY ZenonT(60) DEF IInv
  <1>0. Counted' = Counted /\ Cardinality(Counted) \in Nat
    <2>1. UNCHANGED n_pc
      BY ZenonT(60) DEF Listener, Collect, Call, Drain, ResetNext, ResetAll, WakeUp, TimeOut, Interrupt,
             DropListener, DropListenerRelease, ListenerUnlink, ListenerDies,
             RemoveConnectionOfListener, notifier
    <2> QED BY <2>1, CountedFinite, ZenonT(60) DEF Counted
  <1> USE <1>0 DEF TypeOK, CountInv, LGoto, management, listener
  <1>1. CASE \E call \in WaitOne \cup WaitAll : Call(call)
    BY <1>1, ZenonT(60) DEF Call
  <1>2. CASE Drain
    BY <1>2, ZenonT(60) DEF Drain
  <1>3. CASE ResetNext
    BY <1>3, ZenonT(60) DEF ResetNext, AfterNone
  <1>4. CASE ResetAll
    BY <1>4, ZenonT(60) DEF ResetAll
  <1>5. CASE WakeUp
    BY <1>5, ZenonT(60) DEF WakeUp
  <1>6. CASE TimeOut
    BY <1>6, ZenonT(60) DEF TimeOut
  <1>7. CASE Interrupt
    BY <1>7, ZenonT(60) DEF Interrupt
  <1>8. CASE DropListener
    BY <1>8, ZenonT(60) DEF DropListener
  <1>9. CASE DropListenerRelease
    BY <1>9 DEF DropListenerRelease
  <1>10. CASE ListenerUnlink
    BY <1>10, ZenonT(60) DEF ListenerUnlink
  <1>11. CASE ListenerDies
    BY <1>11, ZenonT(60) DEF ListenerDies
  <1>12. CASE RemoveConnectionOfListener
    BY <1>12, ZenonT(60) DEF RemoveConnectionOfListener
  <1> QED BY <1>1, <1>2, <1>3, <1>4, <1>5, <1>6, <1>7, <1>8, <1>9, <1>10, <1>11, <1>12, ZenonT(60)
         DEF Listener, Collect

(* The listener keeps the types.                                                *)
LEMMA ListenerType ==
  ASSUME IInv, Listener
  PROVE  TypeOK'
  <1> TypeOK /\ reference_counter' \in Nat
    BY ListenerCount, ZenonT(60) DEF IInv
  <1> USE BitSetAssumption, SemaphoreAssumption
        DEF TypeOK, Ids, LGoto, management, tracker, listener, notifier, history
  <1>1. CASE \E call \in WaitOne \cup WaitAll : Call(call)
    BY <1>1, ZenonT(60) DEF Call
  <1>2. CASE Drain
    <2>1. CASE signals > 0
      <3>1. signals' \in 0..SEM_VALUE_MAX
        BY <1>2, <2>1 DEF Drain
      <3>2. UNCHANGED <<linked, management, tracker, listener, notifier, history>>
        BY <1>2, <2>1, ZenonT(60) DEF Drain
      <3> QED BY <3>1, <3>2, ZenonT(60)
    <2>2. CASE ~ signals > 0
      BY <1>2, <2>2, ZenonT(60) DEF Drain
    <2> QED BY <2>1, <2>2, ZenonT(60)
  <1>3. CASE ResetNext
    <2>1. PICK p \in l_todo : ResetNext!2!(p)
      BY <1>3, ZenonT(60) DEF ResetNext
    <2>2. UNCHANGED <<linked, management, signals, notifier>>
      BY <1>3, ZenonT(60) DEF ResetNext
    <2>3. p \in Ids /\ p + 1 \in 0..(trigger_id_max + 1)
      OBVIOUS
    <2>4. CASE p \in bits
      BY <2>1, <2>2, <2>3, <2>4, ZenonT(60)
    <2>5. CASE p \notin bits
      BY <1>3, <2>1, <2>2, <2>5, ZenonT(60) DEF ResetNext, AfterNone
    <2> QED BY <2>4, <2>5, ZenonT(60)
  <1>4. CASE ResetAll
    BY <1>4, ZenonT(60) DEF ResetAll
  <1>5. CASE WakeUp
    BY <1>5 DEF WakeUp
  <1>6. CASE TimeOut
    BY <1>6, ZenonT(60) DEF TimeOut
  <1>7. CASE Interrupt
    BY <1>7, ZenonT(60) DEF Interrupt
  <1>8. CASE DropListener
    BY <1>8, ZenonT(60) DEF DropListener
  <1>9. CASE DropListenerRelease
    BY <1>9, ZenonT(60) DEF DropListenerRelease
  <1>10. CASE ListenerUnlink
    BY <1>10, ZenonT(60) DEF ListenerUnlink
  <1>11. CASE ListenerDies
    BY <1>11, ZenonT(60) DEF ListenerDies
  <1>12. CASE RemoveConnectionOfListener
    BY <1>12, ZenonT(60) DEF RemoveConnectionOfListener
  <1> QED BY <1>1, <1>2, <1>3, <1>4, <1>5, <1>6, <1>7, <1>8, <1>9, <1>10, <1>11, <1>12, ZenonT(60)
         DEF Listener, Collect

(* The listener removes the name when it was the last user; when it has died    *)
(* its cleaner removes the name.                                                *)
LEMMA ListenerLinked ==
  ASSUME IInv, Listener
  PROVE  UnlinkInv' /\ LinkedInv'
  <1> TypeOK /\ UnlinkInv /\ LinkedInv /\ CountInv
    BY ZenonT(60) DEF IInv
  <1> Cardinality(Counted) \in Nat
    BY CountedFinite, ZenonT(60)
  <1> USE DEF TypeOK, UnlinkInv, LinkedInv, CountInv, LGoto, management, listener, notifier
  <1>1. CASE \E call \in WaitOne \cup WaitAll : Call(call)
    BY <1>1 DEF Call
  <1>2. CASE Drain
    BY <1>2, ZenonT(60) DEF Drain
  <1>3. CASE ResetNext
    BY <1>3, ZenonT(60) DEF ResetNext, AfterNone
  <1>4. CASE ResetAll
    BY <1>4, ZenonT(60) DEF ResetAll
  <1>5. CASE WakeUp
    BY <1>5, ZenonT(60) DEF WakeUp
  <1>6. CASE TimeOut
    BY <1>6, ZenonT(60) DEF TimeOut
  <1>7. CASE Interrupt
    BY <1>7, ZenonT(60) DEF Interrupt
  <1>8. CASE DropListener
    BY <1>8, ZenonT(60) DEF DropListener
  <1>9. CASE DropListenerRelease
    BY <1>9 DEF DropListenerRelease
  <1>10. CASE ListenerUnlink
    BY <1>10, ZenonT(60) DEF ListenerUnlink
  <1>11. CASE ListenerDies
    BY <1>11, ZenonT(60) DEF ListenerDies
  <1>12. CASE RemoveConnectionOfListener
    BY <1>12, ZenonT(60) DEF RemoveConnectionOfListener
  <1> QED BY <1>1, <1>2, <1>3, <1>4, <1>5, <1>6, <1>7, <1>8, <1>9, <1>10, <1>11, <1>12, ZenonT(60)
         DEF Listener, Collect

(* The listener waits only after it has looked at every id that was pending     *)
(* when the signals were collected.                                             *)
LEMMA ListenerSignal ==
  ASSUME IInv, Listener
  PROVE  SignalInv' /\ LostInv'
  <1> TypeOK /\ SignalInv /\ LostInv
    BY ZenonT(60) DEF IInv
  <1> USE SemaphoreAssumption
        DEF TypeOK, SignalInv, LostInv, Unsignalled, LGoto, tracker, listener, notifier, history
  <1>1. CASE \E call \in WaitOne \cup WaitAll : Call(call)
    <2>1. PICK call \in WaitOne \cup WaitAll : Call(call)
      BY <1>1, ZenonT(60)
    <2>2. l_pc' = "wait" => call \notin WaitOne
      BY <2>1 DEF Call, WaitOne, WaitAll, TryWait
    <2>3. l_pc' \in {"wait", "drain"}
      BY <2>1 DEF Call
    <2> QED BY <2>1, <2>2, <2>3, ZenonT(60) DEF Call
  <1>2. CASE Drain
    BY <1>2, ZenonT(60) DEF Drain
  <1>3. CASE ResetNext
    BY <1>3 DEF ResetNext, AfterNone
  <1>4. CASE ResetAll
    BY <1>4, ZenonT(60) DEF ResetAll
  <1>5. CASE WakeUp
    BY <1>5, ZenonT(60) DEF WakeUp
  <1>6. CASE TimeOut
    BY <1>6, ZenonT(60) DEF TimeOut
  <1>7. CASE Interrupt
    BY <1>7, ZenonT(60) DEF Interrupt
  <1>8. CASE DropListener
    BY <1>8, ZenonT(60) DEF DropListener
  <1>9. CASE DropListenerRelease
    BY <1>9, ZenonT(60) DEF DropListenerRelease
  <1>10. CASE ListenerUnlink
    BY <1>10, ZenonT(60) DEF ListenerUnlink
  <1>11. CASE ListenerDies
    BY <1>11, ZenonT(60) DEF ListenerDies
  <1>12. CASE RemoveConnectionOfListener
    BY <1>12, ZenonT(60) DEF RemoveConnectionOfListener
  <1> QED BY <1>1, <1>2, <1>3, <1>4, <1>5, <1>6, <1>7, <1>8, <1>9, <1>10, <1>11, <1>12, ZenonT(60)
         DEF Listener, Collect

(* Every step keeps the inductive invariant, ...                                *)
LEMMA NextInv == IInv /\ [Next]_vars => IInv'
  <1> SUFFICES ASSUME IInv, [Next]_vars PROVE IInv' OBVIOUS
  <1>1. CASE Listener
    BY <1>1, ListenerType, ListenerCount, ListenerLinked, ListenerSignal, ZenonT(60) DEF IInv
  <1>2. ASSUME NEW n \in Notifiers, Notifier(n) PROVE IInv'
    BY <1>2, NotifierType, NotifierCount, NotifierLinked, NotifierSignal, ZenonT(60) DEF IInv
  <1>3. CASE UNCHANGED vars
    BY <1>3 DEF vars, IInv, TypeOK, CountInv, Counted, UnlinkInv, LinkedInv, SignalInv, LostInv,
                Unsignalled
  <1> QED BY <1>1, <1>2, <1>3, ZenonT(60) DEF Next

(* ... which therefore holds in every reachable state.                          *)
LEMMA Invariance == Spec => []IInv
  BY InitInv, NextInv, PTL DEF Spec

------------------------------------------------------------------------------
(* Every id that was notified is pending until the user gets it, but for those  *)
(* that timed_wait_one() takes after a timeout.                                 *)
THEOREM NoNotificationLost == Spec => []NothingLost
  <1>1. IInv => NothingLost
    BY ZenonT(60) DEF IInv, LostInv, NothingLost
  <1> QED BY <1>1, Invariance, PTL

(* A listener that waits without a signal has no pending id, or a notifier is   *)
(* between setting the bit and signalling.                                      *)
THEOREM NobodySleepsOnPendingIds == Spec => []NoLostWakeUp
  <1>1. IInv => NoLostWakeUp
    BY ZenonT(60) DEF IInv, SignalInv, NoLostWakeUp
  <1> QED BY <1>1, Invariance, PTL

(* The reference counter lets the last user, and nobody else, remove the        *)
(* storage.                                                                     *)
THEOREM LastUserRemovesStorage == Spec => []StorageRemovedByLast
  <1>1. ASSUME IInv PROVE StorageRemovedByLast
    <2> USE <1>1, CountedFinite
    <2>1. ListenerAlive => linked
      BY DEF IInv, LinkedInv, UnlinkInv, CountInv, ListenerAlive
    <2>2. ASSUME NEW n \in Notifiers, n_pc[n] \in {"idle", "add", "signal"}, l_pc # "removed"
          PROVE  linked
      <3>1. n \in Counted
        BY <2>2, ZenonT(60) DEF Counted
      <3> QED BY <2>2, <3>1, CountedPositive DEF IInv, LinkedInv, CountInv
    <2>3. ASSUME l_pc = "gone",
                 \A n \in Notifiers : n_pc[n] \in {"closed", "check", "exchange"}
          PROVE  ~ linked
      <3>1. Counted = {}
        BY <2>3, ZenonT(60) DEF Counted
      <3>2. reference_counter = 0
        BY <2>3, <3>1, FS_EmptySet DEF IInv, CountInv
      <3> QED BY <2>3, <3>2, ZenonT(60) DEF IInv, LinkedInv
    <2> QED BY <2>1, <2>2, <2>3, ZenonT(60) DEF StorageRemovedByLast
  <1> QED BY <1>1, Invariance, PTL

--------------------------------------------------------------------------------
(* Monitoring                                                                   *)

(* From IN_CLEANUP_SECTION.swap(true) to the end of remove_stale_resources().   *)
InSection(t) ==
    pc[t] \in {"cleaner_open_lock", "cleaner_open_state", "cleaner_query", "cleaner_lock"}
    \/ Cleaning(t)

(* A process has one thread in its cleanup section.                             *)
SectionInv ==
    /\ \A t \in Threads : InSection(t) => IN_CLEANUP_SECTION[process[t]]
    /\ \A t, u \in Threads : InSection(t) /\ InSection(u) /\ process[t] = process[u] => t = u

(* Who cleans up has the lock, or some process has lost it.                     *)
LockInv == \A t \in Threads : Cleaning(t) => lock_owner = process[t] \/ lock_lost

(* The owner has released the lock of the state file for good.                  *)
Released == o_pc \in {"drop_lock", "gone", "dead"}

(* The final permission is set after the lock, and a thread that asks for the   *)
(* cleaner has seen it, so the owner is not just being created.                 *)
PermissionInv ==
    /\ permission = "final" => o_pc \in {"alive", "close"} \/ Released
    /\ \A t \in Threads :
          pc[t] \in {"open_lock", "query_lock",
          "dead_node"} \/ InSection(t) => permission = "final"

(* A thread that has passed the second query knows it, and so does one that saw *)
(* the final permission with its first query.                                   *)
ReleasedInv ==
    \A t \in Threads :
        /\ pc[t] = "cleaner_lock" \/ Cleaning(t) => Released
        /\ pc[t] \notin {"idle", "query", "panicked", "dead"} /\ ~ saw_starting[t] => Released

PanicInv == \A t \in Threads : pc[t] = "panicked" => saw_starting[t]

MonitoringInv ==
    MonitoringTypeOK /\ SectionInv /\ LockInv /\ PermissionInv /\ ReleasedInv /\ PanicInv

------------------------------------------------------------------------------
(* Nobody has done anything yet.                                                *)
LEMMA MonitoringInitInv == MonitoringInit => MonitoringInv
  BY ZenonT(60) DEF MonitoringInit, MonitoringInv, MonitoringTypeOK, SectionInv, LockInv, PermissionInv,
         ReleasedInv, PanicInv, InSection,
         Cleaning, Released, Processes

(* The owner changes nothing the threads have, and never takes the lock of the  *)
(* state file back.                                                             *)
LEMMA OwnerStep == MonitoringInv /\ Owner => MonitoringInv'
  <1> SUFFICES ASSUME MonitoringInv, Owner PROVE MonitoringInv' OBVIOUS
  <1>1. MonitoringTypeOK'
    BY ZenonT(60) DEF MonitoringInv, MonitoringTypeOK, Owner, CreateOwnerLock, CreateStateFile,
           LockStateFile, SetPermission,
           DropState, DropClose, DropOwnerLock, OwnerDies, OwnerUnchanged, files
  <1>2. UNCHANGED <<lock_owner, IN_CLEANUP_SECTION, pc, saw_starting, lock_lost>>
    BY ZenonT(60) DEF Owner, CreateOwnerLock, CreateStateFile, LockStateFile, SetPermission,
           DropState, DropClose, DropOwnerLock, OwnerDies, OwnerUnchanged
  <1>3. SectionInv' /\ LockInv' /\ PanicInv'
    BY <1>2, ZenonT(60) DEF MonitoringInv, SectionInv, LockInv, PanicInv, InSection, Cleaning
  <1>4. Released => Released'
    BY ZenonT(60) DEF Released, Owner, CreateOwnerLock, CreateStateFile, LockStateFile, SetPermission,
           DropState, DropClose, DropOwnerLock, OwnerDies
  <1>5. permission = "final" => permission' = "final"
    BY ZenonT(60) DEF Owner, CreateOwnerLock, CreateStateFile, LockStateFile, SetPermission,
           DropState, DropClose, DropOwnerLock, OwnerDies, files
  <1>6. permission' = "final" => o_pc' \in {"alive", "close"} \/ Released'
    BY ZenonT(60) DEF MonitoringInv, PermissionInv, Released, Owner, CreateOwnerLock, CreateStateFile,
           LockStateFile,
           SetPermission, DropState, DropClose, DropOwnerLock, OwnerDies, files
  <1>7. PermissionInv'
    BY <1>2, <1>5, <1>6, ZenonT(60) DEF MonitoringInv, PermissionInv, InSection, Cleaning
  <1>8. ReleasedInv'
    BY <1>2, <1>4, ZenonT(60) DEF MonitoringInv, ReleasedInv, Cleaning
  <1> QED BY <1>1, <1>3, <1>7, <1>8, ZenonT(60) DEF MonitoringInv

(* What the thread t does between two steps, from its first query to the end of *)
(* remove_stale_resources().                                                    *)
ThreadStep(t) ==
    \/ Monitor(t) \/ Cleaner(t) \/ CleanerFails(t)
    \/ RemoveNode(t) \/ Abandon(t) \/ CleanupFails(t)

(* A thread changes neither the owner nor the permission.                       *)
LEMMA OwnerUntouched ==
  ASSUME NEW t \in Threads, ThreadStep(t)
  PROVE  UNCHANGED <<o_pc, permission>>
  BY ZenonT(60) DEF ThreadStep, Monitor, Cleaner, MonitorOpen, MonitorQuery, MonitorExists,
         MonitorPermission, MonitorOpenLock, MonitorQueryLock, EnterSection, CleanerOpenLock,
         CleanerOpenState, CleanerQuery, CleanerLock, DropCleanerState, DropCleanerLock,
         CleanerFails, RemoveNode, Abandon, CleanupFails, files

(* The threads keep the types.                                                  *)
LEMMA ThreadType ==
  ASSUME MonitoringInv, NEW t \in Threads, ThreadStep(t)
  PROVE  MonitoringTypeOK'
  <1> process[t] \in Processes
    BY ZenonT(60) DEF Processes
  <1> MonitoringTypeOK
    BY ZenonT(60) DEF MonitoringInv
  <1>1. CASE MonitorOpen(t)
    BY <1>1, ZenonT(60) DEF MonitoringTypeOK, MonitorOpen, Goto, files
  <1>2. CASE MonitorQuery(t)
    BY <1>2, ZenonT(60) DEF MonitoringTypeOK, MonitorQuery, Goto, files
  <1>3. CASE MonitorExists(t)
    BY <1>3, ZenonT(60) DEF MonitoringTypeOK, MonitorExists, Goto, files
  <1>4. CASE MonitorPermission(t)
    BY <1>4, ZenonT(60) DEF MonitoringTypeOK, MonitorPermission, Goto, files
  <1>5. CASE MonitorOpenLock(t)
    BY <1>5, ZenonT(60) DEF MonitoringTypeOK, MonitorOpenLock, Goto, files
  <1>6. CASE MonitorQueryLock(t)
    BY <1>6, ZenonT(60) DEF MonitoringTypeOK, MonitorQueryLock, Goto, files, CloseOwnerLock
  <1>7. CASE EnterSection(t)
    BY <1>7, ZenonT(60) DEF MonitoringTypeOK, EnterSection, Goto, files
  <1>8. CASE CleanerOpenLock(t)
    BY <1>8, ZenonT(60) DEF MonitoringTypeOK, CleanerOpenLock, Goto, files, LeaveSection
  <1>9. CASE CleanerOpenState(t)
    BY <1>9, ZenonT(60) DEF MonitoringTypeOK, CleanerOpenState, Goto, files, CloseOwnerLock, LeaveSection
  <1>10. CASE CleanerQuery(t)
    BY <1>10, ZenonT(60) DEF MonitoringTypeOK, CleanerQuery, Goto, files
  <1>11. CASE CleanerLock(t)
    BY <1>11, ZenonT(60) DEF MonitoringTypeOK, CleanerLock, Goto, files, CloseOwnerLock, LeaveSection
  <1>12. CASE DropCleanerState(t)
    BY <1>12, ZenonT(60) DEF MonitoringTypeOK, DropCleanerState, Goto
  <1>13. CASE DropCleanerLock(t)
    <2>1. pc' \in [Threads -> {"idle"} \cup {pc[u] : u \in Threads}]
      BY <1>13, ZenonT(60) DEF MonitoringTypeOK, DropCleanerLock, Goto, LeaveSection
    <2>2. IN_CLEANUP_SECTION' \in [Processes -> BOOLEAN]
      BY <1>13, ZenonT(60) DEF MonitoringTypeOK, DropCleanerLock, LeaveSection
    <2> QED BY <1>13, <2>1, <2>2, ZenonT(60) DEF MonitoringTypeOK, DropCleanerLock, CloseOwnerLock, Goto,
                                     LeaveSection
  <1>14. CASE CleanerFails(t)
    BY <1>14, ZenonT(60) DEF MonitoringTypeOK, CleanerFails, Goto, files, CloseOwnerLock
  <1>15. CASE RemoveNode(t)
    BY <1>15, ZenonT(60) DEF MonitoringTypeOK, RemoveNode, Goto, files
  <1>16. CASE Abandon(t)
    BY <1>16, ZenonT(60) DEF MonitoringTypeOK, Abandon, Goto, files, CloseOwnerLock, LeaveSection
  <1>17. CASE CleanupFails(t)
    BY <1>17, ZenonT(60) DEF MonitoringTypeOK, CleanupFails, Goto, files
  <1> QED BY <1>1, <1>2, <1>3, <1>4, <1>5, <1>6, <1>7, <1>8, <1>9, <1>10, <1>11, <1>12, <1>13,
             <1>14, <1>15, <1>16, <1>17, ZenonT(60)
         DEF ThreadStep, Monitor, Cleaner

(* The only thread of its process in the section leaves it.                     *)
LEMMA Leaving ==
  ASSUME MonitoringInv, NEW t \in Threads, InSection(t), LeaveSection(t)
  PROVE  SectionInv'
  <1>1. \A u \in Threads : pc'[u] = IF u = t THEN "idle" ELSE pc[u]
    BY ZenonT(60) DEF MonitoringInv, MonitoringTypeOK, LeaveSection, Goto
  <1>2. \A u \in Threads : InSection(u)' => u # t /\ InSection(u)
    BY <1>1, ZenonT(60) DEF InSection, Cleaning
  <1>3. \A u \in Threads : InSection(u)' => process[u] # process[t]
    BY <1>2, ZenonT(60) DEF MonitoringInv, SectionInv
  <1>4. \A p \in Processes : p # process[t] => IN_CLEANUP_SECTION'[p] = IN_CLEANUP_SECTION[p]
    BY ZenonT(60) DEF MonitoringInv, MonitoringTypeOK, LeaveSection
  <1>5. \A u \in Threads : process[u] \in Processes
    BY ZenonT(60) DEF Processes
  <1> QED BY <1>2, <1>3, <1>4, <1>5, ZenonT(60) DEF MonitoringInv, SectionInv

(* It goes on without leaving the section, or gives the section up without      *)
(* telling: then nobody else of its process will ever enter it.                 *)
LEMMA Moving ==
  ASSUME MonitoringInv, NEW t \in Threads, NEW label, Goto(t, label), InSection(t),
         UNCHANGED IN_CLEANUP_SECTION
  PROVE  SectionInv'
  <1>1. \A u \in Threads : pc'[u] = IF u = t THEN label ELSE pc[u]
    BY ZenonT(60) DEF MonitoringInv, MonitoringTypeOK, Goto
  <1>2. \A u \in Threads : InSection(u)' => InSection(u)
    BY <1>1, ZenonT(60) DEF InSection, Cleaning
  <1> QED BY <1>2, ZenonT(60) DEF MonitoringInv, SectionInv

(* The swap admits one thread of a process, which keeps the others out.         *)
LEMMA ThreadSection ==
  ASSUME MonitoringInv, NEW t \in Threads, ThreadStep(t)
  PROVE  SectionInv'
  <1> process[t] \in Processes
    BY ZenonT(60) DEF Processes
  <1> MonitoringTypeOK /\ SectionInv /\ LockInv
    BY ZenonT(60) DEF MonitoringInv
  <1>1. CASE MonitorOpen(t)
    BY <1>1, ZenonT(60) DEF MonitoringTypeOK, SectionInv, InSection, Cleaning, MonitorOpen, Goto, files
  <1>2. CASE MonitorQuery(t)
    BY <1>2, ZenonT(60) DEF MonitoringTypeOK, SectionInv, InSection, Cleaning, MonitorQuery, Goto, files
  <1>3. CASE MonitorExists(t)
    BY <1>3, ZenonT(60) DEF MonitoringTypeOK, SectionInv, InSection, Cleaning, MonitorExists, Goto, files
  <1>4. CASE MonitorPermission(t)
    BY <1>4 DEF MonitoringTypeOK, SectionInv, InSection, Cleaning, MonitorPermission, Goto,
                files
  <1>5. CASE MonitorOpenLock(t)
    BY <1>5, ZenonT(60) DEF MonitoringTypeOK, SectionInv, InSection, Cleaning, MonitorOpenLock, Goto, files
  <1>6. CASE MonitorQueryLock(t)
    BY <1>6, ZenonT(60) DEF MonitoringTypeOK, SectionInv, InSection, Cleaning, MonitorQueryLock, Goto,
                files, CloseOwnerLock
  <1>7. CASE EnterSection(t)
    BY <1>7 DEF MonitoringTypeOK, SectionInv, InSection, Cleaning, EnterSection, Goto, files
  <1>8. CASE CleanerOpenLock(t)
    <2>1. InSection(t)
      BY <1>8, ZenonT(60) DEF InSection, Cleaning, CleanerOpenLock
    <2>2. LeaveSection(t) \/ (Goto(t, "cleaner_open_state") /\ UNCHANGED IN_CLEANUP_SECTION)
      BY <1>8, ZenonT(60) DEF CleanerOpenLock
    <2> QED BY <2>1, <2>2, Leaving, Moving, ZenonT(60)
  <1>9. CASE CleanerOpenState(t)
    <2>1. InSection(t)
      BY <1>9, ZenonT(60) DEF InSection, Cleaning, CleanerOpenState
    <2>2. LeaveSection(t) \/ (Goto(t, "cleaner_query") /\ UNCHANGED IN_CLEANUP_SECTION)
      BY <1>9, ZenonT(60) DEF CleanerOpenState
    <2> QED BY <2>1, <2>2, Leaving, Moving, ZenonT(60)
  <1>10. CASE CleanerQuery(t)
    BY <1>10 DEF MonitoringTypeOK, SectionInv, InSection, Cleaning, CleanerQuery, Goto, files
  <1>11. CASE CleanerLock(t)
    <2>1. InSection(t)
      BY <1>11, ZenonT(60) DEF InSection, Cleaning, CleanerLock
    <2>2. LeaveSection(t) \/ (Goto(t, "clean") /\ UNCHANGED IN_CLEANUP_SECTION)
      BY <1>11, ZenonT(60) DEF CleanerLock
    <2> QED BY <2>1, <2>2, Leaving, Moving, ZenonT(60)
  <1>12. CASE DropCleanerState(t)
    BY <1>12 DEF MonitoringTypeOK, SectionInv, InSection, Cleaning, DropCleanerState, Goto
  <1>13. CASE DropCleanerLock(t)
    <2>1. InSection(t)
      BY <1>13, ZenonT(60) DEF InSection, Cleaning, DropCleanerLock
    <2>2. LeaveSection(t) \/ (Goto(t, "idle") /\ UNCHANGED IN_CLEANUP_SECTION)
      BY <1>13, ZenonT(60) DEF DropCleanerLock
    <2> QED BY <2>1, <2>2, Leaving, Moving, ZenonT(60)
  <1>14. CASE CleanerFails(t)
    BY <1>14, ZenonT(60) DEF MonitoringTypeOK, SectionInv, InSection, Cleaning, CleanerFails, Goto, files,
                 CloseOwnerLock
  <1>15. CASE RemoveNode(t)
    BY <1>15 DEF MonitoringTypeOK, SectionInv, InSection, Cleaning, RemoveNode, Goto, files
  <1>16. CASE Abandon(t)
    BY <1>16 DEF MonitoringTypeOK, SectionInv, InSection, Cleaning, Abandon, Goto, files,
                 CloseOwnerLock, LeaveSection
  <1>17. CASE CleanupFails(t)
    BY <1>17 DEF MonitoringTypeOK, SectionInv, InSection, Cleaning, CleanupFails, Goto, files
  <1> QED BY <1>1, <1>2, <1>3, <1>4, <1>5, <1>6, <1>7, <1>8, <1>9, <1>10, <1>11, <1>12, <1>13,
             <1>14, <1>15, <1>16, <1>17, ZenonT(60)
         DEF ThreadStep, Monitor, Cleaner

(* The lock is taken only from nobody, and given up by who does not clean up    *)
(* only at the price of lock_lost.                                              *)
LEMMA ThreadLock ==
  ASSUME MonitoringInv, NEW t \in Threads, ThreadStep(t)
  PROVE  LockInv'
  <1> process[t] \in Processes
    BY ZenonT(60) DEF Processes
  <1> MonitoringTypeOK /\ SectionInv /\ LockInv
    BY ZenonT(60) DEF MonitoringInv
  <1> USE DEF MonitoringTypeOK, LockInv, InSection, Cleaning, SectionInv, LockedByOther, Goto,
              files
  <1>1. CASE MonitorOpen(t)
    BY <1>1, ZenonT(60) DEF MonitorOpen
  <1>2. CASE MonitorQuery(t)
    BY <1>2, ZenonT(60) DEF MonitorQuery
  <1>3. CASE MonitorExists(t)
    BY <1>3, ZenonT(60) DEF MonitorExists
  <1>4. CASE MonitorPermission(t)
    BY <1>4, ZenonT(60) DEF MonitorPermission
  <1>5. CASE MonitorOpenLock(t)
    BY <1>5, ZenonT(60) DEF MonitorOpenLock
  <1>6. CASE MonitorQueryLock(t)
    BY <1>6, ZenonT(60) DEF MonitorQueryLock, CloseOwnerLock
  <1>7. CASE EnterSection(t)
    BY <1>7, ZenonT(60) DEF EnterSection
  <1>8. CASE CleanerOpenLock(t)
    BY <1>8, ZenonT(60) DEF CleanerOpenLock, LeaveSection
  <1>9. CASE CleanerOpenState(t)
    BY <1>9, ZenonT(60) DEF CleanerOpenState, CloseOwnerLock, LeaveSection
  <1>10. CASE CleanerQuery(t)
    BY <1>10, ZenonT(60) DEF CleanerQuery
  <1>11. CASE CleanerLock(t)
    <2>1. CASE LockedByOther(t)
      BY <1>11, <2>1, ZenonT(60) DEF CleanerLock, CloseOwnerLock, LeaveSection
    <2>2. CASE ~ LockedByOther(t)
      <3>1. lock_owner' = process[t] /\ pc' = [pc EXCEPT ![t] = "clean"] /\ UNCHANGED lock_lost
        BY <1>11, <2>2, ZenonT(60) DEF CleanerLock
      <3>2. \A u \in Threads : Cleaning(u) /\ u # t /\ ~ lock_lost => FALSE
        BY <1>11, <2>2, NoneAssumption DEF CleanerLock, Processes
      <3> QED BY <3>1, <3>2, ZenonT(60)
    <2> QED BY <2>1, <2>2, ZenonT(60)
  <1>12. CASE DropCleanerState(t)
    BY <1>12, ZenonT(60) DEF DropCleanerState
  <1>13. CASE DropCleanerLock(t)
    BY <1>13, ZenonT(60) DEF DropCleanerLock, CloseOwnerLock, LeaveSection
  <1>14. CASE CleanerFails(t)
    BY <1>14, ZenonT(60) DEF CleanerFails, CloseOwnerLock
  <1>15. CASE RemoveNode(t)
    BY <1>15, ZenonT(60) DEF RemoveNode
  <1>16. CASE Abandon(t)
    BY <1>16, ZenonT(60) DEF Abandon, CloseOwnerLock, LeaveSection
  <1>17. CASE CleanupFails(t)
    BY <1>17, ZenonT(60) DEF CleanupFails
  <1> QED BY <1>1, <1>2, <1>3, <1>4, <1>5, <1>6, <1>7, <1>8, <1>9, <1>10, <1>11, <1>12, <1>13,
             <1>14, <1>15, <1>16, <1>17, ZenonT(60)
         DEF ThreadStep, Monitor, Cleaner

(* A thread moves on only with what it has learnt from the owner's state.       *)
LEMMA ThreadKnowledge ==
  ASSUME MonitoringInv, NEW t \in Threads, ThreadStep(t)
  PROVE  PermissionInv' /\ ReleasedInv' /\ PanicInv'
  <1> MonitoringTypeOK /\ PermissionInv /\ ReleasedInv /\ PanicInv
    BY ZenonT(60) DEF MonitoringInv
  <1>0. UNCHANGED <<o_pc, permission>>
    BY OwnerUntouched, ZenonT(60)
  <1> USE DEF MonitoringTypeOK, PermissionInv, ReleasedInv, PanicInv, InSection, Cleaning,
              Released
  <1>1. CASE MonitorOpen(t)
    BY <1>0, <1>1, ZenonT(60) DEF MonitorOpen, Goto
  <1>2. CASE MonitorQuery(t)
    BY <1>0, <1>2, ZenonT(60) DEF MonitorQuery, Goto, StateLocked
  <1>3. CASE MonitorExists(t)
    BY <1>0, <1>3, ZenonT(60) DEF MonitorExists, Goto
  <1>4. CASE MonitorPermission(t)
    BY <1>0, <1>4, ZenonT(60) DEF MonitorPermission, Goto
  <1>5. CASE MonitorOpenLock(t)
    BY <1>0, <1>5, ZenonT(60) DEF MonitorOpenLock, Goto
  <1>6. CASE MonitorQueryLock(t)
    BY <1>0, <1>6, ZenonT(60) DEF MonitorQueryLock, Goto
  <1>7. CASE EnterSection(t)
    BY <1>0, <1>7, ZenonT(60) DEF EnterSection, Goto
  <1>8. CASE CleanerOpenLock(t)
    BY <1>0, <1>8, ZenonT(60) DEF CleanerOpenLock, Goto, LeaveSection
  <1>9. CASE CleanerOpenState(t)
    BY <1>0, <1>9, ZenonT(60) DEF CleanerOpenState, Goto, LeaveSection
  <1>10. CASE CleanerQuery(t)
    BY <1>0, <1>10, ZenonT(60) DEF CleanerQuery, Goto, StateLocked
  <1>11. CASE CleanerLock(t)
    BY <1>0, <1>11, ZenonT(60) DEF CleanerLock, Goto, LeaveSection
  <1>12. CASE DropCleanerState(t)
    BY <1>0, <1>12, ZenonT(60) DEF DropCleanerState, Goto
  <1>13. CASE DropCleanerLock(t)
    BY <1>0, <1>13, ZenonT(60) DEF DropCleanerLock, Goto, LeaveSection
  <1>14. CASE CleanerFails(t)
    BY <1>0, <1>14, ZenonT(60) DEF CleanerFails, Goto
  <1>15. CASE RemoveNode(t)
    BY <1>0, <1>15, ZenonT(60) DEF RemoveNode, Goto
  <1>16. CASE Abandon(t)
    BY <1>0, <1>16, ZenonT(60) DEF Abandon, Goto, LeaveSection
  <1>17. CASE CleanupFails(t)
    BY <1>0, <1>17, ZenonT(60) DEF CleanupFails, Goto
  <1> QED BY <1>1, <1>2, <1>3, <1>4, <1>5, <1>6, <1>7, <1>8, <1>9, <1>10, <1>11, <1>12, <1>13,
  <1>14,
             <1>15, <1>16, <1>17, ZenonT(60)
         DEF ThreadStep, Monitor, Cleaner

(* The threads of a process die together, and its lock is released.             *)
LEMMA DeathStep ==
  ASSUME MonitoringInv, NEW p \in Processes, ProcessDies(p)
  PROVE  MonitoringInv'
  <1>1. MonitoringTypeOK'
    BY ZenonT(60) DEF MonitoringInv, MonitoringTypeOK, ProcessDies, files
  <1>2. \A t \in Threads : pc'[t] = "dead" \/ (pc'[t] = pc[t] /\ process[t] # p)
    BY ZenonT(60) DEF MonitoringInv, MonitoringTypeOK, ProcessDies
  <1>3. UNCHANGED <<o_pc, permission, IN_CLEANUP_SECTION, saw_starting, lock_lost>>
    BY ZenonT(60) DEF ProcessDies, files
  <1>4. SectionInv' /\ PermissionInv' /\ ReleasedInv' /\ PanicInv'
    BY <1>2, <1>3, ZenonT(60) DEF MonitoringInv, SectionInv, PermissionInv, ReleasedInv, PanicInv,
                      InSection, Cleaning,
                      Released
  <1>5. LockInv'
    BY <1>2, <1>3 DEF MonitoringInv, LockInv, Cleaning, ProcessDies
  <1> QED BY <1>1, <1>4, <1>5, ZenonT(60) DEF MonitoringInv

(* Every step keeps the inductive invariant, ...                                *)
LEMMA MonitoringNextInv == MonitoringInv /\ [MonitoringNext]_monitoringVars => MonitoringInv'
  <1> SUFFICES ASSUME MonitoringInv,
  [MonitoringNext]_monitoringVars PROVE MonitoringInv' OBVIOUS
  <1>1. CASE Owner
    BY <1>1, OwnerStep, ZenonT(60)
  <1>2. ASSUME NEW t \in Threads, ThreadStep(t) PROVE MonitoringInv'
    BY <1>2, ThreadType, ThreadSection, ThreadLock, ThreadKnowledge, ZenonT(60) DEF MonitoringInv
  <1>3. ASSUME NEW p \in Processes, ProcessDies(p) PROVE MonitoringInv'
    BY <1>3, DeathStep, ZenonT(60)
  <1>4. CASE UNCHANGED monitoringVars
    BY <1>4, ZenonT(60) DEF monitoringVars, MonitoringInv, MonitoringTypeOK, SectionInv, LockInv,
                PermissionInv, ReleasedInv, PanicInv,
                InSection, Cleaning, Released
  <1> QED BY <1>1, <1>2, <1>3, <1>4, ZenonT(60) DEF MonitoringNext, ThreadStep

(* ... which therefore holds in every reachable state.                          *)
LEMMA MonitoringInvariance == MonitoringSpec => []MonitoringInv
  BY MonitoringInitInv, MonitoringNextInv, PTL DEF MonitoringSpec

------------------------------------------------------------------------------
(* remove_stale_resources() runs only after the owner has given up the lock of  *)
(* the state file: it has died, or it has removed the files itself.             *)
THEOREM CleanupOnlyAfterDeath == MonitoringSpec => []OnlyDeadCleanedUp
  <1>1. MonitoringInv => OnlyDeadCleanedUp
    BY ZenonT(60) DEF MonitoringInv, ReleasedInv, Released, OnlyDeadCleanedUp
  <1> QED BY <1>1, MonitoringInvariance, PTL

(* The fatal panic "since the Node is still alive" of acquire_cleaner_lock() is *)
(* reached only with a lock that was queried before the permission was final.   *)
THEOREM PanicOnlyAtStart == MonitoringSpec => []StillAliveOnlyAtStart
  <1>1. MonitoringInv => StillAliveOnlyAtStart
    BY ZenonT(60) DEF MonitoringInv, PanicInv, StillAliveOnlyAtStart
  <1> QED BY <1>1, MonitoringInvariance, PTL

(* IN_CLEANUP_SECTION and the lock of the owner_lock file together admit one    *)
(* thread to the clean-up, unless a process has lost the lock.                  *)
THEOREM OneCleaner == MonitoringSpec => []ExclusiveUntilLockLost
  <1>1. MonitoringInv => ExclusiveUntilLockLost
    BY ZenonT(60) DEF MonitoringInv, SectionInv, LockInv, InSection, CleanerExclusive,
       ExclusiveUntilLockLost
  <1> QED BY <1>1, MonitoringInvariance, PTL

================================================================================
