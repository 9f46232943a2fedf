-------------------------- MODULE MC_PublishSubscribe --------------------------
(* PublishSubscribe for four service configurations.                            *)
EXTENDS PublishSubscribe

Config(subscribers, buffer, kept, overflow, waits, samples) ==
    [max_subscribers |-> subscribers, subscriber_max_buffer_size |-> buffer,
     subscriber_max_borrowed_samples |-> 1, history_size |-> kept,
     enable_safe_overflow |-> overflow, max_loaned_samples |-> 1, block |-> waits,
     max_send |-> samples]

(* Slot reuse with a history; two subscribers at a time; a full buffer that     *)
(* discards, or waits.                                                         *)
Services == {Config(1, 2, 2, TRUE, TRUE, 3),
             Config(2, 1, 0, TRUE, TRUE, 3),
             Config(1, 1, 1, FALSE, FALSE, 5),
             Config(1, 1, 0, FALSE, TRUE, 3)}

(* The smallest service, for the history of a sample that outlives its          *)
(* subscriber                                                                   *)
SmallService == {Config(1, 1, 0, TRUE, TRUE, 3)}
================================================================================
