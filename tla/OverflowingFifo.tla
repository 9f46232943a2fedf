---------------------------- MODULE OverflowingFifo ----------------------------
(* What the safely overflowing queue promises: a FIFO of Capacity values.  When *)
(* a push finds it full the oldest value goes back to the pusher, unless the    *)
(* consumer takes it first.                                                     *)
EXTENDS Naturals, Sequences

CONSTANTS Capacity, MaxPush

VARIABLES queue,      \* values in the queue, oldest first
          pushed,     \* number of values pushed so far
          overfull,   \* the last push found the queue full and is not finished
          taken,      \* values handed to the consumer
          recycled    \* values handed back to the producer

fifoVars == <<queue, pushed, overfull, taken, recycled>>

Init == /\ queue = <<>> /\ pushed = 0 /\ overfull = FALSE
        /\ taken = <<>> /\ recycled = <<>>

Push == /\ ~ overfull /\ pushed < MaxPush
        /\ queue' = Append(queue, pushed + 1)
        /\ pushed' = pushed + 1
        /\ overfull' = (Len(queue) = Capacity)
        /\ UNCHANGED <<taken, recycled>>

Recycle == /\ overfull
           /\ recycled' = Append(recycled, Head(queue))
           /\ queue' = Tail(queue)
           /\ overfull' = FALSE
           /\ UNCHANGED <<pushed, taken>>

Pop == /\ queue # <<>>
       /\ taken' = Append(taken, Head(queue))
       /\ queue' = Tail(queue)
       /\ overfull' = FALSE
       /\ UNCHANGED <<pushed, recycled>>

Next == Push \/ Recycle \/ Pop

Spec == Init /\ [][Next]_fifoVars

================================================================================
