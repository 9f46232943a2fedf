------------------------------ MODULE BoundedFifo ------------------------------
(* What the bounded index queue promises: a FIFO of at most Capacity values.    *)
EXTENDS Naturals, Sequences

CONSTANTS Capacity, MaxPush

VARIABLES queue,    \* values in the queue, oldest first
          pushed,   \* number of values accepted so far
          taken     \* values handed to the consumer

fifoVars == <<queue, pushed, taken>>

Init == queue = <<>> /\ pushed = 0 /\ taken = <<>>

Push == /\ Len(queue) < Capacity /\ pushed < MaxPush
        /\ queue' = Append(queue, pushed + 1)
        /\ pushed' = pushed + 1
        /\ UNCHANGED taken

Pop == /\ queue # <<>>
       /\ taken' = Append(taken, Head(queue))
       /\ queue' = Tail(queue)
       /\ UNCHANGED pushed

Next == Push \/ Pop

Spec == Init /\ [][Next]_fifoVars

================================================================================
