------------------------------ MODULE KeyQueue ------------------------------
(***************************************************************************)
(* What the keyboard bee promises the bees that read keys: a queue of at   *)
(* most Most events, from which they come in the order of the key strokes. *)
(* One event too many empties the queue.  Keyboard implements it.          *)
(***************************************************************************)
EXTENDS Naturals, Sequences

CONSTANTS Most,   \* events the queue has room for
          Events, \* what can happen to a key
          None    \* the answer when there is no event

VARIABLES queue, \* the events not yet read
          out,   \* the event last handed to a reader
          said   \* whether there were events when a reader last asked

vars == <<queue, out, said>>

Init == queue = <<>> /\ out = None /\ said = FALSE

Press(e) == /\ queue' = IF Len(queue) = Most THEN <<>> ELSE Append(queue, e)
            /\ UNCHANGED <<out, said>>

Take == /\ queue # <<>>
        /\ out' = Head(queue)
        /\ queue' = Tail(queue)
        /\ UNCHANGED said

TakeNone == /\ queue = <<>>
            /\ out' = None
            /\ UNCHANGED <<queue, said>>

Ask == said' = (queue # <<>>) /\ UNCHANGED <<queue, out>>

Next == (\E e \in Events : Press(e)) \/ Take \/ TakeNone \/ Ask

Spec == Init /\ [][Next]_vars
=============================================================================
