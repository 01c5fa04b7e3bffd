---------------------------- MODULE BoundedFifo ----------------------------
(***************************************************************************)
(* What a single-producer single-consumer queue promises its two users: a  *)
(* FIFO sequence of at most Bound elements.  An attempt that fails (queue  *)
(* full, queue empty) leaves it as it is.                                  *)
(***************************************************************************)
EXTENDS Naturals, Sequences

CONSTANTS Values,   \* what can be stored
          Bound,    \* how many elements fit
          None      \* "nothing was popped yet"

VARIABLES q,        \* the stored elements, oldest first
          got       \* the element the last successful pop handed out

vars == <<q, got>>

Init == q = <<>> /\ got = None

Put(v) == /\ Len(q) < Bound
          /\ q' = Append(q, v)
          /\ UNCHANGED got

Get == /\ q # <<>>
       /\ got' = Head(q)
       /\ q' = Tail(q)

\* The queue is destroyed together with what is still in it.
Clear == q' = <<>> /\ UNCHANGED got

Next == (\E v \in Values : Put(v)) \/ Get \/ Clear

Spec == Init /\ [][Next]_vars
=============================================================================
