----------------------------- MODULE Containers -----------------------------
(***************************************************************************)
(* The deque and the vector of include/ side by side, two containers that  *)
(* promise a sequence.  They share nothing.                                *)
(***************************************************************************)
EXTENDS Deque

CONSTANT MIN_CAPACITY

ASSUME VectorAssumption == MIN_CAPACITY \in Nat \ {0}

VARIABLES data, vsize, vcall

V == INSTANCE Vector WITH size_ <- vsize, call <- vcall
-----------------------------------------------------------------------------
\* The deque and the vector (deque.h, vector.h) are sequences: each of their steps is a step
\* of AbstractSeq.
DequeIsSequence == Items!Spec
VectorIsSequence == V!Items!Spec
=============================================================================
