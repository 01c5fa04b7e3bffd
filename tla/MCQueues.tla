------------------------------ MODULE MCQueues ------------------------------
(***************************************************************************)
(* The two lock-free rings of include/ for TLC, one at a time: `kind' says *)
(* which of them the threads use, and the other one rests.  They share the *)
(* values and nothing else.                                                *)
(***************************************************************************)
EXTENDS MPMCQueue

CONSTANT RingCapacity   \* the Capacity of SPSCQueue

ASSUME RingAssumption == RingCapacity \in Nat \ {0}

\* The state of the single-producer single-consumer ring: data_, head_, tail_ and the rest.
VARIABLES slots, front, rear, pPc, pVal, pHead, cPc, cVal, cTail, ret

VARIABLE kind

spscVars == <<slots, front, rear, pPc, pVal, pHead, cPc, cVal, cTail, ret>>
Spsc == INSTANCE SPSCQueue WITH Capacity <- RingCapacity, Raw <- None,
                                data <- slots, head <- front, tail <- rear

QueuesInit == kind \in {"spsc", "mpmc"} /\ Spsc!Init /\ Init

QueuesNext == /\ \/ kind = "spsc" /\ Spsc!Next /\ UNCHANGED vars
                 \/ kind = "mpmc" /\ Next /\ UNCHANGED spscVars
              /\ UNCHANGED kind

\* The fairness of the two modules; no step of a ring that rests is enabled.
QueuesSpec == /\ QueuesInit /\ [][QueuesNext]_<<kind, spscVars, vars>>
              /\ Spsc!Fairness /\ Fairness
-----------------------------------------------------------------------------
\* What each thread of the single-producer single-consumer ring (spsc_queue.h) knows of the
\* other's index is old, never wrong, and objects live just where head_ and tail_ say.
SpscRingInv == Spsc!RingInv

\* The ring of spsc_queue.h is a FIFO queue: emplace() takes effect with the store of tail_,
\* pop() with the store of head_; nothing is lost, duplicated or reordered.
ImplementsFifo == Spsc!ImplementsFifo

\* The element at the front of the ring of spsc_queue.h is popped by the consumer that keeps
\* calling pop(), however old the indices it sees.
FrontIsPopped == Spsc!FrontIsPopped
=============================================================================
