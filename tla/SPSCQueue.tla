----------------------------- MODULE SPSCQueue -----------------------------
(***************************************************************************)
(* The lock-free single-producer single-consumer ring of                   *)
(* include/spsc_queue.h, which carries every packet between the main       *)
(* thread and the network thread.                                          *)
(*                                                                         *)
(* The steps of emplace() and pop() interleave at the granularity of their *)
(* atomic accesses.  Each thread owns one index and reads its own exactly; *)
(* an acquire load of the other thread's index may return any value stored *)
(* since the one it returned last, which is what coherence of a C++ atomic *)
(* guarantees and no more.                                                 *)
(***************************************************************************)
EXTENDS Integers, Sequences

CONSTANTS Capacity,     \* template parameter: number of slots
          Values,       \* the values of type T that are stored
          Raw           \* content of a slot that holds no constructed object

VARIABLES data,     \* data_: the slots
          head,     \* head_: written by the consumer only
          tail,     \* tail_: written by the producer only
          pPc,      \* where the producer is in emplace()
          pVal,     \* the argument of emplace()
          pHead,    \* the head_ the producer loaded last
          cPc,      \* where the consumer is in pop()
          cVal,     \* result: the value moved out of the slot
          cTail,    \* the tail_ the consumer loaded last
          ret       \* the value handed out by the last pop() that returned true

vars == <<data, head, tail, pPc, pVal, pHead, cPc, cVal, cTail, ret>>
producerVars == <<tail, pPc, pVal, pHead>>
consumerVars == <<head, cPc, cVal, cTail, ret>>

Slots == 0 .. Capacity - 1
Cell == Values \cup {Raw}

\* Mutant of Inc: the index does not wrap.
IncNoWrap(i) == i + 1

\* (i + 1) % Capacity
Inc(i) == (i + 1) % Capacity

\* How many increments lead from index a to index b.
Dist(a, b) == IF b >= a THEN b - a ELSE b - a + Capacity

\* The values a load may return: everything stored from `last' up to `now'.
Loadable(last, now) == {i \in Slots : Dist(last, i) <= Dist(last, now)}

\* The slots from a up to, and not including, b.
Span(a, b) == {i \in Slots : Dist(a, i) < Dist(a, b)}

Init == /\ data = [i \in Slots |-> Raw]
        /\ head = 0 /\ tail = 0
        /\ pPc = "idle" /\ pVal = Raw /\ pHead = 0
        /\ cPc = "idle" /\ cVal = Raw /\ cTail = 0
        /\ ret = Raw
-----------------------------------------------------------------------------
\* emplace(): both loads and the test, when it finds the ring full.
EmplaceFull == /\ pPc = "idle"
               /\ \E h \in Loadable(pHead, head) : /\ Inc(tail) = h
                                                   /\ pHead' = h
               /\ UNCHANGED <<data, tail, pPc, pVal, consumerVars>>

\* emplace(v): both loads and the test, when there is room.
EmplaceAdmit(v) == /\ pPc = "idle"
                   /\ \E h \in Loadable(pHead, head) : /\ Inc(tail) # h
                                                       /\ pHead' = h
                   /\ pPc' = "construct"
                   /\ pVal' = v
                   /\ UNCHANGED <<data, tail, consumerVars>>

EmplaceConstruct == /\ pPc = "construct"
                    /\ data' = [data EXCEPT ![tail] = pVal]
                    /\ pPc' = "publish"
                    /\ UNCHANGED <<tail, pVal, pHead, consumerVars>>

EmplacePublish == /\ pPc = "publish"
                  /\ tail' = Inc(tail)
                  /\ pPc' = "idle"
                  /\ UNCHANGED <<data, pVal, pHead, consumerVars>>

\* pop(): both loads and the test, when it finds the ring empty.
PopEmpty == /\ cPc = "idle"
            /\ \E t \in Loadable(cTail, tail) : /\ head = t
                                                /\ cTail' = t
            /\ UNCHANGED <<data, head, cPc, cVal, ret, producerVars>>

\* Mutant of PopAdmit: no test for an empty ring.
PopAdmitUnchecked == /\ cPc = "idle"
                     /\ cPc' = "take"
                     /\ UNCHANGED <<data, head, cVal, cTail, ret, producerVars>>

PopAdmit == /\ cPc = "idle"
            /\ \E t \in Loadable(cTail, tail) : /\ head # t
                                                /\ cTail' = t
            /\ cPc' = "take"
            /\ UNCHANGED <<data, head, cVal, ret, producerVars>>

\* Move the element out and destroy what is left in the slot.
PopTake == /\ cPc = "take"
           /\ cVal' = data[head]
           /\ data' = [data EXCEPT ![head] = Raw]
           /\ cPc' = "publish"
           /\ UNCHANGED <<head, cTail, ret, producerVars>>

\* Mutant of PopPublish: the store of head_ is missing.
PopNoPublish == /\ cPc = "publish"
                /\ ret' = cVal
                /\ cPc' = "idle"
                /\ UNCHANGED <<data, head, cVal, cTail, producerVars>>

PopPublish == /\ cPc = "publish"
              /\ head' = Inc(head)
              /\ ret' = cVal
              /\ cPc' = "idle"
              /\ UNCHANGED <<data, cVal, cTail, producerVars>>

\* The destructor, which runs when neither thread uses the queue any more.
Destroy == /\ pPc = "idle" /\ cPc = "idle"
           /\ data' = [i \in Slots |-> IF i \in Span(head, tail) THEN Raw ELSE data[i]]
           /\ pPc' = "dead" /\ cPc' = "dead"
           /\ UNCHANGED <<head, tail, pVal, pHead, cVal, cTail, ret>>

Producer == EmplaceFull \/ (\E v \in Values : EmplaceAdmit(v)) \/ EmplaceConstruct \/ EmplacePublish
Consumer == PopEmpty \/ PopAdmit \/ PopTake \/ PopPublish
Next == Producer \/ Consumer \/ Destroy

Spec == Init /\ [][Next]_vars

\* The network thread (sendQueue_) and the main loop (recvQueue_) keep popping,
\* and a store becomes visible to the other thread in finite time.
Fairness == WF_vars(PopAdmit) /\ WF_vars(PopTake) /\ WF_vars(PopPublish)
FairSpec == Spec /\ Fairness
-----------------------------------------------------------------------------
TypeOK == /\ data \in [Slots -> Cell]
          /\ head \in Slots /\ tail \in Slots
          /\ pPc \in {"idle", "construct", "publish", "dead"}
          /\ pVal \in Cell /\ pHead \in Slots
          /\ cPc \in {"idle", "take", "publish", "dead"}
          /\ cVal \in Cell /\ cTail \in Slots
          /\ ret \in Cell

\* What each thread knows of the other's index is old, never wrong: the head_ seen
\* by the producer, head_, the tail_ seen by the consumer and tail_ follow each
\* other around the ring in this order within one turn.
ViewsInOrder == /\ Dist(pHead, head) + Dist(head, tail) = Dist(pHead, tail)
                /\ Dist(head, cTail) + Dist(cTail, tail) = Dist(head, tail)
                /\ pPc \in {"construct", "publish"} => Inc(tail) # pHead
                /\ cPc \in {"take", "publish"} => head # cTail

\* Where objects live: from head_ to tail_, less the one pop() has just taken,
\* plus the one emplace() has constructed and not yet published.
Live == (Span(head, tail) \ (IF cPc = "publish" THEN {head} ELSE {}))
          \cup (IF pPc = "publish" THEN {tail} ELSE {})

LiveSlots == /\ pPc = "dead" <=> cPc = "dead"
             /\ pPc # "dead" => \A i \in Slots : data[i] # Raw <=> i \in Live
             /\ pPc = "dead" => \A i \in Slots : data[i] = Raw
             /\ pPc \in {"construct", "publish"} => pVal \in Values
             /\ pPc = "publish" => data[tail] = pVal
             /\ cPc = "publish" => cVal \in Values

\* The inductive invariant of the ring.
RingInv == TypeOK /\ ViewsInOrder /\ LiveSlots

\* The two threads never meet in a slot: emplace() constructs (line 38) only
\* where no object lives, and pop() moves from (line 53) a slot only when an
\* object lives there.
NoOverwrite == /\ pPc = "construct" => data[tail] = Raw
               /\ cPc = "take" => data[head] # Raw

\* The destructor leaves no object behind: the loop of line 20 visits exactly
\* the slots that hold one.
NoLeak == pPc = "dead" => \A i \in Slots : data[i] = Raw

\* The i-th element as the users see it.  An element leaves the queue when pop()
\* stores head_, and until then it is in `result'.
SlotAt(i) == IF head + i - 1 < Capacity THEN head + i - 1 ELSE head + i - 1 - Capacity
Element(i) == IF i = 1 /\ cPc = "publish" THEN cVal ELSE data[SlotAt(i)]
Contents == IF pPc = "dead" THEN <<>> ELSE [i \in 1 .. Dist(head, tail) |-> Element(i)]

\* The ring implements a FIFO queue of Capacity - 1 elements: emplace() takes
\* effect with the store of tail_, pop() with the store of head_; nothing is
\* lost, duplicated or reordered.
Fifo == INSTANCE BoundedFifo WITH Bound <- Capacity - 1, None <- Raw, q <- Contents, got <- ret
ImplementsFifo == Fifo!Spec

\* An element at the front of the ring does not stay there: the consumer that
\* keeps calling pop() gets it, however old the indices it sees.
FrontIsPopped == \A i \in Slots : (head = i /\ tail # i) ~> (head # i \/ pPc = "dead")
=============================================================================
