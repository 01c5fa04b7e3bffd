----------------------------- MODULE QueueProofs -----------------------------
(***************************************************************************)
(* Proofs about the two rings of include/: MPMCQueue for any number of     *)
(* producers, consumers, slots and tickets, and SPSCQueue for every        *)
(* capacity and every set of values.  They share constants and nothing     *)
(* else.                                                                   *)
(***************************************************************************)
EXTENDS MCQueues, SequenceTheorems, TLAPS

\* The provers, tried in this order, and how long each may take.
USE SMTT(20), Z3T(20), Zenon

\* The increment of the indices of spsc_queue.h stays in the ring and is the
\* successor except at its end.
LEMMA IncLemma ==
  ASSUME NEW i \in Spsc!Slots
  PROVE  /\ Spsc!Inc(i) \in Spsc!Slots
         /\ Spsc!Inc(i) = IF i + 1 = RingCapacity THEN 0 ELSE i + 1
  BY RingAssumption DEF Spsc!Inc, Spsc!Slots

\* The ring is in order when it is created.
LEMMA InitSpsc == Spsc!Init => Spsc!RingInv
  BY RingAssumption, NoneAssumption
     DEF Spsc!Init, Spsc!RingInv, Spsc!TypeOK, Spsc!ViewsInOrder, Spsc!LiveSlots, Spsc!Live,
         Spsc!Span, Spsc!Slots, Spsc!Cell, Spsc!Dist, Spsc!Inc

\* Every step of emplace(), of pop() and of the destructor keeps it in order.
LEMMA NextSpsc == Spsc!RingInv /\ [Spsc!Next]_spscVars => Spsc!RingInv'
<1> SUFFICES ASSUME Spsc!RingInv, [Spsc!Next]_spscVars PROVE Spsc!RingInv'
  OBVIOUS
<1> USE RingAssumption, NoneAssumption
<1>t. /\ Spsc!TypeOK /\ Spsc!ViewsInOrder /\ Spsc!LiveSlots
      /\ Spsc!Inc(rear) \in Spsc!Slots /\ Spsc!Inc(rear) = IF rear + 1 = RingCapacity THEN 0 ELSE rear + 1
      /\ Spsc!Inc(front) \in Spsc!Slots /\ Spsc!Inc(front) = IF front + 1 = RingCapacity THEN 0 ELSE front + 1
  BY IncLemma DEF Spsc!RingInv, Spsc!TypeOK
<1>1. CASE Spsc!EmplaceFull
  <2>1. Spsc!TypeOK'
    BY <1>t, <1>1 DEF Spsc!TypeOK, Spsc!EmplaceFull, Spsc!consumerVars, Spsc!Loadable
  <2>2. Spsc!ViewsInOrder'
    BY <1>t, <1>1 DEF Spsc!TypeOK, Spsc!ViewsInOrder, Spsc!EmplaceFull, Spsc!consumerVars,
       Spsc!Loadable, Spsc!Dist, Spsc!Slots
  <2>3. Spsc!LiveSlots'
    BY <1>t, <1>1 DEF Spsc!TypeOK, Spsc!LiveSlots, Spsc!Live, Spsc!Span, Spsc!EmplaceFull,
       Spsc!consumerVars
  <2> QED BY <2>1, <2>2, <2>3 DEF Spsc!RingInv
<1>2. ASSUME NEW v \in Values, Spsc!EmplaceAdmit(v) PROVE Spsc!RingInv'
  <2>1. Spsc!TypeOK'
    BY <1>t, <1>2 DEF Spsc!TypeOK, Spsc!EmplaceAdmit, Spsc!consumerVars, Spsc!Loadable, Spsc!Cell
  <2>2. Spsc!ViewsInOrder'
    BY <1>t, <1>2 DEF Spsc!TypeOK, Spsc!ViewsInOrder, Spsc!EmplaceAdmit, Spsc!consumerVars,
       Spsc!Loadable, Spsc!Dist, Spsc!Slots
  <2>3. Spsc!LiveSlots'
    BY <1>t, <1>2 DEF Spsc!TypeOK, Spsc!LiveSlots, Spsc!Live, Spsc!Span, Spsc!EmplaceAdmit,
       Spsc!consumerVars
  <2> QED BY <2>1, <2>2, <2>3 DEF Spsc!RingInv
<1>3. CASE Spsc!EmplaceConstruct
  <2>1. Spsc!TypeOK'
    BY <1>t, <1>3 DEF Spsc!TypeOK, Spsc!EmplaceConstruct, Spsc!consumerVars
  <2>2. Spsc!ViewsInOrder'
    BY <1>t, <1>3 DEF Spsc!ViewsInOrder, Spsc!EmplaceConstruct, Spsc!consumerVars, Spsc!Inc
  <2>3. Spsc!LiveSlots'
    BY <1>t, <1>3 DEF Spsc!TypeOK, Spsc!LiveSlots, Spsc!Live, Spsc!Span, Spsc!EmplaceConstruct,
       Spsc!consumerVars
  <2> QED BY <2>1, <2>2, <2>3 DEF Spsc!RingInv
<1>4. CASE Spsc!EmplacePublish
  <2>1. Spsc!TypeOK'
    BY <1>t, <1>4 DEF Spsc!TypeOK, Spsc!EmplacePublish, Spsc!consumerVars
  <2>2. Spsc!ViewsInOrder'
    BY <1>t, <1>4 DEF Spsc!TypeOK, Spsc!ViewsInOrder, Spsc!EmplacePublish, Spsc!consumerVars,
       Spsc!Dist, Spsc!Slots
  <2>3. \A i \in Spsc!Slots : i \in Spsc!Span(front, Spsc!Inc(rear)) <=> i \in Spsc!Span(front, rear) \/ i = rear
    BY <1>t, <1>4 DEF Spsc!TypeOK, Spsc!ViewsInOrder, Spsc!EmplacePublish, Spsc!Span, Spsc!Dist,
       Spsc!Slots
  <2>4. cPc = "publish" => front # rear
    BY <1>t DEF Spsc!TypeOK, Spsc!ViewsInOrder, Spsc!Dist, Spsc!Slots
  <2>5. \A i \in Spsc!Slots : i \in Spsc!Live' <=> i \in Spsc!Live
    BY <1>t, <1>4, <2>3, <2>4 DEF Spsc!TypeOK, Spsc!Live, Spsc!EmplacePublish, Spsc!consumerVars
  <2>6. Spsc!LiveSlots'
    BY <1>t, <1>4, <2>5 DEF Spsc!TypeOK, Spsc!LiveSlots, Spsc!EmplacePublish, Spsc!consumerVars
  <2> QED BY <2>1, <2>2, <2>6 DEF Spsc!RingInv
<1>5. CASE Spsc!PopEmpty
  <2>1. Spsc!TypeOK'
    BY <1>t, <1>5 DEF Spsc!TypeOK, Spsc!PopEmpty, Spsc!producerVars, Spsc!Loadable
  <2>2. Spsc!ViewsInOrder'
    BY <1>t, <1>5 DEF Spsc!TypeOK, Spsc!ViewsInOrder, Spsc!PopEmpty, Spsc!producerVars,
       Spsc!Loadable, Spsc!Dist, Spsc!Slots, Spsc!Inc
  <2>3. Spsc!LiveSlots'
    BY <1>t, <1>5 DEF Spsc!TypeOK, Spsc!LiveSlots, Spsc!Live, Spsc!Span, Spsc!PopEmpty,
       Spsc!producerVars
  <2> QED BY <2>1, <2>2, <2>3 DEF Spsc!RingInv
<1>6. CASE Spsc!PopAdmit
  <2>1. Spsc!TypeOK'
    BY <1>t, <1>6 DEF Spsc!TypeOK, Spsc!PopAdmit, Spsc!producerVars, Spsc!Loadable
  <2>2. Spsc!ViewsInOrder'
    BY <1>t, <1>6 DEF Spsc!TypeOK, Spsc!ViewsInOrder, Spsc!PopAdmit, Spsc!producerVars,
       Spsc!Loadable, Spsc!Dist, Spsc!Slots, Spsc!Inc
  <2>3. Spsc!LiveSlots'
    BY <1>t, <1>6 DEF Spsc!TypeOK, Spsc!LiveSlots, Spsc!Live, Spsc!Span, Spsc!PopAdmit,
       Spsc!producerVars
  <2> QED BY <2>1, <2>2, <2>3 DEF Spsc!RingInv
<1>7. CASE Spsc!PopTake
  <2>1. front \in Spsc!Live /\ slots[front] \in Values
    BY <1>t, <1>7 DEF Spsc!TypeOK, Spsc!ViewsInOrder, Spsc!LiveSlots, Spsc!Live, Spsc!PopTake,
       Spsc!Span, Spsc!Dist, Spsc!Slots, Spsc!Cell
  <2>2. Spsc!TypeOK'
    BY <1>t, <1>7, <2>1 DEF Spsc!TypeOK, Spsc!PopTake, Spsc!producerVars, Spsc!Cell
  <2>3. Spsc!ViewsInOrder'
    BY <1>t, <1>7 DEF Spsc!ViewsInOrder, Spsc!PopTake, Spsc!producerVars, Spsc!Inc
  <2>4. Spsc!LiveSlots'
    BY <1>t, <1>7, <2>1 DEF Spsc!TypeOK, Spsc!ViewsInOrder, Spsc!LiveSlots, Spsc!Live, Spsc!Span,
       Spsc!Dist, Spsc!Slots, Spsc!PopTake, Spsc!producerVars
  <2> QED BY <2>2, <2>3, <2>4 DEF Spsc!RingInv
<1>8. CASE Spsc!PopPublish
  <2>1. Spsc!TypeOK'
    BY <1>t, <1>8 DEF Spsc!TypeOK, Spsc!PopPublish, Spsc!producerVars
  <2>2. Spsc!ViewsInOrder'
    BY <1>t, <1>8 DEF Spsc!TypeOK, Spsc!ViewsInOrder, Spsc!PopPublish, Spsc!producerVars,
       Spsc!Dist, Spsc!Slots, Spsc!Inc
  <2>3. \A i \in Spsc!Slots : i \in Spsc!Span(Spsc!Inc(front), rear) <=> i \in Spsc!Span(front, rear) /\ i # front
    BY <1>t, <1>8 DEF Spsc!TypeOK, Spsc!ViewsInOrder, Spsc!PopPublish, Spsc!Span, Spsc!Dist,
       Spsc!Slots
  <2>4. Spsc!LiveSlots'
    BY <1>t, <1>8, <2>3 DEF Spsc!TypeOK, Spsc!LiveSlots, Spsc!Live, Spsc!PopPublish,
       Spsc!producerVars
  <2> QED BY <2>1, <2>2, <2>4 DEF Spsc!RingInv
<1>9. CASE Spsc!Destroy
  <2>1. Spsc!TypeOK'
    BY <1>t, <1>9 DEF Spsc!TypeOK, Spsc!Destroy, Spsc!Cell
  <2>2. Spsc!ViewsInOrder'
    BY <1>t, <1>9 DEF Spsc!ViewsInOrder, Spsc!Destroy, Spsc!Inc
  <2>3. Spsc!LiveSlots'
    BY <1>t, <1>9 DEF Spsc!TypeOK, Spsc!LiveSlots, Spsc!Live, Spsc!Destroy
  <2> QED BY <2>1, <2>2, <2>3 DEF Spsc!RingInv
<1>10. CASE UNCHANGED spscVars
  BY <1>t, <1>10 DEF Spsc!RingInv, Spsc!TypeOK, Spsc!ViewsInOrder, Spsc!LiveSlots, Spsc!Live,
     Spsc!Span, Spsc!Inc, spscVars
<1> QED
  BY <1>1, <1>2, <1>3, <1>4, <1>5, <1>6, <1>7, <1>8, <1>9, <1>10 DEF Spsc!Next, Spsc!Producer,
     Spsc!Consumer

\* The ring is in order in every reachable state (all of spsc_queue.h).
THEOREM SpscInvariant == Spsc!Spec => []SpscRingInv
<1>1. [Spsc!Next]_(Spsc!vars) => [Spsc!Next]_spscVars
  BY DEF Spsc!vars, spscVars
<1> QED BY <1>1, InitSpsc, NextSpsc, PTL DEF Spsc!Spec, SpscRingInv

\* emplace() never constructs over a live object and pop() never moves from an
\* empty slot, for every capacity and however old the indices the threads see.
THEOREM NeverOverwrites == Spsc!Spec => []Spsc!NoOverwrite
<1>1. Spsc!RingInv => Spsc!NoOverwrite
  BY RingAssumption
     DEF Spsc!RingInv, Spsc!TypeOK, Spsc!ViewsInOrder, Spsc!LiveSlots, Spsc!Live, Spsc!NoOverwrite,
         Spsc!Span, Spsc!Dist, Spsc!Slots, Spsc!Cell
<1> QED BY <1>1, SpscInvariant, PTL DEF SpscRingInv

\* The destructor destroys every object that is still stored.
THEOREM NeverLeaks == Spsc!Spec => []Spsc!NoLeak
<1>1. Spsc!RingInv => Spsc!NoLeak
  BY DEF Spsc!RingInv, Spsc!LiveSlots, Spsc!NoLeak
<1> QED BY <1>1, SpscInvariant, PTL DEF SpscRingInv

-----------------------------------------------------------------------------
\* Between emplace() and pop() the ring holds a sequence of values, one for each
\* index from head_ to tail_.
LEMMA ContentsSeq ==
  Spsc!RingInv /\ pPc # "dead" =>
     /\ Spsc!Dist(front, rear) \in Nat
     /\ Spsc!Contents \in Seq(Values)
     /\ Len(Spsc!Contents) = Spsc!Dist(front, rear)
     /\ \A i \in 1 .. Spsc!Dist(front, rear) : Spsc!Contents[i] = Spsc!Element(i)
<1> SUFFICES ASSUME Spsc!RingInv, pPc # "dead"
             PROVE  /\ Spsc!Dist(front, rear) \in Nat
                    /\ Spsc!Contents \in Seq(Values)
                    /\ Len(Spsc!Contents) = Spsc!Dist(front, rear)
                    /\ \A i \in 1 .. Spsc!Dist(front, rear) : Spsc!Contents[i] = Spsc!Element(i)
  OBVIOUS
<1> USE RingAssumption
<1>1. Spsc!Dist(front, rear) \in Nat
  BY DEF Spsc!RingInv, Spsc!TypeOK, Spsc!Dist, Spsc!Slots
<1>2. ASSUME NEW i \in 1 .. Spsc!Dist(front, rear) PROVE Spsc!Element(i) \in Values
  <2>1. Spsc!SlotAt(i) \in Spsc!Span(front, rear) /\ (i # 1 => Spsc!SlotAt(i) # front)
    BY DEF Spsc!RingInv, Spsc!TypeOK, Spsc!SlotAt, Spsc!Span, Spsc!Dist, Spsc!Slots
  <2>2. CASE i = 1 /\ cPc = "publish"
    BY <2>2 DEF Spsc!RingInv, Spsc!LiveSlots, Spsc!Element
  <2>3. CASE ~(i = 1 /\ cPc = "publish")
    BY <2>1, <2>3 DEF Spsc!RingInv, Spsc!TypeOK, Spsc!LiveSlots, Spsc!Live, Spsc!Element, Spsc!Span,
       Spsc!Cell
  <2> QED BY <2>2, <2>3
<1>3. Spsc!Contents = [i \in 1 .. Spsc!Dist(front, rear) |-> Spsc!Element(i)]
  BY DEF Spsc!Contents
<1>4. \A i \in 1 .. Spsc!Dist(front, rear) : Spsc!Contents[i] = Spsc!Element(i)
  BY <1>3
<1> HIDE DEF Spsc!Contents
<1>5. Spsc!Contents \in Seq(Values) /\ Len(Spsc!Contents) = Spsc!Dist(front, rear)
  BY <1>1, <1>2, <1>3
<1> QED BY <1>1, <1>4, <1>5
\* A step of the ring is a Put, a Get or a Clear of the FIFO queue, or leaves the
\* FIFO queue as it is.
LEMMA StepIsFifoStep ==
  Spsc!RingInv /\ Spsc!RingInv' /\ [Spsc!Next]_spscVars => [Spsc!Fifo!Next]_(Spsc!Fifo!vars)
<1> SUFFICES ASSUME Spsc!RingInv, Spsc!RingInv', [Spsc!Next]_spscVars
             PROVE  [Spsc!Fifo!Next]_(Spsc!Fifo!vars)
  OBVIOUS
<1> USE RingAssumption
<1>c. /\ pPc # "dead" => /\ Spsc!Dist(front, rear) \in Nat
                         /\ Spsc!Contents \in Seq(Values)
                         /\ Len(Spsc!Contents) = Spsc!Dist(front, rear)
                         /\ \A i \in 1 .. Spsc!Dist(front, rear) : Spsc!Contents[i] = Spsc!Element(i)
      /\ pPc' # "dead" => /\ Spsc!Dist(front', rear') \in Nat
                          /\ Spsc!Contents' \in Seq(Values)
                          /\ Len(Spsc!Contents') = Spsc!Dist(front', rear')
                          /\ \A i \in 1 .. Spsc!Dist(front', rear') : Spsc!Contents'[i] = Spsc!Element(i)'
  <2>1. (Spsc!RingInv /\ pPc # "dead" =>
           /\ Spsc!Dist(front, rear) \in Nat
           /\ Spsc!Contents \in Seq(Values)
           /\ Len(Spsc!Contents) = Spsc!Dist(front, rear)
           /\ \A i \in 1 .. Spsc!Dist(front, rear) : Spsc!Contents[i] = Spsc!Element(i))'
    BY ContentsSeq, PTL
  <2> QED BY <2>1, ContentsSeq
<1>t. /\ Spsc!TypeOK /\ Spsc!ViewsInOrder /\ Spsc!LiveSlots
      /\ Spsc!Inc(rear) \in Spsc!Slots /\ Spsc!Inc(rear) = IF rear + 1 = RingCapacity THEN 0 ELSE rear + 1
      /\ Spsc!Inc(front) \in Spsc!Slots /\ Spsc!Inc(front) = IF front + 1 = RingCapacity THEN 0 ELSE front + 1
  BY IncLemma DEF Spsc!RingInv, Spsc!TypeOK
<1>s. ASSUME pPc # "dead", pPc' # "dead", front' = front, rear' = rear, ret' = ret,
             \A i \in 1 .. Spsc!Dist(front, rear) : Spsc!Element(i)' = Spsc!Element(i)
      PROVE  UNCHANGED Spsc!Fifo!vars
  <2>1. Spsc!Contents' = Spsc!Contents
    BY <1>s, <1>c, SeqEqual
  <2> QED BY <1>s, <2>1 DEF Spsc!Fifo!vars
<1>1. CASE Spsc!EmplaceFull
  BY <1>1, <1>s, <1>t DEF Spsc!EmplaceFull, Spsc!consumerVars, Spsc!Element, Spsc!SlotAt
<1>2. ASSUME NEW v \in Values, Spsc!EmplaceAdmit(v) PROVE UNCHANGED Spsc!Fifo!vars
  BY <1>2, <1>s, <1>t DEF Spsc!EmplaceAdmit, Spsc!consumerVars, Spsc!Element, Spsc!SlotAt
<1>3. CASE Spsc!EmplaceConstruct
  <2>1. \A i \in 1 .. Spsc!Dist(front, rear) : Spsc!SlotAt(i) # rear
    BY <1>t DEF Spsc!TypeOK, Spsc!SlotAt, Spsc!Dist, Spsc!Slots
  <2> QED BY <1>3, <1>s, <1>t, <2>1 DEF Spsc!TypeOK, Spsc!EmplaceConstruct, Spsc!consumerVars,
             Spsc!Element, Spsc!SlotAt
<1>4. CASE Spsc!EmplacePublish
  <2>1. /\ Spsc!Dist(front', rear') = Spsc!Dist(front, rear) + 1
        /\ Spsc!Dist(front, rear) < RingCapacity - 1
        /\ pPc # "dead" /\ pPc' # "dead"
        /\ front' = front /\ ret' = ret /\ pVal \in Values
    BY <1>4, <1>t DEF Spsc!TypeOK, Spsc!ViewsInOrder, Spsc!LiveSlots, Spsc!EmplacePublish,
       Spsc!consumerVars, Spsc!Dist, Spsc!Slots
  <2>2. \A i \in 1 .. Spsc!Dist(front, rear) : Spsc!Element(i)' = Spsc!Element(i)
    BY <1>4 DEF Spsc!EmplacePublish, Spsc!consumerVars, Spsc!Element, Spsc!SlotAt
  <2>3. Spsc!SlotAt(Spsc!Dist(front, rear) + 1) = rear
    BY <1>t DEF Spsc!TypeOK, Spsc!SlotAt, Spsc!Dist, Spsc!Slots
  <2>4. cPc = "publish" => Spsc!Dist(front, rear) # 0
    BY <1>t DEF Spsc!TypeOK, Spsc!ViewsInOrder, Spsc!Dist, Spsc!Slots
  <2>5. ASSUME NEW d \in Nat, d = Spsc!Dist(front, rear) + 1 PROVE Spsc!Element(d)' = pVal
    <3>1. Spsc!Element(d)' = IF d = 1 /\ cPc = "publish" THEN cVal ELSE slots[Spsc!SlotAt(d)]
      BY <1>4 DEF Spsc!EmplacePublish, Spsc!consumerVars, Spsc!Element, Spsc!SlotAt
    <3> QED BY <3>1, <2>3, <2>4, <2>5, <1>4, <1>c, <1>t, <2>1 DEF Spsc!LiveSlots,
               Spsc!EmplacePublish
  <2>6. Spsc!Contents' = Append(Spsc!Contents, pVal)
    <3>1. /\ Append(Spsc!Contents, pVal) \in Seq(Values)
          /\ Len(Append(Spsc!Contents, pVal)) = Spsc!Dist(front, rear) + 1
          /\ \A i \in 1 .. Spsc!Dist(front, rear) : Append(Spsc!Contents, pVal)[i] = Spsc!Element(i)
          /\ Append(Spsc!Contents, pVal)[Spsc!Dist(front, rear) + 1] = pVal
      BY <1>c, <2>1, AppendProperties
    <3>2. \A i \in 1 .. Spsc!Dist(front, rear) + 1 : Spsc!Contents'[i] = Append(Spsc!Contents, pVal)[i]
      BY <1>c, <2>1, <2>2, <2>5, <3>1
    <3> QED BY <1>c, <2>1, <3>1, <3>2, SeqEqual
  <2>7. Spsc!Fifo!Put(pVal)
    BY <1>c, <2>1, <2>6 DEF Spsc!Fifo!Put
  <2> QED BY <2>1, <2>7 DEF Spsc!Fifo!Next
<1>5. CASE Spsc!PopEmpty
  BY <1>5, <1>s, <1>t DEF Spsc!TypeOK, Spsc!PopEmpty, Spsc!producerVars, Spsc!Element, Spsc!SlotAt,
     Spsc!LiveSlots
<1>6. CASE Spsc!PopAdmit
  BY <1>6, <1>s, <1>t DEF Spsc!TypeOK, Spsc!PopAdmit, Spsc!producerVars, Spsc!Element, Spsc!SlotAt,
     Spsc!LiveSlots
<1>7. CASE Spsc!PopTake
  <2>1. \A i \in 1 .. Spsc!Dist(front, rear) : (i = 1 /\ Spsc!SlotAt(i) = front) \/ (i # 1 /\ Spsc!SlotAt(i) # front)
    BY <1>t DEF Spsc!TypeOK, Spsc!SlotAt, Spsc!Dist, Spsc!Slots
  <2>2. \A i \in 1 .. Spsc!Dist(front, rear) : Spsc!Element(i)' = Spsc!Element(i)
    BY <1>7, <1>t, <2>1 DEF Spsc!TypeOK, Spsc!PopTake, Spsc!producerVars, Spsc!Element, Spsc!SlotAt
  <2> QED BY <1>7, <1>s, <1>t, <2>2 DEF Spsc!PopTake, Spsc!producerVars, Spsc!LiveSlots
<1>8. CASE Spsc!PopPublish
  <2>1. /\ Spsc!Dist(front', rear') = Spsc!Dist(front, rear) - 1
        /\ Spsc!Dist(front, rear) > 0
        /\ pPc # "dead" /\ pPc' # "dead"
        /\ ret' = cVal
    BY <1>8, <1>t DEF Spsc!TypeOK, Spsc!ViewsInOrder, Spsc!LiveSlots, Spsc!PopPublish,
       Spsc!producerVars, Spsc!Dist, Spsc!Slots
  <2>2. \A i \in 1 .. Spsc!Dist(front', rear') : Spsc!Element(i)' = Spsc!Element(i + 1)
    <3>1. \A i \in 1 .. Spsc!Dist(front', rear') : Spsc!SlotAt(i)' = Spsc!SlotAt(i + 1)
      BY <1>8, <1>t, <2>1 DEF Spsc!TypeOK, Spsc!PopPublish, Spsc!producerVars, Spsc!SlotAt,
         Spsc!Dist, Spsc!Slots
    <3> QED BY <1>8, <1>c, <2>1, <3>1 DEF Spsc!PopPublish, Spsc!producerVars, Spsc!Element
  <2>3. Spsc!Contents # <<>> /\ Head(Spsc!Contents) = cVal
    BY <1>8, <1>c, <2>1 DEF Spsc!PopPublish, Spsc!Element
  <2>4. Spsc!Contents' = Tail(Spsc!Contents)
    <3>1. /\ Tail(Spsc!Contents) \in Seq(Values)
          /\ Len(Tail(Spsc!Contents)) = Spsc!Dist(front, rear) - 1
          /\ \A i \in 1 .. Spsc!Dist(front, rear) - 1 : Tail(Spsc!Contents)[i] = Spsc!Contents[i + 1]
      BY <1>c, <2>1, <2>3, HeadTailProperties
    <3>2. \A i \in 1 .. Spsc!Dist(front, rear) - 1 : Spsc!Contents'[i] = Tail(Spsc!Contents)[i]
      BY <1>c, <2>1, <2>2, <3>1
    <3> QED BY <1>c, <2>1, <3>1, <3>2, SeqEqual
  <2>5. Spsc!Fifo!Get
    BY <2>1, <2>3, <2>4 DEF Spsc!Fifo!Get
  <2> QED BY <2>5 DEF Spsc!Fifo!Next
<1>9. CASE Spsc!Destroy
  <2>1. Spsc!Contents' = <<>> /\ ret' = ret
    BY <1>9 DEF Spsc!Destroy, Spsc!Contents
  <2> QED BY <2>1 DEF Spsc!Fifo!Next, Spsc!Fifo!Clear
<1>10. CASE UNCHANGED spscVars
  BY <1>10 DEF spscVars, Spsc!Fifo!vars, Spsc!Contents, Spsc!Element, Spsc!SlotAt
<1> QED
  BY <1>1, <1>2, <1>3, <1>4, <1>5, <1>6, <1>7, <1>8, <1>9, <1>10 DEF Spsc!Next, Spsc!Producer,
     Spsc!Consumer

\* The ring of spsc_queue.h is a FIFO queue of Capacity - 1 elements, whatever the
\* capacity, the values and the interleaving of its two threads.
THEOREM RingImplementsFifo == Spsc!Spec => ImplementsFifo
<1>1. Spsc!Init => Spsc!Fifo!Init
  BY RingAssumption DEF Spsc!Init, Spsc!Fifo!Init, Spsc!Contents, Spsc!Dist
<1>2. Spsc!RingInv /\ Spsc!RingInv' /\ [Spsc!Next]_spscVars => [Spsc!Fifo!Next]_(Spsc!Fifo!vars)
  BY StepIsFifoStep
<1>3. [Spsc!Next]_(Spsc!vars) => [Spsc!Next]_spscVars
  BY DEF Spsc!vars, spscVars
<1> QED BY <1>1, <1>2, <1>3, SpscInvariant, PTL
       DEF Spsc!Spec, SpscRingInv, ImplementsFifo, Spsc!ImplementsFifo, Spsc!Fifo!Spec

-----------------------------------------------------------------------------
\* A ticket is known by its slot and its turn.
LEMMA SlotAndTurn ==
  /\ \A i \in Nat : idx(i) \in Slots /\ turn(i) \in Nat
  /\ \A i, j \in Nat : idx(i) = idx(j) /\ turn(i) = turn(j) => i = j
<1>1. ASSUME NEW i \in Nat PROVE i % Capacity \in 0 .. Capacity - 1 /\ i \div Capacity \in Nat
  BY CapacityAssumption
<1>2. ASSUME NEW i \in Nat PROVE i = Capacity * (i \div Capacity) + (i % Capacity)
  BY CapacityAssumption
<1> QED BY <1>1, <1>2 DEF idx, turn, Slots

\* The turn of a producer's ticket is even and that of a consumer's is odd.
LEMMA Parity ==
  ASSUME NEW i \in Nat, NEW j \in Nat
  PROVE  /\ turn(i) * 2 # turn(j) * 2 + 1
         /\ turn(i) * 2 = turn(j) * 2 => turn(i) = turn(j)
  BY SlotAndTurn

\* A thread that uses a slot has it to itself.
LEMMA UsersAreApart ==
  ASSUME RingInv, NEW t \in Threads, NEW u \in Threads, t # u, Using(t), Using(u)
  PROVE  idx(mine[t]) # idx(mine[u])
<1> SUFFICES ASSUME idx(mine[t]) = idx(mine[u]) PROVE FALSE
  OBVIOUS
<1>1. mine[t] \in Nat /\ mine[u] \in Nat
  BY DEF RingInv, TypeOK
<1>2. \A p \in Producers : Using(p) => ticket[idx(mine[p])] = turn(mine[p]) * 2
  BY DEF RingInv, TurnInv
<1>3. \A c \in Consumers : Using(c) => ticket[idx(mine[c])] = turn(mine[c]) * 2 + 1
  BY DEF RingInv, TurnInv
<1>4. turn(mine[t]) = turn(mine[u]) /\ (t \in Producers <=> u \in Producers)
  <2>1. turn(mine[t]) \in Nat /\ turn(mine[u]) \in Nat
    BY <1>1, SlotAndTurn
  <2>2. CASE t \in Producers /\ u \in Producers
    BY <1>2, <2>1, <2>2
  <2>3. CASE t \in Consumers /\ u \in Consumers
    BY <1>3, <2>1, <2>3, ThreadAssumption
  <2>4. CASE t \in Producers /\ u \in Consumers
    BY <1>1, <1>2, <1>3, <2>4, Parity
  <2>5. CASE t \in Consumers /\ u \in Producers
    BY <1>1, <1>2, <1>3, <2>5, Parity
  <2> QED BY <2>2, <2>3, <2>4, <2>5 DEF Threads
<1>5. mine[t] = mine[u]
  BY <1>1, <1>4, SlotAndTurn
<1>6. PICK side \in {Producers, Consumers} : t \in side /\ u \in side
  BY <1>4, ThreadAssumption DEF Threads
<1>7. t \in Inside(side) /\ u \in Inside(side)
  BY <1>6 DEF Inside, Using
<1> QED BY <1>5, <1>7 DEF RingInv, DrawnInv

LEMMA InitRing == Init => RingInv
<1> SUFFICES ASSUME Init PROVE RingInv
  OBVIOUS
<1>1. TypeOK /\ \A t \in Threads : pc[t] = "idle"
  BY CapacityAssumption DEF Init, TypeOK
<1>2. \A i \in Tickets : ticket[idx(i)] # turn(i) * 2 + 1
  BY SlotAndTurn DEF Init, Tickets
<1>3. \A i \in Tickets : pushed[i] = None /\ popped[i] = None /\ ~(i < tail)
  BY DEF Init, Tickets
<1> QED BY <1>1, <1>2, <1>3, ThreadAssumption DEF RingInv, DrawnInv, TurnInv, DataInv, Inside,
           Using, Threads

\* The ticket of a thread inside a call is one that was drawn.
LEMMA MineIsTicket ==
  ASSUME RingInv, NEW t \in Threads, pc[t] # "idle"
  PROVE  mine[t] \in Tickets /\ mine[t] \in Nat /\ idx(mine[t]) \in Slots
<1>1. mine[t] \in Nat /\ head \in 0 .. MaxTicket /\ tail \in 0 .. MaxTicket
  BY DEF RingInv, TypeOK
<1>2. mine[t] < head \/ mine[t] < tail
  BY DEF RingInv, DrawnInv, Inside, Threads
<1> QED BY <1>1, <1>2, SlotAndTurn, CapacityAssumption DEF Tickets

LEMMA NextType == RingInv /\ [Next]_vars => TypeOK'
<1> SUFFICES ASSUME RingInv, [Next]_vars PROVE TypeOK'
  OBVIOUS
<1>t. TypeOK
  BY DEF RingInv
<1>1. ASSUME NEW p \in Producers, NEW v \in Values, EmplaceDraw(p, v) PROVE TypeOK'
  <2>1. tail \in Nat /\ tail' \in 0 .. MaxTicket
    BY <1>t, <1>1, CapacityAssumption DEF EmplaceDraw, TypeOK
  <2>2. mine' \in [Threads -> Nat] /\ pc' \in [Threads -> {"idle", "wait", "use", "publish"}]
    BY <1>t, <1>1, <2>1, Zenon DEF EmplaceDraw, TypeOK
  <2>3. val' \in [Threads -> Values \cup {None}] /\ pushed' \in [Tickets -> Values \cup {None}]
    BY <1>t, <1>1, Zenon DEF EmplaceDraw, TypeOK
  <2> QED BY <1>t, <1>1, <2>1, <2>2, <2>3 DEF EmplaceDraw, TypeOK
<1>2. ASSUME NEW p \in Producers, EmplaceWait(p) PROVE TypeOK'
  BY <1>t, <1>2 DEF EmplaceWait, TypeOK, Threads
<1>3. ASSUME NEW p \in Producers, EmplaceConstruct(p) PROVE TypeOK'
  BY <1>t, <1>3, Zenon DEF EmplaceConstruct, TypeOK, Threads
<1>4. ASSUME NEW p \in Producers, EmplacePublish(p) PROVE TypeOK'
  BY <1>t, <1>4, SlotAndTurn DEF EmplacePublish, TypeOK, Threads
<1>5. ASSUME NEW c \in Consumers, PopDraw(c) PROVE TypeOK'
  BY <1>t, <1>5, CapacityAssumption DEF PopDraw, TypeOK, Threads
<1>6. ASSUME NEW c \in Consumers, PopWait(c) PROVE TypeOK'
  BY <1>t, <1>6 DEF PopWait, TypeOK, Threads
<1>7. ASSUME NEW c \in Consumers, PopMove(c) PROVE TypeOK'
  <2>1. data[idx(mine[c])] \in Values \cup {None}
    BY <1>t, <1>7, MineIsTicket DEF PopMove, TypeOK, Threads
  <2> QED BY <1>t, <1>7, <2>1, Zenon DEF PopMove, TypeOK, Threads
<1>8. ASSUME NEW c \in Consumers, PopPublish(c) PROVE TypeOK'
  BY <1>t, <1>8, SlotAndTurn DEF PopPublish, TypeOK, Threads
<1>9. CASE UNCHANGED vars
  BY <1>t, <1>9 DEF vars, TypeOK
<1> QED BY <1>1, <1>2, <1>3, <1>4, <1>5, <1>6, <1>7, <1>8, <1>9 DEF Next, EmplaceRest, PopRest

-----------------------------------------------------------------------------
\* A step that draws no ticket, and changes neither values nor what was emplaced.
LEMMA DrawnKept ==
  ASSUME RingInv, UNCHANGED <<tail, head, mine, pushed>>,
         \A p \in Producers : val'[p] = val[p],
         \A t \in Threads : pc'[t] # "idle" => pc[t] # "idle"
  PROVE  DrawnInv'
  BY DEF RingInv, DrawnInv, Inside, Threads

LEMMA NextDrawn == RingInv /\ [Next]_vars => DrawnInv'
<1> SUFFICES ASSUME RingInv, [Next]_vars PROVE DrawnInv'
  OBVIOUS
<1>t. TypeOK /\ DrawnInv
  BY DEF RingInv
<1>m. head \in Nat /\ tail \in Nat /\ tail <= MaxTicket
  BY <1>t, CapacityAssumption DEF TypeOK
<1>1. ASSUME NEW p \in Producers, NEW v \in Values, EmplaceDraw(p, v) PROVE DrawnInv'
  <2>1. /\ tail \in Tickets /\ tail' = tail + 1 /\ head' = head
        /\ pushed' = [pushed EXCEPT ![tail] = v] /\ pushed'[tail] = v /\ v # None
    BY <1>t, <1>m, <1>1, CapacityAssumption, NoneAssumption DEF EmplaceDraw, TypeOK, Tickets
  <2>2. /\ mine'[p] = tail /\ val'[p] = v
        /\ \A t \in Threads \ {p} : mine'[t] = mine[t] /\ val'[t] = val[t] /\ pc'[t] = pc[t]
    BY <1>t, <1>1 DEF EmplaceDraw, TypeOK, Threads
  <2>3. \A i \in Tickets : pushed'[i] # None <=> i < tail'
    BY <1>t, <1>m, <2>1 DEF DrawnInv, TypeOK, Tickets
  <2>4. \A q \in Inside(Producers) \ {p} : mine[q] < tail /\ mine[q] \in Tickets /\ pushed'[mine[q]] = pushed[mine[q]]
    <3>1. \A q \in Inside(Producers) : mine[q] < tail /\ mine[q] \in Tickets
      BY <1>t, <1>m, CapacityAssumption DEF DrawnInv, TypeOK, Inside, Threads, Tickets
    <3> QED BY <1>t, <1>m, <2>1, <3>1 DEF TypeOK, Tickets
  <2>5. Inside(Producers)' \subseteq Inside(Producers) \cup {p} /\ Inside(Consumers)' = Inside(Consumers)
    BY <2>2, ThreadAssumption DEF Inside, Threads
  <2>6. \A q \in Inside(Producers)' : mine'[q] < tail' /\ val'[q] = pushed'[mine'[q]]
    <3>1. ASSUME NEW q \in Inside(Producers)', q # p PROVE mine'[q] < tail' /\ val'[q] = pushed'[mine'[q]]
      <4>1. q \in Inside(Producers) \ {p} /\ q \in Threads
        BY <2>5, <3>1 DEF Inside, Threads
      <4>2. mine'[q] = mine[q] /\ val'[q] = val[q] /\ mine[q] \in Nat
        BY <1>t, <2>2, <4>1 DEF TypeOK
      <4> QED BY <1>t, <1>m, <2>1, <2>4, <4>1, <4>2 DEF DrawnInv
    <3> QED BY <1>m, <2>1, <2>2, <3>1
  <2>7. \A c \in Inside(Consumers)' : mine'[c] < head'
    BY <1>t, <2>1, <2>2, <2>5, ThreadAssumption DEF DrawnInv, Inside, Threads
  <2>8. \A t, u \in Inside(Producers)' : mine'[t] = mine'[u] => t = u
    <3>1. \A t \in Inside(Producers)' : t # p => t \in Inside(Producers) /\ mine'[t] = mine[t] /\ mine[t] # tail
      <4>1. \A t \in Inside(Producers) : t \in Threads /\ mine[t] \in Nat
        BY <1>t DEF Inside, Threads, TypeOK
      <4> QED BY <1>m, <2>2, <2>4, <2>5, <4>1
    <3> QED BY <1>t, <2>2, <3>1 DEF DrawnInv
  <2>9. \A t, u \in Inside(Consumers)' : mine'[t] = mine'[u] => t = u
    BY <1>t, <2>2, <2>5, ThreadAssumption DEF DrawnInv, Inside, Threads
  <2> QED BY <2>3, <2>6, <2>7, <2>8, <2>9 DEF DrawnInv
<1>2. ASSUME NEW c \in Consumers, PopDraw(c) PROVE DrawnInv'
  <2>1. head' = head + 1 /\ UNCHANGED <<tail, pushed, val>>
    BY <1>2 DEF PopDraw
  <2>2. mine'[c] = head /\ \A t \in Threads \ {c} : mine'[t] = mine[t] /\ pc'[t] = pc[t]
    BY <1>t, <1>2 DEF PopDraw, TypeOK, Threads
  <2>3. Inside(Consumers)' \subseteq Inside(Consumers) \cup {c} /\ Inside(Producers)' = Inside(Producers)
    BY <2>2, ThreadAssumption DEF Inside, Threads
  <2>4. \A t \in Inside(Consumers) : t \in Threads /\ mine[t] \in Nat /\ mine[t] < head
    BY <1>t DEF DrawnInv, Inside, Threads, TypeOK
  <2>5. \A t \in Inside(Consumers)' : t # c => t \in Inside(Consumers) /\ mine'[t] = mine[t] /\ mine[t] < head
    BY <2>2, <2>3, <2>4
  <2>6. \A t \in Inside(Consumers)' : mine'[t] < head'
    BY <1>m, <2>1, <2>2, <2>3, <2>4, <2>5
  <2>7. \A t, u \in Inside(Consumers)' : mine'[t] = mine'[u] => t = u
    <3>1. \A t \in Inside(Consumers)' : t # c => mine'[t] # head
      BY <1>m, <2>4, <2>5
    <3> QED BY <1>t, <2>2, <2>5, <3>1 DEF DrawnInv
  <2>8. \A p \in Inside(Producers)' : p \in Inside(Producers) /\ mine'[p] = mine[p]
    BY <2>2, <2>3, ThreadAssumption DEF Inside, Threads
  <2> QED BY <1>t, <2>1, <2>6, <2>7, <2>8 DEF DrawnInv
<1>3. ASSUME NEW p \in Producers, EmplaceRest(p) PROVE DrawnInv'
  BY <1>t, <1>3, DrawnKept DEF EmplaceRest, EmplaceWait, EmplaceConstruct, EmplacePublish, TypeOK
<1>4. ASSUME NEW c \in Consumers, PopWait(c) \/ PopPublish(c) PROVE DrawnInv'
  BY <1>t, <1>4, DrawnKept DEF PopWait, PopPublish, TypeOK
<1>5. ASSUME NEW c \in Consumers, PopMove(c) PROVE DrawnInv'
  <2>1. \A p \in Producers : val'[p] = val[p]
    BY <1>t, <1>5, ThreadAssumption DEF PopMove, TypeOK, Threads
  <2> QED BY <1>t, <1>5, <2>1, DrawnKept DEF PopMove, TypeOK
<1>6. CASE UNCHANGED vars
  BY <1>6, DrawnKept DEF vars
<1> QED BY <1>1, <1>2, <1>3, <1>4, <1>5, <1>6 DEF Next, PopRest

-----------------------------------------------------------------------------
\* A thread that passes the turn on takes it from no other user of a slot.
LEMMA TurnPassed ==
  ASSUME RingInv, NEW t \in Threads, pc[t] = "publish", pc' = [pc EXCEPT ![t] = "idle"],
         NEW n \in Nat, ticket' = [ticket EXCEPT ![idx(mine[t])] = n], mine' = mine
  PROVE  TurnInv'
<1>t. TypeOK /\ TurnInv
  BY DEF RingInv
<1>1. ASSUME NEW u \in Threads, Using(u)' PROVE Using(u) /\ ticket'[idx(mine'[u])] = ticket[idx(mine[u])]
  <2>1. Using(u) /\ u # t
    BY <1>t, <1>1 DEF Using, TypeOK
  <2>2. idx(mine[t]) # idx(mine[u])
    BY <2>1, UsersAreApart DEF Using
  <2>3. idx(mine[u]) \in Slots
    BY <2>1, MineIsTicket DEF Using
  <2> QED BY <1>t, <2>1, <2>2, <2>3 DEF TypeOK
<1>2. \A p \in Producers : Using(p)' => ticket'[idx(mine'[p])] = turn(mine'[p]) * 2
  BY <1>t, <1>1 DEF TurnInv, Threads
<1>3. \A c \in Consumers : Using(c)' => ticket'[idx(mine'[c])] = turn(mine'[c]) * 2 + 1
  BY <1>t, <1>1 DEF TurnInv, Threads
<1> QED BY <1>2, <1>3 DEF TurnInv

LEMMA NextTurn == RingInv /\ [Next]_vars => TurnInv'
<1> SUFFICES ASSUME RingInv, [Next]_vars PROVE TurnInv'
  OBVIOUS
<1>t. TypeOK /\ TurnInv
  BY DEF RingInv
<1>1. ASSUME NEW t \in Threads, pc' = [pc EXCEPT ![t] = "wait"],
             \A u \in Threads \ {t} : mine'[u] = mine[u], ticket' = ticket
      PROVE  TurnInv'
  BY <1>t, <1>1 DEF TurnInv, Using, TypeOK, Threads
<1>2. ASSUME NEW p \in Producers, EmplaceWait(p) PROVE TurnInv'
  BY <1>t, <1>2, ThreadAssumption DEF EmplaceWait, TurnInv, Using, TypeOK, Threads
<1>3. ASSUME NEW c \in Consumers, PopWait(c) PROVE TurnInv'
  BY <1>t, <1>3, ThreadAssumption DEF PopWait, TurnInv, Using, TypeOK, Threads
<1>4. ASSUME NEW t \in Threads, pc[t] = "use", pc' = [pc EXCEPT ![t] = "publish"],
             UNCHANGED <<ticket, mine>>
      PROVE  TurnInv'
  BY <1>t, <1>4 DEF TurnInv, Using, TypeOK, Threads
<1>5. ASSUME NEW p \in Producers, EmplacePublish(p) PROVE TurnInv'
  <2>1. turn(mine[p]) * 2 + 1 \in Nat
    BY <1>t, SlotAndTurn DEF TypeOK, Threads
  <2> QED BY <1>5, <2>1, TurnPassed, Zenon DEF EmplacePublish, Threads
<1>6. ASSUME NEW c \in Consumers, PopPublish(c) PROVE TurnInv'
  <2>1. turn(mine[c]) * 2 + 2 \in Nat
    BY <1>t, SlotAndTurn DEF TypeOK, Threads
  <2> QED BY <1>6, <2>1, TurnPassed, Zenon DEF PopPublish, Threads
<1>7. ASSUME NEW p \in Producers, NEW v \in Values, EmplaceDraw(p, v) PROVE TurnInv'
  BY <1>t, <1>1, <1>7, Zenon DEF EmplaceDraw, TypeOK, Threads
<1>8. ASSUME NEW c \in Consumers, PopDraw(c) PROVE TurnInv'
  BY <1>t, <1>1, <1>8, Zenon DEF PopDraw, TypeOK, Threads
<1>9. ASSUME NEW p \in Producers, EmplaceConstruct(p) PROVE TurnInv'
  BY <1>4, <1>9, Zenon DEF EmplaceConstruct, Threads
<1>10. ASSUME NEW c \in Consumers, PopMove(c) PROVE TurnInv'
  BY <1>4, <1>10, Zenon DEF PopMove, Threads
<1>11. CASE UNCHANGED vars
  BY <1>t, <1>11 DEF vars, TurnInv, Using
<1> QED BY <1>2, <1>3, <1>5, <1>6, <1>7, <1>8, <1>9, <1>10, <1>11 DEF Next, EmplaceRest, PopRest

-----------------------------------------------------------------------------
LEMMA NextData == RingInv /\ [Next]_vars => DataInv'
<1> SUFFICES ASSUME RingInv, [Next]_vars PROVE DataInv'
  OBVIOUS
<1>t. TypeOK /\ DrawnInv /\ TurnInv /\ DataInv
  BY DEF RingInv
<1>n. \A i \in Tickets : i \in Nat /\ idx(i) \in Slots /\ turn(i) \in Nat
  BY SlotAndTurn DEF Tickets
<1>m. tail \in Nat
  BY <1>t, CapacityAssumption DEF TypeOK
<1>0. ASSUME UNCHANGED <<data, ticket, tail, mine, val, pushed, popped>>,
             \A p \in Producers : pc'[p] = "publish" => pc[p] = "publish"
      PROVE  DataInv'
  BY <1>t, <1>0 DEF DataInv
<1>1. ASSUME NEW p \in Producers, NEW v \in Values, EmplaceDraw(p, v) PROVE DataInv'
  <2>1. /\ tail \in Tickets /\ tail' = tail + 1 /\ pushed' = [pushed EXCEPT ![tail] = v]
        /\ UNCHANGED <<data, ticket, popped>>
    BY <1>m, <1>1, CapacityAssumption DEF EmplaceDraw, Tickets
  <2>2. \A q \in Producers : pc'[q] = "publish" => data'[idx(mine'[q])] = val'[q]
    <3>1. \A q \in Producers : pc'[q] = "publish" =>
             q # p /\ pc[q] = "publish" /\ mine'[q] = mine[q] /\ val'[q] = val[q]
      BY <1>t, <1>1 DEF EmplaceDraw, TypeOK, Threads
    <3> QED BY <1>t, <2>1, <3>1 DEF DataInv
  <2>3. \A i \in Tickets : i < tail => pushed'[i] = pushed[i] /\ i < tail'
    BY <1>t, <1>n, <1>m, <2>1 DEF TypeOK
  <2>4. \A i \in Tickets : ticket'[idx(i)] = turn(i) * 2 + 1 => i < tail' /\ data'[idx(i)] = pushed'[i]
    BY <1>t, <2>1, <2>3 DEF DataInv
  <2>5. \A i \in Tickets : popped'[i] # None => popped'[i] = pushed'[i]
    <3>1. \A i \in Tickets : popped[i] # None => i < tail
      BY <1>t DEF DataInv, DrawnInv
    <3> QED BY <1>t, <2>1, <2>3, <3>1 DEF DataInv
  <2> QED BY <2>2, <2>4, <2>5 DEF DataInv
<1>2. ASSUME NEW p \in Producers, EmplaceConstruct(p) PROVE DataInv'
  <2>1. /\ p \in Threads /\ Using(p) /\ mine[p] \in Nat /\ idx(mine[p]) \in Slots
        /\ ticket[idx(mine[p])] = turn(mine[p]) * 2
    BY <1>t, <1>2, MineIsTicket DEF EmplaceConstruct, Using, TurnInv, Threads
  <2>2. /\ data' = [data EXCEPT ![idx(mine[p])] = val[p]] /\ data \in [Slots -> Values \cup {None}]
        /\ UNCHANGED <<ticket, tail, mine, val, pushed, popped>>
    BY <1>t, <1>2 DEF EmplaceConstruct, TypeOK
  <2>3. ASSUME NEW q \in Producers, pc'[q] = "publish", q # p PROVE data'[idx(mine'[q])] = val'[q]
    <3>1. pc[q] = "publish" /\ Using(q) /\ q \in Threads
      BY <1>t, <1>2, <2>3 DEF EmplaceConstruct, Using, TypeOK, Threads
    <3>2. idx(mine[q]) # idx(mine[p]) /\ idx(mine[q]) \in Slots
      BY <2>1, <2>3, <3>1, UsersAreApart, MineIsTicket
    <3>3. data[idx(mine[q])] = val[q]
      BY <1>t, <3>1 DEF DataInv
    <3> QED BY <2>2, <3>2, <3>3
  <2>4. data'[idx(mine'[p])] = val'[p]
    BY <2>1, <2>2
  <2>5. \A i \in Tickets : ticket[idx(i)] = turn(i) * 2 + 1 => idx(i) # idx(mine[p])
    BY <1>n, <2>1, Parity
  <2>6. \A i \in Tickets : ticket'[idx(i)] = turn(i) * 2 + 1 => i < tail' /\ data'[idx(i)] = pushed'[i]
    BY <1>t, <1>n, <2>2, <2>5 DEF DataInv
  <2> QED BY <1>t, <2>2, <2>3, <2>4, <2>6 DEF DataInv
<1>3. ASSUME NEW t \in Threads, Using(t), NEW n \in Nat, ticket' = [ticket EXCEPT ![idx(mine[t])] = n],
             pc' = [pc EXCEPT ![t] = "idle"], UNCHANGED <<data, tail, mine, val, pushed, popped>>,
             \A i \in Tickets : idx(i) = idx(mine[t]) /\ n = turn(i) * 2 + 1 => i < tail /\ data[idx(i)] = pushed[i]
      PROVE  DataInv'
  <2>1. \A p \in Producers : pc'[p] = "publish" => data'[idx(mine'[p])] = val'[p]
    BY <1>t, <1>3 DEF DataInv, TypeOK, Threads
  <2>2. \A i \in Tickets : ticket'[idx(i)] = turn(i) * 2 + 1 => i < tail' /\ data'[idx(i)] = pushed'[i]
    BY <1>t, <1>n, <1>3 DEF DataInv, TypeOK
  <2> QED BY <1>t, <1>3, <2>1, <2>2 DEF DataInv
<1>4. ASSUME NEW p \in Producers, EmplacePublish(p) PROVE DataInv'
  <2> DEFINE n == turn(mine[p]) * 2 + 1
  <2>1. p \in Threads /\ Using(p) /\ mine[p] \in Nat /\ mine[p] < tail /\ val[p] = pushed[mine[p]]
    BY <1>t, <1>4, MineIsTicket DEF EmplacePublish, Using, Threads, DrawnInv, Inside
  <2>2. data[idx(mine[p])] = pushed[mine[p]]
    BY <1>t, <1>4, <2>1 DEF EmplacePublish, DataInv
  <2>3. n \in Nat
    BY <2>1, SlotAndTurn
  <2>4. ASSUME NEW i \in Tickets, idx(i) = idx(mine[p]), n = turn(i) * 2 + 1 PROVE i = mine[p]
    <3>1. turn(i) = turn(mine[p])
      BY <1>n, <2>1, <2>4, SlotAndTurn
    <3> QED BY <1>n, <2>1, <2>4, <3>1, SlotAndTurn
  <2> HIDE DEF n
  <2>5. ticket' = [ticket EXCEPT ![idx(mine[p])] = n] /\ pc' = [pc EXCEPT ![p] = "idle"]
        /\ UNCHANGED <<data, tail, mine, val, pushed, popped>>
    BY <1>4 DEF EmplacePublish, n
  <2>6. \A i \in Tickets : idx(i) = idx(mine[p]) /\ n = turn(i) * 2 + 1 => i < tail /\ data[idx(i)] = pushed[i]
    BY <2>1, <2>2, <2>4
  <2> QED BY <1>3, <2>1, <2>3, <2>5, <2>6, Zenon
<1>5. ASSUME NEW c \in Consumers, PopPublish(c) PROVE DataInv'
  <2> DEFINE n == turn(mine[c]) * 2 + 2
  <2>1. c \in Threads /\ Using(c) /\ mine[c] \in Nat
    BY <1>5, MineIsTicket DEF PopPublish, Using, Threads
  <2>2. n \in Nat /\ \A i \in Tickets : n # turn(i) * 2 + 1
    BY <1>n, <2>1, SlotAndTurn
  <2> HIDE DEF n
  <2>3. ticket' = [ticket EXCEPT ![idx(mine[c])] = n] /\ pc' = [pc EXCEPT ![c] = "idle"]
        /\ UNCHANGED <<data, tail, mine, val, pushed, popped>>
    BY <1>5 DEF PopPublish, n
  <2> QED BY <1>3, <2>1, <2>2, <2>3, Zenon
<1>6. ASSUME NEW c \in Consumers, PopMove(c) PROVE DataInv'
  <2>1. mine[c] \in Tickets /\ ticket[idx(mine[c])] = turn(mine[c]) * 2 + 1
    BY <1>t, <1>6, MineIsTicket DEF PopMove, TurnInv, Using, Threads
  <2>2. data[idx(mine[c])] = pushed[mine[c]]
    BY <1>t, <2>1 DEF DataInv
  <2>3. /\ popped' = [popped EXCEPT ![mine[c]] = pushed[mine[c]]]
        /\ UNCHANGED <<data, ticket, tail, mine, pushed>>
    BY <1>6, <2>2 DEF PopMove
  <2>4. \A p \in Producers : val'[p] = val[p] /\ pc'[p] = pc[p]
    BY <1>t, <1>6, ThreadAssumption DEF PopMove, TypeOK, Threads
  <2>5. \A i \in Tickets : popped'[i] # None => popped'[i] = pushed'[i]
    BY <1>t, <2>1, <2>3 DEF DataInv, TypeOK
  <2> QED BY <1>t, <2>3, <2>4, <2>5 DEF DataInv
<1>7. ASSUME NEW p \in Producers, EmplaceWait(p) PROVE DataInv'
  BY <1>t, <1>0, <1>7 DEF EmplaceWait, TypeOK, Threads
<1>8. ASSUME NEW c \in Consumers, PopWait(c) PROVE DataInv'
  BY <1>t, <1>0, <1>8 DEF PopWait, TypeOK, Threads
<1>9. ASSUME NEW c \in Consumers, PopDraw(c) PROVE DataInv'
  <2>1. \A p \in Producers : mine'[p] = mine[p] /\ pc'[p] = pc[p]
    BY <1>t, <1>9, ThreadAssumption DEF PopDraw, TypeOK, Threads
  <2> QED BY <1>t, <1>9, <2>1 DEF PopDraw, DataInv
<1>10. CASE UNCHANGED vars
  BY <1>0, <1>10 DEF vars
<1> QED BY <1>1, <1>2, <1>4, <1>5, <1>6, <1>7, <1>8, <1>9, <1>10 DEF Next, EmplaceRest, PopRest

-----------------------------------------------------------------------------
\* emplace() and pop() keep the ring in order: tickets are drawn once, slots are used in
\* their turn, and a slot handed to a consumer holds the value of its ticket.
THEOREM MpmcInvariant == Spec => []RingInv
<1>1. RingInv /\ [Next]_vars => RingInv'
  BY NextType, NextDrawn, NextTurn, NextData DEF RingInv
<1> QED BY <1>1, InitRing, PTL DEF Spec

\* construct_at in emplace() and the move in pop() never meet in a slot, however many
\* threads draw tickets that fall on it.
THEOREM SlotsAreExclusive == Spec => []SlotIsExclusive
<1>1. RingInv => SlotIsExclusive
  BY UsersAreApart DEF SlotIsExclusive
<1> QED BY <1>1, MpmcInvariant, PTL

\* The n-th pop() gets the value of the n-th emplace().
THEOREM PopsInOrder == Spec => []TicketOrder
  BY MpmcInvariant, PTL DEF RingInv, DataInv, TicketOrder
=============================================================================
