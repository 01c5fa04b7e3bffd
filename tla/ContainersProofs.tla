-------------------------- MODULE ContainersProofs --------------------------
(***************************************************************************)
(* Proofs about the deque and the vector, for any values, lengths, sizes   *)
(* of chunks and capacities: each owns its memory and is a sequence.       *)
(***************************************************************************)
EXTENDS Containers, DequeProofs, TLAPS

\* The provers, tried in this order, and how long each may take.
USE SMTT(20), Z3T(20), Zenon

-----------------------------------------------------------------------------
\* The elements of a deque, as at() reads them, are a sequence.
LEMMA Content ==
    ASSUME NEW s, NEW n, Whole(s, n), n <= MaxNodes, size(s) <= MaxLen,
           NEW f, f = [i \in 1 .. size(s) |-> at(s, i - 1)]
    PROVE  /\ size(s) \in Nat /\ f \in Seq(Values) /\ Len(f) = size(s)
           /\ \A i \in 1 .. size(s) : f[i] = Item(s, i - 1)
<1>1. size(s) \in Nat
  BY Sized, Zenon
<1>2. ASSUME NEW i \in 1 .. size(s)
      PROVE  f[i] = Item(s, i - 1) /\ f[i] \in Values
  <2>1. i - 1 \in 0 .. size(s) - 1
    BY <1>1
  <2>2. at(s, i - 1) = Item(s, i - 1) /\ Item(s, i - 1) \in Values
    BY <2>1, AtItem, ItemValue, Zenon
  <2> QED BY <2>2, Zenon
<1>3. DOMAIN f = 1 .. size(s)
  BY Zenon
<1>4. f \in [1 .. size(s) -> Values]
  BY <1>2, Zenon
<1> QED BY <1>1, <1>2, <1>4

\* A deque in order whose elements are those of t is the sequence t.
LEMMA Holds ==
    ASSUME NEW s, NEW n, Whole(s, n), n <= MaxNodes, size(s) <= MaxLen,
           NEW t \in Seq(Values), Len(t) = size(s), \A i \in 1 .. size(s) : t[i] = Item(s, i - 1)
    PROVE  [i \in 1 .. size(s) |-> at(s, i - 1)] = t
<1>1. PICK f : f = [i \in 1 .. size(s) |-> at(s, i - 1)]
  BY Zenon
<1>2. /\ f \in Seq(Values) /\ Len(f) = size(s)
      /\ \A i \in 1 .. size(s) : f[i] = Item(s, i - 1)
  BY <1>1, Content, Zenon
<1>3. f = t
  BY <1>2
<1> QED BY <1>1, <1>3, Zenon

\* The next state of the deque is the sequence t.
DequeIs(t) == [i \in 1 .. size(d') |-> at(d', i - 1)] = t /\ size(d') = Len(t)

\* A call that leaves the deque in order leaves the sequence t that its elements are.
LEMMA DequeHolds ==
    ASSUME NEW n \in Nat, 3 <= n, n <= MaxNodes, NEW r, r = d', Whole(r, n), size(r) <= MaxLen,
           NEW t \in Seq(Values), Len(t) = size(r), \A i \in 1 .. size(r) : t[i] = Item(r, i - 1)
    PROVE  DequeShape' /\ DequeIs(t)
<1>1. [i \in 1 .. size(r) |-> at(r, i - 1)] = t
  BY Holds, Zenon
<1>2. r.map # << >>
  BY WholeFacts, Zenon
<1>3. n \in 3 .. MaxNodes
  BY SequenceAssumption
<1>4. DequeShape'
  BY <1>2, <1>3, Zenon DEF DequeShape, Alive
<1> QED BY <1>1, <1>4, Zenon DEF DequeIs

\* A longer deque needs no smaller map.
LEMMA Fits ==
    ASSUME NEW m \in 0 .. MaxLen
    PROVE  (m \div ChunkSize) + 3 \in Nat /\ 3 <= (m \div ChunkSize) + 3 /\ (m \div ChunkSize) + 3 <= MaxNodes
<1>1. PICK p, b, q, c : /\ p = m \div ChunkSize /\ b = m % ChunkSize
                        /\ q = MaxLen \div ChunkSize /\ c = MaxLen % ChunkSize
  BY Zenon
<1>2. MaxLen \in Nat /\ MaxNodes \in Nat /\ m \in Nat /\ m <= MaxLen /\ MaxNodes > q + 2
  BY <1>1, DequeAssumption, SequenceAssumption
<1>3. p \in Nat /\ b \in 0 .. ChunkSize - 1 /\ m = ChunkSize * p + b
  BY <1>1, <1>2, ChunkSizes, Divided, Zenon
<1>4. q \in Nat /\ c \in 0 .. ChunkSize - 1 /\ MaxLen = ChunkSize * q + c
  BY <1>1, <1>2, ChunkSizes, Divided, Zenon
<1>5. ChunkSize * q + c < ChunkSize * p + b <=> q < p \/ (q = p /\ c < b)
  BY <1>3, <1>4, ChunkSizes, Before, Zenon
<1>6. p <= q
  BY <1>2, <1>3, <1>4, <1>5
<1> QED BY <1>1, <1>2, <1>3, <1>4, <1>6

\* The items of a deque that is alive, and of one that was moved from.
LEMMA Alives ==
    ASSUME DequeShape, Alive
    PROVE  /\ \E n \in Nat : 3 <= n /\ n <= MaxNodes /\ Whole(d, n)
           /\ size(d) \in Nat /\ size(d) <= MaxLen
<1>1. PICK n \in 3 .. MaxNodes : Whole(d, n) /\ size(d) <= MaxLen
  BY Zenon DEF DequeShape
<1>2. n \in Nat /\ 3 <= n /\ n <= MaxNodes
  BY SequenceAssumption
<1>3. size(d) \in Nat
  BY <1>1, Sized, Zenon
<1> QED BY <1>1, <1>2, <1>3, Zenon

\* A deque that was moved from reads as empty.
LEMMA Moved ==
    ASSUME NEW s, s.map = << >>
    PROVE  size(s) = 0 /\ [i \in 1 .. size(s) |-> at(s, i - 1)] = << >>
<1>1. size(s) = 0
  BY Zenon DEF size
<1> QED BY <1>1

\* A concatenation, element by element.
LEMMA Joined ==
    ASSUME NEW X, NEW x \in Seq(X), NEW y \in Seq(X)
    PROVE  /\ x \o y \in Seq(X) /\ Len(x \o y) = Len(x) + Len(y)
           /\ \A i \in 1 .. Len(x) + Len(y) : (x \o y)[i] = IF i <= Len(x) THEN x[i] ELSE y[i - Len(x)]
  OBVIOUS

\* Every call of the deque keeps it in order and is a call of the sequence.
LEMMA DequeStep == ASSUME Counting PROVE DequeShape /\ Next => DequeShape' /\ Items!Next
<1> SUFFICES ASSUME DequeShape, Next PROVE DequeShape' /\ Items!Next
  BY Zenon
<1>0. PICK old, r : old = [i \in 1 .. size(d) |-> at(d, i - 1)] /\ r = d'
  BY Zenon
<1>a. ASSUME Alive
      PROVE  \E n \in Nat :
                /\ 3 <= n /\ n <= MaxNodes /\ Whole(d, n) /\ size(d) \in Nat /\ size(d) <= MaxLen
                /\ old \in Seq(Values) /\ Len(old) = size(d)
                /\ \A i \in 1 .. size(d) : old[i] = Item(d, i - 1)
  <2>1. PICK n \in Nat : 3 <= n /\ n <= MaxNodes /\ Whole(d, n) /\ size(d) \in Nat /\ size(d) <= MaxLen
    BY <1>a, Alives, Zenon
  <2>2. /\ old \in Seq(Values) /\ Len(old) = size(d)
        /\ \A i \in 1 .. size(d) : old[i] = Item(d, i - 1)
    BY <1>0, <2>1, Content, Zenon
  <2> QED BY <2>1, <2>2, Zenon
<1>b. size(d) > 0 => Alive
  BY Moved DEF Alive
<1>1. ASSUME NEW v \in Values, PushBack(v) PROVE DequeShape' /\ Items!Next
  <2>1. Alive /\ size(d) < MaxLen /\ Cardinality(DOMAIN r.map) <= MaxNodes /\ r = push_back(d, v)
        /\ call' = <<"push_back", v>>
    BY <1>0, <1>1, Zenon DEF PushBack, Pushed
  <2>2. PICK n \in Nat :
           /\ 3 <= n /\ n <= MaxNodes /\ Whole(d, n) /\ size(d) \in Nat
           /\ old \in Seq(Values) /\ Len(old) = size(d)
           /\ \A i \in 1 .. size(d) : old[i] = Item(d, i - 1)
    BY <1>a, <2>1, Zenon
  <2>3. Whole(d, n) /\ n >= 3 /\ size(d) \in Nat /\ old \in Seq(Values) /\ Len(old) = size(d)
    BY <2>2, Zenon
  <2>4. PICK n2 \in Nat : /\ n2 >= 3 /\ Whole(r, n2) /\ size(r) = size(d) + 1
                          /\ \A k \in 0 .. size(d) - 1 : Item(r, k) = Item(d, k)
                          /\ Item(r, size(d)) = v
    <3>1. Whole(d, n) /\ n >= 3 /\ r = push_back(d, v)
      BY <2>1, <2>3, Zenon
    <3> QED BY <3>1, PushedBack
  <2>5. n2 <= MaxNodes /\ 3 <= n2 /\ size(r) <= MaxLen
    <3>1. Chunks(r, n2, r.start.node, r.finish.node)
      BY <2>4, WholeFacts, Zenon
    <3>2. Cardinality(DOMAIN r.map) = n2
      BY <3>1, Counted, Zenon
    <3> QED BY <2>1, <2>2, <2>4, <3>2, SequenceAssumption
  <2>6. PICK t \in Seq(Values) : t = Append(old, v)
    <3>1. Append(old, v) \in Seq(Values)
      BY <2>3
    <3> QED BY <3>1, Zenon
  <2>7. Len(t) = size(r) /\ \A i \in 1 .. size(r) : t[i] = Item(r, i - 1)
    <3>1. Len(t) = size(r)
      BY <2>3, <2>4, <2>6
    <3>2. ASSUME NEW i \in 1 .. size(r) PROVE t[i] = Item(r, i - 1)
      <4>1. CASE i \in 1 .. size(d)
        <5>1. i - 1 \in 0 .. size(d) - 1
          BY <2>3, <4>1
        <5>2. t[i] = old[i]
          BY <2>3, <2>6, <4>1
        <5> QED BY <2>2, <2>4, <4>1, <5>1, <5>2, Zenon
      <4>2. CASE i \notin 1 .. size(d)
        <5>1. i = size(d) + 1 /\ i - 1 = size(d)
          BY <2>3, <2>4, <4>2
        <5>2. t[i] = v
          BY <2>3, <2>6, <5>1
        <5> QED BY <2>4, <5>1, <5>2, Zenon
      <4> QED BY <4>1, <4>2, Zenon
    <3> QED BY <3>1, <3>2, Zenon
  <2>8. DequeShape' /\ DequeIs(t)
    BY <1>0, <2>4, <2>5, <2>7, DequeHolds, Zenon
  <2>9. Items!PushBack(v)
    BY <1>0, <2>1, <2>6, <2>8, ZenonT(60) DEF DequeIs, Items!PushBack, Items!Returns
  <2> QED BY <2>8, <2>9, Zenon DEF Items!Next
<1>2. ASSUME NEW v \in Values, PushFront(v) PROVE DequeShape' /\ Items!Next
  <2>1. Alive /\ size(d) < MaxLen /\ Cardinality(DOMAIN r.map) <= MaxNodes /\ r = push_front(d, v)
        /\ call' = <<"push_front", v>>
    BY <1>0, <1>2, Zenon DEF PushFront, Pushed
  <2>2. PICK n \in Nat :
           /\ 3 <= n /\ n <= MaxNodes /\ Whole(d, n) /\ size(d) \in Nat
           /\ old \in Seq(Values) /\ Len(old) = size(d)
           /\ \A i \in 1 .. size(d) : old[i] = Item(d, i - 1)
    BY <1>a, <2>1, Zenon
  <2>3. Whole(d, n) /\ n >= 3 /\ size(d) \in Nat /\ old \in Seq(Values) /\ Len(old) = size(d)
    BY <2>2, Zenon
  <2>4. PICK n2 \in Nat : /\ n2 >= 3 /\ Whole(r, n2) /\ size(r) = size(d) + 1
                          /\ \A k \in 0 .. size(d) - 1 : Item(r, k + 1) = Item(d, k)
                          /\ Item(r, 0) = v
    <3>1. Whole(d, n) /\ n >= 3 /\ r = push_front(d, v)
      BY <2>1, <2>3, Zenon
    <3> QED BY <3>1, PushedFront
  <2>5. n2 <= MaxNodes /\ 3 <= n2 /\ size(r) <= MaxLen
    <3>1. Chunks(r, n2, r.start.node, r.finish.node)
      BY <2>4, WholeFacts, Zenon
    <3>2. Cardinality(DOMAIN r.map) = n2
      BY <3>1, Counted, Zenon
    <3> QED BY <2>1, <2>2, <2>4, <3>2, SequenceAssumption
  <2>6. PICK t \in Seq(Values) : t = <<v>> \o old
    <3>1. <<v>> \o old \in Seq(Values)
      BY <2>3
    <3> QED BY <3>1, Zenon
  <2>7. Len(t) = size(r) /\ \A i \in 1 .. size(r) : t[i] = Item(r, i - 1)
    <3>1. Len(t) = size(r)
      BY <2>3, <2>4, <2>6
    <3>2. ASSUME NEW i \in 1 .. size(r) PROVE t[i] = Item(r, i - 1)
      <4>1. CASE i # 1
        <5>1. i - 1 \in 1 .. size(d) /\ (i - 1) - 1 \in 0 .. size(d) - 1 /\ ((i - 1) - 1) + 1 = i - 1
          BY <2>3, <2>4, <4>1
        <5>2. t[i] = old[i - 1]
          BY <2>3, <2>4, <2>6, <4>1
        <5> QED BY <2>2, <2>4, <5>1, <5>2
      <4>2. CASE i = 1
        <5>1. t[1] = v
          BY <2>3, <2>6
        <5> QED BY <2>4, <4>2, <5>1
      <4> QED BY <4>1, <4>2, Zenon
    <3> QED BY <3>1, <3>2, Zenon
  <2>8. DequeShape' /\ DequeIs(t)
    BY <1>0, <2>4, <2>5, <2>7, DequeHolds, Zenon
  <2>9. Items!PushFront(v)
    BY <1>0, <2>1, <2>6, <2>8, ZenonT(60) DEF DequeIs, Items!PushFront, Items!Returns
  <2> QED BY <2>8, <2>9, Zenon DEF Items!Next
<1>3. CASE PopBack
  <2>1. size(d) > 0 /\ r = pop_back(d) /\ call' = <<"pop_back">>
    BY <1>0, <1>3, Zenon DEF PopBack
  <2>2. PICK n \in Nat :
           /\ 3 <= n /\ n <= MaxNodes /\ Whole(d, n) /\ size(d) \in Nat /\ size(d) <= MaxLen
           /\ old \in Seq(Values) /\ Len(old) = size(d)
           /\ \A i \in 1 .. size(d) : old[i] = Item(d, i - 1)
    BY <1>a, <1>b, <2>1, Zenon
  <2>3. /\ Whole(r, n) /\ size(r) = size(d) - 1
        /\ \A k \in 0 .. size(d) - 2 : Item(r, k) = Item(d, k)
    BY <2>1, <2>2, PoppedBack, Zenon
  <2>4. PICK t : t = SubSeq(old, 1, Len(old) - 1)
    BY Zenon
  <2>5. t \in Seq(Values) /\ Len(t) = size(r) /\ \A i \in 1 .. size(r) : t[i] = old[i]
    BY <2>1, <2>2, <2>3, <2>4
  <2>6. ASSUME NEW i \in 1 .. size(r) PROVE t[i] = Item(r, i - 1)
    <3>1. i \in 1 .. size(d) /\ i - 1 \in 0 .. size(d) - 2
      BY <2>2, <2>3
    <3> QED BY <2>2, <2>3, <2>5, <3>1, Zenon
  <2>7. size(r) <= MaxLen
    BY <2>2, <2>3, SequenceAssumption
  <2>8. DequeShape' /\ DequeIs(t)
    BY <1>0, <2>2, <2>3, <2>5, <2>6, <2>7, DequeHolds, Zenon
  <2>9. Items!PopBack
    <3>1. old # << >>
      BY <2>1, <2>2
    <3> QED BY <1>0, <2>1, <2>4, <2>8, <3>1, Zenon DEF DequeIs, Items!PopBack, Items!Returns
  <2> QED BY <2>8, <2>9, Zenon DEF Items!Next
<1>4. CASE PopFront
  <2>1. size(d) > 0 /\ r = pop_front(d) /\ call' = <<"pop_front">>
    BY <1>0, <1>4, Zenon DEF PopFront
  <2>2. PICK n \in Nat :
           /\ 3 <= n /\ n <= MaxNodes /\ Whole(d, n) /\ size(d) \in Nat /\ size(d) <= MaxLen
           /\ old \in Seq(Values) /\ Len(old) = size(d)
           /\ \A i \in 1 .. size(d) : old[i] = Item(d, i - 1)
    BY <1>a, <1>b, <2>1, Zenon
  <2>3. /\ Whole(r, n) /\ size(r) = size(d) - 1
        /\ \A k \in 0 .. size(d) - 2 : Item(r, k) = Item(d, k + 1)
    BY <2>1, <2>2, PoppedFront, Zenon
  <2>4. PICK t : t = Tail(old)
    BY Zenon
  <2>5. t \in Seq(Values) /\ Len(t) = size(r) /\ \A i \in 1 .. size(r) : t[i] = old[i + 1]
    BY <2>1, <2>2, <2>3, <2>4
  <2>6. ASSUME NEW i \in 1 .. size(r) PROVE t[i] = Item(r, i - 1)
    <3>1. i + 1 \in 1 .. size(d) /\ i - 1 \in 0 .. size(d) - 2 /\ (i + 1) - 1 = (i - 1) + 1
      BY <2>2, <2>3
    <3> QED BY <2>2, <2>3, <2>5, <3>1, Zenon
  <2>7. size(r) <= MaxLen
    BY <2>2, <2>3, SequenceAssumption
  <2>8. DequeShape' /\ DequeIs(t)
    BY <1>0, <2>2, <2>3, <2>5, <2>6, <2>7, DequeHolds, Zenon
  <2>9. Items!PopFront
    <3>1. old # << >>
      BY <2>1, <2>2
    <3> QED BY <1>0, <2>1, <2>4, <2>8, <3>1, ZenonT(60) DEF DequeIs, Items!PopFront, Items!Returns
  <2> QED BY <2>8, <2>9, Zenon DEF Items!Next
<1>5. ASSUME NEW pos \in 0 .. MaxLen - 1, Erase(pos) PROVE DequeShape' /\ Items!Next
  <2>1. pos < size(d) /\ r = erase(d, pos) /\ call' = <<"erase", pos>>
    BY <1>0, <1>5, Zenon DEF Erase
  <2>a. size(d) \in Nat \/ ~Alive
    BY Alives, Zenon
  <2>b. pos \in Nat /\ Alive
    <3>1. ~Alive => size(d) = 0
      BY Moved, Zenon DEF Alive
    <3>2. pos \in Nat
      BY SequenceAssumption
    <3> QED BY <2>1, <3>1, <3>2
  <2>2. PICK n \in Nat :
           /\ 3 <= n /\ n <= MaxNodes /\ Whole(d, n) /\ size(d) \in Nat /\ size(d) <= MaxLen
           /\ old \in Seq(Values) /\ Len(old) = size(d)
           /\ \A i \in 1 .. size(d) : old[i] = Item(d, i - 1)
    BY <1>a, <2>b, Zenon
  <2>3. /\ Whole(r, n) /\ size(r) = size(d) - 1
        /\ \A k \in 0 .. size(d) - 2 : Item(r, k) = IF k < pos THEN Item(d, k) ELSE Item(d, k + 1)
    BY <2>1, <2>2, <2>b, Erased
  <2>4. PICK t, x, y : t = x \o y /\ x = SubSeq(old, 1, pos) /\ y = SubSeq(old, pos + 2, Len(old))
    BY ZenonT(60)
  <2>5. /\ x \in Seq(Values) /\ Len(x) = pos /\ \A i \in 1 .. pos : x[i] = old[i]
    BY <2>1, <2>2, <2>4, <2>b
  <2>6. /\ y \in Seq(Values) /\ Len(y) = size(r) - pos /\ \A i \in 1 .. size(r) - pos : y[i] = old[i + pos + 1]
    BY <2>1, <2>2, <2>3, <2>4, <2>b
  <2>7. /\ t \in Seq(Values) /\ Len(t) = size(r)
        /\ \A i \in 1 .. size(r) : t[i] = IF i <= pos THEN old[i] ELSE old[i + 1]
    <3>1. size(r) \in Nat /\ size(r) - pos \in Nat
      BY <2>1, <2>2, <2>3, <2>b
    <3>0. /\ x \in Seq(Values) /\ y \in Seq(Values) /\ t = x \o y
          /\ Len(x) = pos /\ Len(y) = size(r) - pos
      BY <2>4, <2>5, <2>6, Zenon
    <3>2. t \in Seq(Values) /\ Len(t) = size(r)
      <4>1. t \in Seq(Values) /\ Len(t) = Len(x) + Len(y)
        <5>1. x \in Seq(Values) /\ y \in Seq(Values) /\ t = x \o y
          BY <3>0, Zenon
        <5> QED BY <5>1, Joined, Zenon
      <4> QED BY <2>b, <3>0, <3>1, <4>1
    <3>3. ASSUME NEW i \in 1 .. size(r) PROVE t[i] = IF i <= pos THEN old[i] ELSE old[i + 1]
      <4>1. t[i] = IF i <= pos THEN x[i] ELSE y[i - pos]
        <5>1. i \in 1 .. Len(x) + Len(y) /\ Len(x) = pos
          BY <2>b, <3>0, <3>1
        <5> QED BY <3>0, <5>1, Joined
      <4>2. CASE i <= pos
        BY <2>5, <2>b, <3>1, <4>1, <4>2
      <4>3. CASE ~(i <= pos)
        <5>1. i - pos \in 1 .. size(r) - pos /\ (i - pos) + pos + 1 = i + 1
          BY <2>b, <3>1, <4>3
        <5>2. y[i - pos] = old[(i - pos) + pos + 1]
          BY <2>6, <5>1, Zenon
        <5> QED BY <4>1, <4>3, <5>1, <5>2, Zenon
      <4> QED BY <4>2, <4>3, Zenon
    <3> QED BY <3>2, <3>3, Zenon
  <2>8. ASSUME NEW i \in 1 .. size(r) PROVE t[i] = Item(r, i - 1)
    <3>1. /\ i \in 1 .. size(d) /\ i + 1 \in 1 .. size(d) /\ i - 1 \in 0 .. size(d) - 2
          /\ (i + 1) - 1 = (i - 1) + 1 /\ (i - 1 < pos <=> i <= pos)
      BY <2>2, <2>3, <2>b
    <3>2. Item(r, i - 1) = IF i <= pos THEN Item(d, i - 1) ELSE Item(d, (i + 1) - 1)
      BY <2>3, <3>1, Zenon
    <3>3. old[i] = Item(d, i - 1) /\ old[i + 1] = Item(d, (i + 1) - 1)
      BY <2>2, <3>1, Zenon
    <3> QED BY <2>7, <3>2, <3>3, Zenon
  <2>9. size(r) <= MaxLen
    BY <2>2, <2>3, SequenceAssumption
  <2>10. DequeShape' /\ DequeIs(t)
    BY <1>0, <2>2, <2>3, <2>7, <2>8, <2>9, DequeHolds, Zenon
  <2>11. Items!Erase(pos)
    BY <1>0, <2>1, <2>2, <2>4, <2>10, Zenon DEF DequeIs, Items!Erase, Items!Returns
  <2> QED BY <2>10, <2>11, Zenon DEF Items!Next
<1>6. ASSUME NEW m \in 0 .. MaxLen, NEW v \in Values, Assign(m, v) PROVE DequeShape' /\ Items!Next
  <2>1. PICK h, t : /\ h = Destroyed(d).heap /\ r = Constructed(h, m, v)
                    /\ t = [i \in 1 .. m |-> v] /\ call' = <<"assign", t>>
    BY <1>0, <1>6, Zenon DEF Assign
  <2>2. DOMAIN h = {}
    <3>1. CASE Alive
      <4>1. Destroyed(d) = [map |-> << >>, heap |-> << >>, start |-> d.start, finish |-> d.finish]
        BY <1>a, <3>1, Emptied, Zenon
      <4>2. h = << >>
        BY <2>1, <4>1
      <4> QED BY <4>2
    <3>2. CASE ~Alive
      <4>1. Destroyed(d) = d
        BY <3>2, Zenon DEF Destroyed, Alive
      <4>2. d.heap = << >>
        BY <3>2 DEF DequeShape
      <4>3. h = << >>
        BY <2>1, <4>1, <4>2, Zenon
      <4> QED BY <4>3
    <3> QED BY <3>1, <3>2, Zenon
  <2>3. m \in Nat /\ m <= MaxLen
    BY SequenceAssumption
  <2>4. /\ Whole(r, (m \div ChunkSize) + 3) /\ size(r) = m
        /\ \A k \in 0 .. m - 1 : Item(r, k) = v
    <3>1. (v \in Values \/ (m = 0 /\ v = Raw)) /\ r = Constructed(h, m, v) /\ DOMAIN h = {} /\ m \in Nat
      BY <2>1, <2>2, <2>3, Zenon
    <3> QED BY <3>1, Built
  <2>5. t \in Seq(Values) /\ Len(t) = m /\ t \in [1 .. m -> Values] /\ \A i \in 1 .. m : t[i] = v
    BY <2>1, <2>3
  <2>6. \A i \in 1 .. size(r) : t[i] = Item(r, i - 1)
    BY <2>3, <2>4, <2>5
  <2>7. DequeShape' /\ DequeIs(t)
    BY <1>0, <2>3, <2>4, <2>5, <2>6, Fits, DequeHolds, Zenon
  <2>8. Items!Assign(t)
    BY <2>1, <2>7, Zenon DEF DequeIs, Items!Assign, Items!Returns
  <2> QED BY <2>5, <2>7, <2>8 DEF Items!Next
<1>7. CASE CopyBack
  <2>1. Alive /\ r = Copied(d) /\ call' = <<"keep">>
    BY <1>0, <1>7, Zenon DEF CopyBack
  <2>2. PICK n \in Nat :
           /\ 3 <= n /\ n <= MaxNodes /\ Whole(d, n) /\ size(d) \in Nat /\ size(d) <= MaxLen
           /\ old \in Seq(Values) /\ Len(old) = size(d)
           /\ \A i \in 1 .. size(d) : old[i] = Item(d, i - 1)
    BY <1>a, <2>1, Zenon
  <2>3. /\ Whole(r, n) /\ size(r) = size(d)
        /\ \A k \in 0 .. size(d) - 1 : Item(r, k) = Item(d, k)
    BY <2>1, <2>2, CopiedItems, Zenon
  <2>4. \A i \in 1 .. size(r) : old[i] = Item(r, i - 1)
    BY <2>2, <2>3
  <2>5. DequeShape' /\ DequeIs(old)
    BY <1>0, <2>2, <2>3, <2>4, DequeHolds, Zenon
  <2>6. Items!Keep
    BY <1>0, <2>1, <2>5, Zenon DEF DequeIs, Items!Keep, Items!Returns
  <2> QED BY <2>5, <2>6, Zenon DEF Items!Next
<1>8. CASE MoveOut
  <2>1. Alive /\ r = Destroyed(d) /\ call' = <<"move">>
    BY <1>0, <1>8, Zenon DEF MoveOut
  <2>2. r = [map |-> << >>, heap |-> << >>, start |-> d.start, finish |-> d.finish]
    BY <1>a, <2>1, Emptied, Zenon
  <2>3. r.map = << >> /\ r = [map |-> << >>, heap |-> << >>, start |-> r.start, finish |-> r.finish]
    BY <2>2, Zenon
  <2>4. DequeShape'
    BY <1>0, <2>3, Zenon DEF DequeShape, Alive
  <2>5. size(r) = 0 /\ [i \in 1 .. size(r) |-> at(r, i - 1)] = << >>
    BY <2>3, Moved, Zenon
  <2>6. Items!MoveOut
    BY <1>0, <2>1, <2>5, Zenon DEF Items!MoveOut, Items!Returns
  <2> QED BY <2>4, <2>6, Zenon DEF Items!Next
<1> QED BY <1>1, <1>2, <1>3, <1>4, <1>5, <1>6, <1>7, <1>8 DEF Next

\* A new deque is an empty sequence.
LEMMA DequeInit == Init => DequeShape /\ Items!Init
<1> SUFFICES ASSUME Init PROVE DequeShape /\ Items!Init
  BY Zenon
<1>1. PICK h : h = << >> /\ d = Constructed(h, 0, Raw) /\ call = <<"new">>
  BY Zenon DEF Init
<1>2. DOMAIN h = {} /\ 0 \in Nat /\ 0 \in 0 .. MaxLen /\ MaxLen \in Nat
  BY <1>1, SequenceAssumption
<1>3. Whole(d, (0 \div ChunkSize) + 3) /\ size(d) = 0
  BY <1>1, <1>2, Built, Zenon
<1>4. d.map # << >> /\ (0 \div ChunkSize) + 3 \in 3 .. MaxNodes
  <2>1. d.map # << >>
    BY <1>3, WholeFacts, Zenon
  <2>2. (0 \div ChunkSize) + 3 \in Nat /\ 3 <= (0 \div ChunkSize) + 3 /\ (0 \div ChunkSize) + 3 <= MaxNodes
    BY <1>2, Fits, Zenon
  <2> QED BY <2>1, <2>2, SequenceAssumption
<1>5. DequeShape
  BY <1>2, <1>3, <1>4 DEF DequeShape, Alive
<1>6. [i \in 1 .. size(d) |-> at(d, i - 1)] = << >>
  BY <1>3
<1> QED BY <1>1, <1>3, <1>5, <1>6, Zenon DEF Items!Init

\* The chunks that the map names from start_ to finish_ are those allocated.
LEMMA Owned == ASSUME Counting PROVE DequeShape => ChunksOwned
<1> SUFFICES ASSUME DequeShape PROVE ChunksOwned
  BY Zenon
<1>1. CASE ~Alive
  <2>1. d.heap = << >>
    BY <1>1 DEF DequeShape
  <2> QED BY <1>1, <2>1, Zenon DEF ChunksOwned
<1>2. CASE Alive
  <2>1. PICK n \in Nat : Whole(d, n)
    BY <1>2, Alives, Zenon
  <2>2. PICK lo, hi, i, j : lo = d.start.node /\ hi = d.finish.node /\ i = d.start.cur /\ j = d.finish.cur
    BY ZenonT(60)
  <2>3. /\ Chunks(d, n, lo, hi) /\ {lo, hi, n} \subseteq Nat /\ lo <= hi /\ hi < n
        /\ d.start = At(d.map, lo, i) /\ d.finish = At(d.map, hi, j)
    BY <2>1, <2>2, Parts
  <2>4. \A k \in lo .. hi, l \in Places :
           Cell(d, k, l) # Raw <=> (k = lo => l >= i) /\ (k = hi => l < j)
    BY <2>1, <2>2, Parts
  <2>5. Cardinality(DOMAIN d.heap) = hi - lo + 1
    BY <2>3, Counted, Zenon
  <2>6. lo .. hi \subseteq DOMAIN d.map /\ DOMAIN d.heap = { d.map[k] : k \in lo .. hi }
    <3>1. d.map \in [0 .. n - 1 -> Nat] /\ DOMAIN d.heap = { d.map[k] : k \in lo .. hi }
      BY <2>3, Zenon DEF Chunks
    <3>2. lo .. hi \subseteq 0 .. n - 1
      BY <2>3
    <3> QED BY <3>1, <3>2, Zenon
  <2>7. d.start.first = d.map[lo] /\ d.finish.first = d.map[hi]
    BY <2>3 DEF At
  <2> QED BY <1>2, <2>2, <2>4, <2>5, <2>6, <2>7, ZenonT(60) DEF ChunksOwned, Cell, Places
<1> QED BY <1>1, <1>2, Zenon

\* What finish_ - 1 leads to when the chunk size divides that of a pointer: the sum wraps to
\* the place before.
LEMMA BackPlace ==
    ASSUME NEW s, NEW n, Whole(s, n), n <= MaxNodes, size(s) > 0, PtrSize % ChunkSize = 0
    PROVE  minus(s.map, s.finish, 1) = IF s.finish.cur = 0
                                       THEN At(s.map, s.finish.node - 1, ChunkSize - 1)
                                       ELSE At(s.map, s.finish.node, s.finish.cur - 1)
<1>0. PICK lo, hi, i, j : lo = s.start.node /\ hi = s.finish.node /\ i = s.start.cur /\ j = s.finish.cur
  BY Zenon
<1>1. /\ {lo, hi, n} \subseteq Nat /\ lo <= hi /\ hi < n /\ i \in Places /\ j \in Places
      /\ s.finish = At(s.map, hi, j)
  BY <1>0, Parts
<1>2. /\ ChunkSize \in Nat \ {0} /\ PtrSize \in Nat \ {0} /\ Word \in Nat \ {0}
      /\ MaxNodes \in Nat /\ MaxLen \in Nat
      /\ Word > MaxLen + ChunkSize /\ Word > MaxNodes * PtrSize /\ Word % PtrSize = 0
  BY DequeAssumption, SequenceAssumption, Zenon
<1>3. (Word - 1) % Word = Word - 1
  <2>1. Word - 1 \in 0 .. Word - 1 /\ Word * 0 + (Word - 1) = Word - 1
    BY <1>2
  <2> QED BY <1>2, <2>1, Quotient
<1> DEFINE offset == ((Word - 1) + j) % Word
           node_offset == offset \div ChunkSize
           node == (((hi + node_offset) * PtrSize) % Word) \div PtrSize
<1>4. minus(s.map, s.finish, 1) = IF offset < ChunkSize THEN [s.finish EXCEPT !.cur = offset]
                                  ELSE set_node(s.map, node, offset - node_offset * ChunkSize)
  BY <1>0, <1>3, Zenon DEF minus, plus
<1>5. CASE j # 0
  <2>1. j - 1 \in 0 .. Word - 1 /\ 1 \in Nat /\ Word * 1 + (j - 1) = (Word - 1) + j /\ j - 1 < ChunkSize
    BY <1>1, <1>2, <1>5 DEF Places
  <2>2. offset = j - 1
    BY <1>2, <2>1, Quotient
  <2> HIDE DEF offset, node_offset, node
  <2>3. minus(s.map, s.finish, 1) = [s.finish EXCEPT !.cur = j - 1]
    BY <1>4, <2>1, <2>2, Zenon
  <2> QED BY <1>0, <1>1, <1>5, <2>3 DEF At
<1>6. CASE j = 0
  <2>1. offset = Word - 1
    <3>1. (Word - 1) + j = Word - 1
      BY <1>2, <1>6
    <3> QED BY <1>3, <3>1, Zenon
  <2>2. PICK f \in Nat, g \in Nat : PtrSize = ChunkSize * f /\ Word = PtrSize * g
    <3>1. /\ PtrSize \div ChunkSize \in Nat /\ PtrSize = ChunkSize * (PtrSize \div ChunkSize) + (PtrSize % ChunkSize)
          /\ Word \div PtrSize \in Nat /\ Word = PtrSize * (Word \div PtrSize) + (Word % PtrSize)
      BY <1>2, Divided, Zenon
    <3>2. PICK f, g : f = PtrSize \div ChunkSize /\ g = Word \div PtrSize
      BY Zenon
    <3>3. f \in Nat /\ g \in Nat /\ PtrSize = ChunkSize * f + 0 /\ Word = PtrSize * g + 0
      BY <1>2, <3>1, <3>2, Zenon
    <3>4. ChunkSize * f \in Nat /\ PtrSize * g \in Nat
      BY <1>2, <3>3
    <3> QED BY <3>3, <3>4
  <2>3. PICK w \in Nat : Word = ChunkSize * w /\ w * PtrSize = Word * f /\ w # 0
    <3>1. f * g \in Nat /\ Word = ChunkSize * (f * g) /\ (f * g) * PtrSize = Word * f
      BY <1>2, <2>2
    <3>2. f * g # 0
      BY <1>2, <3>1
    <3> QED BY <3>1, <3>2, Zenon
  <2>4. PICK u \in Nat : w = u + 1 /\ Word - 1 = ChunkSize * u + (ChunkSize - 1)
    <3>1. w - 1 \in Nat /\ w = (w - 1) + 1
      BY <2>3
    <3>2. PICK u \in Nat : w = u + 1
      BY <3>1, Zenon
    <3>3. ChunkSize * w = ChunkSize * u + ChunkSize /\ ChunkSize * u \in Nat
      BY <1>2, <3>2
    <3> QED BY <1>2, <2>3, <3>2, <3>3
  <2>5. node_offset = u /\ offset - node_offset * ChunkSize = ChunkSize - 1 /\ ~(offset < ChunkSize)
    <3>1. ChunkSize - 1 \in 0 .. ChunkSize - 1
      BY <1>2
    <3>2. (ChunkSize * u + (ChunkSize - 1)) \div ChunkSize = u
      BY <1>2, <3>1, Quotient, Zenon
    <3>3. node_offset = u
      BY <2>1, <2>4, <3>2, Zenon
    <3> HIDE DEF offset, node_offset
    <3>4. u * ChunkSize = ChunkSize * u /\ ChunkSize * u \in Nat
      BY <1>2
    <3> QED BY <1>2, <2>1, <2>4, <3>3, <3>4
  <2> HIDE DEF offset, node_offset
  <2>6. lo < hi
    <3>1. size(s) \in Nat /\ hi - lo \in Nat /\ i + size(s) = ChunkSize * (hi - lo) + j
      BY <1>0, Parts
    <3>2. hi - lo > 0
      BY <1>1, <1>6, <3>1, NotEmpty, Zenon
    <3> QED BY <1>1, <3>2
  <2>7. PICK z \in Nat : z = hi - 1 /\ hi + u = z + w /\ z < MaxNodes /\ z \in 0 .. n - 1
    BY <1>1, <1>2, <2>4, <2>6
  <2>8. node = z
    <3>1. PICK x : x = z * PtrSize
      BY Zenon
    <3>2. x \in Nat /\ (hi + u) * PtrSize = Word * f + x /\ x = PtrSize * z + 0
      <4>1. (z + w) * PtrSize = w * PtrSize + x /\ x \in Nat /\ x = PtrSize * z + 0
        BY <1>2, <3>1
      <4> QED BY <2>3, <2>7, <4>1, Zenon
    <3>3. x < Word
      <4>1. PtrSize * z + PtrSize <= PtrSize * MaxNodes
        BY <1>2, <2>7, Times, Zenon
      <4>2. PtrSize * MaxNodes = MaxNodes * PtrSize /\ PtrSize * z \in Nat /\ MaxNodes * PtrSize \in Nat
        BY <1>2
      <4> QED BY <1>2, <3>2, <4>1, <4>2
    <3>4. (Word * f + x) % Word = x
      <4>1. x \in 0 .. Word - 1
        BY <1>2, <3>2, <3>3
      <4> QED BY <1>2, <4>1, Quotient, Zenon
    <3>5. (PtrSize * z + 0) \div PtrSize = z
      <4>1. 0 \in 0 .. PtrSize - 1
        BY <1>2
      <4> QED BY <1>2, <4>1, Quotient, Zenon
    <3>6. node = (((hi + u) * PtrSize) % Word) \div PtrSize
      BY <2>5, Zenon
    <3> QED BY <3>2, <3>4, <3>5, <3>6, Zenon
  <2> HIDE DEF node
  <2>9. minus(s.map, s.finish, 1) = set_node(s.map, z, ChunkSize - 1)
    BY <1>4, <2>5, <2>8, Zenon
  <2>10. z \in DOMAIN s.map
    BY <2>7, WholeFacts, Zenon
  <2> QED BY <1>0, <1>6, <2>7, <2>9, <2>10, Zenon DEF set_node, At
<1> QED BY <1>5, <1>6, Zenon

\* back() then is the last element.
LEMMA Back ==
    ASSUME NEW s, NEW n, Whole(s, n), n <= MaxNodes, size(s) <= MaxLen, size(s) > 0, PtrSize % ChunkSize = 0
    PROVE  back(s) = at(s, size(s) - 1) /\ back(s) # Raw
<1>0. PICK lo, hi, i, j : lo = s.start.node /\ hi = s.finish.node /\ i = s.start.cur /\ j = s.finish.cur
  BY Zenon
<1>1. /\ Chunks(s, n, lo, hi) /\ {lo, hi, n} \subseteq Nat /\ lo <= hi /\ hi < n
      /\ i \in Places /\ j \in Places /\ size(s) \in Nat /\ hi - lo \in Nat
      /\ i + size(s) = ChunkSize * (hi - lo) + j
  BY <1>0, Parts
<1>2. PICK k : k = size(s) - 1
  BY Zenon
<1>3. k \in 0 .. size(s) - 1 /\ k \in Nat /\ k \in 0 .. size(s)
  BY <1>1, <1>2
<1>4. at(s, k) = Item(s, k) /\ Item(s, k) \in Values
  BY <1>3, AtItem, ItemValue, Zenon
<1>5. minus(s.map, s.finish, 1) = At(s.map, Node(s, k), Spot(s, k))
  <2>1. CASE j # 0
    <3>1. j - 1 \in Places
      BY <1>1, <2>1, ChunkSizes DEF Places
    <3>2. i + k = ChunkSize * (hi - lo) + (j - 1)
      <4>1. ChunkSize * (hi - lo) \in Nat /\ i \in Nat /\ j \in Nat
        BY <1>1, ChunkSizes DEF Places
      <4> QED BY <1>1, <1>2, <4>1
    <3>3. Node(s, k) = lo + (hi - lo) /\ Spot(s, k) = j - 1
      BY <1>0, <1>1, <1>3, <3>1, <3>2, Spotted
    <3>4. lo + (hi - lo) = hi
      BY <1>1
    <3>5. minus(s.map, s.finish, 1) = At(s.map, hi, j - 1)
      BY <1>0, <2>1, BackPlace, Zenon
    <3> QED BY <3>3, <3>4, <3>5, Zenon
  <2>2. CASE j = 0
    <3>1. ChunkSize - 1 \in Places
      BY ChunkSizes, Zenon DEF Places
    <3>2. PICK p \in Nat : hi - lo = p + 1
      <4>1. hi - lo > 0
        BY <1>1, <2>2, NotEmpty, ZenonT(60)
      <4>2. (hi - lo) - 1 \in Nat /\ hi - lo = ((hi - lo) - 1) + 1
        BY <1>1, <4>1
      <4> QED BY <4>2, Zenon
    <3>3. i + k = ChunkSize * p + (ChunkSize - 1)
      <4>1. ChunkSize * (hi - lo) = ChunkSize * p + ChunkSize /\ ChunkSize * p \in Nat /\ ChunkSize \in Nat
        BY <3>2, ChunkSizes
      <4>2. i \in Nat
        BY <1>1, ChunkSizes DEF Places
      <4> QED BY <1>1, <1>2, <2>2, <4>1, <4>2
    <3>4. Node(s, k) = lo + p /\ Spot(s, k) = ChunkSize - 1
      BY <1>0, <1>3, <3>1, <3>3, Spotted
    <3>5. lo + p = hi - 1
      BY <1>1, <3>2
    <3>6. minus(s.map, s.finish, 1) = At(s.map, hi - 1, ChunkSize - 1)
      BY <1>0, <2>2, BackPlace, ZenonT(60)
    <3> QED BY <3>4, <3>5, <3>6, Zenon
  <2> QED BY <2>1, <2>2, Zenon
<1>6. s.map[Node(s, k)] \in DOMAIN s.heap
  <2>1. Node(s, k) \in lo .. hi
    BY <1>0, <1>3, Located, Zenon
  <2> QED BY <1>1, <2>1, Zenon DEF Chunks
<1>7. back(s) = Item(s, k)
  BY <1>5, <1>6 DEF back, deref, At, Item, Cell
<1> QED BY <1>2, <1>4, <1>7, SequenceAssumption, Zenon
-----------------------------------------------------------------------------
\* A block of n places with objects in the first k of them, and the sequence they are.
Filled(n, k, f) == /\ n \in Nat /\ k \in 0 .. n /\ f \in [0 .. n - 1 -> Values \cup {Raw}]
                  /\ \A i \in 0 .. n - 1 : f[i] # Raw <=> i < k
Elements(k, f) == [i \in 1 .. k |-> f[i - 1]]
Living(f) == { i \in DOMAIN f : f[i] # Raw }

\* How many places a block has, which the theorems on cardinality tell below.
BlockSizes == \A n \in Nat : Cardinality(0 .. n - 1) = n

\* The objects of a filled block are a sequence of as many values.
LEMMA FilledSeq ==
    ASSUME BlockSizes, NEW n, NEW k, NEW f, Filled(n, k, f)
    PROVE  /\ Cardinality(DOMAIN f) = n
           /\ Cardinality(Living(f)) = k
           /\ Elements(k, f) \in Seq(Values) /\ Len(Elements(k, f)) = k
           /\ \A i \in 1 .. k : Elements(k, f)[i] = f[i - 1] /\ f[i - 1] \in Values
<1>0. n \in Nat /\ k \in Nat
  BY DEF Filled
<1>1. Cardinality(0 .. n - 1) = n /\ Cardinality(0 .. k - 1) = k
  BY <1>0, Zenon DEF BlockSizes
<1> USE DEF Filled
<1>2. Living(f) = 0 .. k - 1
  BY DEF Living
<1>3. \A i \in 1 .. k : f[i - 1] \in Values
  OBVIOUS
<1>4. DOMAIN f = 0 .. n - 1
  BY Zenon
<1>5. Elements(k, f) \in Seq(Values) /\ Len(Elements(k, f)) = k
  BY <1>3 DEF Elements
<1>6. \A i \in 1 .. k : Elements(k, f)[i] = f[i - 1]
  BY Zenon DEF Elements
<1> QED BY <1>1, <1>2, <1>3, <1>4, <1>5, <1>6

\* Two sequences with the same elements are the same.
LEMMA SameSeq ==
    ASSUME NEW X, NEW s \in Seq(X), NEW t \in Seq(X), Len(s) = Len(t),
           \A i \in 1 .. Len(s) : s[i] = t[i]
    PROVE  s = t
  OBVIOUS

\* A sequence without its last element.
LEMMA FrontSeq ==
    ASSUME NEW X, NEW s \in Seq(X), Len(s) > 0
    PROVE  LET t == SubSeq(s, 1, Len(s) - 1)
           IN t \in Seq(X) /\ Len(t) = Len(s) - 1 /\ \A i \in 1 .. Len(t) : t[i] = s[i]
<1> DEFINE t == SubSeq(s, 1, Len(s) - 1)
<1>1. Len(s) - 1 \in 0 .. Len(s) /\ Len(s) \in Nat
  OBVIOUS
<1>2. Len(t) = Len(s) - 1 /\ \A i \in 1 .. Len(t) : t[i] = s[i]
  BY <1>1
<1>3. t \in Seq(X)
  BY <1>1
<1> QED BY <1>2, <1>3

\* Cardinality is the same operator in Vector.
LEMMA VectorSize == \A X : V!Cardinality(X) = Cardinality(X)
<1> SUFFICES ASSUME NEW X PROVE V!Cardinality(X) = Cardinality(X)
  BY Zenon
<1> QED BY Zenon DEF V!Cardinality, Cardinality, V!IsFiniteSet, IsFiniteSet

\* The invariant of the vector, as a block that is filled from the front.
LEMMA VectorBlock == V!VectorInv <=> Filled(V!capacity, vsize, data)
  BY Zenon DEF V!VectorInv, Filled

\* The next state of the vector is the sequence t.
VectorIs(t) == /\ t = [i \in 1 .. vsize' |-> data'[i - 1]]
               /\ V!Cardinality({ i \in DOMAIN data' : data'[i] # Raw }) = Len(t)

\* A call that leaves a block in order leaves the sequence t that its objects are.
LEMMA VectorHolds ==
    ASSUME BlockSizes, NEW n, Filled(n, vsize', data'), NEW t \in Seq(Values), Len(t) = vsize',
           \A i \in 1 .. vsize' : t[i] = data'[i - 1]
    PROVE  V!VectorInv' /\ VectorIs(t)
<1>1. /\ Cardinality(DOMAIN data') = n
      /\ Cardinality(Living(data')) = vsize'
      /\ Elements(vsize', data') \in Seq(Values) /\ Len(Elements(vsize', data')) = vsize'
      /\ \A i \in 1 .. vsize' : Elements(vsize', data')[i] = data'[i - 1]
  BY FilledSeq
<1>2. V!capacity' = n
  BY <1>1, VectorSize, Zenon DEF V!capacity
<1>3. V!VectorInv'
  BY <1>2, Zenon DEF V!VectorInv, Filled
<1>4. Elements(vsize', data') = t
  BY <1>1, SameSeq
<1>5. Elements(vsize', data') = [i \in 1 .. vsize' |-> data'[i - 1]]
  BY Zenon DEF Elements
<1>6. V!Cardinality({ i \in DOMAIN data' : data'[i] # Raw }) = vsize'
  BY <1>1, VectorSize DEF Living
<1> QED BY <1>3, <1>4, <1>5, <1>6 DEF VectorIs

\* reserve(n) keeps the elements, and Room has a place for one more.
LEMMA VectorReserved ==
    ASSUME V!VectorInv, NEW m \in Nat
    PROVE  /\ Filled(IF m <= V!capacity THEN V!capacity ELSE m, vsize, V!reserved(m))
           /\ \A i \in 1 .. vsize : V!reserved(m)[i - 1] = data[i - 1]
  BY DEF V!VectorInv, V!reserved, Filled

\* The block that push_back() writes to has a free place behind the elements.
LEMMA VectorRoom ==
    ASSUME V!VectorInv
    PROVE  \E n \in Nat : /\ vsize < n /\ Filled(n, vsize, V!Room)
                          /\ \A i \in 1 .. vsize : V!Room[i - 1] = data[i - 1]
<1>1. CASE vsize = V!capacity
  <2> DEFINE m == V!Max({MIN_CAPACITY, V!capacity * 2})
  <2>1. V!capacity \in Nat /\ MIN_CAPACITY \in Nat \ {0}
    BY VectorAssumption, Zenon DEF V!VectorInv
  <2>2. m \in Nat /\ m > V!capacity
    <3>1. \E x \in {MIN_CAPACITY, V!capacity * 2} : \A y \in {MIN_CAPACITY, V!capacity * 2} : x >= y
      BY <2>1
    <3>2. m \in {MIN_CAPACITY, V!capacity * 2} /\ \A y \in {MIN_CAPACITY, V!capacity * 2} : m >= y
      BY <3>1, Zenon DEF V!Max
    <3> QED BY <2>1, <3>2
  <2>3. V!Room = V!reserved(m)
    BY <1>1, Zenon DEF V!Room
  <2> HIDE DEF m
  <2> QED BY <1>1, <2>1, <2>2, <2>3, VectorReserved
<1>2. CASE vsize # V!capacity
  BY <1>2 DEF V!VectorInv, V!Room, Filled
<1> QED BY <1>1, <1>2, Zenon

\* Every call of the vector keeps the block in order and is a call of the sequence.
LEMMA VectorStep == BlockSizes /\ V!VectorInv /\ V!Next => V!VectorInv' /\ V!Items!Next
<1> SUFFICES ASSUME BlockSizes, V!VectorInv, V!Next PROVE V!VectorInv' /\ V!Items!Next
  BY Zenon
<1> DEFINE old == Elements(vsize, data)
           n == V!capacity
<1>b. Filled(n, vsize, data)
  BY VectorBlock, Zenon
<1>o. /\ old \in Seq(Values) /\ Len(old) = vsize /\ vsize \in Nat /\ n \in Nat
      /\ \A i \in 1 .. vsize : old[i] = data[i - 1] /\ data[i - 1] \in Values
      /\ old = [i \in 1 .. vsize |-> data[i - 1]]
  BY <1>b, FilledSeq DEF Elements, Filled
<1> HIDE DEF old, n
<1>1. ASSUME NEW v \in Values, V!PushBack(v) PROVE V!VectorInv' /\ V!Items!PushBack(v)
  <2>1. PICK m \in Nat : /\ vsize < m /\ Filled(m, vsize, V!Room)
                         /\ \A i \in 1 .. vsize : V!Room[i - 1] = data[i - 1]
    BY VectorRoom, Zenon
  <2>2. /\ data' = [V!Room EXCEPT ![vsize] = v] /\ vsize' = vsize + 1 /\ vcall' = <<"push_back", v>>
    BY <1>1, Zenon DEF V!PushBack
  <2>3. Filled(m, vsize', data')
    BY <1>o, <2>1, <2>2, SequenceAssumption DEF Filled
  <2>4. /\ Append(old, v) \in Seq(Values) /\ Len(Append(old, v)) = vsize'
        /\ \A i \in 1 .. vsize' : Append(old, v)[i] = data'[i - 1]
    BY <1>o, <2>1, <2>2 DEF Filled
  <2>5. V!VectorInv' /\ VectorIs(Append(old, v))
    BY <2>2, <2>3, <2>4, VectorHolds, Zenon
  <2> QED BY <1>o, <2>2, <2>5, Zenon DEF V!Items!Returns, VectorIs, V!Items!PushBack
<1>2. ASSUME NEW i \in 0 .. MaxLen - 1, V!PushBackOwn(i) PROVE V!VectorInv' /\ V!Items!Next
  <2> DEFINE v == data[i]
  <2>1. /\ data' = [data EXCEPT ![vsize] = v] /\ vsize' = vsize + 1 /\ vcall' = <<"push_back", v>>
        /\ i < vsize /\ vsize < n
    BY <1>2, Zenon DEF V!PushBackOwn, n
  <2>2. v \in Values
    <3>1. i + 1 \in 1 .. vsize /\ i = (i + 1) - 1
      BY <1>o, <2>1, SequenceAssumption
    <3> QED BY <1>o, <3>1, Zenon
  <2> HIDE DEF v
  <2>3. Filled(n, vsize', data')
    BY <1>b, <1>o, <2>1, <2>2, SequenceAssumption DEF Filled
  <2>4. /\ Append(old, v) \in Seq(Values) /\ Len(Append(old, v)) = vsize'
        /\ \A j \in 1 .. vsize' : Append(old, v)[j] = data'[j - 1]
    BY <1>b, <1>o, <2>1, <2>2 DEF Filled
  <2>5. VectorIs(Append(old, v)) /\ V!VectorInv'
    BY <2>1, <2>3, <2>4, VectorHolds, Zenon
  <2> QED BY <1>o, <2>1, <2>2, <2>5, ZenonT(60) DEF V!Items!Returns, VectorIs, V!Items!PushBack,
             V!Items!Next
<1>3. CASE V!PopBack
  <2>1. /\ data' = [data EXCEPT ![vsize - 1] = Raw] /\ vsize' = vsize - 1 /\ vcall' = <<"pop_back">>
        /\ vsize > 0
    BY <1>3, Zenon DEF V!PopBack
  <2>2. Filled(n, vsize', data')
    BY <1>b, <1>o, <2>1, SequenceAssumption DEF Filled
  <2> DEFINE t == SubSeq(old, 1, Len(old) - 1)
  <2>3. t \in Seq(Values) /\ Len(t) = vsize' /\ old # << >>
    BY <1>o, <2>1, FrontSeq
  <2>5. ASSUME NEW j \in 1 .. vsize' PROVE t[j] = data'[j - 1]
    <3>1. t[j] = old[j]
      BY <1>o, <2>1, FrontSeq
    <3> QED BY <1>b, <1>o, <2>1, <3>1 DEF Filled
  <2> HIDE DEF t
  <2>4. VectorIs(t) /\ V!VectorInv'
    BY <2>1, <2>2, <2>3, <2>5, VectorHolds, Zenon
  <2> QED BY <1>o, <2>1, <2>3, <2>4 DEF V!Items!Returns, VectorIs, V!Items!PopBack, V!Items!Next, t
<1>4. ASSUME NEW m \in 0 .. MaxLen, NEW v \in Values, V!Resize(m, v) PROVE V!VectorInv' /\ V!Items!Next
  <2> DEFINE r == V!reserved(m)
             k == IF m <= n THEN n ELSE m
  <2>1. m \in Nat /\ Filled(k, vsize, r) /\ \A i \in 1 .. vsize : r[i - 1] = data[i - 1]
    BY VectorReserved, SequenceAssumption DEF n
  <2>2. /\ data' = [i \in DOMAIN r |-> IF i \in vsize .. m - 1 THEN v ELSE IF i >= m THEN Raw ELSE r[i]]
        /\ vsize' = m /\ vcall' = <<"resize", m, v>>
    BY <1>4, Zenon DEF V!Resize
  <2>3. k \in Nat /\ m \in 0 .. k
    BY <1>o, <2>1
  <2> HIDE DEF r, k
  <2>4. Filled(k, m, data')
    BY <1>o, <2>1, <2>2, <2>3, SequenceAssumption DEF Filled
  <2> DEFINE t == IF m <= Len(old) THEN SubSeq(old, 1, m) ELSE old \o [i \in 1 .. m - Len(old) |-> v]
  <2>5. t \in Seq(Values) /\ Len(t) = m /\ \A j \in 1 .. m : t[j] = data'[j - 1]
    <3>1. CASE m <= Len(old)
      BY <1>o, <2>1, <2>2, <2>3, <3>1 DEF Filled
    <3>2. CASE m > Len(old)
      <4> DEFINE c == [i \in 1 .. m - Len(old) |-> v]
      <4>0. m - Len(old) \in Nat /\ Len(old) = vsize
        BY <1>o, <2>1, <3>2
      <4>1. c \in Seq(Values) /\ Len(c) = m - vsize /\ \A i \in 1 .. m - vsize : c[i] = v
        BY <4>0
      <4>2. t = old \o c
        BY <1>o, <2>1, <3>2
      <4> HIDE DEF c, t
      <4>3. t \in Seq(Values) /\ Len(t) = m
        BY <1>o, <2>1, <3>2, <4>1, <4>2
      <4>4. ASSUME NEW j \in 1 .. m PROVE t[j] = data'[j - 1]
        <5>1. t[j] = IF j <= vsize THEN old[j] ELSE v
          BY <1>o, <2>1, <3>2, <4>1, <4>2
        <5>2. j - 1 \in DOMAIN r /\ j - 1 < m
          BY <2>1, <2>3 DEF Filled
        <5> QED BY <1>o, <2>1, <2>2, <5>1, <5>2
      <4> QED BY <4>3, <4>4
    <3>3. m <= Len(old) \/ m > Len(old)
      BY <1>o, <2>1
    <3> QED BY <3>1, <3>2, <3>3, ZenonT(60)
  <2> HIDE DEF t
  <2>6. VectorIs(t) /\ V!VectorInv'
    BY <2>2, <2>4, <2>5, VectorHolds
  <2>7. V!Items!Resize(m, v)
    BY <1>o, <2>2, <2>6 DEF V!Items!Returns, VectorIs, V!Items!Resize, V!Items!Copies, t
  <2> QED BY <2>6, <2>7 DEF V!Items!Next
<1>5. ASSUME NEW i \in 0 .. MaxLen - 1, NEW v \in Values, V!Write(i, v) PROVE V!VectorInv' /\ V!Items!Next
  <2>1. data' = [data EXCEPT ![i] = v] /\ vsize' = vsize /\ vcall' = <<"write", i, v>> /\ i < vsize
    BY <1>5, Zenon DEF V!Write
  <2>2. i \in Nat /\ Filled(n, vsize', data')
    BY <1>b, <1>o, <2>1, SequenceAssumption DEF Filled
  <2> DEFINE t == [old EXCEPT ![i + 1] = v]
  <2>3. t \in Seq(Values) /\ Len(t) = vsize' /\ \A j \in 1 .. vsize' : t[j] = data'[j - 1]
    BY <1>b, <1>o, <2>1, <2>2 DEF Filled
  <2> HIDE DEF t
  <2>4. VectorIs(t) /\ V!VectorInv'
    BY <2>1, <2>2, <2>3, VectorHolds, ZenonT(60)
  <2>5. V!Items!Write(i, v)
    BY <1>o, <2>1, <2>4 DEF V!Items!Returns, VectorIs, V!Items!Write, t
  <2> QED BY <2>4, <2>5 DEF V!Items!Next
<1>k. ASSUME NEW m, Filled(m, vsize, data'), vsize' = vsize, vcall' = <<"keep">>,
             \A i \in 1 .. vsize : data'[i - 1] = data[i - 1]
      PROVE  V!VectorInv' /\ V!Items!Next
  <2>1. VectorIs(old) /\ V!VectorInv'
    BY <1>k, <1>o, VectorHolds
  <2> QED BY <1>k, <1>o, <2>1 DEF V!Items!Returns, VectorIs, V!Items!Keep, V!Items!Next
<1>6. ASSUME NEW m \in 0 .. MaxLen, V!Reserve(m) PROVE V!VectorInv' /\ V!Items!Next
  BY <1>6, <1>k, VectorReserved, SequenceAssumption DEF V!Reserve
<1>7. CASE V!CopyBack
  <2>1. data' = [i \in 0 .. vsize - 1 |-> data[i]] /\ vcall' = <<"keep">> /\ vsize' = vsize
    BY <1>7, Zenon DEF V!CopyBack
  <2>2. Filled(vsize, vsize, data') /\ \A i \in 1 .. vsize : data'[i - 1] = data[i - 1]
    BY <1>b, <1>o, <2>1 DEF Filled
  <2> QED BY <1>k, <2>1, <2>2
<1>e. ASSUME NEW m \in Nat, data' = [i \in 0 .. m - 1 |-> Raw], vsize' = 0, NEW c, vcall' = c
      PROVE  V!VectorInv' /\ VectorIs(<< >>)
  <2>1. Filled(m, vsize', data')
    BY <1>e, SequenceAssumption DEF Filled
  <2>2. << >> \in Seq(Values) /\ Len(<< >>) = vsize'
    BY <1>e
  <2>3. \A i \in 1 .. vsize' : << >>[i] = data'[i - 1]
    BY <1>e
  <2> QED BY <2>1, <2>2, <2>3, VectorHolds, Zenon
<1>8. CASE V!Clear
  BY <1>8, <1>e, <1>o, ZenonT(60) DEF V!Clear, V!Block, n, V!Items!Clear, V!Items!Next,
     V!Items!Returns, VectorIs
<1>9. CASE V!MoveOut
  BY <1>9, <1>e DEF V!MoveOut, V!Block, V!Items!MoveOut, V!Items!Next, V!Items!Returns, VectorIs
<1>10. ASSUME NEW m \in 0 .. MaxLen, NEW v \in Values, V!Assign(m, v) PROVE V!VectorInv' /\ V!Items!Next
  <2> DEFINE t == [i \in 1 .. m |-> v]
  <2>1. data' = [i \in 0 .. m - 1 |-> v] /\ vsize' = m /\ vcall' = <<"assign", t>>
    BY <1>10, Zenon DEF V!Assign
  <2>2. m \in Nat /\ t \in Seq(Values) /\ Len(t) = m /\ t \in [1 .. m -> Values]
    BY SequenceAssumption
  <2>3. Filled(m, m, data') /\ \A j \in 1 .. m : t[j] = data'[j - 1]
    BY <2>1, <2>2, SequenceAssumption DEF Filled
  <2> HIDE DEF t
  <2>5. VectorIs(t) /\ V!VectorInv'
    BY <2>1, <2>2, <2>3, VectorHolds, Zenon
  <2> QED BY <2>1, <2>2, <2>5, ZenonT(60) DEF V!Items!Returns, VectorIs, V!Items!Assign,
             V!Items!Next
<1> QED
  BY <1>1, <1>2, <1>3, <1>4, <1>5, <1>6, <1>7, <1>8, <1>9, <1>10, ZenonT(60) DEF V!Next,
     V!Items!Next

\* A new vector is an empty sequence.
LEMMA VectorInit == BlockSizes /\ V!Init => V!VectorInv /\ V!Items!Init
<1> SUFFICES ASSUME BlockSizes, V!Init PROVE V!VectorInv /\ V!Items!Init
  BY Zenon
<1>1. data = [i \in 0 .. -1 |-> Raw] /\ vsize = 0 /\ vcall = <<"new">>
  BY DEF V!Init, V!Block
<1>2. Filled(0, 0, data)
  BY <1>1, SequenceAssumption DEF Filled
<1>3. Cardinality(DOMAIN data) = 0 /\ Cardinality(Living(data)) = 0
  BY <1>2, FilledSeq
<1>4. V!VectorInv
  BY <1>1, <1>2, <1>3, VectorSize DEF V!VectorInv, V!capacity, Filled
<1>5. [i \in 1 .. vsize |-> data[i - 1]] = << >>
  BY <1>1
<1>6. V!Cardinality({ i \in DOMAIN data : data[i] # Raw }) = 0
  BY <1>3, VectorSize DEF Living
<1> QED BY <1>1, <1>4, <1>5, <1>6 DEF V!Items!Init
-----------------------------------------------------------------------------
INSTANCE FiniteSetTheorems
INSTANCE WellFoundedInduction

\* A set of natural numbers has a least element, for less-than is well-founded: all
\* inductions here rest on that.
LEMMA Minimal ==
    ASSUME NEW T \in SUBSET Nat, T # {}
    PROVE  \E R : /\ \E n \in T : \A m \in T : ~(<<m, n>> \in R)
                  /\ \A m, n \in Nat : <<m, n>> \in R <=> m < n
<1> DEFINE R == OpToRel(<, Nat)
<1>1. IsWellFoundedOn(R, Nat)
  BY NatLessThanWellFounded, Zenon
<1>2. \E n \in T : \A m \in T : ~(<<m, n>> \in R)
  BY <1>1, WFMin, ZenonT(60)
<1>3. \A m, n \in Nat : <<m, n>> \in R <=> m < n
  BY Zenon DEF OpToRel
<1> QED BY <1>2, <1>3, ZenonT(60)

\* Well-ordering of the naturals.
LEMMA Least == ASSUME NEW T \in SUBSET Nat, T # {} PROVE \E n \in T : \A m \in T : n <= m
<1>1. PICK R : /\ \E n \in T : \A m \in T : ~(<<m, n>> \in R)
               /\ \A m, n \in Nat : <<m, n>> \in R <=> m < n
  BY Minimal, Zenon
<1>2. \A m, n \in T : <<m, n>> \notin R => n <= m
  <2>1. ASSUME NEW m \in T, NEW n \in T, ~(m < n) PROVE n <= m
    BY <2>1
  <2>2. \A m, n \in T : <<m, n>> \in R <=> m < n
    BY <1>1, ZenonT(60)
  <2> QED BY <2>1, <2>2, Zenon
<1> QED BY <1>1, <1>2, ZenonT(60)

\* An interval from 0 has as many elements as its end says.
LEMMA Interval == ASSUME NEW n \in Nat PROVE IsFiniteSet(0 .. n - 1) /\ Cardinality(0 .. n - 1) = n
<1>1. 0 \in Int /\ n - 1 \in Int
  OBVIOUS
<1>2. /\ IsFiniteSet(0 .. n - 1)
      /\ Cardinality(0 .. n - 1) = IF 0 > n - 1 THEN 0 ELSE n - 1 - 0 + 1
  BY <1>1, FS_Interval, Zenon
<1>3. n = IF 0 > n - 1 THEN 0 ELSE n - 1 - 0 + 1
  OBVIOUS
<1> QED BY <1>2, <1>3

\* The chunks are as many as the nodes that have one, and the map has n nodes.
LEMMA CountedChunks ==
    ASSUME NEW s, NEW n, NEW lo, NEW hi, Chunks(s, n, lo, hi)
    PROVE  /\ IsFiniteSet(DOMAIN s.heap) /\ Cardinality(DOMAIN s.heap) = hi - lo + 1
           /\ Cardinality(DOMAIN s.map) = n
<1> DEFINE f == [i \in lo .. hi |-> s.map[i]]
<1>1. /\ s.map \in [0 .. n - 1 -> Nat] /\ {n, lo, hi} \subseteq Nat /\ lo <= hi /\ hi < n
      /\ DOMAIN s.heap = { s.map[i] : i \in lo .. hi }
      /\ \A i, j \in lo .. hi : s.map[i] = s.map[j] => i = j
  BY Zenon DEF Chunks
<1>2. f \in Surjection(lo .. hi, DOMAIN s.heap) /\ f \in Injection(lo .. hi, DOMAIN s.heap)
  BY <1>1, Zenon DEF Surjection, Injection, IsInjective
<1>3. IsFiniteSet(lo .. hi) /\ Cardinality(lo .. hi) = IF lo > hi THEN 0 ELSE hi - lo + 1
  <2>1. lo \in Int /\ hi \in Int
    BY <1>1
  <2> QED BY <2>1, FS_Interval, ZenonT(60)
<1>4. IsFiniteSet(DOMAIN s.heap) /\ Cardinality(DOMAIN s.heap) = Cardinality(lo .. hi)
  BY <1>2, <1>3, FS_Surjection, ZenonT(60)
<1>5. Cardinality(0 .. n - 1) = n
  BY <1>1, Interval, Zenon
<1>6. DOMAIN s.map = 0 .. n - 1
  BY <1>1, Zenon
<1> QED BY <1>1, <1>3, <1>4, <1>5, <1>6

\* A new chunk is none of those there are.
LEMMA FreshChunk ==
    ASSUME NEW h, IsFiniteSet(DOMAIN h)
    PROVE  FreeChunk(h) \in Nat \ {0} /\ FreeChunk(h) \notin DOMAIN h
<1> DEFINE c == Cardinality(DOMAIN h)
           T == (1 .. c + 1) \ DOMAIN h
<1>1. c \in Nat
  BY FS_CardinalityType, Zenon
<1> HIDE DEF c
<1>2. T # {}
  <2> SUFFICES ASSUME T = {} PROVE FALSE
    BY Zenon
  <2>1. (1 .. c + 1) \in SUBSET DOMAIN h
    BY Zenon
  <2>2. Cardinality(1 .. c + 1) <= c
    BY <2>1, FS_Subset, ZenonT(60) DEF c
  <2>3. PICK one \in Int, e \in Int : one = 1 /\ e = c + 1
    BY <1>1
  <2>4. Cardinality(one .. e) = IF one > e THEN 0 ELSE e - one + 1
    BY FS_Interval, ZenonT(60)
  <2> QED BY <1>1, <2>2, <2>3, <2>4
<1>3. T \in SUBSET Nat
  BY <1>1
<1>4. \E k \in T : \A m \in T : k <= m
  BY <1>2, <1>3, Least, ZenonT(60)
<1>5. Min(T) \in T
  BY <1>4, Zenon DEF Min
<1>6. FreeChunk(h) = Min(T)
  BY Zenon DEF FreeChunk, c
<1> QED BY <1>1, <1>5, <1>6

\* What the lemmas of DequeProofs assume.
LEMMA AllCounted == Counting
  BY CountedChunks, FreshChunk, Zenon DEF Counting

\* And what those on the vector above do.
LEMMA AllSized == BlockSizes
  BY Interval, Zenon DEF BlockSizes
-----------------------------------------------------------------------------
\* The deque is in order after any calls: its used nodes have a chunk each, and objects live
\* between the iterators (deque.h).
THEOREM DequeInvariant == Spec => []DequeShape
<1>1. DequeShape /\ UNCHANGED vars => DequeShape'
  BY Zenon DEF DequeShape, vars, Alive
<1>2. DequeShape /\ [Next]_vars => DequeShape'
  BY <1>1, AllCounted, DequeStep, ZenonT(60)
<1> QED BY <1>2, DequeInit, PTL DEF Spec

\* Chunks are neither leaked, shared nor freed too early, and their objects are constructed
\* and destroyed once (deque.h:268-372, 401-429), for every size of chunk.
THEOREM DequeOwnsChunks == Spec => []ChunksOwned
  BY DequeInvariant, AllCounted, Owned, PTL

\* And back() is the last element (deque.h:380), when the size of a chunk divides that of
\* a pointer: the unsigned arithmetic of operator-= then comes out right (deque.h:104-117).
THEOREM DequeReadsBack == ASSUME PtrSize % ChunkSize = 0 PROVE Spec => []DequeInv
<1>1. DequeShape => BackIsLast
  <2> SUFFICES ASSUME DequeShape, size(d) > 0 PROVE back(d) = at(d, size(d) - 1) /\ back(d) # Raw
    BY Zenon DEF BackIsLast
  <2>1. Alive
    BY Moved DEF Alive
  <2> QED BY <2>1, Alives, Back
<1>2. DequeShape => DequeInv
  BY <1>1, AllCounted, Owned DEF DequeInv
<1> QED BY <1>2, DequeInvariant, PTL

\* The deque is a sequence (deque.h), for every size of chunk and length.
THEOREM DequeImplementsSequence == Spec => DequeIsSequence
<1> DEFINE items == [i \in 1 .. size(d) |-> at(d, i - 1)]
<1>1. UNCHANGED vars => UNCHANGED <<items, size(d), call>>
  BY Zenon DEF vars
<1>2. DequeShape /\ [Next]_vars => [Items!Next]_<<items, size(d), call>>
  BY <1>1, AllCounted, DequeStep, ZenonT(60)
<1> QED BY <1>2, DequeInit, DequeInvariant, PTL DEF Spec, DequeIsSequence, Items!Spec
-----------------------------------------------------------------------------
\* Objects live in the first size_ places of the vector's block, whatever calls were made
\* (vector.h).
THEOREM VectorInvariant == V!Spec => []V!VectorInv
<1>1. V!VectorInv /\ UNCHANGED V!vars => V!VectorInv'
  BY Zenon DEF V!VectorInv, V!vars, V!capacity
<1>2. V!VectorInv /\ [V!Next]_(V!vars) => V!VectorInv'
  BY <1>1, AllSized, VectorStep, ZenonT(60)
<1> QED BY <1>2, AllSized, VectorInit, PTL DEF V!Spec

\* The vector is a sequence (vector.h), for every MIN_CAPACITY and length.
THEOREM VectorImplementsSequence == V!Spec => VectorIsSequence
<1> DEFINE items == [i \in 1 .. vsize |-> data[i - 1]]
           count == V!Cardinality({ i \in DOMAIN data : data[i] # Raw })
<1>1. UNCHANGED V!vars => UNCHANGED <<items, count, vcall>>
  BY Zenon DEF V!vars
<1>2. V!VectorInv /\ [V!Next]_(V!vars) => [V!Items!Next]_<<items, count, vcall>>
  BY <1>1, AllSized, VectorStep, ZenonT(60)
<1> QED BY <1>2, AllSized, VectorInit, VectorInvariant, PTL DEF V!Spec, VectorIsSequence, V!Items!Spec
=============================================================================
