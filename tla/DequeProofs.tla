----------------------------- MODULE DequeProofs -----------------------------
(***************************************************************************)
(* What the operations of the deque do to its chunks and its elements, for *)
(* any values, lengths and sizes of chunks.  An element lies where the     *)
(* unsigned arithmetic of the iterators says; a push, a pop, an erase, a   *)
(* larger map or a copy leaves the deque whole and the other elements as   *)
(* they were.                                                              *)
(***************************************************************************)
EXTENDS Deque, TLAPS

\* The provers, tried in this order, and how long each may take.
USE SMTT(20), Z3T(20), Zenon

\* Division: x is b times its quotient plus its rest, in just one way.
LEMMA Times ==
    ASSUME NEW b \in Nat \ {0}, NEW p \in Nat, NEW q \in Nat, p < q PROVE (b * p) + b <= b * q
<1>1. PICK r \in Nat : q = p + 1 + r
  <2>1. q - p - 1 \in Nat /\ q = p + 1 + (q - p - 1)
    OBVIOUS
  <2> QED BY <2>1, Zenon
<1>2. b * q = (b * p) + b + (b * r)
  BY <1>1
<1>3. b * r \in Nat /\ b * p \in Nat
  OBVIOUS
<1> QED BY <1>2, <1>3

\* What / and % compute.
LEMMA Divided ==
    ASSUME NEW b \in Nat \ {0}, NEW x \in Nat
    PROVE  x \div b \in Nat /\ x % b \in 0 .. b - 1 /\ x = b * (x \div b) + (x % b)
  OBVIOUS

\* The quotient and the rest of b * q + i.
LEMMA Quotient ==
    ASSUME NEW b \in Nat \ {0}, NEW q \in Nat, NEW i \in 0 .. b - 1
    PROVE  (b * q + i) \div b = q /\ (b * q + i) % b = i
<1> DEFINE x == b * q + i
           p == x \div b
           j == x % b
<1>1. b * q \in Nat /\ x \in Nat
  OBVIOUS
<1>2. p \in Nat /\ j \in 0 .. b - 1 /\ x = b * p + j
  BY <1>1, Divided, Zenon
<1> HIDE DEF p, j
<1>3. b * p \in Nat
  BY <1>2
<1>4. ~(p < q) /\ ~(q < p)
  BY <1>1, <1>2, <1>3, Times
<1>5. p = q
  BY <1>2, <1>4
<1>6. j = i
  BY <1>1, <1>2, <1>3, <1>5
<1> QED BY <1>5, <1>6, Zenon DEF p, j

\* Places of chunks are ordered as their numbers are.
LEMMA Before ==
    ASSUME NEW b \in Nat \ {0}, NEW p \in Nat, NEW q \in Nat, NEW i \in 0 .. b - 1, NEW j \in 0 .. b - 1
    PROVE  b * p + i < b * q + j <=> p < q \/ (p = q /\ i < j)
<1>1. b * p \in Nat /\ b * q \in Nat
  OBVIOUS
<1>2. CASE p < q
  BY <1>1, <1>2, Times
<1>3. CASE q < p
  BY <1>1, <1>3, Times
<1>4. CASE p = q
  BY <1>1, <1>4
<1> QED BY <1>2, <1>3, <1>4
-----------------------------------------------------------------------------
\* A chunk has places.
LEMMA ChunkSizes == ChunkSize \in Nat \ {0} /\ 0 \in 0 .. ChunkSize - 1 /\ ChunkSize - 1 \in 0 .. ChunkSize - 1
  BY DequeAssumption

\* Place j of the chunk of node i.
Cell(s, i, j) == s.heap[s.map[i]][j]
Places == 0 .. ChunkSize - 1

\* A write to the place of an iterator changes that place.
LEMMA PutCell ==
    ASSUME NEW s, NEW n, NEW lo, NEW hi, Chunks(s, n, lo, hi), NEW i \in lo .. hi, NEW j \in Places,
           NEW it, it.first = s.map[i], it.cur = j, NEW v \in Values \cup {Raw},
           NEW r, r = put(s, it, v)
    PROVE  /\ Chunks(r, n, lo, hi)
           /\ r.map = s.map /\ r.start = s.start /\ r.finish = s.finish
           /\ \A k \in lo .. hi, l \in Places :
                Cell(r, k, l) = IF k = i /\ l = j THEN v ELSE Cell(s, k, l)
<1> DEFINE h == [s.heap EXCEPT ![s.map[i]] = [s.heap[s.map[i]] EXCEPT ![j] = v]]
<1>1. r = [map |-> s.map, heap |-> h, start |-> s.start, finish |-> s.finish]
  BY Zenon DEF put, Chunks
<1>2. /\ s.map \in [0 .. n - 1 -> Nat] /\ {n, lo, hi} \subseteq Nat /\ lo <= hi /\ hi < n
      /\ DOMAIN s.heap = { s.map[k] : k \in lo .. hi }
      /\ \A k \in lo .. hi : /\ s.map[k] > 0
                             /\ s.heap[s.map[k]] \in [Places -> Values \cup {Raw}]
      /\ \A k, l \in lo .. hi : s.map[k] = s.map[l] => k = l
  BY Zenon DEF Chunks, Places
<1>3. DOMAIN h = DOMAIN s.heap
  BY Zenon
<1>4. \A k \in lo .. hi : s.map[k] \in DOMAIN s.heap
  BY <1>2, Zenon
<1>5. \A k \in lo .. hi : h[s.map[k]] = IF k = i THEN [s.heap[s.map[i]] EXCEPT ![j] = v] ELSE s.heap[s.map[k]]
  BY <1>2, <1>4, Zenon
<1>6. \A k \in lo .. hi : h[s.map[k]] \in [Places -> Values \cup {Raw}]
  BY <1>2, <1>5, Zenon
<1>7. \A k \in lo .. hi, l \in Places : h[s.map[k]][l] = IF k = i /\ l = j THEN v ELSE s.heap[s.map[k]][l]
  BY <1>2, <1>5, Zenon
<1> HIDE DEF h
<1>8. r.map = s.map /\ r.heap = h /\ r.start = s.start /\ r.finish = s.finish
  BY <1>1
<1>9. Chunks(r, n, lo, hi)
  BY <1>1, <1>2, <1>3, <1>6, <1>8 DEF Chunks, Places
<1> QED BY <1>7, <1>8, <1>9 DEF Cell

\* What the deque needs to know of counting, which ContainersProofs proves: the chunks are as
\* many as the nodes that have one, the map has n nodes, and a new chunk is none of those there
\* are.
Counting ==
    \A s, n, lo, hi : Chunks(s, n, lo, hi) =>
        /\ Cardinality(DOMAIN s.heap) = hi - lo + 1 /\ Cardinality(DOMAIN s.map) = n
        /\ FreeChunk(s.heap) \in Nat \ {0} /\ FreeChunk(s.heap) \notin DOMAIN s.heap

\* Counting, for one deque.
LEMMA Counted ==
    ASSUME Counting, NEW s, NEW n, NEW lo, NEW hi, Chunks(s, n, lo, hi)
    PROVE  /\ Cardinality(DOMAIN s.heap) = hi - lo + 1 /\ Cardinality(DOMAIN s.map) = n
           /\ FreeChunk(s.heap) \in Nat \ {0} /\ FreeChunk(s.heap) \notin DOMAIN s.heap
  BY Zenon DEF Counting

\* A deque with chunks is not moved from.
LEMMA HasMap == ASSUME NEW s, NEW n, NEW lo, NEW hi, Chunks(s, n, lo, hi) PROVE s.map # << >>
<1>1. s.map \in [0 .. n - 1 -> Nat] /\ {n, hi} \subseteq Nat /\ hi < n
  BY Zenon DEF Chunks
<1>2. DOMAIN s.map = 0 .. n - 1 /\ 0 \in 0 .. n - 1
  BY <1>1
<1>3. DOMAIN s.map # {}
  BY <1>2, Zenon
<1> QED BY <1>3

\* A new chunk for the node before or behind those that have one.
LEMMA AddedChunk ==
    ASSUME Counting, NEW s, NEW n, NEW lo, NEW hi, Chunks(s, n, lo, hi), NEW i \in 0 .. n - 1, NEW lo2, NEW hi2,
           \/ lo2 = lo /\ hi2 = hi + 1 /\ i = hi + 1
           \/ lo2 = lo - 1 /\ hi2 = hi /\ i = lo - 1,
           NEW r, r = NewChunk(s, i)
    PROVE  /\ Chunks(r, n, lo2, hi2) /\ r.start = s.start /\ r.finish = s.finish
           /\ \A k \in 0 .. n - 1 : k # i => r.map[k] = s.map[k]
           /\ \A l \in Places : Cell(r, i, l) = Raw
           /\ \A k \in lo .. hi, l \in Places : Cell(r, k, l) = Cell(s, k, l)
<1> DEFINE c == FreeChunk(s.heap)
           m == [s.map EXCEPT ![i] = c]
           h == [x \in DOMAIN s.heap \cup {c} |-> IF x \in DOMAIN s.heap THEN s.heap[x] ELSE RawChunk]
<1>1. r = [map |-> m, heap |-> h, start |-> s.start, finish |-> s.finish]
  <2>1. s = [map |-> s.map, heap |-> s.heap, start |-> s.start, finish |-> s.finish]
    BY Zenon DEF Chunks
  <2>2. r = [s EXCEPT !.map = m, !.heap = h]
    BY <2>1, Zenon DEF NewChunk, allocate
  <2> HIDE DEF m, h
  <2> QED BY <2>1, <2>2, Zenon
<1>2. /\ s.map \in [0 .. n - 1 -> Nat] /\ {n, lo, hi} \subseteq Nat /\ lo <= hi /\ hi < n
      /\ DOMAIN s.heap = { s.map[k] : k \in lo .. hi }
      /\ \A k \in lo .. hi : /\ s.map[k] > 0
                             /\ s.heap[s.map[k]] \in [Places -> Values \cup {Raw}]
      /\ \A k, l \in lo .. hi : s.map[k] = s.map[l] => k = l
  BY Zenon DEF Chunks, Places
<1>3. c \in Nat \ {0} /\ c \notin DOMAIN s.heap
  BY Counted, Zenon
<1> HIDE DEF c
<1>4. /\ {lo2, hi2} \subseteq Nat /\ lo2 <= hi2 /\ hi2 < n
      /\ lo2 .. hi2 = (lo .. hi) \cup {i} /\ i \notin lo .. hi
  BY <1>2
<1>5. m \in [0 .. n - 1 -> Nat] /\ m[i] = c /\ \A k \in 0 .. n - 1 : k # i => m[k] = s.map[k]
  BY <1>2, <1>3, Zenon
<1>6. \A k \in lo .. hi : k # i /\ k \in 0 .. n - 1 /\ s.map[k] \in DOMAIN s.heap
  BY <1>2, <1>4
<1> HIDE DEF m
<1>7. \A k \in lo .. hi : m[k] = s.map[k] /\ h[m[k]] = s.heap[s.map[k]]
  BY <1>5, <1>6, Zenon
<1>8. h[m[i]] = RawChunk /\ DOMAIN h = DOMAIN s.heap \cup {c}
  BY <1>3, <1>5, Zenon
<1> HIDE DEF h
<1>9. DOMAIN h = { m[k] : k \in lo2 .. hi2 }
  <2>1. \A k \in lo2 .. hi2 : m[k] \in DOMAIN h
    BY <1>4, <1>5, <1>6, <1>7, <1>8, Zenon
  <2>2. ASSUME NEW x \in DOMAIN h PROVE \E k \in lo2 .. hi2 : x = m[k]
    <3>1. CASE x = c
      BY <1>4, <1>5, <3>1, Zenon
    <3>2. CASE x \in DOMAIN s.heap
      <4>1. PICK k \in lo .. hi : x = s.map[k]
        BY <1>2, <3>2
      <4> QED BY <1>4, <1>7, <4>1, Zenon
    <3> QED BY <1>8, <3>1, <3>2, Zenon
  <2> QED BY <2>1, <2>2, Zenon
<1>10. RawChunk \in [Places -> Values \cup {Raw}] /\ \A l \in Places : RawChunk[l] = Raw
  BY Zenon DEF RawChunk, Places
<1>11. \A k \in lo2 .. hi2 : m[k] > 0 /\ h[m[k]] \in [Places -> Values \cup {Raw}]
  <2>1. m[i] > 0 /\ h[m[i]] \in [Places -> Values \cup {Raw}]
    BY <1>3, <1>5, <1>8, <1>10
  <2>2. \A k \in lo .. hi : m[k] > 0 /\ h[m[k]] \in [Places -> Values \cup {Raw}]
    BY <1>2, <1>7, Zenon
  <2> QED BY <1>4, <2>1, <2>2, Zenon
<1>12. \A k, l \in lo2 .. hi2 : m[k] = m[l] => k = l
  BY <1>2, <1>3, <1>4, <1>5, <1>6, <1>7, Zenon
<1>13. r.map = m /\ r.heap = h /\ r.start = s.start /\ r.finish = s.finish
  BY <1>1
<1>14. Chunks(r, n, lo2, hi2)
  BY <1>1, <1>2, <1>4, <1>5, <1>9, <1>11, <1>12, <1>13 DEF Chunks, Places
<1>15. \A l \in Places : Cell(r, i, l) = Raw
  BY <1>8, <1>10, <1>13, Zenon DEF Cell
<1>16. \A k \in lo .. hi, l \in Places : Cell(r, k, l) = Cell(s, k, l)
  BY <1>7, <1>13, Zenon DEF Cell
<1> QED BY <1>5, <1>13, <1>14, <1>15, <1>16, Zenon

\* The first or the last chunk is freed.
LEMMA DroppedChunk ==
    ASSUME NEW s, NEW n, NEW lo, NEW hi, Chunks(s, n, lo, hi), lo < hi, NEW it, NEW lo2, NEW hi2,
           it.first = s.map[it.node],
           \/ lo2 = lo /\ hi2 = hi - 1 /\ it.node = hi
           \/ lo2 = lo + 1 /\ hi2 = hi /\ it.node = lo,
           NEW r, r = deallocate(s, it)
    PROVE  /\ Chunks(r, n, lo2, hi2) /\ r.start = s.start /\ r.finish = s.finish
           /\ \A k \in lo2 .. hi2 : r.map[k] = s.map[k]
           /\ \A k \in lo2 .. hi2, l \in Places : Cell(r, k, l) = Cell(s, k, l)
<1> DEFINE i == it.node
           m == [s.map EXCEPT ![i] = 0]
           h == [x \in DOMAIN s.heap \ {it.first} |-> s.heap[x]]
<1>1. r = [map |-> m, heap |-> h, start |-> s.start, finish |-> s.finish]
  <2>1. s = [map |-> s.map, heap |-> s.heap, start |-> s.start, finish |-> s.finish]
    BY Zenon DEF Chunks
  <2>2. r = [s EXCEPT !.map = m, !.heap = h]
    BY <2>1, Zenon DEF deallocate
  <2> HIDE DEF m, h
  <2> QED BY <2>1, <2>2, Zenon
<1>2. /\ s.map \in [0 .. n - 1 -> Nat] /\ {n, lo, hi} \subseteq Nat /\ lo <= hi /\ hi < n
      /\ DOMAIN s.heap = { s.map[k] : k \in lo .. hi }
      /\ \A k \in lo .. hi : /\ s.map[k] > 0
                             /\ s.heap[s.map[k]] \in [Places -> Values \cup {Raw}]
      /\ \A k, l \in lo .. hi : s.map[k] = s.map[l] => k = l
  BY Zenon DEF Chunks, Places
<1>4. /\ {lo2, hi2} \subseteq Nat /\ lo2 <= hi2 /\ hi2 < n
      /\ lo2 .. hi2 = (lo .. hi) \ {i} /\ i \in lo .. hi /\ i \in 0 .. n - 1
  BY <1>2
<1>5. m \in [0 .. n - 1 -> Nat] /\ \A k \in 0 .. n - 1 : k # i => m[k] = s.map[k]
  BY <1>2, Zenon
<1> HIDE DEF m
<1>6. \A k \in lo2 .. hi2 : k \in lo .. hi /\ k # i /\ k \in 0 .. n - 1
  BY <1>2, <1>4
<1>7. \A k \in lo2 .. hi2 : m[k] = s.map[k] /\ s.map[k] # it.first /\ s.map[k] \in DOMAIN s.heap
  BY <1>2, <1>4, <1>5, <1>6, Zenon
<1>8. DOMAIN h = DOMAIN s.heap \ {it.first} /\ \A k \in lo2 .. hi2 : h[m[k]] = s.heap[s.map[k]]
  BY <1>7, Zenon
<1> HIDE DEF h
<1>9. DOMAIN h = { m[k] : k \in lo2 .. hi2 }
  <2>1. \A k \in lo2 .. hi2 : m[k] \in DOMAIN h
    BY <1>7, <1>8, Zenon
  <2>2. ASSUME NEW x \in DOMAIN h PROVE \E k \in lo2 .. hi2 : x = m[k]
    <3>1. PICK k \in lo .. hi : x = s.map[k]
      BY <1>2, <1>8, Zenon
    <3>2. k \in lo2 .. hi2
      BY <1>4, <1>8, <3>1, Zenon
    <3> QED BY <1>7, <3>1, <3>2, Zenon
  <2> QED BY <2>1, <2>2, Zenon
<1>10. \A k \in lo2 .. hi2 : m[k] > 0 /\ h[m[k]] \in [Places -> Values \cup {Raw}]
  BY <1>2, <1>6, <1>7, <1>8, Zenon
<1>11. \A k, l \in lo2 .. hi2 : m[k] = m[l] => k = l
  BY <1>2, <1>6, <1>7
<1>13. r.map = m /\ r.heap = h /\ r.start = s.start /\ r.finish = s.finish
  BY <1>1
<1>14. Chunks(r, n, lo2, hi2)
  BY <1>1, <1>2, <1>4, <1>5, <1>9, <1>10, <1>11, <1>13 DEF Chunks, Places
<1>16. \A k \in lo2 .. hi2, l \in Places : Cell(r, k, l) = Cell(s, k, l)
  BY <1>8, <1>13, Zenon DEF Cell
<1> QED BY <1>7, <1>13, <1>14, <1>16, Zenon

\* The map moves to one of twice the size, with room at both ends.
LEMMA MovedMap ==
    ASSUME Counting, NEW s, NEW n, NEW lo, NEW hi, Chunks(s, n, lo, hi), n >= 3,
           s.start.node = lo, s.finish.node = hi,
           NEW r, r = reallocate_map(s)
    PROVE  \E e \in Int :
             /\ Chunks(r, 2 * n, lo + e, hi + e) /\ lo + e > 0 /\ hi + e + 1 < 2 * n
             /\ r.start = At(r.map, lo + e, s.start.cur)
             /\ r.finish = At(r.map, hi + e, s.finish.cur)
             /\ \A k \in lo .. hi, l \in Places : Cell(r, k + e, l) = Cell(s, k, l)
<1> DEFINE b == ((2 * n) - (hi - lo)) \div 2
           e == b - lo
           m == [k \in 0 .. (2 * n) - 1 |-> IF k \in b .. b + (hi - lo) THEN s.map[lo + k - b] ELSE 0]
<1>2. /\ s.map \in [0 .. n - 1 -> Nat] /\ {n, lo, hi} \subseteq Nat /\ lo <= hi /\ hi < n
      /\ DOMAIN s.heap = { s.map[k] : k \in lo .. hi }
      /\ \A k \in lo .. hi : /\ s.map[k] > 0
                             /\ s.heap[s.map[k]] \in [Places -> Values \cup {Raw}]
      /\ \A k, l \in lo .. hi : s.map[k] = s.map[l] => k = l
  BY Zenon DEF Chunks, Places
<1>3. Cardinality(DOMAIN s.map) = n
  BY Counted, Zenon
<1>4. b \in Nat /\ b > 0 /\ b + (hi - lo) + 1 < 2 * n
  BY <1>2
<1>0. DOMAIN m = 0 .. (2 * n) - 1 /\ b \in DOMAIN m /\ b + (hi - lo) \in DOMAIN m
  <2>1. DOMAIN m = 0 .. (2 * n) - 1
    BY Zenon
  <2> HIDE DEF m, b
  <2> QED BY <1>2, <1>4, <2>1
<1>5. set_node(m, b, s.start.cur) = At(m, b, s.start.cur)
  BY <1>0, Zenon DEF set_node, At
<1>6. set_node(m, b + (hi - lo), s.finish.cur) = At(m, b + (hi - lo), s.finish.cur)
  BY <1>0, Zenon DEF set_node, At
<1>1. r = [map |-> m, heap |-> s.heap, start |-> At(m, b, s.start.cur),
           finish |-> At(m, b + (hi - lo), s.finish.cur)]
  <2>1. s = [map |-> s.map, heap |-> s.heap, start |-> s.start, finish |-> s.finish]
    BY Zenon DEF Chunks
  <2>2. r = [s EXCEPT !.map = m, !.start = set_node(m, b, s.start.cur),
                      !.finish = set_node(m, b + (hi - lo), s.finish.cur)]
    BY <1>3, Zenon DEF reallocate_map
  <2> HIDE DEF m, b
  <2> QED BY <1>5, <1>6, <2>1, <2>2, Zenon
<1> HIDE DEF b
<1>7. e \in Int /\ lo + e = b /\ hi + e = b + (hi - lo)
  BY <1>2, <1>4
<1>8. m \in [0 .. (2 * n) - 1 -> Nat]
  <2>1. \A k \in b .. b + (hi - lo) : lo + k - b \in 0 .. n - 1
    BY <1>2, <1>4
  <2>2. \A k \in b .. b + (hi - lo) : s.map[lo + k - b] \in Nat
    BY <1>2, <2>1, Zenon
  <2> QED BY <2>2, Zenon
<1>9. \A k \in lo + e .. hi + e : m[k] = s.map[k - e] /\ k - e \in lo .. hi
  <2> SUFFICES ASSUME NEW k \in lo + e .. hi + e PROVE m[k] = s.map[k - e] /\ k - e \in lo .. hi
    BY Zenon
  <2>1. k \in b .. b + (hi - lo) /\ k \in 0 .. (2 * n) - 1 /\ lo + k - b = k - e /\ k - e \in lo .. hi
    BY <1>2, <1>4
  <2>2. m[k] = s.map[lo + k - b]
    BY <2>1, Zenon
  <2> QED BY <2>1, <2>2, Zenon
<1>10. \A k \in lo .. hi : m[k + e] = s.map[k] /\ k + e \in lo + e .. hi + e
  <2> SUFFICES ASSUME NEW k \in lo .. hi PROVE m[k + e] = s.map[k] /\ k + e \in lo + e .. hi + e
    BY Zenon
  <2>1. /\ k + e \in b .. b + (hi - lo) /\ k + e \in 0 .. (2 * n) - 1 /\ lo + (k + e) - b = k
        /\ k + e \in lo + e .. hi + e
    BY <1>2, <1>4
  <2>2. m[k + e] = s.map[lo + (k + e) - b]
    BY <2>1, Zenon
  <2> QED BY <2>1, <2>2, Zenon
<1>11. r.map = m /\ r.heap = s.heap
  BY <1>1
<1>12. r.start = At(m, lo + e, s.start.cur) /\ r.finish = At(m, hi + e, s.finish.cur)
  BY <1>1, <1>7
<1> HIDE DEF m, e
<1>13. DOMAIN s.heap = { m[k] : k \in lo + e .. hi + e }
  <2>1. \A k \in lo + e .. hi + e : m[k] \in DOMAIN s.heap
    BY <1>2, <1>9
  <2>2. ASSUME NEW x \in DOMAIN s.heap PROVE \E k \in lo + e .. hi + e : x = m[k]
    BY <1>2, <1>10
  <2> QED BY <2>1, <2>2, Zenon
<1>15. \A k \in lo + e .. hi + e : m[k] > 0 /\ s.heap[m[k]] \in [Places -> Values \cup {Raw}]
  BY <1>2, <1>9, Zenon
<1>16. \A k, l \in lo + e .. hi + e : m[k] = m[l] => k = l
  <2> SUFFICES ASSUME NEW k \in lo + e .. hi + e, NEW l \in lo + e .. hi + e, m[k] = m[l] PROVE k = l
    BY Zenon
  <2>1. k - e = l - e
    BY <1>2, <1>9
  <2> QED BY <1>2, <1>7, <2>1
<1>14. Chunks(r, 2 * n, lo + e, hi + e)
  <2>1. 2 * n \in Nat /\ lo + e \in Nat /\ hi + e \in Nat /\ lo + e <= hi + e /\ hi + e < 2 * n
    BY <1>2, <1>4, <1>7
  <2>2. r = [map |-> r.map, heap |-> r.heap, start |-> r.start, finish |-> r.finish]
    BY <1>1, Zenon
  <2> DEFINE a == lo + e
             c == hi + e
             n2 == 2 * n
  <2>3. n2 \in Nat /\ a \in Nat /\ c \in Nat /\ a <= c /\ c < n2
    BY <2>1, Zenon
  <2>4. /\ m \in [0 .. n2 - 1 -> Nat] /\ DOMAIN s.heap = { m[k] : k \in a .. c }
        /\ \A k \in a .. c : m[k] > 0 /\ s.heap[m[k]] \in [Places -> Values \cup {Raw}]
        /\ \A k, l \in a .. c : m[k] = m[l] => k = l
    BY <1>8, <1>13, <1>15, <1>16, Zenon
  <2> HIDE DEF a, c, n2
  <2>5. Chunks(r, n2, a, c)
    BY <1>11, <2>2, <2>3, <2>4 DEF Chunks, Places
  <2> QED BY <2>5, Zenon DEF a, c, n2
<1>17. \A k \in lo .. hi, l \in Places : Cell(r, k + e, l) = Cell(s, k, l)
  BY <1>10, <1>11, Zenon DEF Cell
<1>18. lo + e > 0 /\ hi + e + 1 < 2 * n
  BY <1>2, <1>4, <1>7, Zenon
<1> QED BY <1>7, <1>11, <1>12, <1>14, <1>17, <1>18, Zenon

\* The chunks do not depend on the iterators.
LEMMA OtherIterators ==
    ASSUME NEW s, NEW n, NEW lo, NEW hi, Chunks(s, n, lo, hi), NEW a, NEW b, NEW r,
           r = [map |-> s.map, heap |-> s.heap, start |-> a, finish |-> b]
    PROVE  Chunks(r, n, lo, hi)
  BY Zenon DEF Chunks

-----------------------------------------------------------------------------
\* Where element k lies.
Node(s, k) == s.start.node + ((s.start.cur + k) \div ChunkSize)
Spot(s, k) == (s.start.cur + k) % ChunkSize
Item(s, k) == Cell(s, Node(s, k), Spot(s, k))

Live(s, i, j) == /\ i = s.start.node => j >= s.start.cur
                 /\ i = s.finish.node => j < s.finish.cur

\* What a whole deque is, spelled out.
LEMMA WholeFacts ==
    ASSUME NEW s, NEW n, Whole(s, n)
    PROVE  /\ Chunks(s, n, s.start.node, s.finish.node) /\ s.map # << >>
           /\ s.map \in [0 .. n - 1 -> Nat]
           /\ s = [map |-> s.map, heap |-> s.heap, start |-> s.start, finish |-> s.finish]
           /\ s.start.node \in Nat /\ s.finish.node \in Nat /\ n \in Nat
           /\ s.start.node <= s.finish.node /\ s.finish.node < n
           /\ s.start.cur \in Places /\ s.finish.cur \in Places
           /\ s.start.node = s.finish.node => s.start.cur <= s.finish.cur
           /\ s.start = At(s.map, s.start.node, s.start.cur)
           /\ s.finish = At(s.map, s.finish.node, s.finish.cur)
           /\ s.start.first = s.map[s.start.node] /\ s.finish.first = s.map[s.finish.node]
           /\ \A i \in s.start.node .. s.finish.node, j \in Places :
                 /\ Cell(s, i, j) # Raw <=> Live(s, i, j)
                 /\ Cell(s, i, j) \in Values \cup {Raw}
<1>1. Chunks(s, n, s.start.node, s.finish.node)
  BY Zenon DEF Whole
<1>2. s.map # << >>
  BY <1>1, HasMap, Zenon
<1>3. /\ s.start = At(s.map, s.start.node, s.start.cur)
      /\ s.finish = At(s.map, s.finish.node, s.finish.cur)
      /\ s.start.cur \in Places /\ s.finish.cur \in Places
      /\ s.start.node = s.finish.node => s.start.cur <= s.finish.cur
  BY Zenon DEF Whole, Places
<1>4. s.start.first = s.map[s.start.node] /\ s.finish.first = s.map[s.finish.node]
  BY <1>3 DEF At
<1>5. \A i \in s.start.node .. s.finish.node, j \in Places : Cell(s, i, j) # Raw <=> Live(s, i, j)
  BY Zenon DEF Whole, Cell, Live, Places
<1>6. \A i \in s.start.node .. s.finish.node, j \in Places : Cell(s, i, j) \in Values \cup {Raw}
  BY <1>1, Zenon DEF Chunks, Cell, Places
<1>7. /\ s.map \in [0 .. n - 1 -> Nat]
      /\ s = [map |-> s.map, heap |-> s.heap, start |-> s.start, finish |-> s.finish]
      /\ s.start.node \in Nat /\ s.finish.node \in Nat /\ n \in Nat
      /\ s.start.node <= s.finish.node /\ s.finish.node < n
  BY <1>1, Zenon DEF Chunks
<1> QED BY <1>1, <1>2, <1>3, <1>4, <1>5, <1>6, <1>7, Zenon

\* How to show that a deque is whole.
LEMMA MakeWhole ==
    ASSUME NEW s, NEW n, NEW a, NEW b, NEW i \in Places, NEW j \in Places,
           Chunks(s, n, a, b), s.start = At(s.map, a, i), s.finish = At(s.map, b, j), a = b => i <= j,
           \A k \in a .. b, l \in Places :
              Cell(s, k, l) # Raw <=> (k = a => l >= i) /\ (k = b => l < j)
    PROVE  Whole(s, n)
<1>1. /\ s.start.node = a /\ s.start.cur = i /\ s.finish.node = b /\ s.finish.cur = j
  BY DEF At
<1> QED BY <1>1, Zenon DEF Whole, Places, Cell

\* size() is what lies between the iterators.
LEMMA Sized ==
    ASSUME NEW s, NEW n, Whole(s, n)
    PROVE  /\ size(s) \in Nat /\ s.finish.node - s.start.node \in Nat
           /\ s.start.cur + size(s) = ChunkSize * (s.finish.node - s.start.node) + s.finish.cur
<1> DEFINE p == s.finish.node - s.start.node
           i == s.start.cur
           j == s.finish.cur
<1>1. p \in Nat /\ i \in Places /\ j \in Places /\ s.map # << >> /\ (p = 0 => i <= j)
  BY WholeFacts
<1>2. size(s) = ChunkSize * p + j - i
  BY <1>1, Zenon DEF size
<1> HIDE DEF p, i, j
<1>3. ChunkSize * p \in Nat
  BY <1>1, ChunkSizes
<1>4. ChunkSize * p + j - i >= 0
  <2>1. CASE p = 0
    BY <1>1, <2>1, ChunkSizes DEF Places
  <2>2. CASE p > 0
    <3>1. ChunkSize * p >= ChunkSize
      <4>1. (ChunkSize * 0) + ChunkSize <= ChunkSize * p
        BY <1>1, <2>2, ChunkSizes, Times, Zenon
      <4> QED BY <1>3, <4>1, ChunkSizes
    <3> QED BY <1>1, <1>3, <3>1, ChunkSizes DEF Places
  <2> QED BY <1>1, <2>1, <2>2
<1>5. size(s) \in Nat /\ i + size(s) = ChunkSize * p + j
  BY <1>1, <1>2, <1>3, <1>4, ChunkSizes DEF Places
<1> QED BY <1>1, <1>5, Zenon DEF p, i, j

\* An element lies where its number says.
LEMMA Spotted ==
    ASSUME NEW s, NEW n, Whole(s, n), NEW k \in Nat, NEW q \in Nat, NEW j \in Places,
           s.start.cur + k = ChunkSize * q + j
    PROVE  Node(s, k) = s.start.node + q /\ Spot(s, k) = j
<1>1. (ChunkSize * q + j) \div ChunkSize = q /\ (ChunkSize * q + j) % ChunkSize = j
  BY Quotient, ChunkSizes, Zenon DEF Places
<1> QED BY <1>1, Zenon DEF Node, Spot

\* Every element, and the place behind the last, lies in a chunk of the deque.
LEMMA Located ==
    ASSUME NEW s, NEW n, Whole(s, n), NEW k \in 0 .. size(s)
    PROVE  \E q \in Nat, j \in Places :
              /\ s.start.cur + k = ChunkSize * q + j
              /\ Node(s, k) = s.start.node + q /\ Spot(s, k) = j
              /\ Node(s, k) \in s.start.node .. s.finish.node
              /\ k < size(s) => Live(s, Node(s, k), j)
              /\ k = size(s) => Node(s, k) = s.finish.node /\ j = s.finish.cur
<1> DEFINE x == s.start.cur + k
           q == x \div ChunkSize
           j == x % ChunkSize
           p == s.finish.node - s.start.node
           a == s.start.node
           i == s.start.cur
           l == s.finish.cur
<1>0. /\ a \in Nat /\ s.finish.node \in Nat /\ i \in Places /\ l \in Places
  BY WholeFacts, Zenon
<1>1. size(s) \in Nat /\ p \in Nat /\ i + size(s) = ChunkSize * p + l
  BY Sized, Zenon
<1>2. x \in Nat /\ k \in Nat /\ i \in Nat /\ l \in Nat
  BY <1>0, <1>1, ChunkSizes DEF Places
<1>3. q \in Nat /\ j \in Places /\ x = ChunkSize * q + j
  BY <1>2, ChunkSizes, Divided, Zenon DEF Places
<1>4. Node(s, k) = a + q /\ Spot(s, k) = j
  BY Zenon DEF Node, Spot
<1>5. x <= ChunkSize * p + l /\ (k < size(s) => x < ChunkSize * p + l)
  BY <1>1, <1>2
<1> HIDE DEF q, j, p
<1>6. ChunkSize * q \in Nat /\ ChunkSize * p \in Nat
  BY <1>1, <1>3, ChunkSizes
<1>7. ChunkSize * p + l < ChunkSize * q + j <=> p < q \/ (p = q /\ l < j)
  BY <1>0, <1>1, <1>3, ChunkSizes, Before DEF Places
<1>8. ChunkSize * q + j < ChunkSize * p + l <=> q < p \/ (q = p /\ j < l)
  BY <1>0, <1>1, <1>3, ChunkSizes, Before DEF Places
<1>9. q <= p /\ (k < size(s) => q < p \/ (q = p /\ j < l)) /\ (k = size(s) => q = p /\ j = l)
  <2>1. q \in Nat /\ p \in Nat /\ j \in Nat /\ l \in Nat
    BY <1>1, <1>2, <1>3, ChunkSizes DEF Places
  <2>2. ~(p < q \/ (p = q /\ l < j))
    BY <1>3, <1>5, <1>6, <1>7, <2>1
  <2>3. ASSUME k = size(s) PROVE q = p /\ j = l
    <3>1. ChunkSize * q + j = ChunkSize * p + l
      BY <1>1, <1>3, <2>3, Zenon
    <3>2. ~(q < p \/ (q = p /\ j < l))
      BY <1>6, <1>8, <3>1, <2>1
    <3> QED BY <2>1, <2>2, <3>2
  <2> QED BY <1>3, <1>5, <1>8, <2>1, <2>2, <2>3
<1>10. q = 0 => j >= i
  BY <1>2, <1>3, ChunkSizes DEF Places
<1>11. Node(s, k) \in a .. s.finish.node /\ (k = size(s) => Node(s, k) = s.finish.node)
  BY <1>0, <1>3, <1>4, <1>9 DEF p
<1>12. k < size(s) => Live(s, Node(s, k), j)
  BY <1>0, <1>2, <1>3, <1>4, <1>9, <1>10 DEF p, Live
<1> QED BY <1>3, <1>4, <1>9, <1>11, <1>12, Zenon

\* What lies between the iterators are elements.
LEMMA ItemValue ==
    ASSUME NEW s, NEW n, Whole(s, n), NEW k \in 0 .. size(s) - 1
    PROVE  Item(s, k) \in Values
<1>1. k \in 0 .. size(s) /\ k < size(s)
  BY Sized
<1>2. PICK j \in Places : /\ Spot(s, k) = j /\ Node(s, k) \in s.start.node .. s.finish.node
                          /\ Live(s, Node(s, k), j)
  BY <1>1, Located, Zenon
<1> QED BY <1>2, WholeFacts, Zenon DEF Item

-----------------------------------------------------------------------------
\* Another chunk behind the last one, in a new map if the old one ends there.
LEMMA RoomBehind ==
    ASSUME Counting, NEW s, NEW n, NEW lo, NEW hi, Chunks(s, n, lo, hi), n >= 3, NEW i, NEW j,
           s.start = At(s.map, lo, i), s.finish = At(s.map, hi, j),
           NEW r, r = add_back_capacity(s)
    PROVE  \E e \in Int, n2 \in Nat :
             /\ n2 >= 3 /\ Chunks(r, n2, lo + e, hi + e + 1)
             /\ r.start = At(r.map, lo + e, i) /\ r.finish = At(r.map, hi + e, j)
             /\ \A k \in lo .. hi, l \in Places : Cell(r, k + e, l) = Cell(s, k, l)
             /\ \A l \in Places : Cell(r, hi + e + 1, l) = Raw
<1> DEFINE t == IF s.finish.node + 1 = Cardinality(DOMAIN s.map) THEN reallocate_map(s) ELSE s
<1>1. {n, lo, hi} \subseteq Nat /\ lo <= hi /\ hi < n
  BY Zenon DEF Chunks
<1>2. s.start.node = lo /\ s.finish.node = hi /\ s.start.cur = i /\ s.finish.cur = j
  BY DEF At
<1>3. Cardinality(DOMAIN s.map) = n
  BY Counted, Zenon
<1>4. \E e \in Int, n2 \in Nat :
         /\ n2 >= 3 /\ Chunks(t, n2, lo + e, hi + e) /\ hi + e + 1 < n2
         /\ t.start = At(t.map, lo + e, i) /\ t.finish = At(t.map, hi + e, j)
         /\ \A k \in lo .. hi, l \in Places : Cell(t, k + e, l) = Cell(s, k, l)
  <2>1. CASE hi + 1 = n
    <3>1. t = reallocate_map(s)
      BY <1>2, <1>3, <2>1, Zenon
    <3>2. 2 * n \in Nat /\ 2 * n >= 3
      BY <1>1
    <3> HIDE DEF t
    <3> QED BY <1>2, <3>1, <3>2, MovedMap
  <2>2. CASE hi + 1 # n
    <3>1. t = s
      BY <1>2, <1>3, <2>2, Zenon
    <3>2. 0 \in Int /\ n \in Nat /\ lo + 0 = lo /\ hi + 0 = hi /\ hi + 0 + 1 < n /\ \A k \in lo .. hi : k + 0 = k
      BY <1>1, <2>2
    <3> HIDE DEF t
    <3>3. \A k \in lo .. hi, l \in Places : Cell(t, k + 0, l) = Cell(s, k, l)
      BY <3>1, <3>2, Zenon
    <3>4. Chunks(t, n, lo + 0, hi + 0) /\ t.start = At(t.map, lo + 0, i) /\ t.finish = At(t.map, hi + 0, j)
      BY <3>1, <3>2, Zenon
    <3> QED BY <3>2, <3>3, <3>4, Zenon
  <2> QED BY <2>1, <2>2, Zenon
<1>5. PICK e \in Int, n2 \in Nat :
         /\ n2 >= 3 /\ Chunks(t, n2, lo + e, hi + e) /\ hi + e + 1 < n2
         /\ t.start = At(t.map, lo + e, i) /\ t.finish = At(t.map, hi + e, j)
         /\ \A k \in lo .. hi, l \in Places : Cell(t, k + e, l) = Cell(s, k, l)
  BY <1>4, Zenon
<1>6. r = NewChunk(t, t.finish.node + 1)
  BY Zenon DEF add_back_capacity
<1> HIDE DEF t
<1>7. {lo + e, hi + e} \subseteq Nat
  BY <1>5, Zenon DEF Chunks
<1>8. t.finish.node + 1 = hi + e + 1 /\ hi + e + 1 \in 0 .. n2 - 1
  BY <1>1, <1>5, <1>7 DEF At
<1>9. /\ Chunks(r, n2, lo + e, hi + e + 1) /\ r.start = t.start /\ r.finish = t.finish
      /\ \A k \in 0 .. n2 - 1 : k # hi + e + 1 => r.map[k] = t.map[k]
      /\ \A l \in Places : Cell(r, hi + e + 1, l) = Raw
      /\ \A k \in lo + e .. hi + e, l \in Places : Cell(r, k, l) = Cell(t, k, l)
  BY <1>5, <1>6, <1>8, AddedChunk
<1>10. /\ lo + e \in 0 .. n2 - 1 /\ hi + e \in 0 .. n2 - 1
       /\ lo + e # hi + e + 1 /\ hi + e # hi + e + 1
       /\ \A k \in lo .. hi : k + e \in lo + e .. hi + e
  BY <1>1, <1>7, <1>8
<1>11. r.start = At(r.map, lo + e, i) /\ r.finish = At(r.map, hi + e, j)
  BY <1>5, <1>9, <1>10, Zenon DEF At
<1>12. \A k \in lo .. hi, l \in Places : Cell(r, k + e, l) = Cell(s, k, l)
  BY <1>5, <1>9, <1>10, Zenon
<1> QED BY <1>5, <1>9, <1>11, <1>12, Zenon

\* Another chunk before the first one, in a new map if the old one begins there.
LEMMA RoomBefore ==
    ASSUME Counting, NEW s, NEW n, NEW lo, NEW hi, Chunks(s, n, lo, hi), n >= 3, NEW i, NEW j,
           s.start = At(s.map, lo, i), s.finish = At(s.map, hi, j),
           NEW r, r = add_front_capacity(s)
    PROVE  \E e \in Int, n2 \in Nat :
             /\ n2 >= 3 /\ Chunks(r, n2, (lo - 1) + e, hi + e)
             /\ r.start = At(r.map, lo + e, i) /\ r.finish = At(r.map, hi + e, j)
             /\ \A k \in lo .. hi, l \in Places : Cell(r, k + e, l) = Cell(s, k, l)
             /\ \A l \in Places : Cell(r, (lo - 1) + e, l) = Raw
<1> DEFINE t == IF s.start.node = 0 THEN reallocate_map(s) ELSE s
<1>1. {n, lo, hi} \subseteq Nat /\ lo <= hi /\ hi < n
  BY Zenon DEF Chunks
<1>2. s.start.node = lo /\ s.finish.node = hi /\ s.start.cur = i /\ s.finish.cur = j
  BY DEF At
<1>4. \E e \in Int, n2 \in Nat :
         /\ n2 >= 3 /\ Chunks(t, n2, lo + e, hi + e) /\ lo + e > 0
         /\ t.start = At(t.map, lo + e, i) /\ t.finish = At(t.map, hi + e, j)
         /\ \A k \in lo .. hi, l \in Places : Cell(t, k + e, l) = Cell(s, k, l)
  <2>1. CASE lo = 0
    <3>1. t = reallocate_map(s)
      BY <1>2, <2>1, Zenon
    <3>2. 2 * n \in Nat /\ 2 * n >= 3
      BY <1>1
    <3> HIDE DEF t
    <3> QED BY <1>2, <3>1, <3>2, MovedMap
  <2>2. CASE lo # 0
    <3>1. t = s
      BY <1>2, <2>2, Zenon
    <3>2. 0 \in Int /\ n \in Nat /\ lo + 0 = lo /\ hi + 0 = hi /\ lo + 0 > 0 /\ \A k \in lo .. hi : k + 0 = k
      BY <1>1, <2>2
    <3> HIDE DEF t
    <3>3. \A k \in lo .. hi, l \in Places : Cell(t, k + 0, l) = Cell(s, k, l)
      BY <3>1, <3>2, Zenon
    <3>4. Chunks(t, n, lo + 0, hi + 0) /\ t.start = At(t.map, lo + 0, i) /\ t.finish = At(t.map, hi + 0, j)
      BY <3>1, <3>2, Zenon
    <3> QED BY <3>2, <3>3, <3>4, Zenon
  <2> QED BY <2>1, <2>2, Zenon
<1>5. PICK e \in Int, n2 \in Nat :
         /\ n2 >= 3 /\ Chunks(t, n2, lo + e, hi + e) /\ lo + e > 0
         /\ t.start = At(t.map, lo + e, i) /\ t.finish = At(t.map, hi + e, j)
         /\ \A k \in lo .. hi, l \in Places : Cell(t, k + e, l) = Cell(s, k, l)
  BY <1>4, Zenon
<1>6. r = NewChunk(t, t.start.node - 1)
  BY Zenon DEF add_front_capacity
<1> HIDE DEF t
<1>7. {lo + e, hi + e} \subseteq Nat /\ hi + e < n2 /\ lo + e <= hi + e
  BY <1>5, Zenon DEF Chunks
<1>8. t.start.node - 1 = lo + e - 1 /\ lo + e - 1 \in 0 .. n2 - 1
  BY <1>1, <1>5, <1>7 DEF At
<1>9. /\ Chunks(r, n2, lo + e - 1, hi + e) /\ r.start = t.start /\ r.finish = t.finish
      /\ \A k \in 0 .. n2 - 1 : k # lo + e - 1 => r.map[k] = t.map[k]
      /\ \A l \in Places : Cell(r, lo + e - 1, l) = Raw
      /\ \A k \in lo + e .. hi + e, l \in Places : Cell(r, k, l) = Cell(t, k, l)
  <2> DEFINE a == lo + e
             b == hi + e
             c == lo + e - 1
  <2>1. c \in 0 .. n2 - 1 /\ c = a - 1
    BY <1>1, <1>8
  <2>3. r = NewChunk(t, c)
    BY <1>6, <1>8, Zenon
  <2>4. Chunks(t, n2, a, b)
    BY <1>5, Zenon
  <2> HIDE DEF a, b, c
  <2>2. /\ Chunks(r, n2, c, b) /\ r.start = t.start /\ r.finish = t.finish
        /\ \A k \in 0 .. n2 - 1 : k # c => r.map[k] = t.map[k]
        /\ \A l \in Places : Cell(r, c, l) = Raw
        /\ \A k \in a .. b, l \in Places : Cell(r, k, l) = Cell(t, k, l)
    BY <2>1, <2>3, <2>4, AddedChunk
  <2> QED BY <2>2, Zenon DEF a, b, c
<1>10. /\ lo + e \in 0 .. n2 - 1 /\ hi + e \in 0 .. n2 - 1
       /\ lo + e # lo + e - 1 /\ hi + e # lo + e - 1
       /\ \A k \in lo .. hi : k + e \in lo + e .. hi + e
  BY <1>1, <1>7
<1>11. r.start = At(r.map, lo + e, i) /\ r.finish = At(r.map, hi + e, j)
  BY <1>5, <1>9, <1>10, Zenon DEF At
<1>12. \A k \in lo .. hi, l \in Places : Cell(r, k + e, l) = Cell(s, k, l)
  BY <1>5, <1>9, <1>10, Zenon
<1>13. lo + e - 1 = (lo - 1) + e
  BY <1>1
<1> QED BY <1>13, <1>5, <1>9, <1>11, <1>12

-----------------------------------------------------------------------------
\* A deque that begins where another begins, e nodes on, and holds the same there.
LEMMA SameItem ==
    ASSUME NEW s, NEW n, Whole(s, n), NEW r, NEW n2, Whole(r, n2), NEW e \in Int,
           NEW k \in 0 .. size(s) - 1,
           r.start.node = s.start.node + e, r.start.cur = s.start.cur,
           Cell(r, Node(s, k) + e, Spot(s, k)) = Cell(s, Node(s, k), Spot(s, k))
    PROVE  Item(r, k) = Item(s, k)
<1>1. k \in 0 .. size(s) /\ k \in Nat
  BY Sized
<1>2. PICK q \in Nat, j \in Places : /\ s.start.cur + k = ChunkSize * q + j
                                     /\ Node(s, k) = s.start.node + q /\ Spot(s, k) = j
  BY <1>1, Located
<1>3. Node(r, k) = r.start.node + q /\ Spot(r, k) = j
  BY <1>1, <1>2, Spotted
<1>4. Node(r, k) = Node(s, k) + e
  <2>1. s.start.node \in Nat
    BY WholeFacts, Zenon
  <2> QED BY <1>2, <1>3, <2>1
<1> QED BY <1>2, <1>3, <1>4, Zenon DEF Item

\* push_back(v) adds v behind the elements.
LEMMA PushedBack ==
    ASSUME Counting, NEW s, NEW n, Whole(s, n), n >= 3, NEW v \in Values,
           NEW r, r = push_back(s, v)
    PROVE  \E n2 \in Nat : /\ n2 >= 3 /\ Whole(r, n2) /\ size(r) = size(s) + 1
                           /\ \A k \in 0 .. size(s) - 1 : Item(r, k) = Item(s, k)
                           /\ Item(r, size(s)) = v
<1> DEFINE lo == s.start.node
           hi == s.finish.node
           i == s.start.cur
           j == s.finish.cur
           p == put(s, s.finish, v)
           t == IF j + 1 = ChunkSize THEN add_back_capacity(p) ELSE p
<1>1. /\ Chunks(s, n, lo, hi) /\ {lo, hi, n} \subseteq Nat /\ lo <= hi /\ hi < n
      /\ i \in Places /\ j \in Places /\ (lo = hi => i <= j)
      /\ s.start = At(s.map, lo, i) /\ s.finish = At(s.map, hi, j) /\ s.finish.first = s.map[hi]
      /\ \A k \in lo .. hi, l \in Places : Cell(s, k, l) # Raw <=> Live(s, k, l)
  BY WholeFacts, Zenon
<1>2. v \in Values \cup {Raw} /\ v # Raw /\ hi \in lo .. hi
  BY <1>1, SequenceAssumption
<1>3. /\ Chunks(p, n, lo, hi) /\ p.map = s.map /\ p.start = s.start /\ p.finish = s.finish
      /\ \A k \in lo .. hi, l \in Places : Cell(p, k, l) = IF k = hi /\ l = j THEN v ELSE Cell(s, k, l)
  BY <1>1, <1>2, PutCell
<1>4. r = [t EXCEPT !.finish = inc(t.map, t.finish)]
  BY Zenon DEF push_back
<1>5. \E e \in Int, n2 \in Nat, z \in Nat, c \in Places :
         /\ n2 >= 3 /\ Chunks(r, n2, lo + e, z + e) /\ lo <= z
         /\ r.start = At(r.map, lo + e, i) /\ r.finish = At(r.map, z + e, c)
         /\ \A k \in lo .. hi, l \in Places : Cell(r, k + e, l) = Cell(p, k, l)
         /\ \/ z = hi /\ c = j + 1
            \/ z = hi + 1 /\ c = 0 /\ j + 1 = ChunkSize /\ \A l \in Places : Cell(r, z + e, l) = Raw
  <2>1. CASE j + 1 # ChunkSize
    <3>1. t = p /\ p.finish = At(p.map, hi, j) /\ p.start = At(p.map, lo, i)
      BY <1>1, <1>3, <2>1, Zenon
    <3>2. inc(p.map, p.finish) = At(p.map, hi, j + 1)
      BY <2>1, <3>1 DEF inc, At
    <3> HIDE DEF t, p
    <3>3. p = [map |-> p.map, heap |-> p.heap, start |-> p.start, finish |-> p.finish]
      BY <1>3, Zenon DEF Chunks
    <3>4. r = [map |-> p.map, heap |-> p.heap, start |-> p.start, finish |-> At(p.map, hi, j + 1)]
      BY <1>4, <3>1, <3>2, <3>3, Zenon
    <3>5. Chunks(r, n, lo, hi) /\ r.start = At(r.map, lo, i) /\ r.finish = At(r.map, hi, j + 1)
      BY <1>3, <3>1, <3>4, OtherIterators
    <3>6. \A k \in lo .. hi, l \in Places : Cell(r, k, l) = Cell(p, k, l)
      BY <3>4 DEF Cell
    <3>7. 0 \in Int /\ n \in Nat /\ lo + 0 = lo /\ hi + 0 = hi /\ \A k \in lo .. hi : k + 0 = k
      BY <1>1
    <3>8. j + 1 \in Places
      BY <1>1, <2>1, ChunkSizes DEF Places
    <3>9. /\ Chunks(r, n, lo + 0, hi + 0)
          /\ r.start = At(r.map, lo + 0, i) /\ r.finish = At(r.map, hi + 0, j + 1)
          /\ \A k \in lo .. hi, l \in Places : Cell(r, k + 0, l) = Cell(p, k, l)
      BY <3>5, <3>6, <3>7, Zenon
    <3> HIDE DEF lo, hi, i, j
    <3> QED BY <1>1, <3>7, <3>8, <3>9, Zenon
  <2>2. CASE j + 1 = ChunkSize
    <3>1. t = add_back_capacity(p) /\ p.finish = At(p.map, hi, j) /\ p.start = At(p.map, lo, i)
      BY <1>1, <1>3, <2>2, Zenon
    <3> HIDE DEF t, p, lo, hi, i, j
    <3>2. PICK e \in Int, n2 \in Nat :
             /\ n2 >= 3 /\ Chunks(t, n2, lo + e, hi + e + 1)
             /\ t.start = At(t.map, lo + e, i) /\ t.finish = At(t.map, hi + e, j)
             /\ \A k \in lo .. hi, l \in Places : Cell(t, k + e, l) = Cell(p, k, l)
             /\ \A l \in Places : Cell(t, hi + e + 1, l) = Raw
      BY <1>3, <3>1, RoomBehind
    <3>3. {lo + e, hi + e + 1} \subseteq Nat /\ hi + e + 1 < n2 /\ t.map \in [0 .. n2 - 1 -> Nat]
      BY <3>2, Zenon DEF Chunks
    <3>4. hi + e + 1 \in DOMAIN t.map /\ hi + e + 1 = (hi + 1) + e
      BY <1>1, <3>3
    <3>5. inc(t.map, t.finish) = At(t.map, (hi + 1) + e, 0)
      BY <2>2, <3>2, <3>4 DEF inc, set_node, At
    <3>6. t = [map |-> t.map, heap |-> t.heap, start |-> t.start, finish |-> t.finish]
      BY <3>2, Zenon DEF Chunks
    <3>7. r = [map |-> t.map, heap |-> t.heap, start |-> t.start, finish |-> At(t.map, (hi + 1) + e, 0)]
      BY <1>4, <3>5, <3>6, Zenon
    <3>8. Chunks(r, n2, lo + e, (hi + 1) + e)
      BY <3>2, <3>4, <3>7, OtherIterators, Zenon
    <3>9. r.start = At(r.map, lo + e, i) /\ r.finish = At(r.map, (hi + 1) + e, 0)
      BY <3>2, <3>7
    <3>10. /\ \A k \in lo .. hi, l \in Places : Cell(r, k + e, l) = Cell(p, k, l)
           /\ \A l \in Places : Cell(r, (hi + 1) + e, l) = Raw
      BY <3>2, <3>4, <3>7 DEF Cell
    <3>11. hi + 1 \in Nat /\ lo <= hi + 1 /\ 0 \in Places
      BY <1>1, ChunkSizes DEF Places
    <3> QED BY <2>2, <3>2, <3>8, <3>9, <3>10, <3>11, Zenon
  <2> QED BY <2>1, <2>2, Zenon
<1> HIDE DEF p, t
<1>6. PICK e \in Int, n2 \in Nat, z \in Nat, c \in Places :
         /\ n2 >= 3 /\ Chunks(r, n2, lo + e, z + e) /\ lo <= z
         /\ r.start = At(r.map, lo + e, i) /\ r.finish = At(r.map, z + e, c)
         /\ \A k \in lo .. hi, l \in Places : Cell(r, k + e, l) = Cell(p, k, l)
         /\ \/ z = hi /\ c = j + 1
            \/ z = hi + 1 /\ c = 0 /\ j + 1 = ChunkSize /\ \A l \in Places : Cell(r, z + e, l) = Raw
  BY <1>5, Zenon
<1>7. \A k \in lo .. hi, l \in Places : Cell(p, k, l) # Raw <=> (k = lo => l >= i) /\ (k = hi => l < j + 1)
  <2> SUFFICES ASSUME NEW k \in lo .. hi, NEW l \in Places
               PROVE  Cell(p, k, l) # Raw <=> (k = lo => l >= i) /\ (k = hi => l < j + 1)
    BY Zenon
  <2>1. Cell(s, k, l) # Raw <=> (k = lo => l >= i) /\ (k = hi => l < j)
    BY <1>1, Zenon DEF Live
  <2>2. Cell(p, k, l) = IF k = hi /\ l = j THEN v ELSE Cell(s, k, l)
    BY <1>3, Zenon
  <2> QED BY <1>1, <1>2, <2>1, <2>2, ChunkSizes DEF Places
<1>8. Whole(r, n2)
  <2>1. lo + e = z + e => i <= c
    BY <1>1, <1>6, ChunkSizes DEF Places
  <2>2. ASSUME NEW k \in lo + e .. z + e, NEW l \in Places
        PROVE  Cell(r, k, l) # Raw <=> (k = lo + e => l >= i) /\ (k = z + e => l < c)
    <3>1. k - e \in lo .. z /\ (k - e) + e = k /\ (k = lo + e <=> k - e = lo) /\ (k = z + e <=> k - e = z)
      BY <1>1, <1>6
    <3>2. CASE k - e \in lo .. hi
      <4>1. Cell(r, k, l) = Cell(p, k - e, l)
        BY <1>6, <3>1, <3>2, Zenon
      <4>2. Cell(p, k - e, l) # Raw <=> (k - e = lo => l >= i) /\ (k - e = hi => l < j + 1)
        BY <1>7, <3>2, Zenon
      <4>3. (z = hi /\ c = j + 1) \/ (z = hi + 1 /\ j + 1 = ChunkSize)
        BY <1>6, Zenon
      <4> QED BY <1>1, <3>1, <3>2, <4>1, <4>2, <4>3, ChunkSizes DEF Places
    <3>3. CASE k - e \notin lo .. hi
      <4>1. z = hi + 1 /\ c = 0 /\ k = z + e
        BY <1>1, <1>6, <3>1, <3>3
      <4>2. Cell(r, k, l) = Raw
        BY <1>1, <1>6, <4>1
      <4> QED BY <4>1, <4>2, ChunkSizes DEF Places
    <3> QED BY <3>2, <3>3, Zenon
  <2> HIDE DEF lo, hi, i, j
  <2> QED BY <1>1, <1>6, <2>1, <2>2, MakeWhole
<1>9. /\ r.start.node = lo + e /\ r.start.cur = i /\ r.finish.node = z + e /\ r.finish.cur = c
  BY <1>6 DEF At
<1>10. /\ size(s) \in Nat /\ i + size(s) = ChunkSize * (hi - lo) + j
       /\ size(r) \in Nat /\ i + size(r) = ChunkSize * ((z + e) - (lo + e)) + c
  BY <1>8, <1>9, Sized, Zenon
<1>11. size(r) = size(s) + 1
  <2>1. CASE z = hi /\ c = j + 1
    <3>1. (z + e) - (lo + e) = hi - lo /\ ChunkSize * (hi - lo) \in Int
      BY <1>1, <2>1, ChunkSizes
    <3> QED BY <1>1, <1>10, <2>1, <3>1, ChunkSizes DEF Places
  <2>2. CASE z = hi + 1 /\ c = 0 /\ j + 1 = ChunkSize
    <3>1. (z + e) - (lo + e) = (hi - lo) + 1 /\ ChunkSize * (hi - lo) \in Int
      BY <1>1, <2>2, ChunkSizes
    <3>2. ChunkSize * ((hi - lo) + 1) = ChunkSize * (hi - lo) + ChunkSize
      BY <1>1, ChunkSizes
    <3> QED BY <1>1, <1>10, <2>2, <3>1, <3>2, ChunkSizes DEF Places
  <2> QED BY <1>6, <2>1, <2>2, Zenon
<1>12. ASSUME NEW k \in 0 .. size(s) - 1 PROVE Item(r, k) = Item(s, k)
  <2>1. k \in 0 .. size(s) /\ k < size(s)
    BY <1>10
  <2>2. /\ Spot(s, k) \in Places /\ Node(s, k) \in lo .. hi
        /\ Live(s, Node(s, k), Spot(s, k))
    BY <2>1, Located
  <2>3. Cell(p, Node(s, k), Spot(s, k)) = Cell(s, Node(s, k), Spot(s, k))
    BY <1>1, <1>3, <2>2, ChunkSizes DEF Live, Places
  <2> QED BY <1>6, <1>8, <1>9, <2>2, <2>3, SameItem
<1>13. Item(r, size(s)) = v
  <2>1. Node(r, size(s)) = r.start.node + (hi - lo) /\ Spot(r, size(s)) = j
    <3>1. hi - lo \in Nat
      BY <1>1
    <3> HIDE DEF lo, hi, i, j
    <3> QED BY <1>1, <1>8, <1>9, <1>10, <3>1, Spotted
  <2>2. Node(r, size(s)) = hi + e
    BY <1>1, <1>9, <2>1
  <2>3. Cell(r, hi + e, j) = v
    BY <1>1, <1>2, <1>3, <1>6
  <2> QED BY <2>1, <2>2, <2>3, Zenon DEF Item
<1> QED BY <1>6, <1>8, <1>11, <1>12, <1>13, Zenon

\* push_front(v) adds v before the elements.
LEMMA PushedFront ==
    ASSUME Counting, NEW s, NEW n, Whole(s, n), n >= 3, NEW v \in Values,
           NEW r, r = push_front(s, v)
    PROVE  \E n2 \in Nat : /\ n2 >= 3 /\ Whole(r, n2) /\ size(r) = size(s) + 1
                           /\ \A k \in 0 .. size(s) - 1 : Item(r, k + 1) = Item(s, k)
                           /\ Item(r, 0) = v
<1> DEFINE lo == s.start.node
           hi == s.finish.node
           i == s.start.cur
           j == s.finish.cur
           g == IF i = 0 THEN add_front_capacity(s) ELSE s
           t == [g EXCEPT !.start = dec(g.map, g.start)]
<1>1. /\ Chunks(s, n, lo, hi) /\ {lo, hi, n} \subseteq Nat /\ lo <= hi /\ hi < n
      /\ i \in Places /\ j \in Places /\ (lo = hi => i <= j)
      /\ s.start = At(s.map, lo, i) /\ s.finish = At(s.map, hi, j)
  BY WholeFacts, Zenon
<1>0. \A k \in lo .. hi, l \in Places :
         Cell(s, k, l) # Raw <=> (k = lo => l >= i) /\ (k = hi => l < j)
  BY WholeFacts, Zenon DEF Live
<1>a. /\ size(s) \in Nat /\ i + size(s) = ChunkSize * (hi - lo) + j
      /\ \A k \in 0 .. size(s) - 1 : \E q \in Nat, l \in Places :
            /\ i + k = ChunkSize * q + l /\ Node(s, k) = lo + q /\ Spot(s, k) = l
            /\ lo + q \in lo .. hi /\ (q = 0 => l >= i)
  <2>1. size(s) \in Nat /\ i + size(s) = ChunkSize * (hi - lo) + j
    BY Sized, Zenon
  <2> SUFFICES ASSUME NEW k \in 0 .. size(s) - 1
               PROVE  \E q \in Nat, l \in Places :
                         /\ i + k = ChunkSize * q + l /\ Node(s, k) = lo + q /\ Spot(s, k) = l
                         /\ lo + q \in lo .. hi /\ (q = 0 => l >= i)
    BY <2>1, Zenon
  <2>2. k \in 0 .. size(s) /\ k < size(s)
    BY <2>1
  <2>3. PICK q \in Nat, l \in Places :
           /\ i + k = ChunkSize * q + l /\ Node(s, k) = lo + q /\ Spot(s, k) = l
           /\ Node(s, k) \in lo .. hi /\ Live(s, Node(s, k), l)
    BY <2>2, Located, Zenon
  <2>4. q = 0 => l >= i
    BY <1>1, <2>3 DEF Live
  <2> QED BY <2>3, <2>4, Zenon
<1>2. v \in Values \cup {Raw} /\ v # Raw
  BY SequenceAssumption, Zenon
<1>4. r = put(t, t.start, v)
  BY Zenon DEF push_front
<1> HIDE DEF lo, hi, i, j
<1>5. \E e \in Int, n2 \in Nat, a \in Int, c \in Places :
         /\ n2 >= 3 /\ Chunks(t, n2, a + e, hi + e) /\ a <= hi
         /\ t.start = At(t.map, a + e, c) /\ t.finish = At(t.map, hi + e, j)
         /\ \A k \in lo .. hi, l \in Places : Cell(t, k + e, l) = Cell(s, k, l)
         /\ \/ a = lo /\ i = c + 1
            \/ a = lo - 1 /\ i = 0 /\ c = ChunkSize - 1 /\ \A l \in Places : Cell(t, a + e, l) = Raw
  <2>1. CASE i # 0
    <3>1. g = s
      BY <2>1, Zenon
    <3>2. dec(s.map, s.start) = At(s.map, lo, i - 1)
      BY <1>1, <2>1 DEF dec, At
    <3> HIDE DEF g
    <3>3. s = [map |-> s.map, heap |-> s.heap, start |-> s.start, finish |-> s.finish]
      BY <1>1, Zenon DEF Chunks
    <3>4. t = [map |-> s.map, heap |-> s.heap, start |-> At(s.map, lo, i - 1), finish |-> s.finish]
      BY <3>1, <3>2, <3>3
    <3> HIDE DEF t
    <3>5. Chunks(t, n, lo, hi)
      BY <1>1, <3>4, OtherIterators, Zenon
    <3>6. t.start = At(t.map, lo, i - 1) /\ t.finish = At(t.map, hi, j)
      BY <1>1, <3>4, Zenon
    <3>7. \A k \in lo .. hi, l \in Places : Cell(t, k, l) = Cell(s, k, l)
      BY <3>4, Zenon DEF Cell
    <3>8. /\ 0 \in Int /\ n \in Nat /\ lo + 0 = lo /\ hi + 0 = hi /\ lo \in Int
          /\ \A k \in lo .. hi : k + 0 = k
      BY <1>1
    <3>9. i - 1 \in Places /\ i = (i - 1) + 1
      BY <1>1, <2>1, ChunkSizes DEF Places
    <3>10. /\ Chunks(t, n, lo + 0, hi + 0)
           /\ t.start = At(t.map, lo + 0, i - 1) /\ t.finish = At(t.map, hi + 0, j)
           /\ \A k \in lo .. hi, l \in Places : Cell(t, k + 0, l) = Cell(s, k, l)
      BY <3>5, <3>6, <3>7, <3>8, Zenon
    <3> QED BY <1>1, <3>8, <3>9, <3>10
  <2>2. CASE i = 0
    <3>1. g = add_front_capacity(s)
      BY <2>2, Zenon
    <3> HIDE DEF g
    <3>0. Chunks(s, n, lo, hi) /\ s.start = At(s.map, lo, i) /\ s.finish = At(s.map, hi, j)
      BY <1>1, Zenon
    <3>2. PICK e \in Int, n2 \in Nat :
             /\ n2 >= 3 /\ Chunks(g, n2, (lo - 1) + e, hi + e)
             /\ g.start = At(g.map, lo + e, i) /\ g.finish = At(g.map, hi + e, j)
             /\ \A k \in lo .. hi, l \in Places : Cell(g, k + e, l) = Cell(s, k, l)
             /\ \A l \in Places : Cell(g, (lo - 1) + e, l) = Raw
      BY <3>0, <3>1, RoomBefore
    <3>3. {(lo - 1) + e, hi + e} \subseteq Nat /\ hi + e < n2 /\ (lo - 1) + e <= hi + e /\ g.map \in [0 .. n2 - 1 -> Nat]
      BY <3>2, Zenon DEF Chunks
    <3>4. (lo - 1) + e \in DOMAIN g.map /\ (lo + e) - 1 = (lo - 1) + e
      <4>1. (lo - 1) + e \in 0 .. n2 - 1
        BY <1>1, <3>3
      <4> QED BY <1>1, <3>3, <4>1
    <3>5. dec(g.map, g.start) = At(g.map, (lo - 1) + e, ChunkSize - 1)
      BY <2>2, <3>2, <3>4 DEF dec, set_node, At
    <3>6. g = [map |-> g.map, heap |-> g.heap, start |-> g.start, finish |-> g.finish]
      BY <3>2, Zenon DEF Chunks
    <3>7. t = [map |-> g.map, heap |-> g.heap, start |-> At(g.map, (lo - 1) + e, ChunkSize - 1),
               finish |-> g.finish]
      BY <3>5, <3>6
    <3> HIDE DEF t
    <3>8. Chunks(t, n2, (lo - 1) + e, hi + e)
      BY <3>2, <3>4, <3>7, OtherIterators, Zenon
    <3>9. t.start = At(t.map, (lo - 1) + e, ChunkSize - 1) /\ t.finish = At(t.map, hi + e, j)
      BY <3>2, <3>7, Zenon
    <3>10. /\ \A k \in lo .. hi, l \in Places : Cell(t, k + e, l) = Cell(s, k, l)
           /\ \A l \in Places : Cell(t, (lo - 1) + e, l) = Raw
      BY <3>2, <3>4, <3>7, Zenon DEF Cell
    <3>11. lo - 1 \in Int /\ lo - 1 <= hi /\ ChunkSize - 1 \in Places
      BY <1>1, ChunkSizes DEF Places
    <3> QED BY <2>2, <3>2, <3>8, <3>9, <3>10, <3>11, Zenon
  <2> QED BY <2>1, <2>2, Zenon
<1> HIDE DEF g, t
<1>6. PICK e \in Int, n2 \in Nat, a \in Int, c \in Places :
         /\ n2 >= 3 /\ Chunks(t, n2, a + e, hi + e) /\ a <= hi
         /\ t.start = At(t.map, a + e, c) /\ t.finish = At(t.map, hi + e, j)
         /\ \A k \in lo .. hi, l \in Places : Cell(t, k + e, l) = Cell(s, k, l)
         /\ \/ a = lo /\ i = c + 1
            \/ a = lo - 1 /\ i = 0 /\ c = ChunkSize - 1 /\ \A l \in Places : Cell(t, a + e, l) = Raw
  BY <1>5, ZenonT(60)
<1>b. a + e \in a + e .. hi + e /\ t.start.first = t.map[a + e] /\ t.start.cur = c /\ a + e \in Nat
  <2>1. a + e \in Nat /\ hi + e \in Nat /\ a + e <= hi + e
    BY <1>6, Zenon DEF Chunks
  <2>2. t.start.first = t.map[a + e] /\ t.start.cur = c
    BY <1>6 DEF At
  <2> QED BY <2>1, <2>2
<1>3. /\ Chunks(r, n2, a + e, hi + e) /\ r.map = t.map /\ r.start = t.start /\ r.finish = t.finish
      /\ \A k \in a + e .. hi + e, l \in Places :
            Cell(r, k, l) = IF k = a + e /\ l = c THEN v ELSE Cell(t, k, l)
  BY <1>2, <1>4, <1>6, <1>b, PutCell
<1>7. r.start = At(r.map, a + e, c) /\ r.finish = At(r.map, hi + e, j)
  BY <1>3, <1>6, Zenon
<1>8. Whole(r, n2)
  <2>1. a + e = hi + e => c <= j
    BY <1>1, <1>6, ChunkSizes DEF Places
  <2>2. ASSUME NEW k \in a + e .. hi + e, NEW l \in Places
        PROVE  Cell(r, k, l) # Raw <=> (k = a + e => l >= c) /\ (k = hi + e => l < j)
    <3>1. k - e \in a .. hi /\ (k - e) + e = k /\ (k = a + e <=> k - e = a) /\ (k = hi + e <=> k - e = hi)
      BY <1>1, <1>6
    <3>2. Cell(r, k, l) = IF k - e = a /\ l = c THEN v ELSE Cell(t, k, l)
      BY <1>3, <3>1, Zenon
    <3>3. CASE k - e \in lo .. hi
      <4>1. Cell(t, k, l) = Cell(s, k - e, l)
        BY <1>6, <3>1, <3>3, Zenon
      <4>2. Cell(s, k - e, l) # Raw <=> (k - e = lo => l >= i) /\ (k - e = hi => l < j)
        BY <1>0, <3>3, Zenon
      <4>3. (a = lo /\ i = c + 1) \/ (a = lo - 1 /\ i = 0)
        BY <1>6, Zenon
      <4>4. {l, i, j, c, lo, hi, k - e} \subseteq Int /\ l >= 0
        BY <1>1, <1>6, <3>1, ChunkSizes DEF Places
      <4>5. CASE a = lo /\ i = c + 1
        <5>1. CASE k - e = a /\ l = c
          <6>1. k - e = hi => l < j
            BY <1>1, <4>4, <4>5, <5>1
          <6> QED BY <1>2, <3>1, <3>2, <4>4, <5>1, <6>1
        <5>2. CASE ~(k - e = a /\ l = c)
          <6>1. (k - e = lo => l >= i) <=> (k - e = a => l >= c)
            BY <4>4, <4>5, <5>2
          <6> QED BY <3>1, <3>2, <4>1, <4>2, <5>2, <6>1, Zenon
        <5> QED BY <5>1, <5>2, Zenon
      <4>6. CASE a = lo - 1 /\ i = 0
        <5>1. k - e # a /\ l >= i
          BY <3>3, <4>4, <4>6
        <5> QED BY <3>1, <3>2, <4>1, <4>2, <5>1, Zenon
      <4> QED BY <4>3, <4>5, <4>6, Zenon
    <3>4. CASE k - e \notin lo .. hi
      <4>1. a = lo - 1 /\ i = 0 /\ c = ChunkSize - 1 /\ k = a + e /\ k - e # hi
        BY <1>1, <1>6, <3>1, <3>4
      <4>2. Cell(t, k, l) = Raw
        BY <1>6, <4>1
      <4> QED BY <1>2, <3>1, <3>2, <4>1, <4>2, ChunkSizes DEF Places
    <3> QED BY <3>3, <3>4, Zenon
  <2> QED BY <1>1, <1>3, <1>7, <2>1, <2>2, MakeWhole
<1>9. r.start.node = a + e /\ r.start.cur = c /\ r.finish.node = hi + e /\ r.finish.cur = j
  BY <1>7 DEF At
<1>10. /\ size(r) \in Nat /\ c + size(r) = ChunkSize * ((hi + e) - (a + e)) + j
  BY <1>8, <1>9, Sized, Zenon
<1>11. size(r) = size(s) + 1
  <2>1. CASE a = lo /\ i = c + 1
    <3>1. (hi + e) - (a + e) = hi - lo /\ ChunkSize * (hi - lo) \in Int
      BY <1>1, <2>1, ChunkSizes
    <3> QED BY <1>1, <1>a, <1>10, <2>1, <3>1, ChunkSizes DEF Places
  <2>2. CASE a = lo - 1 /\ i = 0 /\ c = ChunkSize - 1
    <3>1. (hi + e) - (a + e) = (hi - lo) + 1 /\ ChunkSize * (hi - lo) \in Int
      BY <1>1, <2>2, ChunkSizes
    <3>2. ChunkSize * ((hi - lo) + 1) = ChunkSize * (hi - lo) + ChunkSize
      BY <1>1, ChunkSizes
    <3> QED BY <1>1, <1>a, <1>10, <2>2, <3>1, <3>2, ChunkSizes DEF Places
  <2> QED BY <1>6, <2>1, <2>2, Zenon
<1>12. ASSUME NEW k \in 0 .. size(s) - 1 PROVE Item(r, k + 1) = Item(s, k)
  <2>1. k + 1 \in Nat /\ k \in Nat
    BY <1>a
  <2>2. PICK q \in Nat, l \in Places :
           /\ i + k = ChunkSize * q + l /\ Node(s, k) = lo + q /\ Spot(s, k) = l
           /\ lo + q \in lo .. hi /\ (q = 0 => l >= i)
    BY <1>a, Zenon
  <2>3. Node(r, k + 1) = (lo + q) + e /\ Spot(r, k + 1) = l
    <3>1. CASE a = lo /\ i = c + 1
      <4>1. c + (k + 1) = ChunkSize * q + l
        BY <1>1, <1>6, <2>1, <2>2, <3>1, ChunkSizes DEF Places
      <4>2. Node(r, k + 1) = (a + e) + q /\ Spot(r, k + 1) = l
        BY <1>8, <1>9, <2>1, <4>1, Spotted
      <4> QED BY <1>1, <3>1, <4>2
    <3>2. CASE a = lo - 1 /\ i = 0 /\ c = ChunkSize - 1
      <4>1. ChunkSize * (q + 1) = ChunkSize * q + ChunkSize /\ ChunkSize * q \in Nat /\ q + 1 \in Nat
        BY ChunkSizes
      <4>2. c + (k + 1) = ChunkSize * (q + 1) + l
        BY <1>1, <1>6, <2>1, <2>2, <3>2, <4>1, ChunkSizes DEF Places
      <4>3. Node(r, k + 1) = (a + e) + (q + 1) /\ Spot(r, k + 1) = l
        BY <1>8, <1>9, <2>1, <4>1, <4>2, Spotted
      <4> QED BY <1>1, <3>2, <4>3
    <3> QED BY <1>6, <3>1, <3>2, Zenon
  <2>4. /\ (lo + q) \in lo .. hi /\ (lo + q) + e \in a + e .. hi + e
        /\ ~((lo + q) + e = a + e /\ l = c)
    BY <1>1, <1>6, <2>2, ChunkSizes DEF Places
  <2>5. Cell(r, (lo + q) + e, l) = Cell(s, lo + q, l)
    <3>1. Cell(r, (lo + q) + e, l) = Cell(t, (lo + q) + e, l)
      BY <1>3, <2>4, Zenon
    <3>2. Cell(t, (lo + q) + e, l) = Cell(s, lo + q, l)
      BY <1>6, <2>4, Zenon
    <3> QED BY <3>1, <3>2, Zenon
  <2> QED BY <2>2, <2>3, <2>5, Zenon DEF Item
<1>13. Item(r, 0) = v
  <2>1. ChunkSize * 0 = 0 /\ c + 0 = ChunkSize * 0 + c
    BY ChunkSizes DEF Places
  <2>2. Node(r, 0) = (a + e) + 0 /\ Spot(r, 0) = c
    BY <1>8, <1>9, <2>1, Spotted
  <2>3. Cell(r, a + e, c) = v
    BY <1>3, <1>b, Zenon
  <2> QED BY <1>b, <2>2, <2>3 DEF Item
<1> QED BY <1>6, <1>8, <1>11, <1>12, <1>13, Zenon

\* What pops and pushes use of a deque from node lo, place i to node hi, place j.
LEMMA Parts ==
    ASSUME NEW s, NEW n, Whole(s, n), NEW lo, NEW hi, NEW i, NEW j,
           lo = s.start.node, hi = s.finish.node, i = s.start.cur, j = s.finish.cur
    PROVE  /\ Chunks(s, n, lo, hi) /\ {lo, hi, n} \subseteq Nat /\ lo <= hi /\ hi < n
           /\ i \in Places /\ j \in Places /\ (lo = hi => i <= j)
           /\ s.start = At(s.map, lo, i) /\ s.finish = At(s.map, hi, j)
           /\ \A k \in lo .. hi, l \in Places :
                 Cell(s, k, l) # Raw <=> (k = lo => l >= i) /\ (k = hi => l < j)
           /\ size(s) \in Nat /\ hi - lo \in Nat /\ i + size(s) = ChunkSize * (hi - lo) + j
<1>1. /\ Chunks(s, n, lo, hi) /\ {lo, hi, n} \subseteq Nat /\ lo <= hi /\ hi < n
      /\ i \in Places /\ j \in Places /\ (lo = hi => i <= j)
      /\ s.start = At(s.map, lo, i) /\ s.finish = At(s.map, hi, j)
  BY WholeFacts, Zenon
<1>2. \A k \in lo .. hi, l \in Places :
         Cell(s, k, l) # Raw <=> (k = lo => l >= i) /\ (k = hi => l < j)
  BY WholeFacts DEF Live
<1>3. size(s) \in Nat /\ hi - lo \in Nat /\ i + size(s) = ChunkSize * (hi - lo) + j
  BY Sized, Zenon
<1> QED BY <1>1, <1>2, <1>3, Zenon

\* A deque that is not empty and begins and ends in one chunk, or ends before its first place.
LEMMA NotEmpty ==
    ASSUME NEW p \in Nat, NEW i \in Places, NEW j \in Places, NEW m \in Nat, m > 0,
           i + m = ChunkSize * p + j
    PROVE  /\ p = 0 => i < j
           /\ j = 0 \/ i + 1 = ChunkSize => p > 0
<1>1. ChunkSize * p \in Nat /\ (p = 0 => ChunkSize * p = 0)
  BY ChunkSizes
<1> QED BY <1>1, ChunkSizes DEF Places

\* pop_back() removes the last element, and the chunk behind it with it.
LEMMA PoppedBack ==
    ASSUME NEW s, NEW n, Whole(s, n), size(s) > 0, NEW r, r = pop_back(s)
    PROVE  /\ Whole(r, n) /\ size(r) = size(s) - 1
           /\ \A k \in 0 .. size(s) - 2 : Item(r, k) = Item(s, k)
<1>0. PICK lo, hi, i, j : lo = s.start.node /\ hi = s.finish.node /\ i = s.start.cur /\ j = s.finish.cur
  BY Zenon
<1>1. /\ Chunks(s, n, lo, hi) /\ {lo, hi, n} \subseteq Nat /\ lo <= hi /\ hi < n
      /\ i \in Places /\ j \in Places /\ (lo = hi => i <= j)
      /\ s.start = At(s.map, lo, i) /\ s.finish = At(s.map, hi, j)
  BY <1>0, Parts
<1>2. \A k \in lo .. hi, l \in Places :
         Cell(s, k, l) # Raw <=> (k = lo => l >= i) /\ (k = hi => l < j)
  BY <1>0, Parts
<1>3. size(s) \in Nat /\ hi - lo \in Nat /\ i + size(s) = ChunkSize * (hi - lo) + j
  BY <1>0, Parts
<1>4. (hi = lo => i < j) /\ (j = 0 => lo < hi)
  <2>1. (hi - lo = 0 => i < j) /\ (j = 0 => hi - lo > 0)
    BY <1>1, <1>3, NotEmpty, Zenon
  <2> QED BY <1>1, <2>1
<1> DEFINE g == IF j = 0 THEN deallocate(s, s.finish) ELSE s
           t == [g EXCEPT !.finish = dec(g.map, g.finish)]
<1>5. r = put(t, t.finish, Raw)
  BY <1>0, Zenon DEF pop_back
<1>6. \E z \in Nat, c \in Places :
         /\ Chunks(t, n, lo, z) /\ t.start = At(t.map, lo, i) /\ t.finish = At(t.map, z, c)
         /\ \A k \in lo .. z, l \in Places : Cell(t, k, l) = Cell(s, k, l)
         /\ \/ z = hi /\ j = c + 1
            \/ z = hi - 1 /\ j = 0 /\ c = ChunkSize - 1
  <2>1. CASE j # 0
    <3>1. g = s
      BY <2>1, Zenon
    <3>2. dec(s.map, s.finish) = At(s.map, hi, j - 1)
      BY <1>1, <2>1 DEF dec, At
    <3>3. s = [map |-> s.map, heap |-> s.heap, start |-> s.start, finish |-> s.finish]
      BY <1>1, Zenon DEF Chunks
    <3> HIDE DEF g
    <3>4. t = [map |-> s.map, heap |-> s.heap, start |-> s.start, finish |-> At(s.map, hi, j - 1)]
      BY <3>1, <3>2, <3>3
    <3> HIDE DEF t
    <3>5. Chunks(t, n, lo, hi)
      BY <1>1, <3>4, OtherIterators, Zenon
    <3>6. t.start = At(t.map, lo, i) /\ t.finish = At(t.map, hi, j - 1)
      BY <1>1, <3>4, Zenon
    <3>7. \A k \in lo .. hi, l \in Places : Cell(t, k, l) = Cell(s, k, l)
      BY <3>4, Zenon DEF Cell
    <3>8. j - 1 \in Places /\ j = (j - 1) + 1 /\ hi \in Nat
      BY <1>1, <2>1, ChunkSizes DEF Places
    <3> QED BY <3>5, <3>6, <3>7, <3>8, Zenon
  <2>2. CASE j = 0
    <3>1. g = deallocate(s, s.finish) /\ lo < hi
      BY <1>4, <2>2, Zenon
    <3> HIDE DEF g
    <3>2. s.finish.node = hi /\ s.finish.first = s.map[s.finish.node]
      BY <1>1 DEF At
    <3>3. PICK z \in Nat : z = hi - 1
      BY <1>1, <3>1
    <3>4. /\ Chunks(g, n, lo, z) /\ g.start = s.start /\ g.finish = s.finish
          /\ \A k \in lo .. z : g.map[k] = s.map[k]
          /\ \A k \in lo .. z, l \in Places : Cell(g, k, l) = Cell(s, k, l)
      <4>1. Chunks(s, n, lo, hi) /\ lo < hi /\ z = hi - 1 /\ s.finish.node = hi
        BY <1>1, <3>1, <3>2, <3>3, Zenon
      <4>2. PICK it : it = s.finish
        BY Zenon
      <4>3. it.first = s.map[it.node] /\ it.node = s.finish.node /\ g = deallocate(s, it)
        BY <3>1, <3>2, <4>2, Zenon
      <4> QED BY <4>1, <4>3, DroppedChunk
    <3>5. z \in DOMAIN g.map /\ lo \in lo .. z /\ g = [map |-> g.map, heap |-> g.heap, start |-> g.start, finish |-> g.finish]
      <4>1. z \in Nat /\ z < n /\ lo <= z /\ lo \in Nat /\ n \in Nat
        BY <1>1, <3>1, <3>3
      <4>2. g.map \in [0 .. n - 1 -> Nat] /\ g = [map |-> g.map, heap |-> g.heap, start |-> g.start, finish |-> g.finish]
        BY <3>4, Zenon DEF Chunks
      <4> QED BY <4>1, <4>2
    <3>6. dec(g.map, g.finish) = At(g.map, z, ChunkSize - 1)
      BY <1>1, <2>2, <3>3, <3>4, <3>5 DEF dec, set_node, At
    <3>7. t = [map |-> g.map, heap |-> g.heap, start |-> g.start, finish |-> At(g.map, z, ChunkSize - 1)]
      BY <3>5, <3>6
    <3> HIDE DEF t
    <3>8. Chunks(t, n, lo, z)
      BY <3>4, <3>7, OtherIterators, Zenon
    <3>9. t.start = At(t.map, lo, i) /\ t.finish = At(t.map, z, ChunkSize - 1)
      BY <1>1, <3>4, <3>5, <3>7, Zenon DEF At
    <3>10. \A k \in lo .. z, l \in Places : Cell(t, k, l) = Cell(s, k, l)
      BY <3>4, <3>7, Zenon DEF Cell
    <3>11. ChunkSize - 1 \in Places
      BY ChunkSizes, Zenon DEF Places
    <3> QED BY <2>2, <3>3, <3>8, <3>9, <3>10, <3>11, Zenon
  <2> QED BY <2>1, <2>2, Zenon
<1> HIDE DEF g, t
<1>7. PICK z \in Nat, c \in Places :
         /\ Chunks(t, n, lo, z) /\ t.start = At(t.map, lo, i) /\ t.finish = At(t.map, z, c)
         /\ \A k \in lo .. z, l \in Places : Cell(t, k, l) = Cell(s, k, l)
         /\ \/ z = hi /\ j = c + 1
            \/ z = hi - 1 /\ j = 0 /\ c = ChunkSize - 1
  BY <1>6, Zenon
<1>8. lo <= z /\ z \in lo .. z /\ t.finish.first = t.map[z] /\ t.finish.cur = c /\ Raw \in Values \cup {Raw}
  <2>1. lo <= z
    BY <1>7, Zenon DEF Chunks
  <2>2. t.finish.first = t.map[z] /\ t.finish.cur = c
    BY <1>7 DEF At
  <2> QED BY <1>1, <2>1, <2>2
<1>9. /\ Chunks(r, n, lo, z) /\ r.map = t.map /\ r.start = t.start /\ r.finish = t.finish
      /\ \A k \in lo .. z, l \in Places : Cell(r, k, l) = IF k = z /\ l = c THEN Raw ELSE Cell(t, k, l)
  BY <1>5, <1>7, <1>8, PutCell
<1>10. r.start = At(r.map, lo, i) /\ r.finish = At(r.map, z, c)
  BY <1>7, <1>9, Zenon
<1>11. {i, j, c, lo, hi, z} \subseteq Int /\ 0 <= c /\ c < ChunkSize /\ 0 <= j /\ ChunkSize \in Int
  BY <1>1, <1>7, ChunkSizes DEF Places
<1>12. Whole(r, n)
  <2>1. lo = z => i <= c
    BY <1>1, <1>4, <1>7, <1>11, ChunkSizes DEF Places
  <2>2. ASSUME NEW k \in lo .. z, NEW l \in Places
        PROVE  Cell(r, k, l) # Raw <=> (k = lo => l >= i) /\ (k = z => l < c)
    <3>1. k \in lo .. hi /\ {k, l} \subseteq Int /\ 0 <= l /\ l < ChunkSize
      BY <1>1, <1>7, ChunkSizes DEF Places
    <3>2. Cell(r, k, l) = IF k = z /\ l = c THEN Raw ELSE Cell(s, k, l)
      BY <1>7, <1>9, Zenon
    <3>3. Cell(s, k, l) # Raw <=> (k = lo => l >= i) /\ (k = hi => l < j)
      BY <1>2, <3>1, Zenon
    <3>4. ~(k = z /\ l = c) => ((k = hi => l < j) <=> (k = z => l < c))
      BY <1>7, <1>11, <3>1
    <3> QED BY <3>2, <3>3, <3>4, <3>1, <1>11
  <2> QED BY <1>1, <1>9, <1>10, <2>1, <2>2, MakeWhole
<1>13. r.start.node = lo /\ r.start.cur = i /\ r.finish.node = z /\ r.finish.cur = c
  BY <1>10 DEF At
<1>14. size(r) \in Nat /\ z - lo \in Nat /\ i + size(r) = ChunkSize * (z - lo) + c
  BY <1>12, <1>13, Sized, Zenon
<1>15. size(r) = size(s) - 1
  <2>1. CASE z = hi /\ j = c + 1
    <3>1. ChunkSize * (hi - lo) \in Int
      BY <1>3, ChunkSizes
    <3> QED BY <1>3, <1>11, <1>14, <2>1, <3>1
  <2>2. CASE z = hi - 1 /\ j = 0 /\ c = ChunkSize - 1
    <3>1. hi - lo = (z - lo) + 1 /\ ChunkSize * (z - lo) \in Int
      BY <1>11, <1>14, <2>2, ChunkSizes
    <3>2. ChunkSize * ((z - lo) + 1) = ChunkSize * (z - lo) + ChunkSize
      BY <1>14, ChunkSizes
    <3>3. i + size(s) = ChunkSize * (z - lo) + ChunkSize
      BY <1>3, <1>11, <2>2, <3>1, <3>2
    <3>4. i + size(r) = ChunkSize * (z - lo) + (ChunkSize - 1)
      BY <1>14, <2>2, Zenon
    <3> QED BY <1>3, <1>11, <1>14, <3>1, <3>3, <3>4
  <2> QED BY <1>7, <2>1, <2>2, Zenon
<1>16. ASSUME NEW k \in 0 .. size(s) - 2 PROVE Item(r, k) = Item(s, k)
  <2>1. k \in 0 .. size(s) /\ k \in Nat /\ k < size(r) /\ k \in 0 .. size(s) - 1
    BY <1>3, <1>15
  <2>2. PICK q \in Nat, l \in Places : /\ i + k = ChunkSize * q + l
                                       /\ Node(s, k) = lo + q /\ Spot(s, k) = l
    BY <1>0, <2>1, Located
  <2>3. ChunkSize * q + l < ChunkSize * (z - lo) + c
    <3>1. ChunkSize * q \in Nat /\ ChunkSize * (z - lo) \in Nat /\ l \in Nat
      BY <1>14, ChunkSizes DEF Places
    <3> QED BY <1>11, <1>14, <2>1, <2>2, <3>1
  <2>4. q < z - lo \/ (q = z - lo /\ l < c)
    BY <1>14, <2>3, Before, ChunkSizes, Zenon DEF Places
  <2>5. lo + q \in lo .. z /\ ~(lo + q = z /\ l = c) /\ lo + q = (lo + q) + 0
    BY <1>1, <1>11, <2>2, <2>4, ChunkSizes DEF Places
  <2>6. Cell(r, lo + q, l) = Cell(s, lo + q, l)
    BY <1>7, <1>9, <2>5, Zenon
  <2>7. Node(r, k) = lo + q /\ Spot(r, k) = l
    BY <1>12, <1>13, <2>1, <2>2, Spotted
  <2> QED BY <2>2, <2>6, <2>7, Zenon DEF Item
<1> QED BY <1>12, <1>15, <1>16, Zenon

\* pop_front() removes the first element, and its chunk when it was the last one there.
LEMMA PoppedFront ==
    ASSUME NEW s, NEW n, Whole(s, n), size(s) > 0, NEW r, r = pop_front(s)
    PROVE  /\ Whole(r, n) /\ size(r) = size(s) - 1
           /\ \A k \in 0 .. size(s) - 2 : Item(r, k) = Item(s, k + 1)
<1>0. PICK lo, hi, i, j : lo = s.start.node /\ hi = s.finish.node /\ i = s.start.cur /\ j = s.finish.cur
  BY Zenon
<1>1. /\ Chunks(s, n, lo, hi) /\ {lo, hi, n} \subseteq Nat /\ lo <= hi /\ hi < n
      /\ i \in Places /\ j \in Places /\ (lo = hi => i <= j)
      /\ s.start = At(s.map, lo, i) /\ s.finish = At(s.map, hi, j)
  BY <1>0, Parts
<1>2. \A k \in lo .. hi, l \in Places :
         Cell(s, k, l) # Raw <=> (k = lo => l >= i) /\ (k = hi => l < j)
  BY <1>0, Parts
<1>3. size(s) \in Nat /\ hi - lo \in Nat /\ i + size(s) = ChunkSize * (hi - lo) + j
  BY <1>0, Parts
<1>4. (hi = lo => i < j) /\ (i + 1 = ChunkSize => lo < hi)
  <2>1. (hi - lo = 0 => i < j) /\ (i + 1 = ChunkSize => hi - lo > 0)
    BY <1>1, <1>3, NotEmpty, Zenon
  <2> QED BY <1>1, <2>1
<1> DEFINE p == put(s, s.start, Raw)
           g == IF i + 1 = ChunkSize THEN deallocate(p, s.start) ELSE p
<1>5. r = [g EXCEPT !.start = inc(g.map, g.start)]
  BY <1>0, Zenon DEF pop_front
<1>6. /\ Chunks(p, n, lo, hi) /\ p.map = s.map /\ p.start = s.start /\ p.finish = s.finish
      /\ \A k \in lo .. hi, l \in Places : Cell(p, k, l) = IF k = lo /\ l = i THEN Raw ELSE Cell(s, k, l)
  <2>1. lo \in lo .. hi /\ Raw \in Values \cup {Raw} /\ s.start.first = s.map[lo] /\ s.start.cur = i
    BY <1>1 DEF At
  <2>2. Chunks(s, n, lo, hi) /\ i \in Places
    BY <1>1, Zenon
  <2> HIDE DEF p
  <2>3. p = put(s, s.start, Raw)
    BY Zenon DEF p
  <2> QED BY <2>1, <2>2, <2>3, PutCell
<1>7. \E a \in Nat, c \in Places :
         /\ Chunks(r, n, a, hi) /\ r.start = At(r.map, a, c) /\ r.finish = At(r.map, hi, j)
         /\ \A k \in a .. hi, l \in Places : Cell(r, k, l) = Cell(p, k, l)
         /\ \/ a = lo /\ c = i + 1
            \/ a = lo + 1 /\ i + 1 = ChunkSize /\ c = 0
  <2>1. CASE i + 1 # ChunkSize
    <3>1. g = p
      BY <2>1, Zenon
    <3> HIDE DEF g, p
    <3>2. inc(p.map, p.start) = At(p.map, lo, i + 1)
      BY <1>1, <1>6, <2>1 DEF inc, At
    <3>3. p = [map |-> p.map, heap |-> p.heap, start |-> p.start, finish |-> p.finish]
      BY <1>6, Zenon DEF Chunks
    <3>4. r = [map |-> p.map, heap |-> p.heap, start |-> At(p.map, lo, i + 1), finish |-> p.finish]
      BY <1>5, <3>1, <3>2, <3>3, Zenon
    <3>5. Chunks(r, n, lo, hi)
      BY <1>6, <3>4, OtherIterators, Zenon
    <3>6. r.start = At(r.map, lo, i + 1) /\ r.finish = At(r.map, hi, j)
      BY <1>1, <1>6, <3>4
    <3>7. \A k \in lo .. hi, l \in Places : Cell(r, k, l) = Cell(p, k, l)
      BY <3>4 DEF Cell
    <3>8. i + 1 \in Places /\ lo \in Nat
      BY <1>1, <2>1, ChunkSizes DEF Places
    <3> QED BY <3>5, <3>6, <3>7, <3>8, Zenon
  <2>2. CASE i + 1 = ChunkSize
    <3>1. g = deallocate(p, s.start) /\ lo < hi
      BY <1>4, <2>2, Zenon
    <3> HIDE DEF g, p
    <3>2. s.start.node = lo /\ s.start.first = p.map[s.start.node] /\ s.start.cur = i
      BY <1>1, <1>6 DEF At
    <3>3. PICK a \in Nat : a = lo + 1
      BY <1>1, <3>1
    <3>4. /\ Chunks(g, n, a, hi) /\ g.start = p.start /\ g.finish = p.finish
          /\ \A k \in a .. hi : g.map[k] = p.map[k]
          /\ \A k \in a .. hi, l \in Places : Cell(g, k, l) = Cell(p, k, l)
      <4>1. Chunks(p, n, lo, hi) /\ lo < hi /\ a = lo + 1 /\ s.start.node = lo
        BY <1>6, <3>1, <3>2, <3>3, Zenon
      <4>2. PICK it : it = s.start
        BY Zenon
      <4>3. it.first = p.map[it.node] /\ it.node = s.start.node /\ g = deallocate(p, it)
        BY <3>1, <3>2, <4>2, Zenon
      <4> QED BY <4>1, <4>3, DroppedChunk
    <3>5. /\ a \in DOMAIN g.map /\ hi \in a .. hi
          /\ g = [map |-> g.map, heap |-> g.heap, start |-> g.start, finish |-> g.finish]
      <4>1. hi \in Nat /\ hi < n /\ a <= hi /\ n \in Nat
        BY <1>1, <3>1, <3>3
      <4>2. /\ g.map \in [0 .. n - 1 -> Nat]
            /\ g = [map |-> g.map, heap |-> g.heap, start |-> g.start, finish |-> g.finish]
        BY <3>4, Zenon DEF Chunks
      <4> QED BY <4>1, <4>2
    <3>6. inc(g.map, g.start) = At(g.map, a, 0)
      BY <1>6, <2>2, <3>2, <3>3, <3>4, <3>5, Zenon DEF inc, set_node, At
    <3>7. r = [map |-> g.map, heap |-> g.heap, start |-> At(g.map, a, 0), finish |-> g.finish]
      BY <1>5, <3>5, <3>6, Zenon
    <3>8. Chunks(r, n, a, hi)
      BY <3>4, <3>7, OtherIterators, Zenon
    <3>9. r.start = At(r.map, a, 0) /\ r.finish = At(r.map, hi, j)
      BY <1>1, <1>6, <3>4, <3>5, <3>7 DEF At
    <3>10. \A k \in a .. hi, l \in Places : Cell(r, k, l) = Cell(p, k, l)
      BY <3>4, <3>7 DEF Cell
    <3>11. 0 \in Places
      BY ChunkSizes, Zenon DEF Places
    <3> QED BY <2>2, <3>3, <3>8, <3>9, <3>10, <3>11, Zenon
  <2> QED BY <2>1, <2>2, ZenonT(60)
<1> HIDE DEF g, p
<1>8. PICK a \in Nat, c \in Places :
         /\ Chunks(r, n, a, hi) /\ r.start = At(r.map, a, c) /\ r.finish = At(r.map, hi, j)
         /\ \A k \in a .. hi, l \in Places : Cell(r, k, l) = Cell(p, k, l)
         /\ \/ a = lo /\ c = i + 1
            \/ a = lo + 1 /\ i + 1 = ChunkSize /\ c = 0
  BY <1>7, Zenon
<1>9. {i, j, c, lo, hi, a} \subseteq Int /\ 0 <= i /\ 0 <= j /\ ChunkSize \in Int
  BY <1>1, <1>8, ChunkSizes DEF Places
<1>10. \A k \in a .. hi, l \in Places : /\ k \in lo .. hi
                                         /\ Cell(r, k, l) = IF k = lo /\ l = i THEN Raw ELSE Cell(s, k, l)
  <2> SUFFICES ASSUME NEW k \in a .. hi, NEW l \in Places
               PROVE  /\ k \in lo .. hi
                      /\ Cell(r, k, l) = IF k = lo /\ l = i THEN Raw ELSE Cell(s, k, l)
    BY Zenon
  <2>1. k \in lo .. hi
    BY <1>8, <1>9
  <2> QED BY <1>6, <1>8, <2>1, Zenon
<1>12. Whole(r, n)
  <2>1. a = hi => c <= j
    BY <1>4, <1>8, <1>9
  <2>2. ASSUME NEW k \in a .. hi, NEW l \in Places
        PROVE  Cell(r, k, l) # Raw <=> (k = a => l >= c) /\ (k = hi => l < j)
    <3>1. k \in lo .. hi /\ {k, l} \subseteq Int /\ 0 <= l /\ l < ChunkSize
      BY <1>9, <1>10, ChunkSizes DEF Places
    <3>2. Cell(r, k, l) = IF k = lo /\ l = i THEN Raw ELSE Cell(s, k, l)
      BY <1>10, Zenon
    <3>3. Cell(s, k, l) # Raw <=> (k = lo => l >= i) /\ (k = hi => l < j)
      BY <1>2, <3>1, Zenon
    <3>4. ~(k = lo /\ l = i) => ((k = lo => l >= i) <=> (k = a => l >= c))
      BY <1>8, <1>9, <3>1
    <3>5. k = lo /\ l = i => ~(k = a => l >= c)
      BY <1>8, <1>9, <3>1
    <3> QED BY <3>2, <3>3, <3>4, <3>5, Zenon
  <2> QED BY <1>1, <1>8, <2>1, <2>2, MakeWhole
<1>13. r.start.node = a /\ r.start.cur = c /\ r.finish.node = hi /\ r.finish.cur = j
  BY <1>8 DEF At
<1>14. size(r) \in Nat /\ hi - a \in Nat /\ c + size(r) = ChunkSize * (hi - a) + j
  BY <1>12, <1>13, Sized, Zenon
<1>15. size(r) = size(s) - 1
  <2>1. CASE a = lo /\ c = i + 1
    <3>1. ChunkSize * (hi - lo) \in Int
      BY <1>3, ChunkSizes
    <3> QED BY <1>3, <1>9, <1>14, <2>1, <3>1
  <2>2. CASE a = lo + 1 /\ i + 1 = ChunkSize /\ c = 0
    <3>1. hi - lo = (hi - a) + 1 /\ ChunkSize * (hi - a) \in Int
      BY <1>9, <1>14, <2>2, ChunkSizes
    <3>2. ChunkSize * ((hi - a) + 1) = ChunkSize * (hi - a) + ChunkSize
      BY <1>14, ChunkSizes
    <3>3. (ChunkSize - 1) + size(s) = ChunkSize * (hi - a) + ChunkSize + j
      BY <1>3, <1>9, <2>2, <3>1, <3>2
    <3>4. size(r) = ChunkSize * (hi - a) + j
      BY <1>14, <2>2
    <3> QED BY <1>3, <1>9, <1>14, <3>1, <3>3, <3>4
  <2> QED BY <1>8, <2>1, <2>2, Zenon
<1>16. ASSUME NEW k \in 0 .. size(s) - 2 PROVE Item(r, k) = Item(s, k + 1)
  <2>1. k + 1 \in 0 .. size(s) /\ k \in Nat /\ k + 1 < size(s)
    BY <1>3
  <2>2. PICK q \in Nat, l \in Places : /\ i + (k + 1) = ChunkSize * q + l
                                       /\ Node(s, k + 1) = lo + q /\ Spot(s, k + 1) = l
                                       /\ lo + q \in lo .. hi
    BY <1>0, <2>1, Located
  <2>3. l \in Nat /\ l < ChunkSize /\ (q = 0 => ChunkSize * q = 0)
    BY ChunkSizes DEF Places
  <2>4. ~(lo + q = lo /\ l = i)
    BY <1>9, <2>1, <2>2, <2>3
  <2>5. lo + q \in a .. hi /\ Node(r, k) = lo + q /\ Spot(r, k) = l
    <3>1. CASE a = lo /\ c = i + 1
      <4>1. c + k = ChunkSize * q + l
        BY <1>9, <2>1, <2>2, <3>1
      <4>2. Node(r, k) = a + q /\ Spot(r, k) = l
        BY <1>12, <1>13, <2>1, <4>1, Spotted
      <4> QED BY <2>2, <3>1, <4>2, Zenon
    <3>2. CASE a = lo + 1 /\ i + 1 = ChunkSize /\ c = 0
      <4>1. q # 0
        BY <1>9, <2>1, <2>2, <2>3, <3>2
      <4>2. PICK u \in Nat : q = u + 1
        <5>1. q - 1 \in Nat /\ q = (q - 1) + 1
          BY <4>1
        <5> QED BY <5>1, Zenon
      <4>3. ChunkSize * q = ChunkSize * u + ChunkSize /\ ChunkSize * u \in Nat
        BY <4>2, ChunkSizes
      <4>4. c + k = ChunkSize * u + l
        BY <1>9, <2>1, <2>2, <2>3, <3>2, <4>3
      <4>5. Node(r, k) = a + u /\ Spot(r, k) = l
        BY <1>12, <1>13, <2>1, <4>4, Spotted
      <4>6. lo + q = a + u /\ lo + q \in a .. hi
        BY <1>9, <2>2, <3>2, <4>2
      <4> QED BY <4>5, <4>6, Zenon
    <3> QED BY <1>8, <3>1, <3>2, Zenon
  <2>6. Cell(r, lo + q, l) = Cell(s, lo + q, l)
    BY <1>10, <2>4, <2>5, Zenon
  <2> QED BY <2>2, <2>5, <2>6, Zenon DEF Item
<1> QED BY <1>12, <1>15, <1>16, Zenon

-----------------------------------------------------------------------------
\* What start_ + k leads to: the sums stay below the word, so that nothing wraps.
LEMMA PlaceIs ==
    ASSUME NEW s, NEW n, Whole(s, n), n <= MaxNodes, size(s) <= MaxLen, NEW k \in 0 .. size(s) - 1
    PROVE  place(s, k) = At(s.map, Node(s, k), Spot(s, k))
<1>0. PICK lo, hi, i, j : lo = s.start.node /\ hi = s.finish.node /\ i = s.start.cur /\ j = s.finish.cur
  BY Zenon
<1>1. /\ {lo, hi, n} \subseteq Nat /\ lo <= hi /\ hi < n /\ i \in Places
      /\ s.start = At(s.map, lo, i) /\ size(s) \in Nat /\ s.map \in [0 .. n - 1 -> Nat]
  <2>1. s.map \in [0 .. n - 1 -> Nat]
    BY WholeFacts, Zenon
  <2> QED BY <1>0, <2>1, Parts
<1>2. PICK q \in Nat, l \in Places :
         /\ i + k = ChunkSize * q + l /\ Node(s, k) = lo + q /\ Spot(s, k) = l /\ lo + q \in lo .. hi
  <2>1. k \in 0 .. size(s)
    BY <1>1
  <2> QED BY <1>0, <2>1, Located
<1>3. /\ ChunkSize \in Nat \ {0} /\ PtrSize \in Nat \ {0} /\ Word \in Nat \ {0}
      /\ MaxLen \in Nat /\ MaxNodes \in Nat /\ Word > MaxLen + ChunkSize /\ Word > MaxNodes * PtrSize
  BY DequeAssumption, SequenceAssumption, Zenon
<1>4. k \in Nat /\ i \in Nat /\ l \in Nat /\ l < ChunkSize /\ i < ChunkSize /\ lo + q \in Nat /\ lo + q < MaxNodes
  <2>1. k \in Nat /\ i \in Nat /\ l \in Nat /\ l < ChunkSize /\ i < ChunkSize
    BY <1>1, <1>3 DEF Places
  <2>2. lo + q \in Nat /\ lo + q <= hi
    BY <1>1, <1>2
  <2> QED BY <1>1, <1>3, <2>1, <2>2
<1>5. (k + i) % Word = k + i
  <2>1. k + i \in 0 .. Word - 1 /\ 0 \in Nat
    BY <1>1, <1>3, <1>4
  <2>2. Word * 0 + (k + i) = k + i
    BY <1>3, <1>4
  <2> QED BY <1>3, <2>1, <2>2, Quotient
<1>6. (k + i) \div ChunkSize = q /\ (k + i) - q * ChunkSize = l
  <2>1. k + i = ChunkSize * q + l /\ q * ChunkSize = ChunkSize * q /\ ChunkSize * q \in Nat
    BY <1>2, <1>3, <1>4
  <2>2. (ChunkSize * q + l) \div ChunkSize = q
    BY <1>3, Quotient, Zenon DEF Places
  <2> QED BY <1>4, <2>1, <2>2
<1>7. (((lo + q) * PtrSize) % Word) \div PtrSize = lo + q
  <2> DEFINE u == lo + q
  <2>1. u \in Nat /\ u < MaxNodes
    BY <1>4, Zenon
  <2> HIDE DEF u
  <2>2. PtrSize * u + PtrSize <= PtrSize * MaxNodes
    BY <1>3, <2>1, Times, Zenon
  <2>3. u * PtrSize \in Nat /\ u * PtrSize = PtrSize * u /\ PtrSize * MaxNodes = MaxNodes * PtrSize
    BY <1>3, <2>1
  <2>4. u * PtrSize < Word
    BY <1>3, <2>1, <2>2, <2>3
  <2>5. (u * PtrSize) % Word = u * PtrSize
    <3>1. u * PtrSize \in 0 .. Word - 1 /\ Word * 0 + (u * PtrSize) = u * PtrSize
      BY <1>3, <2>3, <2>4
    <3> QED BY <1>3, <3>1, Quotient, Zenon
  <2>6. PtrSize * u + 0 = u * PtrSize /\ 0 \in 0 .. PtrSize - 1
    BY <1>3, <2>3
  <2>7. (u * PtrSize) \div PtrSize = u
    BY <1>3, <2>1, <2>6, Quotient, Zenon
  <2> QED BY <2>5, <2>7, Zenon DEF u
<1>8. CASE k + i < ChunkSize
  <2>1. q = 0
    <3>1. 0 \in Nat /\ ChunkSize * 0 + (k + i) = k + i /\ k + i \in 0 .. ChunkSize - 1
      BY <1>3, <1>4, <1>8
    <3>2. (k + i) \div ChunkSize = 0
      BY <1>3, <3>1, Quotient, Zenon
    <3> QED BY <1>6, <3>2, Zenon
  <2>2. place(s, k) = [s.start EXCEPT !.cur = k + i]
    BY <1>0, <1>5, <1>8, Zenon DEF place, plus
  <2>3. l = k + i /\ lo + q = lo
    BY <1>1, <1>3, <1>4, <1>6, <2>1
  <2> QED BY <1>1, <1>2, <2>2, <2>3 DEF At
<1>9. CASE ~(k + i < ChunkSize)
  <2>1. place(s, k) = set_node(s.map, lo + q, l)
    BY <1>0, <1>5, <1>6, <1>7, <1>9, Zenon DEF place, plus
  <2>2. lo + q \in DOMAIN s.map
    BY <1>1, <1>2
  <2> QED BY <1>2, <2>1, <2>2, Zenon DEF set_node, At
<1> QED BY <1>8, <1>9, Zenon

\* A chunk of the deque is read where it is.
LEMMA AtItem ==
    ASSUME NEW s, NEW n, Whole(s, n), n <= MaxNodes, size(s) <= MaxLen, NEW k \in 0 .. size(s) - 1
    PROVE  at(s, k) = Item(s, k)
<1>1. plus(s.map, s.start, k) = At(s.map, Node(s, k), Spot(s, k))
  BY PlaceIs, Zenon DEF place
<1>2. k \in 0 .. size(s) /\ size(s) \in Nat
  BY Sized
<1>3. Node(s, k) \in s.start.node .. s.finish.node
  BY <1>2, Located, Zenon
<1>4. s.map[Node(s, k)] \in DOMAIN s.heap
  <2>1. Chunks(s, n, s.start.node, s.finish.node)
    BY WholeFacts, Zenon
  <2> QED BY <1>3, <2>1, Zenon DEF Chunks
<1> QED BY <1>1, <1>4 DEF at, deref, At, Item, Cell

\* Two elements do not share a place.
LEMMA Apart ==
    ASSUME NEW s, NEW n, Whole(s, n), NEW k \in 0 .. size(s) - 1, NEW m \in 0 .. size(s) - 1,
           Node(s, k) = Node(s, m), Spot(s, k) = Spot(s, m)
    PROVE  k = m
<1>1. size(s) \in Nat /\ k \in 0 .. size(s) /\ m \in 0 .. size(s)
  BY Sized
<1>2. s.start.node \in Nat /\ s.start.cur \in Nat
  BY WholeFacts, ChunkSizes DEF Places
<1>3. PICK q \in Nat, l \in Places :
         s.start.cur + k = ChunkSize * q + l /\ Node(s, k) = s.start.node + q /\ Spot(s, k) = l
  BY <1>1, Located
<1>4. PICK q2 \in Nat, l2 \in Places :
         s.start.cur + m = ChunkSize * q2 + l2 /\ Node(s, m) = s.start.node + q2 /\ Spot(s, m) = l2
  BY <1>1, Located
<1>5. q = q2 /\ l = l2
  <2>1. s.start.node + q = s.start.node + q2 /\ l = l2
    BY <1>3, <1>4, Zenon
  <2> QED BY <1>2, <2>1
<1> QED BY <1>1, <1>2, <1>3, <1>4, <1>5
-----------------------------------------------------------------------------
\* The elements of T that lie at place i of chunk c, and the element that moves to the place of
\* element k; the deque after the elements moved to the places of T.
Spots(s, T, c, i) == { n \in T : place(s, n).first = c /\ place(s, n).cur = i }
From(side, k) == IF side = "front" THEN k - 1 ELSE k + 1
Over(s, side, T) ==
    [s EXCEPT !.heap = [c \in DOMAIN s.heap |-> [i \in 0 .. ChunkSize - 1 |->
        IF Spots(s, T, c, i) = {} THEN s.heap[c][i]
        ELSE at(s, From(side, CHOOSE k \in Spots(s, T, c, i) : TRUE))]]]
Movable(s, side, T) ==
    /\ T \subseteq 0 .. size(s) - 1
    /\ \A k \in T : From(side, k) \in 0 .. size(s) - 1

\* Elements that move to their neighbours' places leave the deque whole.
LEMMA MovedOver ==
    ASSUME NEW s, NEW n, Whole(s, n), n <= MaxNodes, size(s) <= MaxLen, NEW side,
           NEW T, Movable(s, side, T), NEW r, r = Over(s, side, T)
    PROVE  /\ Whole(r, n) /\ size(r) = size(s)
           /\ \A k \in 0 .. size(s) - 1 :
                 Item(r, k) = IF k \in T THEN Item(s, From(side, k)) ELSE Item(s, k)
<1>a. T \subseteq 0 .. size(s) - 1 /\ \A k \in T : From(side, k) \in 0 .. size(s) - 1
  BY Zenon DEF Movable
<1>0. PICK lo, hi, i, j : lo = s.start.node /\ hi = s.finish.node /\ i = s.start.cur /\ j = s.finish.cur
  BY Zenon
<1>1. /\ Chunks(s, n, lo, hi) /\ {lo, hi, n} \subseteq Nat /\ lo <= hi /\ hi < n
      /\ i \in Places /\ j \in Places /\ (lo = hi => i <= j)
      /\ s.start = At(s.map, lo, i) /\ s.finish = At(s.map, hi, j) /\ size(s) \in Nat
  BY <1>0, Parts
<1>2. \A k \in lo .. hi, l \in Places :
         Cell(s, k, l) # Raw <=> (k = lo => l >= i) /\ (k = hi => l < j)
  BY <1>0, Parts
<1>3. \A k \in 0 .. size(s) - 1 : /\ Node(s, k) \in lo .. hi /\ Spot(s, k) \in Places
                                  /\ Node(s, k) = lo => Spot(s, k) >= i
                                  /\ Node(s, k) = hi => Spot(s, k) < j
                                  /\ Item(s, k) \in Values
  <2> SUFFICES ASSUME NEW k \in 0 .. size(s) - 1
               PROVE  /\ Node(s, k) \in lo .. hi /\ Spot(s, k) \in Places
                      /\ Node(s, k) = lo => Spot(s, k) >= i
                      /\ Node(s, k) = hi => Spot(s, k) < j
                      /\ Item(s, k) \in Values
    BY Zenon
  <2>1. k \in 0 .. size(s) /\ k < size(s)
    BY <1>1
  <2>2. /\ Node(s, k) \in lo .. hi /\ Spot(s, k) \in Places /\ Live(s, Node(s, k), Spot(s, k))
    BY <1>0, <2>1, Located
  <2>3. Item(s, k) \in Values
    BY ItemValue, Zenon
  <2> QED BY <1>0, <2>2, <2>3, Zenon DEF Live
<1>4. \A k \in 0 .. size(s) - 1 : place(s, k) = At(s.map, Node(s, k), Spot(s, k))
  BY PlaceIs, Zenon
<1>5. \A k \in T : at(s, From(side, k)) = Item(s, From(side, k))
  BY <1>a, AtItem, Zenon
\* The only element of T at the place of element k is k.
<1>6. ASSUME NEW u \in lo .. hi, NEW l \in Places, NEW k \in T
      PROVE  k \in Spots(s, T, s.map[u], l) <=> Node(s, k) = u /\ Spot(s, k) = l
  <2>1. place(s, k).first = s.map[Node(s, k)] /\ place(s, k).cur = Spot(s, k) /\ Node(s, k) \in lo .. hi
    BY <1>a, <1>3, <1>4 DEF At
  <2>2. s.map[Node(s, k)] = s.map[u] <=> Node(s, k) = u
    BY <1>1, <2>1, Zenon DEF Chunks
  <2> QED BY <2>1, <2>2, Zenon DEF Spots
<1> DEFINE h == [c \in DOMAIN s.heap |-> [l \in 0 .. ChunkSize - 1 |->
                   IF Spots(s, T, c, l) = {} THEN s.heap[c][l]
                   ELSE at(s, From(side, CHOOSE k \in Spots(s, T, c, l) : TRUE))]]
<1>7. r = [map |-> s.map, heap |-> h, start |-> s.start, finish |-> s.finish]
  <2>1. s = [map |-> s.map, heap |-> s.heap, start |-> s.start, finish |-> s.finish]
    BY <1>1, Zenon DEF Chunks
  <2>2. r = [s EXCEPT !.heap = h]
    BY Zenon DEF Over
  <2> HIDE DEF h
  <2> QED BY <2>1, <2>2, Zenon
<1>8. ASSUME NEW u \in lo .. hi, NEW l \in Places
      PROVE  /\ Cell(r, u, l) \in Values \cup {Raw}
             /\ \/ /\ Cell(r, u, l) = Cell(s, u, l) /\ \A k \in T : ~(Node(s, k) = u /\ Spot(s, k) = l)
                \/ \E k \in T : /\ Node(s, k) = u /\ Spot(s, k) = l
                                /\ Cell(r, u, l) = Item(s, From(side, k))
  <2>1. s.map[u] \in DOMAIN s.heap /\ Cell(s, u, l) \in Values \cup {Raw}
    BY <1>1, ZenonT(60) DEF Chunks, Cell, Places
  <2>2. Cell(r, u, l) = IF Spots(s, T, s.map[u], l) = {} THEN Cell(s, u, l)
                        ELSE at(s, From(side, CHOOSE k \in Spots(s, T, s.map[u], l) : TRUE))
    <3>1. Cell(r, u, l) = h[s.map[u]][l]
      BY <1>7 DEF Cell
    <3> QED BY <2>1, <3>1, Zenon DEF Cell, Places
  <2> HIDE DEF h
  <2>3. CASE Spots(s, T, s.map[u], l) = {}
    BY <1>6, <2>1, <2>2, <2>3, Zenon
  <2>4. CASE Spots(s, T, s.map[u], l) # {}
    <3>1. PICK k : k = CHOOSE x \in Spots(s, T, s.map[u], l) : TRUE
      BY Zenon
    <3>2. k \in Spots(s, T, s.map[u], l)
      BY <2>4, <3>1, Zenon
    <3>3. k \in T
      BY <3>2, Zenon DEF Spots
    <3>4. Node(s, k) = u /\ Spot(s, k) = l
      BY <1>6, <3>2, <3>3, Zenon
    <3>5. Cell(r, u, l) = Item(s, From(side, k))
      BY <1>5, <2>2, <2>4, <3>1, <3>3, Zenon
    <3>6. Item(s, From(side, k)) \in Values
      BY <1>a, <1>3, <3>3
    <3> QED BY <3>3, <3>4, <3>5, <3>6, Zenon
  <2> QED BY <2>3, <2>4, Zenon
<1>9. Chunks(r, n, lo, hi)
  <2>1. r.map = s.map /\ r.heap = h /\ r = [map |-> r.map, heap |-> r.heap, start |-> r.start, finish |-> r.finish]
    BY <1>7
  <2>2. /\ s.map \in [0 .. n - 1 -> Nat] /\ DOMAIN s.heap = { s.map[k] : k \in lo .. hi }
        /\ \A k \in lo .. hi : s.map[k] > 0
        /\ \A k, l \in lo .. hi : s.map[k] = s.map[l] => k = l
    BY <1>1, Zenon DEF Chunks
  <2>3. DOMAIN h = DOMAIN s.heap
    BY Zenon
  <2>4. \A k \in lo .. hi : h[s.map[k]] \in [0 .. ChunkSize - 1 -> Values \cup {Raw}]
    <3> SUFFICES ASSUME NEW k \in lo .. hi
                 PROVE  h[s.map[k]] \in [0 .. ChunkSize - 1 -> Values \cup {Raw}]
      BY Zenon
    <3>1. s.map[k] \in DOMAIN s.heap
      BY <2>2, Zenon
    <3>2. \A l \in 0 .. ChunkSize - 1 : h[s.map[k]][l] \in Values \cup {Raw}
      <4> HIDE DEF h
      <4> QED BY <1>8, <2>1, Zenon DEF Cell, Places
    <3>3. h[s.map[k]] = [l \in 0 .. ChunkSize - 1 |-> h[s.map[k]][l]]
      BY <3>1
    <3> HIDE DEF h
    <3> QED BY <3>2, <3>3, Zenon
  <2> HIDE DEF h
  <2> QED BY <1>1, <2>1, <2>2, <2>3, <2>4 DEF Chunks
<1> HIDE DEF h
<1>10. r.start = At(r.map, lo, i) /\ r.finish = At(r.map, hi, j)
  BY <1>1, <1>7
<1>11. Whole(r, n)
  <2>1. ASSUME NEW u \in lo .. hi, NEW l \in Places
        PROVE  Cell(r, u, l) # Raw <=> (u = lo => l >= i) /\ (u = hi => l < j)
    <3>1. CASE Cell(r, u, l) = Cell(s, u, l)
      BY <1>2, <3>1, Zenon
    <3>2. CASE \E k \in T : /\ Node(s, k) = u /\ Spot(s, k) = l
                            /\ Cell(r, u, l) = Item(s, From(side, k))
      <4>1. PICK k \in T : /\ Node(s, k) = u /\ Spot(s, k) = l
                           /\ Cell(r, u, l) = Item(s, From(side, k))
        BY <3>2, Zenon
      <4>2. Item(s, From(side, k)) # Raw
        BY <1>a, <1>3, SequenceAssumption, Zenon
      <4>3. (u = lo => l >= i) /\ (u = hi => l < j)
        BY <1>a, <1>3, <4>1, Zenon
      <4> QED BY <4>1, <4>2, <4>3, Zenon
    <3> QED BY <1>8, <3>1, <3>2, Zenon
  <2> QED BY <1>1, <1>9, <1>10, <2>1, MakeWhole
<1>12. r.start = s.start /\ r.finish = s.finish /\ r.map = s.map
  BY <1>7
<1>13. size(r) = size(s)
  BY <1>12, Zenon DEF size
<1>14. ASSUME NEW k \in 0 .. size(s) - 1
       PROVE  Item(r, k) = IF k \in T THEN Item(s, From(side, k)) ELSE Item(s, k)
  <2>1. Node(r, k) = Node(s, k) /\ Spot(r, k) = Spot(s, k)
    BY <1>12, Zenon DEF Node, Spot
  <2>2. Node(s, k) \in lo .. hi /\ Spot(s, k) \in Places
    BY <1>3, Zenon
  <2>3. \A m \in T : Node(s, m) = Node(s, k) /\ Spot(s, m) = Spot(s, k) => m = k
    BY <1>a, Apart, Zenon
  <2>4. Item(r, k) = Cell(r, Node(s, k), Spot(s, k)) /\ Item(s, k) = Cell(s, Node(s, k), Spot(s, k))
    BY <2>1, Zenon DEF Item
  <2> QED BY <1>8, <2>2, <2>3, <2>4, Zenon
<1> QED BY <1>11, <1>13, <1>14, Zenon

\* erase(pos) removes the element at pos, whichever side moves.
LEMMA Erased ==
    ASSUME NEW s, NEW n, Whole(s, n), n <= MaxNodes, size(s) <= MaxLen,
           NEW pos \in Nat, pos < size(s), NEW r, r = erase(s, pos)
    PROVE  /\ Whole(r, n) /\ size(r) = size(s) - 1
           /\ \A k \in 0 .. size(s) - 2 : Item(r, k) = IF k < pos THEN Item(s, k) ELSE Item(s, k + 1)
<1>1. size(s) \in Nat
  BY Sized, Zenon
<1> DEFINE front == pos < size(s) \div 2
           T == IF front THEN 1 .. pos ELSE pos .. size(s) - 2
<1>2. PICK side : side = IF front THEN "front" ELSE "back"
  BY Zenon
<1> DEFINE t == Over(s, side, T)
<1>a. r = IF front THEN pop_front(t) ELSE pop_back(t)
  <2> DEFINE At2(c, i) == IF Spots(s, T, c, i) = {} THEN s.heap[c][i]
                          ELSE LET k == CHOOSE k \in Spots(s, T, c, i) : TRUE
                               IN at(s, IF front THEN k - 1 ELSE k + 1)
             t2 == [s EXCEPT !.heap = [c \in DOMAIN s.heap |-> [i \in 0 .. ChunkSize - 1 |-> At2(c, i)]]]
  <2>1. r = IF front THEN pop_front(t2) ELSE pop_back(t2)
    BY Zenon DEF erase, Spots
  <2>2. \A k : From(side, k) = IF front THEN k - 1 ELSE k + 1
    BY <1>2, Zenon DEF From
  <2> DEFINE At1(c, i) == IF Spots(s, T, c, i) = {} THEN s.heap[c][i]
                          ELSE at(s, From(side, CHOOSE k \in Spots(s, T, c, i) : TRUE))
  <2>3. t = [s EXCEPT !.heap = [c \in DOMAIN s.heap |-> [i \in 0 .. ChunkSize - 1 |-> At1(c, i)]]]
    BY Zenon DEF Over
  <2> HIDE DEF front, T
  <2>4. \A c, i : At1(c, i) = At2(c, i)
    BY <2>2
  <2> HIDE DEF At1, At2
  <2>5. t = t2
    BY <2>3, <2>4, Zenon
  <2> HIDE DEF t, t2
  <2> QED BY <2>1, <2>5
<1>3. /\ front => T = 1 .. pos
      /\ ~front => T = pos .. size(s) - 2
  BY Zenon
<1> HIDE DEF front, T
<1>4. Movable(s, side, T)
  <2>1. CASE front
    BY <1>1, <1>2, <1>3, <2>1 DEF From, Movable
  <2>2. CASE ~front
    BY <1>1, <1>2, <1>3, <2>2 DEF From, Movable
  <2> QED BY <2>1, <2>2, Zenon
<1>5. t = Over(s, side, T)
  BY Zenon
<1> HIDE DEF t
<1>6. /\ Whole(t, n) /\ size(t) = size(s)
      /\ \A k \in 0 .. size(s) - 1 :
            Item(t, k) = IF k \in T THEN Item(s, From(side, k)) ELSE Item(s, k)
  BY <1>4, <1>5, MovedOver
<1>7. size(t) > 0
  BY <1>1, <1>6
<1>8. CASE front
  <2>1. r = pop_front(t)
    BY <1>a, <1>8, Zenon
  <2>2. /\ Whole(r, n) /\ size(r) = size(t) - 1
        /\ \A k \in 0 .. size(t) - 2 : Item(r, k) = Item(t, k + 1)
    BY <1>6, <1>7, <2>1, PoppedFront, Zenon
  <2>3. ASSUME NEW k \in 0 .. size(s) - 2
        PROVE  Item(r, k) = IF k < pos THEN Item(s, k) ELSE Item(s, k + 1)
    <3>1. k + 1 \in 0 .. size(s) - 1 /\ (k + 1 \in T <=> k < pos) /\ From(side, k + 1) = k
      BY <1>1, <1>2, <1>3, <1>8 DEF From
    <3>2. Item(r, k) = Item(t, k + 1)
      BY <1>6, <2>2, Zenon
    <3>3. Item(t, k + 1) = IF k + 1 \in T THEN Item(s, From(side, k + 1)) ELSE Item(s, k + 1)
      BY <1>6, <3>1, Zenon
    <3> QED BY <3>1, <3>2, <3>3, Zenon
  <2> QED BY <1>6, <2>2, <2>3, Zenon
<1>9. CASE ~front
  <2>1. r = pop_back(t)
    BY <1>a, <1>9, Zenon
  <2>2. /\ Whole(r, n) /\ size(r) = size(t) - 1
        /\ \A k \in 0 .. size(t) - 2 : Item(r, k) = Item(t, k)
    BY <1>6, <1>7, <2>1, PoppedBack
  <2>3. ASSUME NEW k \in 0 .. size(s) - 2
        PROVE  Item(r, k) = IF k < pos THEN Item(s, k) ELSE Item(s, k + 1)
    <3>1. k \in 0 .. size(s) - 1 /\ (k \in T <=> ~(k < pos)) /\ From(side, k) = k + 1
      BY <1>1, <1>2, <1>3, <1>9 DEF From
    <3>2. Item(r, k) = Item(t, k)
      BY <1>6, <2>2, Zenon
    <3>3. Item(t, k) = IF k \in T THEN Item(s, From(side, k)) ELSE Item(s, k)
      BY <1>6, <3>1, Zenon
    <3> QED BY <3>1, <3>2, <3>3, Zenon
  <2> QED BY <1>6, <2>2, <2>3, Zenon
<1> QED BY <1>8, <1>9, Zenon

-----------------------------------------------------------------------------
\* Deque(m, v), where no chunk is allocated, holds m times v.
LEMMA Built ==
    ASSUME NEW h, DOMAIN h = {}, NEW m \in Nat, NEW v, v \in Values \/ (m = 0 /\ v = Raw),
           NEW r, r = Constructed(h, m, v)
    PROVE  /\ Whole(r, (m \div ChunkSize) + 3) /\ size(r) = m
           /\ \A k \in 0 .. m - 1 : Item(r, k) = v
<1>1. PICK p, b : p = m \div ChunkSize /\ b = m % ChunkSize
  BY Zenon
<1>2. p \in Nat /\ b \in Places /\ m = ChunkSize * p + b /\ ChunkSize \in Nat \ {0}
  BY <1>1, ChunkSizes, Divided, Zenon DEF Places
<1> DEFINE w == [i \in 0 .. p + 2 |-> IF i \in 1 .. p + 1 THEN i ELSE 0]
           g == [c \in 1 .. p + 1 |-> [j \in 0 .. ChunkSize - 1 |->
                                          IF (c - 1) * ChunkSize + j < m THEN v ELSE Raw]]
<1>3. r = [map |-> w, heap |-> g, start |-> At(w, 1, 0), finish |-> At(w, p + 1, b)]
  <2> DEFINE num_chunks == m \div ChunkSize + 1
             map_size == num_chunks + 2
             map_start == (map_size - num_chunks) \div 2
             base == Max(DOMAIN h \cup {0}) + 1 - map_start
             nodes == map_start .. map_start + num_chunks - 1
             w2 == [i \in 0 .. map_size - 1 |-> IF i \in nodes THEN base + i ELSE 0]
             F(i) == [j \in 0 .. ChunkSize - 1 |->
                         IF (i - map_start) * ChunkSize + j < m THEN v ELSE Raw]
             g2 == [c \in DOMAIN h \cup { w2[i] : i \in nodes } |-> IF c \in DOMAIN h THEN h[c] ELSE F(c - base)]
  <2>1. r = [map |-> w2, heap |-> g2, start |-> set_node(w2, map_start, 0),
             finish |-> set_node(w2, map_start + num_chunks - 1, m % ChunkSize)]
    BY Zenon DEF Constructed
  <2>2. num_chunks = p + 1 /\ map_size - 1 = p + 2 /\ map_start = 1
    BY <1>1, <1>2
  <2>3. Max(DOMAIN h \cup {0}) = 0
    <3>1. DOMAIN h \cup {0} = {0}
      BY Zenon
    <3> QED BY <3>1 DEF Max
  <2> HIDE DEF num_chunks, map_size, map_start
  <2>9. map_start + num_chunks - 1 = p + 1
    BY <1>2, <2>2
  <2>4. base = 0 /\ nodes = 1 .. p + 1
    BY <2>2, <2>3, <2>9
  <2> HIDE DEF base, nodes
  <2>5. w2 = w
    BY <1>2, <2>2, <2>4
  <2>6. DOMAIN h \cup { w2[i] : i \in nodes } = 1 .. p + 1
    <3>1. \A i \in 1 .. p + 1 : w[i] = i
      BY <1>2
    <3> HIDE DEF w, w2
    <3> QED BY <2>4, <2>5, <3>1, Zenon
  <2>7. g2 = g
    <3>1. \A c \in 1 .. p + 1 : c - base = c
      BY <1>2, <2>4
    <3>2. \A c \in 1 .. p + 1 : F(c - base) = F(c)
      BY <3>1, Zenon
    <3>3. \A c : F(c) = [j \in 0 .. ChunkSize - 1 |-> IF (c - 1) * ChunkSize + j < m THEN v ELSE Raw]
      BY <2>2, Zenon
    <3> DEFINE D == DOMAIN h \cup { w2[i] : i \in nodes }
    <3>4. D = 1 .. p + 1
      BY <2>6, Zenon
    <3> HIDE DEF F, D
    <3>5. g2 = [c \in 1 .. p + 1 |-> F(c)]
      <4>1. g2 = [c \in D |-> IF c \in DOMAIN h THEN h[c] ELSE F(c - base)]
        BY Zenon DEF D
      <4> HIDE DEF g2
      <4> QED BY <3>2, <3>4, <4>1, Zenon
    <3> HIDE DEF g2
    <3> QED BY <3>3, <3>5, Zenon
  <2>8. set_node(w, 1, 0) = At(w, 1, 0) /\ set_node(w, p + 1, b) = At(w, p + 1, b)
    <3>1. 1 \in DOMAIN w /\ p + 1 \in DOMAIN w
      BY <1>2
    <3> HIDE DEF w
    <3> QED BY <3>1, Zenon DEF set_node, At
  <2> HIDE DEF w, w2, g, g2
  <2> QED BY <1>1, <2>1, <2>2, <2>5, <2>7, <2>8, <2>9
<1>4. /\ w \in [0 .. p + 2 -> Nat] /\ \A i \in 1 .. p + 1 : w[i] = i
      /\ DOMAIN g = 1 .. p + 1
      /\ \A c \in 1 .. p + 1, j \in Places : g[c][j] = IF (c - 1) * ChunkSize + j < m THEN v ELSE Raw
      /\ \A c \in 1 .. p + 1 : g[c] \in [0 .. ChunkSize - 1 -> Values \cup {Raw}]
  <2>1. w \in [0 .. p + 2 -> Nat] /\ \A i \in 1 .. p + 1 : w[i] = i
    BY <1>2
  <2>2. /\ DOMAIN g = 1 .. p + 1
        /\ \A c \in 1 .. p + 1, j \in Places : g[c][j] = IF (c - 1) * ChunkSize + j < m THEN v ELSE Raw
    BY Zenon DEF Places
  <2>3. \A c \in 1 .. p + 1 : g[c] \in [0 .. ChunkSize - 1 -> Values \cup {Raw}]
    <3>1. v \in Values \cup {Raw}
      BY Zenon
    <3> QED BY <3>1, Zenon
  <2> HIDE DEF w, g
  <2> QED BY <2>1, <2>2, <2>3, Zenon
<1> HIDE DEF w, g
<1>5. (m \div ChunkSize) + 3 = p + 3 /\ (p + 3) - 1 = p + 2 /\ p + 3 \in Nat /\ 1 <= p + 1 /\ p + 1 < p + 3 /\ p + 1 \in Nat
  BY <1>1, <1>2
<1>6. Chunks(r, p + 3, 1, p + 1)
  <2>1. r.map = w /\ r.heap = g /\ r = [map |-> r.map, heap |-> r.heap, start |-> r.start, finish |-> r.finish]
    BY <1>3
  <2>2. DOMAIN g = { w[i] : i \in 1 .. p + 1 }
    BY <1>4
  <2>3. \A i \in 1 .. p + 1 : w[i] > 0 /\ g[w[i]] \in [0 .. ChunkSize - 1 -> Values \cup {Raw}]
    BY <1>2, <1>4
  <2>4. \A i, j \in 1 .. p + 1 : w[i] = w[j] => i = j
    BY <1>4, Zenon
  <2>5. w \in [0 .. (p + 3) - 1 -> Nat] /\ {p + 3, 1, p + 1} \subseteq Nat
    BY <1>4, <1>5
  <2> QED BY <1>5, <2>1, <2>2, <2>3, <2>4, <2>5 DEF Chunks
<1>7. r.start = At(r.map, 1, 0) /\ r.finish = At(r.map, p + 1, b)
  BY <1>3
<1>8. ASSUME NEW u \in 1 .. p + 1, NEW l \in Places
      PROVE  Cell(r, u, l) = IF u = p + 1 => l < b THEN v ELSE Raw
  <2>1. Cell(r, u, l) = IF (u - 1) * ChunkSize + l < m THEN v ELSE Raw
    BY <1>3, <1>4 DEF Cell
  <2>2. PICK q \in Nat : q = u - 1 /\ (u = p + 1 <=> q = p) /\ q <= p
    BY <1>2
  <2>3. (u - 1) * ChunkSize = ChunkSize * q
    BY <1>2, <2>2
  <2>4. ChunkSize * q + l < ChunkSize * p + b <=> q < p \/ (q = p /\ l < b)
    BY <1>2, Before, Zenon DEF Places
  <2> QED BY <1>2, <2>1, <2>2, <2>3, <2>4
<1>9. ASSUME NEW u \in 1 .. p + 1, NEW l \in Places
      PROVE  Cell(r, u, l) # Raw <=> (u = 1 => l >= 0) /\ (u = p + 1 => l < b)
  <2>1. l >= 0
    BY <1>2 DEF Places
  <2>2. CASE v \in Values
    <3>1. v # Raw
      BY <2>2, SequenceAssumption, Zenon
    <3> QED BY <1>8, <2>1, <3>1, Zenon
  <2>3. CASE m = 0 /\ v = Raw
    <3>1. p = 0 /\ b = 0
      <4>1. 0 \in Places /\ ChunkSize * 0 + 0 = 0
        BY <1>2 DEF Places
      <4>2. 0 \div ChunkSize = 0 /\ 0 % ChunkSize = 0
        BY <1>2, <4>1, Quotient DEF Places
      <4> QED BY <1>1, <2>3, <4>2, Zenon
    <3>2. u = p + 1 /\ ~(l < b)
      BY <1>2, <2>1, <3>1 DEF Places
    <3> QED BY <1>8, <2>3, <3>2, Zenon
  <2> QED BY <2>2, <2>3, Zenon
<1>10. Whole(r, p + 3)
  <2>1. 0 \in Places /\ (1 = p + 1 => 0 <= b)
    BY <1>2 DEF Places
  <2> QED BY <1>2, <1>6, <1>7, <1>9, <2>1, MakeWhole
<1>11. r.start.node = 1 /\ r.start.cur = 0 /\ r.finish.node = p + 1 /\ r.finish.cur = b
  BY <1>7 DEF At
<1>12. size(r) = m
  <2>1. size(r) \in Nat /\ 0 + size(r) = ChunkSize * ((p + 1) - 1) + b
    BY <1>10, <1>11, Sized, Zenon
  <2>2. (p + 1) - 1 = p
    BY <1>2
  <2> QED BY <1>2, <2>1, <2>2
<1>13. ASSUME NEW k \in 0 .. m - 1 PROVE Item(r, k) = v
  <2>1. k \in 0 .. size(r) /\ k < size(r)
    BY <1>12
  <2>2. /\ Node(r, k) \in 1 .. p + 1 /\ Spot(r, k) \in Places /\ Live(r, Node(r, k), Spot(r, k))
    BY <1>10, <1>11, <2>1, Located
  <2> QED BY <1>8, <1>11, <2>2, Zenon DEF Live, Item
<1> QED BY <1>5, <1>10, <1>12, <1>13, Zenon

\* ~Deque leaves neither chunks nor map.
LEMMA Emptied ==
    ASSUME NEW s, NEW n, Whole(s, n), NEW r, r = Destroyed(s)
    PROVE  r = [map |-> << >>, heap |-> << >>, start |-> s.start, finish |-> s.finish]
<1> DEFINE gone == { s.map[k] : k \in s.start.node .. s.finish.node }
<1>1. s.map # << >> /\ Chunks(s, n, s.start.node, s.finish.node)
  BY WholeFacts, Zenon
<1>2. DOMAIN s.heap = gone
  BY <1>1, Zenon DEF Chunks
<1>3. r = [s EXCEPT !.map = << >>, !.heap = [c \in DOMAIN s.heap \ gone |-> s.heap[c]]]
  BY <1>1, Zenon DEF Destroyed
<1> HIDE DEF gone
<1>4. [c \in DOMAIN s.heap \ gone |-> s.heap[c]] = << >>
  BY <1>2
<1>5. s = [map |-> s.map, heap |-> s.heap, start |-> s.start, finish |-> s.finish]
  BY <1>1, Zenon DEF Chunks
<1> QED BY <1>3, <1>4, <1>5, Zenon

\* A copy holds the same.
LEMMA CopiedItems ==
    ASSUME NEW s, NEW n, Whole(s, n), NEW r, r = Copied(s)
    PROVE  /\ Whole(r, n) /\ size(r) = size(s)
           /\ \A k \in 0 .. size(s) - 1 : Item(r, k) = Item(s, k)
<1>0. PICK lo, hi, i, j : lo = s.start.node /\ hi = s.finish.node /\ i = s.start.cur /\ j = s.finish.cur
  BY Zenon
<1>1. /\ Chunks(s, n, lo, hi) /\ {lo, hi, n} \subseteq Nat /\ lo <= hi /\ hi < n
      /\ i \in Places /\ j \in Places /\ (lo = hi => i <= j)
      /\ s.start = At(s.map, lo, i) /\ s.finish = At(s.map, hi, j) /\ size(s) \in Nat
  BY <1>0, Parts
<1>2. \A k \in lo .. hi, l \in Places :
         Cell(s, k, l) # Raw <=> (k = lo => l >= i) /\ (k = hi => l < j)
  BY <1>0, Parts
<1> DEFINE w == [k \in DOMAIN s.map |-> IF k \in lo .. hi THEN s.map[k] ELSE 0]
           Kept(k, l) == (k = lo => l >= i) /\ (k = hi => l < j)
           h == [c \in DOMAIN s.heap |-> [l \in 0 .. ChunkSize - 1 |->
                   IF \E k \in lo .. hi : s.map[k] = c /\ Kept(k, l) THEN s.heap[c][l] ELSE Raw]]
<1>3. r = [s EXCEPT !.map = w, !.heap = h]
  BY <1>0 DEF Copied
<1>4. /\ s.map \in [0 .. n - 1 -> Nat] /\ DOMAIN s.heap = { s.map[k] : k \in lo .. hi }
      /\ \A k \in lo .. hi : /\ s.map[k] > 0 /\ s.map[k] \in DOMAIN s.heap
                             /\ s.heap[s.map[k]] \in [0 .. ChunkSize - 1 -> Values \cup {Raw}]
      /\ \A k, l \in lo .. hi : s.map[k] = s.map[l] => k = l
      /\ s = [map |-> s.map, heap |-> s.heap, start |-> s.start, finish |-> s.finish]
  BY <1>1, Zenon DEF Chunks
<1>5. w \in [0 .. n - 1 -> Nat] /\ \A k \in lo .. hi : w[k] = s.map[k]
  <2>1. \A k \in lo .. hi : k \in 0 .. n - 1
    BY <1>1
  <2>2. w \in [0 .. n - 1 -> Nat]
    BY <1>4, Zenon
  <2> QED BY <1>4, <2>1, <2>2, Zenon
<1>6. DOMAIN h = DOMAIN s.heap
  BY ZenonT(60)
<1>7. ASSUME NEW k \in lo .. hi
      PROVE  h[s.map[k]] = s.heap[s.map[k]]
  <2>1. ASSUME NEW l \in 0 .. ChunkSize - 1
        PROVE  (IF \E u \in lo .. hi : s.map[u] = s.map[k] /\ Kept(u, l) THEN s.heap[s.map[k]][l] ELSE Raw)
               = s.heap[s.map[k]][l]
    <3>1. s.heap[s.map[k]][l] # Raw <=> Kept(k, l)
      BY <1>2, Zenon DEF Cell, Places
    <3> HIDE DEF Kept
    <3> QED BY <3>1, Zenon
  <2>2. h[s.map[k]] = [l \in 0 .. ChunkSize - 1 |->
           IF \E u \in lo .. hi : s.map[u] = s.map[k] /\ Kept(u, l) THEN s.heap[s.map[k]][l] ELSE Raw]
    BY <1>4, Zenon
  <2>3. s.heap[s.map[k]] = [l \in 0 .. ChunkSize - 1 |-> s.heap[s.map[k]][l]]
    BY <1>4, Zenon
  <2> HIDE DEF h, Kept
  <2> QED BY <2>1, <2>2, <2>3, Zenon
<1> HIDE DEF w, h
<1>8. r = [map |-> w, heap |-> h, start |-> s.start, finish |-> s.finish]
  BY <1>3, <1>4, ZenonT(60)
<1>9. Chunks(r, n, lo, hi)
  <2>1. r.map = w /\ r.heap = h /\ r = [map |-> r.map, heap |-> r.heap, start |-> r.start, finish |-> r.finish]
    BY <1>8
  <2>2. DOMAIN h = { w[k] : k \in lo .. hi }
    BY <1>4, <1>5, <1>6
  <2>3. \A k \in lo .. hi : w[k] > 0 /\ h[w[k]] \in [0 .. ChunkSize - 1 -> Values \cup {Raw}]
    BY <1>4, <1>5, <1>7, Zenon
  <2>4. \A k, l \in lo .. hi : w[k] = w[l] => k = l
    BY <1>4, <1>5, ZenonT(30)
  <2> QED BY <1>1, <1>5, <2>1, <2>2, <2>3, <2>4 DEF Chunks
<1>10. \A k \in lo .. hi, l \in Places : Cell(r, k, l) = Cell(s, k, l)
  BY <1>5, <1>7, <1>8 DEF Cell
<1>11. r.start = At(r.map, lo, i) /\ r.finish = At(r.map, hi, j) /\ r.start = s.start /\ r.finish = s.finish
  <2>1. lo \in lo .. hi /\ hi \in lo .. hi
    BY <1>1
  <2> QED BY <1>1, <1>5, <1>8, <2>1 DEF At
<1>12. Whole(r, n)
  <2>1. \A k \in lo .. hi, l \in Places : Cell(r, k, l) # Raw <=> (k = lo => l >= i) /\ (k = hi => l < j)
    BY <1>2, <1>10, Zenon
  <2>2. r.start = At(r.map, lo, i) /\ r.finish = At(r.map, hi, j)
    BY <1>11, Zenon
  <2> HIDE DEF Kept
  <2> QED BY <1>1, <1>9, <2>1, <2>2, MakeWhole
<1>13. size(r) = size(s)
  <2>1. r.map # << >> /\ s.map # << >>
    BY <1>12, WholeFacts, Zenon
  <2> QED BY <1>11, <2>1, Zenon DEF size
<1>14. ASSUME NEW k \in 0 .. size(s) - 1 PROVE Item(r, k) = Item(s, k)
  <2>1. k \in 0 .. size(s)
    BY <1>1
  <2>2. Node(s, k) \in lo .. hi /\ Spot(s, k) \in Places
    BY <1>0, <2>1, Located, Zenon
  <2>3. Node(r, k) = Node(s, k) /\ Spot(r, k) = Spot(s, k)
    BY <1>11, Zenon DEF Node, Spot
  <2> QED BY <1>10, <2>2, <2>3, Zenon DEF Item
<1> QED BY <1>12, <1>13, <1>14, Zenon

=============================================================================
