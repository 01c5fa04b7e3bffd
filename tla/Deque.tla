------------------------------- MODULE Deque -------------------------------
(***************************************************************************)
(* The double-ended queue of include/deque.h: elements in chunks of        *)
(* CHUNK_SIZE, a map of pointers to them, and two iterators.               *)
(*                                                                         *)
(* Pointers are 64-bit words and CHUNK_SIZE a size_t: an iterator that     *)
(* goes back by n adds 2^64 - n, and the map node it then names is taken   *)
(* modulo the word.  Word and PtrSize scale this down.                     *)
(***************************************************************************)
EXTENDS Integers, Sequences, FiniteSets

CONSTANTS Values,
          Raw,         \* a place where no object lives
          ChunkSize,   \* CHUNK_SIZE
          PtrSize,     \* sizeof(T*)
          Word,        \* bytes that a size_t can tell apart
          MaxLen,      \* bound: elements
          MaxNodes     \* bound: map nodes

\* Sizes are positive, map nodes are aligned, and an address space of Word bytes holds the map
\* and a count of the elements; the map may grow beyond what MaxLen elements need at first.
ASSUME DequeAssumption == /\ {ChunkSize, PtrSize, Word} \subseteq Nat \ {0}
                          /\ Word % PtrSize = 0 /\ Word > MaxNodes * PtrSize
                          /\ Word > MaxLen + ChunkSize
                          /\ MaxNodes > (MaxLen \div ChunkSize) + 2
ASSUME SequenceAssumption == Raw \notin Values /\ {MaxLen, MaxNodes} \subseteq Nat

VARIABLES d,     \* map_, the chunks allocated, start_ and finish_
          call   \* history: the last call

vars == <<d, call>>

\* Of FiniteSetsExt, which as a whole makes every step of the proofs slow.
Min(S) == CHOOSE x \in S : \A y \in S : x <= y
Max(S) == CHOOSE x \in S : \A y \in S : x >= y

\* An iterator at place `cur' of the chunk of map node n, in map m.
set_node(m, n, cur) == [node |-> n, first |-> IF n \in DOMAIN m THEN m[n] ELSE 0, cur |-> cur]

\* ++it and --it
inc(m, it) == IF it.cur + 1 = ChunkSize THEN set_node(m, it.node + 1, 0)
              ELSE [it EXCEPT !.cur = @ + 1]
dec(m, it) == IF it.cur = 0 THEN set_node(m, it.node - 1, ChunkSize - 1)
              ELSE [it EXCEPT !.cur = @ - 1]

\* Mutant of plus: the place in the chunk is not counted when choosing the chunk.
plusNoOffset(m, it, n) ==
    IF n < ChunkSize THEN [it EXCEPT !.cur = (@ + n) % ChunkSize]
    ELSE set_node(m, it.node + (n \div ChunkSize), (it.cur + n) % ChunkSize)

\* it += n for a size_t n.  The offset is unsigned, so that of a step back is a large number.
plus(m, it, n) ==
    LET offset == (n + it.cur) % Word
        node_offset == offset \div ChunkSize
        node == (((it.node + node_offset) * PtrSize) % Word) \div PtrSize
    IN IF offset < ChunkSize THEN [it EXCEPT !.cur = offset]
       ELSE set_node(m, node, offset - node_offset * ChunkSize)

\* it -= n
minus(m, it, n) == plus(m, it, (Word - n) % Word)

\* *it: what is read from a chunk that is not there is no element.
deref(s, it) == IF it.first \in DOMAIN s.heap THEN s.heap[it.first][it.cur] ELSE Raw

\* construct_at, destroy_at and assignment
put(s, it, v) == [s EXCEPT !.heap[it.first][it.cur] = v]

size(s) == IF s.map = << >> THEN 0
           ELSE ChunkSize * (s.finish.node - s.start.node) + s.finish.cur - s.start.cur
at(s, n) == deref(s, plus(s.map, s.start, n))
back(s) == deref(s, minus(s.map, s.finish, 1))
-----------------------------------------------------------------------------
RawChunk == [i \in 0 .. ChunkSize - 1 |-> Raw]
FreeChunk(h) == Min((1 .. Cardinality(DOMAIN h) + 1) \ DOMAIN h)
allocate(h) == [c \in DOMAIN h \cup {FreeChunk(h)} |-> IF c \in DOMAIN h THEN h[c] ELSE RawChunk]

\* The map keeps a pointer to the freed chunk, which is no better than none.
deallocate(s, it) == [s EXCEPT !.heap = [c \in DOMAIN s.heap \ {it.first} |-> s.heap[c]],
                               !.map[it.node] = 0]

\* A map of twice the size, with the used nodes in its middle.
reallocate_map(s) ==
    LET used == s.finish.node - s.start.node
        n == 2 * Cardinality(DOMAIN s.map)
        new_start == (n - used) \div 2
        m == [i \in 0 .. n - 1 |-> IF i \in new_start .. new_start + used
                                   THEN s.map[s.start.node + i - new_start] ELSE 0]
    IN [s EXCEPT !.map = m,
                 !.start = set_node(m, new_start, s.start.cur),
                 !.finish = set_node(m, new_start + used, s.finish.cur)]

\* Node n of the map gets a chunk.
NewChunk(s, n) == [s EXCEPT !.map[n] = FreeChunk(s.heap), !.heap = allocate(s.heap)]

add_front_capacity(s) ==
    LET r == IF s.start.node = 0 THEN reallocate_map(s) ELSE s IN NewChunk(r, r.start.node - 1)

add_back_capacity(s) ==
    LET r == IF s.finish.node + 1 = Cardinality(DOMAIN s.map) THEN reallocate_map(s) ELSE s
    IN NewChunk(r, r.finish.node + 1)

push_back(s, v) ==
    LET p == put(s, s.finish, v)
        r == IF s.finish.cur + 1 = ChunkSize THEN add_back_capacity(p) ELSE p
    IN [r EXCEPT !.finish = inc(r.map, @)]

push_front(s, v) ==
    LET r == IF s.start.cur = 0 THEN add_front_capacity(s) ELSE s
        t == [r EXCEPT !.start = dec(r.map, @)]
    IN put(t, t.start, v)

\* Mutant of pop_back: the chunk that becomes empty is kept.
pop_backKeep(s) == LET t == [s EXCEPT !.finish = dec(s.map, @)] IN put(t, t.finish, Raw)

pop_back(s) ==
    LET r == IF s.finish.cur = 0 THEN deallocate(s, s.finish) ELSE s
        t == [r EXCEPT !.finish = dec(r.map, @)]
    IN put(t, t.finish, Raw)

pop_front(s) ==
    LET p == put(s, s.start, Raw)
        r == IF s.start.cur + 1 = ChunkSize THEN deallocate(p, s.start) ELSE p
    IN [r EXCEPT !.start = inc(r.map, @)]

\* The chunk and place of element n.
place(s, n) == plus(s.map, s.start, n)

\* erase(pos): the elements of the shorter side move over it.
erase(s, pos) ==
    LET front == pos < size(s) \div 2
        from(n) == IF front THEN n - 1 ELSE n + 1
        moved == IF front THEN 1 .. pos ELSE pos .. size(s) - 2
        Cell(c, i) == { n \in moved : place(s, n).first = c /\ place(s, n).cur = i }
        r == [s EXCEPT !.heap = [c \in DOMAIN s.heap |-> [i \in 0 .. ChunkSize - 1 |->
                 IF Cell(c, i) = {} THEN s.heap[c][i]
                 ELSE LET n == CHOOSE k \in Cell(c, i) : TRUE IN at(s, from(n))]]]
    IN IF front THEN pop_front(r) ELSE pop_back(r)

\* ~Deque: the elements and chunks from start_ to finish_ go, and the map.
Destroyed(s) ==
    LET gone == { s.map[n] : n \in s.start.node .. s.finish.node }
    IN IF s.map = << >> THEN s
       ELSE [s EXCEPT !.map = << >>, !.heap = [c \in DOMAIN s.heap \ gone |-> s.heap[c]]]

\* Deque(n, v), beside the chunks h that are there.
Constructed(h, n, v) ==
    LET num_chunks == n \div ChunkSize + 1
        map_size == num_chunks + 2
        map_start == (map_size - num_chunks) \div 2
        base == Max(DOMAIN h \cup {0}) + 1 - map_start
        nodes == map_start .. map_start + num_chunks - 1
        m == [i \in 0 .. map_size - 1 |-> IF i \in nodes THEN base + i ELSE 0]
        Filled(i) == [j \in 0 .. ChunkSize - 1 |->
                         IF (i - map_start) * ChunkSize + j < n THEN v ELSE Raw]
    IN [map |-> m,
        heap |-> [c \in DOMAIN h \cup { m[i] : i \in nodes } |->
                     IF c \in DOMAIN h THEN h[c] ELSE Filled(c - base)],
        start |-> set_node(m, map_start, 0),
        finish |-> set_node(m, map_start + num_chunks - 1, n % ChunkSize)]

\* A copy: the same nodes of a map of the same size, and the elements chunk by chunk.
Copied(s) ==
    LET nodes == s.start.node .. s.finish.node
        Kept(n, i) == /\ n = s.start.node => i >= s.start.cur
                      /\ n = s.finish.node => i < s.finish.cur
    IN [s EXCEPT !.map = [n \in DOMAIN s.map |-> IF n \in nodes THEN s.map[n] ELSE 0],
                 !.heap = [c \in DOMAIN s.heap |-> [i \in 0 .. ChunkSize - 1 |->
                     IF \E n \in nodes : s.map[n] = c /\ Kept(n, i) THEN s.heap[c][i] ELSE Raw]]]

Init == d = Constructed(<< >>, 0, Raw) /\ call = <<"new">>
-----------------------------------------------------------------------------
\* A deque that was moved from has no map; it may only be assigned to and destroyed.
Alive == d.map # << >>

\* A push, while the bounds allow it.  The map only grows.
Pushed(c, s) == /\ Alive /\ size(d) < MaxLen /\ Cardinality(DOMAIN s.map) <= MaxNodes
                /\ d' = s /\ call' = c

PushBack(v) == Pushed(<<"push_back", v>>, push_back(d, v))
PushFront(v) == Pushed(<<"push_front", v>>, push_front(d, v))

\* Nothing in the code keeps a caller from popping an empty deque.
PopBack == size(d) > 0 /\ d' = pop_back(d) /\ call' = <<"pop_back">>
PopFront == size(d) > 0 /\ d' = pop_front(d) /\ call' = <<"pop_front">>

\* A position out of range throws and changes nothing.
Erase(pos) == pos < size(d) /\ d' = erase(d, pos) /\ call' = <<"erase", pos>>

\* d = Deque(n, v): the old chunks are freed.
Assign(n, v) == /\ d' = Constructed(Destroyed(d).heap, n, v)
                /\ call' = <<"assign", [i \in 1 .. n |-> v]>>

\* Deque c(d); d = c: the chunks of d are freed and new ones filled from c.
CopyBack == Alive /\ d' = Copied(d) /\ call' = <<"keep">>

\* Deque c(std::move(d)), and c's destructor.
MoveOut == Alive /\ d' = Destroyed(d) /\ call' = <<"move">>

Next == \/ \E v \in Values : PushBack(v) \/ PushFront(v)
        \/ \E i \in 0 .. MaxLen - 1 : Erase(i)
        \/ \E n \in 0 .. MaxLen, v \in Values : Assign(n, v)
        \/ PopBack \/ PopFront \/ CopyBack \/ MoveOut

Spec == Init /\ [][Next]_vars
-----------------------------------------------------------------------------
\* "ASSERT_EQ(deque.back(), 10000 - i)" (deque_test.cpp:150): back() is the last element,
\* wherever in its chunk it lies.
BackIsLast == size(d) > 0 => back(d) = at(d, size(d) - 1) /\ back(d) # Raw

\* Chunks are neither leaked, shared nor freed too early, and their objects are constructed
\* and destroyed once: after any calls the chunks allocated are those that the map names
\* from start_ to finish_, each iterator has the chunk of its node, and objects live just
\* between the iterators.
ChunksOwned ==
    LET nodes == d.start.node .. d.finish.node
        Live(n, i) == /\ n = d.start.node => i >= d.start.cur
                      /\ n = d.finish.node => i < d.finish.cur
    IN IF ~Alive THEN d.heap = << >>
       ELSE /\ nodes \subseteq DOMAIN d.map
            /\ DOMAIN d.heap = { d.map[n] : n \in nodes }
            /\ Cardinality(DOMAIN d.heap) = d.finish.node - d.start.node + 1
            /\ d.start.first = d.map[d.start.node] /\ d.finish.first = d.map[d.finish.node]
            /\ \A n \in nodes, i \in 0 .. ChunkSize - 1 : d.heap[d.map[n]][i] # Raw <=> Live(n, i)

DequeInv == ChunksOwned /\ BackIsLast

\* The deque is a sequence to whoever pushes and pops at both ends, erases, copies and
\* moves it, across chunk boundaries and reallocations of the map.
Items == INSTANCE AbstractSeq WITH items <- [i \in 1 .. size(d) |-> at(d, i - 1)], count <- size(d)

\* Deque s has a map of n nodes, and its nodes lo to hi have a chunk each.
Chunks(s, n, lo, hi) ==
    /\ s = [map |-> s.map, heap |-> s.heap, start |-> s.start, finish |-> s.finish]
    /\ s.map \in [0 .. n - 1 -> Nat] /\ {n, lo, hi} \subseteq Nat /\ lo <= hi /\ hi < n
    /\ DOMAIN s.heap = { s.map[i] : i \in lo .. hi }
    /\ \A i \in lo .. hi : /\ s.map[i] > 0
                           /\ s.heap[s.map[i]] \in [0 .. ChunkSize - 1 -> Values \cup {Raw}]
    /\ \A i, j \in lo .. hi : s.map[i] = s.map[j] => i = j

\* An iterator at place i of the chunk of node n, in map m.
At(m, n, i) == [node |-> n, first |-> m[n], cur |-> i]

\* Objects live just between the iterators, and each of these has the chunk of its node.
Whole(s, n) ==
    LET a == s.start
        b == s.finish
    IN /\ Chunks(s, n, a.node, b.node)
       /\ a = At(s.map, a.node, a.cur) /\ b = At(s.map, b.node, b.cur)
       /\ {a.cur, b.cur} \subseteq 0 .. ChunkSize - 1 /\ (a.node = b.node => a.cur <= b.cur)
       /\ \A i \in a.node .. b.node, j \in 0 .. ChunkSize - 1 :
             s.heap[s.map[i]][j] # Raw <=> /\ i = a.node => j >= a.cur
                                           /\ i = b.node => j < b.cur

\* The inductive invariant of the deque.
DequeShape == IF Alive THEN size(d) <= MaxLen /\ \E n \in 3 .. MaxNodes : Whole(d, n)
              ELSE d = [map |-> << >>, heap |-> << >>, start |-> d.start, finish |-> d.finish]
=============================================================================
