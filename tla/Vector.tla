------------------------------- MODULE Vector -------------------------------
(***************************************************************************)
(* The growing array of include/vector.h.  A block is a function over its  *)
(* places; a null data_ and a block of no places are the same to every     *)
(* call.                                                                   *)
(***************************************************************************)
EXTENDS Integers, FiniteSets

CONSTANTS Values,
          Raw,           \* a place where no object lives
          MIN_CAPACITY,
          MaxLen         \* bound: elements

VARIABLES data,   \* data_, of capacity_ places
          size_,  \* how many objects it holds
          call    \* history: the last call

vars == <<data, size_, call>>

\* Of FiniteSetsExt, which as a whole makes every step of the proofs slow.
Max(S) == CHOOSE x \in S : \A y \in S : x >= y

capacity == Cardinality(DOMAIN data)
Block(n) == [i \in 0 .. n - 1 |-> Raw]

Init == data = Block(0) /\ size_ = 0 /\ call = <<"new">>

\* Mutant of reserved: the new block takes one element too few.
reservedShort(n) == IF n <= capacity THEN data
                    ELSE [i \in 0 .. n - 1 |-> IF i + 1 < size_ THEN data[i] ELSE Raw]

\* The block after reserve(n): the elements are moved and the old block is freed.
reserved(n) == IF n <= capacity THEN data
               ELSE [i \in 0 .. n - 1 |-> IF i < size_ THEN data[i] ELSE Raw]

\* The block that push_back and emplace_back write to.
Room == IF size_ = capacity THEN reserved(Max({MIN_CAPACITY, capacity * 2})) ELSE data
-----------------------------------------------------------------------------
\* push_back and emplace_back.
PushBack(v) == /\ size_ < MaxLen
               /\ data' = [Room EXCEPT ![size_] = v]
               /\ size_' = size_ + 1 /\ call' = <<"push_back", v>>

\* v.push_back(v[i]), while there is room: the reference is read after reserve(), which
\* would have freed the block it points into.
PushBackOwn(i) == /\ size_ < MaxLen /\ i < size_ /\ size_ < capacity
                  /\ data' = [data EXCEPT ![size_] = data[i]]
                  /\ size_' = size_ + 1 /\ call' = <<"push_back", data[i]>>

\* pop_back of an empty vector throws and changes nothing.
PopBack == /\ size_ > 0
           /\ data' = [data EXCEPT ![size_ - 1] = Raw]
           /\ size_' = size_ - 1 /\ call' = <<"pop_back">>

Resize(n, v) == /\ data' = [i \in DOMAIN reserved(n) |->
                              IF i \in size_ .. n - 1 THEN v
                              ELSE IF i >= n THEN Raw ELSE reserved(n)[i]]
                /\ size_' = n /\ call' = <<"resize", n, v>>

\* operator[] gives a reference to an element, or throws.
Write(i, v) == /\ i < size_
               /\ data' = [data EXCEPT ![i] = v]
               /\ call' = <<"write", i, v>> /\ UNCHANGED size_

Reserve(n) == data' = reserved(n) /\ call' = <<"keep">> /\ UNCHANGED size_

Clear == /\ data' = Block(capacity)
         /\ size_' = 0 /\ call' = <<"clear">>

\* v = Vector(n, x): the block of the temporary is taken over.
Assign(n, x) == /\ data' = [i \in 0 .. n - 1 |-> x]
                /\ size_' = n /\ call' = <<"assign", [i \in 1 .. n |-> x]>>

\* Vector c(v); v = c: the copy's block is as large as its size.
CopyBack == /\ data' = [i \in 0 .. size_ - 1 |-> data[i]]
            /\ call' = <<"keep">> /\ UNCHANGED size_

\* Vector c(std::move(v)): v is left without a block and may still be used.
MoveOut == data' = Block(0) /\ size_' = 0 /\ call' = <<"move">>

Next == \/ \E v \in Values : PushBack(v)
        \/ \E i \in 0 .. MaxLen - 1 : PushBackOwn(i) \/ \E v \in Values : Write(i, v)
        \/ \E n \in 0 .. MaxLen : Reserve(n) \/ \E v \in Values : Resize(n, v) \/ Assign(n, v)
        \/ PopBack \/ Clear \/ CopyBack \/ MoveOut

Spec == Init /\ [][Next]_vars
-----------------------------------------------------------------------------
\* The vector is a sequence to whoever fills, shrinks, writes, copies and moves it, and uses
\* it again after a move, whatever blocks it has had; and the objects that live in its
\* block are its elements.
Items == INSTANCE AbstractSeq WITH items <- [i \in 1 .. size_ |-> data[i - 1]],
                                   count <- Cardinality({ i \in DOMAIN data : data[i] # Raw })

\* The inductive invariant of the vector: objects live in the first size_ places.
VectorInv == /\ capacity \in Nat /\ size_ \in 0 .. capacity
             /\ data \in [0 .. capacity - 1 -> Values \cup {Raw}]
             /\ \A i \in 0 .. capacity - 1 : data[i] # Raw <=> i < size_
=============================================================================
