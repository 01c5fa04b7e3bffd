------------------------------ MODULE HashMap ------------------------------
(***************************************************************************)
(* The open-addressing hash map of include/hashmap.h: linear probing, no   *)
(* tombstones, and look-ups that also read the keys of free entries.       *)
(*                                                                         *)
(* `new Entry[n]' leaves key_ of a type such as int uninitialized, and     *)
(* find_index compares it: a fresh entry holds any key.                    *)
(***************************************************************************)
EXTENDS Integers, FiniteSets, FiniteSetsExt

CONSTANTS Keys, Values,
          Default,           \* Value{}
          Other,             \* a key that no caller uses
          Missing,           \* std::nullopt, no index
          HashMax,           \* bound: hash values are 0 .. HashMax
          InitialCapacity,   \* the constructor's argument
          DefaultCapacity,   \* what rehash() gives to a map without a table: 16
          MaxCapacity        \* bound: the largest table

VARIABLES hash,    \* hash_function_
          table,   \* table_, of capacity_ entries
          size_    \* how many entries are occupied

vars == <<hash, table, size_>>

capacity == Cardinality(DOMAIN table)

Entry(k, v) == [key |-> k, value |-> v, occupied |-> TRUE]

\* The tables that `new Entry[n]' may return.
NewTables(n) == { [i \in 0 .. n - 1 |-> [key |-> f[i], value |-> Default, occupied |-> FALSE]] :
                     f \in [0 .. n - 1 -> Keys \cup {Other}] }

\* The i-th entry probed for key k in table t.
Probe(t, k, i) == (hash[k] + i) % Cardinality(DOMAIN t)
Steps(t) == 0 .. Cardinality(DOMAIN t) - 1

\* The first free entry on the way from k's hash.
FreeIndex(t, k) == Probe(t, k, Min({ i \in Steps(t) : ~t[Probe(t, k, i)].occupied }))

\* Mutant of find_index: the search ends at the first free entry.
find_indexStopAtFree(k) ==
    LET stops == { i \in Steps(table) : LET e == table[Probe(table, k, i)]
                                        IN e.key = k \/ ~e.occupied }
        idx == Probe(table, k, Min(stops))
    IN IF stops # {} /\ table[idx].occupied THEN idx ELSE Missing

find_index(k) ==
    LET n == capacity
        found == { i \in 0 .. n - 1 : table[(hash[k] + i) % n].key = k }
        idx == (hash[k] + Min(found)) % n
    IN IF found # {} /\ table[idx].occupied THEN idx ELSE Missing

contains(k) == find_index(k) # Missing

\* Mutant of needs_rehash: the table may fill up.
needs_rehashFull == size_ > capacity

\* needs_rehash() for the default load_factor_ of 0.75.
needs_rehash == 4 * size_ >= 3 * capacity

\* rehash(): the occupied entries of t, in the order of the table, put into fresh.
Rehashed(t, fresh) ==
    LET moved[n \in 0 .. Cardinality(DOMAIN t)] ==
            IF n = 0 THEN fresh
            ELSE LET e == t[n - 1] IN
                 IF e.occupied THEN [moved[n - 1] EXCEPT ![FreeIndex(moved[n - 1], e.key)] = e]
                 ELSE moved[n - 1]
    IN moved[Cardinality(DOMAIN t)]

\* The tables that `if (needs_rehash()) rehash();' may leave.
Grown ==
    LET n == IF capacity = 0 THEN DefaultCapacity ELSE capacity * 2
    IN IF ~needs_rehash THEN {table}
       ELSE { Rehashed(table, fresh) : fresh \in IF n <= MaxCapacity THEN NewTables(n) ELSE {} }

Init == /\ hash \in [Keys -> 0 .. HashMax]
        /\ table \in NewTables(InitialCapacity)
        /\ size_ = 0
-----------------------------------------------------------------------------
\* insert(k, v): the first entry on the way that is free or occupied by k.
insert(k, v) ==
    \E t \in Grown :
       LET stops == { i \in Steps(t) : LET e == t[Probe(t, k, i)]
                                       IN ~e.occupied \/ e.key = k }
           idx == Probe(t, k, Min(stops))
       IN /\ table' = [t EXCEPT ![idx] = Entry(k, v)]
          /\ size_' = IF t[idx].occupied THEN size_ ELSE size_ + 1
          /\ UNCHANGED hash

\* m[k] = v and a read of m[k], for a key that is there and for one that is not.
IndexFound(k, v) == /\ contains(k)
                    /\ table' = [table EXCEPT ![find_index(k)].value = v]
                    /\ UNCHANGED <<hash, size_>>

IndexAdd(k, v) == /\ ~contains(k)
                  /\ \E t \in Grown : table' = [t EXCEPT ![FreeIndex(t, k)] = Entry(k, v)]
                  /\ size_' = size_ + 1
                  /\ UNCHANGED hash

\* erase(k) of a missing key throws and changes nothing.
erase(k) == /\ contains(k)
            /\ table' = [table EXCEPT ![find_index(k)].occupied = FALSE]
            /\ size_' = size_ - 1
            /\ UNCHANGED hash

\* The map is moved from: no table, and still usable.
MoveFrom == /\ table' = << >> /\ size_' = 0
            /\ UNCHANGED hash

\* No erased entry lies between k's hash and k.
NoHoleBefore(k) ==
    contains(k) => LET way == { i \in Steps(table) : table[Probe(table, k, i)].key = k }
                   IN \A i \in 0 .. Min(way) : table[Probe(table, k, i)].occupied

Others == \/ \E k \in Keys : \/ erase(k)
                             \/ \E v \in Values : IndexFound(k, v) \/ IndexAdd(k, v)
          \/ MoveFrom

\* Every call, and the calls of a program that never inserts past a hole.
Next == Others \/ \E k \in Keys, v \in Values : insert(k, v)
CarefulNext == Others \/ \E k \in Keys, v \in Values : NoHoleBefore(k) /\ insert(k, v)

Spec == Init /\ [][Next]_vars
-----------------------------------------------------------------------------
\* What the map holds, through contains() and operator[].
Held == { k \in Keys : contains(k) }
Contents == LET found == [k \in Keys |-> find_index(k)]
            IN [k \in { j \in Keys : found[j] # Missing } |-> table[found[k]].value]

\* Type invariant.
TypeOK == /\ hash \in [Keys -> 0 .. HashMax]
          /\ table \in [0 .. capacity - 1 ->
                          [key : Keys \cup {Other}, value : Values, occupied : BOOLEAN]]
          /\ size_ \in 0 .. capacity

\* "Get the number of elements in the hashmap" (line 131): size() counts the keys that
\* contains() finds.
SizeIsCount == size_ = Cardinality(Held)

\* insert() and operator[] look for a free entry with no bound on the search (lines
\* 104-110 and 150-152): whatever was erased and rehashed before, there is one.
ProbeEnds == TypeOK /\ \A t \in Grown : \E i \in DOMAIN t : ~t[i].occupied

\* A careful program sees a map: whatever is inserted, updated, erased, rehashed or moved
\* away, and whatever uninitialized entries hold, the look-ups answer as a function from
\* keys to values would.
Map == INSTANCE AbstractMap WITH m <- Contents, size <- size_
ImplementsMap == Map!Spec
=============================================================================
