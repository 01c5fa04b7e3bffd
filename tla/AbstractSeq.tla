---------------------------- MODULE AbstractSeq ----------------------------
(***************************************************************************)
(* What a sequence container promises: after every call its elements, read *)
(* one by one, and its size are those of a mathematical sequence.  `call'  *)
(* is the last call made, with its arguments.                              *)
(***************************************************************************)
EXTENDS Integers, Sequences

CONSTANTS Values,
          MaxLen   \* bound: the longest sequence

VARIABLES items, count, call

Init == items = << >> /\ count = 0 /\ call = <<"new">>

Copies(n, v) == [i \in 1 .. n |-> v]

\* Call c leaves the sequence s.
Returns(c, s) == call' = c /\ items' = s /\ count' = Len(s)

PushBack(v) == Returns(<<"push_back", v>>, Append(items, v))
PushFront(v) == Returns(<<"push_front", v>>, <<v>> \o items)
PopBack == items # << >> /\ Returns(<<"pop_back">>, SubSeq(items, 1, Len(items) - 1))
PopFront == items # << >> /\ Returns(<<"pop_front">>, Tail(items))
Erase(i) == /\ i < Len(items)
            /\ Returns(<<"erase", i>>, SubSeq(items, 1, i) \o SubSeq(items, i + 2, Len(items)))
Write(i, v) == i < Len(items) /\ Returns(<<"write", i, v>>, [items EXCEPT ![i + 1] = v])
Concat(s) == Returns(<<"append", s>>, items \o s)
Assign(s) == Returns(<<"assign", s>>, s)
Resize(n, v) == Returns(<<"resize", n, v>>, IF n <= Len(items) THEN SubSeq(items, 1, n)
                                            ELSE items \o Copies(n - Len(items), v))
Clear == Returns(<<"clear">>, << >>)
MoveOut == Returns(<<"move">>, << >>)

\* Calls that a user cannot see.
Keep == Returns(<<"keep">>, items)

Next == \/ \E v \in Values : PushBack(v) \/ PushFront(v)
        \/ \E i \in 0 .. MaxLen - 1 : Erase(i) \/ \E v \in Values : Write(i, v)
        \/ \E n \in 0 .. MaxLen, v \in Values : Resize(n, v)
        \/ PopBack \/ PopFront \/ Clear \/ MoveOut \/ Keep
        \/ \E n \in 0 .. MaxLen : \E s \in [1 .. n -> Values] : Concat(s) \/ Assign(s)

Spec == Init /\ [][Next]_<<items, count, call>>
=============================================================================
