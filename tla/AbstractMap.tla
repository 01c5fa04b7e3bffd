---------------------------- MODULE AbstractMap ----------------------------
(***************************************************************************)
(* What a hash map promises: a finite function from keys to values and its *)
(* size.                                                                   *)
(***************************************************************************)
EXTENDS Integers, FiniteSets, Functions

CONSTANTS Keys, Values,
          Default   \* Value{}

VARIABLES m, size

Init == m = << >> /\ size = 0

With(f, k, v) == [x \in DOMAIN f \cup {k} |-> IF x = k THEN v ELSE f[x]]

\* From f to g by setting a key, by looking up one that is created, by removing one, or by
\* clearing the map.
Change(f, g) ==
    \/ \E k \in Keys, v \in Values : g = With(f, k, v)
    \/ \E k \in Keys \ DOMAIN f : g = With(f, k, Default)
    \/ \E k \in DOMAIN f : g = Restrict(f, DOMAIN f \ {k})
    \/ g = << >>

Next == \E f \in {m}, g \in {m'} : Change(f, g) /\ size' = Cardinality(DOMAIN g)

Spec == Init /\ [][Next]_<<m, size>>
=============================================================================
