---------------------------- MODULE MCContainers ----------------------------
(***************************************************************************)
(* The containers of include/ for TLC, one at a time: `kind' says which of *)
(* them the program uses.                                                  *)
(***************************************************************************)
EXTENDS Containers, TLC

CONSTANTS Keys, Default, Other, Missing, HashMax,
          InitialCapacity, DefaultCapacity, MaxCapacity,
          MaxText

ASSUME HashMapAssumption == /\ {InitialCapacity, DefaultCapacity} \subseteq 1 .. MaxCapacity
                            /\ MaxCapacity \in Nat /\ HashMax \in Nat
                            /\ Default \in Values /\ Other \notin Keys /\ Missing \notin Nat
ASSUME TextAssumption == MaxText \in Nat

VARIABLES kind,
          hash, table, msize,      \* the hash map
          str, scall               \* the string

M == INSTANCE HashMap WITH size_ <- msize
S == INSTANCE String WITH Chars <- Values, NUL <- Raw, s <- str, call <- scall

mapVars == <<hash, table, msize>>
vectorVars == <<data, vsize, vcall>>
stringVars == <<str, scall>>

OneInit == /\ kind \in {"map", "deque", "vector", "string"}
           /\ IF kind = "map" THEN M!Init
              ELSE hash = [k \in Keys |-> 0] /\ table = << >> /\ msize = 0
           /\ Init /\ V!Init /\ S!Init

OneNext == /\ \/ kind = "map" /\ M!CarefulNext /\ UNCHANGED <<vars, vectorVars, stringVars>>
              \/ kind = "deque" /\ Next /\ UNCHANGED <<mapVars, vectorVars, stringVars>>
              \/ kind = "vector" /\ V!Next /\ UNCHANGED <<mapVars, vars, stringVars>>
              \/ kind = "string" /\ S!CarefulNext /\ UNCHANGED <<mapVars, vars, vectorVars>>
           /\ UNCHANGED kind

OneSpec == OneInit /\ [][OneNext]_<<kind, mapVars, vars, vectorVars, stringVars>>

\* Every hash function is an initial state.
KeySymmetry == Permutations(Keys)
-----------------------------------------------------------------------------
\* No search of insert() and operator[] for a free entry runs for ever (hashmap.h:104-110,
\* 150-152).
ProbeEnds == M!ProbeEnds

\* The hash map of a careful program is a map (hashmap.h).
ImplementsMap == M!ImplementsMap

\* The string (str.h) of a careful program is a sequence, too.
StringIsSequence == S!Items!Spec
=============================================================================
