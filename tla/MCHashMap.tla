----------------------------- MODULE MCHashMap -----------------------------
(* The hash map for TLC: keys are interchangeable, for every hash function *)
(* is an initial state.                                                    *)
EXTENDS HashMap, TLC

KeySymmetry == Permutations(Keys)
=============================================================================
