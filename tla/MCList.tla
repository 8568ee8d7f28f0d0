------------------------------- MODULE MCList -------------------------------
(* Two lists that share a few nodes, which are all alike. *)
EXTENDS List, TLC

MCAssigned == SeqOf(Value, 2)
MCSymmetry == Permutations(Lists) \cup Permutations(Heap) \cup Permutations(Value)
=============================================================================
