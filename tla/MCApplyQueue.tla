---------------------------- MODULE MCApplyQueue ----------------------------
(* Instances of ApplyQueue for TLC: the callers are interchangeable, and so *)
(* are the handles.                                                         *)
EXTENDS ApplyQueue, TLC

Symmetry == Permutations(Callers) \union Permutations(Handles)
=============================================================================
