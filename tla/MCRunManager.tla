---------------------------- MODULE MCRunManager ----------------------------
(* Instances of RunManager for TLC: runs, folders and kills are               *)
(* interchangeable.                                                           *)
EXTENDS RunManager, TLC

Symmetry == Permutations(Runs) \cup Permutations(Folders) \cup Permutations(Killers)
=============================================================================
