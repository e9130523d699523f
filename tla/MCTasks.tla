-------------------------------- MODULE MCTasks --------------------------------
(* Instances of Tasks for TLC. *)
EXTENDS Tasks, TLC

Symmetry == Permutations(Ids) \union Permutations(Grants) \union Permutations(Subjects)
===============================================================================
