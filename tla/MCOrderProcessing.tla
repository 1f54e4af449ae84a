------------------------- MODULE MCOrderProcessing -------------------------
(* Instances of the composed system for TLC.                               *)
EXTENDS OrderProcessing, TLC

Symmetry == Permutations(User) \cup Permutations(Worker) \cup Permutations(Handler)
=============================================================================
