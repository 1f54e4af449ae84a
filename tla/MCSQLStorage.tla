---------------------------- MODULE MCSQLStorage ----------------------------
(* Instances of the storage for TLC.                                       *)
EXTENDS SQLStorage, TLC

MCSum == {-1, 1}

Symmetry == Permutations(Client)
=============================================================================
