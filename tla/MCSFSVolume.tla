----------------------------- MODULE MCSFSVolume -----------------------------
(* The SFS volume with interchangeable names, all in one hash chain. *)
EXTENDS SFSVolume

OneChain == [n \in Names |-> 0]
Symmetry == Permutations(Names)
=============================================================================
