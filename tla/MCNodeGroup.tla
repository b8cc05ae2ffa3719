---------------------------- MODULE MCNodeGroup ----------------------------
(* Instances of NodeGroup for model checking. *)
EXTENDS NodeGroupInv, TLC

CONSTANTS c1, c2, c3

\* Goroutines are interchangeable.  Only for safety: not with CallsReturn.
CallerSymmetry == Permutations(Callers)
=============================================================================
