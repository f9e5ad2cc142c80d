------------------------------ MODULE MCPaging ------------------------------
(***************************************************************************)
(* Instances of Paging for TLC.                                            *)
(***************************************************************************)
EXTENDS Paging, TLC

CONSTANTS p1, p2, p3

\* The slots that fork() fills are interchangeable.
Symmetry == Permutations({p2, p3})
=============================================================================
