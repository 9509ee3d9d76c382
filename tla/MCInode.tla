------------------------------ MODULE MCInode -------------------------------
(* A small instance of the inode layer and mkfs.                            *)
EXTENDS Inode, TLC

CONSTANTS p1, p2

TwoProcs == {p1, p2}
Symmetry == Permutations(TwoProcs)
=============================================================================
