-------------------------------- MODULE MCVm --------------------------------
(* A small instance of user memory: 2-byte pages, 5 of them below KERNBASE,  *)
(* addresses modulo 20.  The last three program headers are bad: not         *)
(* aligned, too short for the file's part, and wrapping around.              *)
EXTENDS Vm

Seg(v, m, f) == [vaddr |-> v, memsz |-> m, filesz |-> f]
FiveSegments == {Seg(0, 3, 2), Seg(4, 1, 1), Seg(1, 1, 1), Seg(0, 1, 3), Seg(19, 2, 0)}
GrowSizes    == {3, -2, -3, -9}
=============================================================================
