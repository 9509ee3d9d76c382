--------------------------------- MODULE MCLog ---------------------------------
(* Instances of Log for TLC. *)
EXTENDS Log, TLC

CONSTANTS p1, p2, p3, b1, b2, d1, d2

Procs2 == {p1, p2}
Procs3 == {p1, p2, p3}
Blocks2 == {b1, b2}
Datas1 == {d1}
Datas2 == {d1, d2}

\* b1 follows the log on disk, so the blocks are not interchangeable.
Symm == Permutations({p1, p2, p3}) \cup Permutations({d1, d2})
================================================================================
