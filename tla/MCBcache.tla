------------------------------ MODULE MCBcache ------------------------------
(* A small instance of the buffer cache and its disk drivers.  Processes,   *)
(* contents and the readable blocks are interchangeable.                    *)
EXTENDS Bcache, TLC

CONSTANTS p1, p2, b1, b2, b3, bad, x, y

TwoProcs   == {p1, p2}
FourBlocks == {b1, b2, b3, bad}
TwoDatas   == {x, y}

Symmetry == Permutations(TwoProcs) \union Permutations({b1, b2, b3})
                \union Permutations(TwoDatas)
=============================================================================
