--------------------------------- MODULE MCDir ---------------------------------
(* Instances of Dir for TLC. *)
EXTENDS Dir

CONSTANTS p1, p2

TwoProcs == {p1, p2}
Symmetry == Permutations(TwoProcs)

One(ops, paths) == [op : ops, path : paths]
Link(olds, news) == [op : {"link"}, path : olds, new : news]

\* No unlink.
Grow ==
    One({"creat"}, {<<"a">>, <<"b">>, <<"b", "a">>})
      \cup One({"mkdir"}, {<<"b">>, <<"b", "a">>}) \cup One({"mknod"}, {<<"a">>})
      \cup One({"open"}, {<<"b">>}) \cup One({"chdir"}, {<<"..">>})
      \cup Link({<<"a">>, <<"b">>}, {<<"b", "a">>})

\* A file that is created and removed.
Same == One({"creat", "unlink"}, {<<"a">>})

\* Files and directories that two processes make, enter and remove; "." and the
\* second directory level make the small name cache miss.
Race ==
    One({"creat", "unlink"}, {<<"a">>, <<"b", "a">>})
      \cup One({"mkdir", "unlink", "chdir"}, {<<"b">>})
      \cup One({"open"}, {<<".">>})
      \cup Link({<<"a">>}, {<<"b", "a">>})

RaceAndGrow ==
    {[calls |-> Race, maxcalls |-> 5, NAMECACHE_SIZE |-> 1],
     [calls |-> Grow, maxcalls |-> 4, NAMECACHE_SIZE |-> 2]}
JustSame == {[calls |-> Same, maxcalls |-> 3, NAMECACHE_SIZE |-> 2]}
================================================================================
