---------------------------- MODULE MCRTree ----------------------------
(* Nodes of three records and five blocks.  The ranges are disjoint,       *)
(* touching, nested or overlapping at one end, so that the tree grows to   *)
(* a height of three and every case of an insertion happens.               *)
EXTENDS RTree

MCUpdates == {Interval(7, 7), Interval(7, 9)}
MCRanges == MCUpdates \cup {Interval(2, 3), Interval(4, 5), Interval(6, 7),
                            Interval(1, 9), Interval(3, 6), Interval(5, 9)}

Sym == Permutations(Blocks)
==========================================================================
