---------------------------- MODULE Intervals ----------------------------
(***************************************************************************)
(* The intervals of time that the index of a channel speaks of: the type   *)
(* RTree::Interval with its comparisons, used by the promise of the index  *)
(* (TimeIndex) and by the tree that keeps it (RTree).                      *)
(***************************************************************************)
EXTENDS Integers

CONSTANTS Times,   \* the time stamps
          Ranges,  \* the intervals that data blocks may cover
          Blocks   \* the data blocks, each a file name and an offset

ASSUME TimesAssumption ==
    /\ Times \subseteq Int
    /\ Ranges \subseteq {i \in [start : Times, end : Times] : i.start <= i.end}

Interval(s, e) == [start |-> s, end |-> e]

(* Intervals that only touch do not overlap, and an interval of no length  *)
(* overlaps only what it lies strictly within.                             *)
Overlaps(i, j) == i.end > j.start /\ j.end > i.start

Later(x, y) == IF x > y THEN x ELSE y
Earlier(x, y) == IF x < y THEN x ELSE y
==========================================================================
