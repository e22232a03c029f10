---------------------------- MODULE TimeIndex ----------------------------
(***************************************************************************)
(* What the index of one channel promises (RTree.h): a set of records,     *)
(* each an interval of time with the chain of data blocks that hold        *)
(* samples of it, the block of highest priority first.  Records may touch  *)
(* but never overlap.  Inserting a block cuts the records at its ends,     *)
(* adds it behind the blocks of every record it covers, and makes records  *)
(* of its own where there were none.  Nothing here says how the records    *)
(* are kept; module RTree does, and implements this one.                   *)
(***************************************************************************)
EXTENDS Intervals, Sequences

VARIABLE recs      \* the records

Record(s, e, chain) == [start |-> s, end |-> e, blocks |-> chain]

Records == [start : Times, end : Times, blocks : Seq(Blocks)]

InChain(b, chain) == \E i \in DOMAIN chain : chain[i] = b

(* A block is added at the end of a chain, once.                           *)
AddToChain(chain, b) == IF InChain(b, chain) THEN chain ELSE Append(chain, b)

(* The chain without b, which it holds once at most.                       *)
RemoveFromChain(chain, b) ==
    IF ~InChain(b, chain) THEN chain
    ELSE LET at == CHOOSE i \in DOMAIN chain : chain[i] = b
         IN  [i \in 1..(Len(chain) - 1) |-> IF i < at THEN chain[i] ELSE chain[i + 1]]

-----------------------------------------------------------------------------
(* What is left of an overlapped record on both sides of the new range.    *)
Outside(r, range) ==
    (IF r.start < range.start THEN {Record(r.start, range.start, r.blocks)} ELSE {})
    \cup (IF range.end < r.end THEN {Record(range.end, r.end, r.blocks)} ELSE {})

(* The part of an overlapped record that the new block covers.             *)
Covered(r, range, b) ==
    Record(Later(r.start, range.start), Earlier(r.end, range.end),
           AddToChain(r.blocks, b))

(* The stretches of the new range that none of the records R covers.       *)
Gaps(range, R) ==
    LET cuts == {range.start, range.end}
                \cup {x \in UNION {{r.start, r.end} : r \in R} :
                        range.start < x /\ x < range.end}
    IN  {g \in cuts \X cuts :
            /\ g[1] < g[2]
            /\ \A z \in cuts : z <= g[1] \/ g[2] <= z
            /\ \A r \in R : ~(r.start <= g[1] /\ g[2] <= r.end)}

(* A range of no length gets a record of its own, where ever it falls.     *)
Inserted(range, b, R) ==
    IF range.start = range.end
    THEN {Record(range.start, range.end, <<b>>)}
    ELSE {Covered(r, range, b) : r \in R}
         \cup {Record(g[1], g[2], <<b>>) : g \in Gaps(range, R)}

(* The record of no length p may be passed over when a record it touches   *)
(* is not.                                                                 *)
Touched(p, R) == \E r \in R : p.start \in {r.start, r.end}

(* R are the records that the range overlaps and that are not passed over. *)
Insert(range, b) ==
    LET overlapped == {r \in recs : Overlaps(r, range)}
    IN  \E skipped \in SUBSET {p \in overlapped : p.start = p.end} :
            LET R == overlapped \ skipped
            IN  /\ \A p \in skipped : Touched(p, R)
                /\ recs' = (recs \ R) \cup (UNION {Outside(r, range) : r \in R})
                           \cup Inserted(range, b, R)

(* The records after which there is none.                                  *)
Last == {r \in recs : \A q \in recs : q.start <= r.start /\ q.end <= r.end}

(* The writer of the newest block reports its new end: the last record     *)
(* grows when it is this block's alone.                                    *)
UpdateLast(range, b) ==
    \/ \E r \in Last :
          /\ r.start = range.start
          /\ r.end <= range.end
          /\ r.blocks = <<b>>
          /\ recs' = (recs \ {r}) \cup {Record(r.start, range.end, <<b>>)}
    \/ Insert(range, b)

Remove(range, b) ==
    recs' = {r \in {IF Overlaps(q, range)
                    THEN Record(q.start, q.end, RemoveFromChain(q.blocks, b))
                    ELSE q : q \in recs} : r.blocks # <<>>}

Init == recs = {}

Next == \E range \in Ranges, b \in Blocks :
            \/ Insert(range, b)
            \/ UpdateLast(range, b)
            \/ Remove(range, b)

Spec == Init /\ [][Next]_recs

-----------------------------------------------------------------------------
TypeOK == recs \subseteq Records

(* No record ends before it starts, and no two overlap.                    *)
Disjoint ==
    /\ \A r \in recs : r.start <= r.end
    /\ \A r, q \in recs : r # q => ~Overlaps(r, q)

(* A time of which a record tells that the block has samples.              *)
Holds(b, time) == \E r \in recs : /\ r.start <= time /\ time < r.end
                                   /\ InChain(b, r.blocks)

(* No call but the removal of the block itself takes a block away from any *)
(* time it was listed for.                                                 *)
CoverageKept ==
    [][\A b \in Blocks, time \in Int :
          Holds(b, time) /\ ~Holds(b, time)' => \E range \in Ranges : Remove(range, b)]_recs
==========================================================================
