------------------------- MODULE TimeIndexProofs -------------------------
(***************************************************************************)
(* The index of a channel never has two records for the same stretch of    *)
(* time, whatever the time stamps, the data blocks and the order in which  *)
(* blocks are inserted, extended and removed.                              *)
(***************************************************************************)
EXTENDS TimeIndex, TLAPS

(* Disjointness in terms of bare intervals, the form the proofs use.       *)
Apart(r, q) == r.end <= q.start \/ q.end <= r.start
ProperRecord(r) == r.start \in Int /\ r.end \in Int /\ r.start <= r.end
Within(r, i) == i.start <= r.start /\ r.end <= i.end

LEMMA OverlapsIsNotApart ==
    ASSUME NEW r, NEW q, ProperRecord(r), ProperRecord(q)
    PROVE  Overlaps(r, q) <=> ~Apart(r, q)
  BY DEF Overlaps, Apart, ProperRecord

(* Parts of records that are apart are apart.                              *)
LEMMA PartsApart ==
    ASSUME NEW r, NEW q, NEW i, NEW j,
           ProperRecord(r), ProperRecord(q), ProperRecord(i), ProperRecord(j),
           Within(r, i), Within(q, j), Apart(i, j)
    PROVE  Apart(r, q)
  BY DEF Apart, ProperRecord, Within

LEMMA RangeProper == ASSUME NEW range \in Ranges PROVE ProperRecord(range)
  BY TimesAssumption DEF ProperRecord

Proper == \A r \in recs : ProperRecord(r)
AllApart == \A r, q \in recs : r # q => Apart(r, q)
Inv == Proper /\ AllApart

LEMMA InvIsDisjoint == ASSUME Inv PROVE Disjoint
  BY OverlapsIsNotApart DEF Inv, Proper, AllApart, Disjoint, ProperRecord

(* The pieces an insertion makes.  R are records of the index that overlap *)
(* the range; every piece lies within one of them, or is a gap.            *)
LEMMA OutsidePieces ==
    ASSUME NEW range \in Ranges, NEW r, ProperRecord(r), Overlaps(r, range),
           NEW o \in Outside(r, range)
    PROVE  /\ ProperRecord(o)
           /\ Within(o, r)
           /\ Apart(o, range)
           /\ \/ o = Record(r.start, range.start, r.blocks)
              \/ o = Record(range.end, r.end, r.blocks)
  BY RangeProper DEF Outside, Record, ProperRecord, Within, Apart, Overlaps

LEMMA CoveredPiece ==
    ASSUME NEW range \in Ranges, NEW b, NEW r, ProperRecord(r), Overlaps(r, range)
    PROVE  /\ ProperRecord(Covered(r, range, b))
           /\ Within(Covered(r, range, b), r)
           /\ Within(Covered(r, range, b), range)
  BY RangeProper DEF Covered, Record, ProperRecord, Within, Overlaps, Later, Earlier

Cuts(range, R) == {range.start, range.end}
                  \cup {x \in UNION {{r.start, r.end} : r \in R} :
                          range.start < x /\ x < range.end}

LEMMA GapFacts ==
    ASSUME NEW range \in Ranges, NEW R, \A r \in R : ProperRecord(r),
           NEW g \in Gaps(range, R)
    PROVE  /\ g[1] \in Int /\ g[2] \in Int /\ g[1] < g[2]
           /\ g[1] \in Cuts(range, R) /\ g[2] \in Cuts(range, R)
           /\ \A z \in Cuts(range, R) : z <= g[1] \/ g[2] <= z
           /\ range.start <= g[1] /\ g[2] <= range.end
           /\ \A r \in R : ~(r.start <= g[1] /\ g[2] <= r.end)
  <1> DEFINE C == Cuts(range, R)
  <1>1. C \subseteq Int /\ \A z \in C : range.start <= z /\ z <= range.end
    BY RangeProper DEF Cuts, ProperRecord
  <1>2. /\ g \in C \X C /\ g[1] < g[2]
        /\ \A z \in C : z <= g[1] \/ g[2] <= z
        /\ \A r \in R : ~(r.start <= g[1] /\ g[2] <= r.end)
    BY DEF Gaps, Cuts
  <1> QED
    BY <1>1, <1>2

(* The ends of a record, clipped to the range, are cuts.                   *)
LEMMA ClippedEndsAreCuts ==
    ASSUME NEW range \in Ranges, NEW R, NEW r \in R, ProperRecord(r), Overlaps(r, range)
    PROVE  /\ Later(r.start, range.start) \in Cuts(range, R)
           /\ Earlier(r.end, range.end) \in Cuts(range, R)
  <1>1. r.start > range.start => r.start < range.end
    BY RangeProper DEF Overlaps, ProperRecord
  <1>2. r.end < range.end => r.end > range.start
    BY RangeProper DEF Overlaps, ProperRecord
  <1>3. \A x : x \in {r.start, r.end} /\ range.start < x /\ x < range.end
                => x \in Cuts(range, R)
    BY DEF Cuts
  <1>4. range.start \in Cuts(range, R) /\ range.end \in Cuts(range, R)
    BY DEF Cuts
  <1> QED
    BY <1>1, <1>2, <1>3, <1>4, RangeProper DEF Later, Earlier, ProperRecord

GapRecord(g, b) == Record(g[1], g[2], <<b>>)

LEMMA GapApartFromRecord ==
    ASSUME NEW range \in Ranges, NEW R, \A r \in R : ProperRecord(r) /\ Overlaps(r, range),
           NEW g \in Gaps(range, R), NEW b, NEW r \in R
    PROVE  Apart(GapRecord(g, b), r)
  <1> DEFINE s == Later(r.start, range.start)
             e == Earlier(r.end, range.end)
  <1>1. (s <= g[1] \/ g[2] <= s) /\ (e <= g[1] \/ g[2] <= e)
    BY GapFacts, ClippedEndsAreCuts
  <1>2. ~(r.start <= g[1] /\ g[2] <= r.end)
    BY GapFacts
  <1>3. /\ g[1] \in Int /\ g[2] \in Int /\ g[1] < g[2]
        /\ range.start <= g[1] /\ g[2] <= range.end
    BY GapFacts
  <1>4. ProperRecord(r) /\ ProperRecord(range)
    BY RangeProper
  <1> QED
    BY <1>1, <1>2, <1>3, <1>4 DEF Apart, GapRecord, Record, ProperRecord, Later, Earlier

LEMMA GapsApart ==
    ASSUME NEW range \in Ranges, NEW R, \A r \in R : ProperRecord(r),
           NEW g \in Gaps(range, R), NEW h \in Gaps(range, R), NEW b,
           GapRecord(g, b) # GapRecord(h, b)
    PROVE  Apart(GapRecord(g, b), GapRecord(h, b))
  <1>1. /\ g[1] \in Int /\ g[2] \in Int /\ g[1] < g[2]
        /\ h[1] \in Int /\ h[2] \in Int /\ h[1] < h[2]
    BY GapFacts
  <1>2. g[1] <= h[1] \/ h[2] <= g[1]
    BY GapFacts
  <1>3. g[2] <= h[1] \/ h[2] <= g[2]
    BY GapFacts
  <1>4. h[1] <= g[1] \/ g[2] <= h[1]
    BY GapFacts
  <1>5. h[2] <= g[1] \/ g[2] <= h[2]
    BY GapFacts
  <1>6. g[1] # h[1] \/ g[2] # h[2]
    BY DEF GapRecord
  <1> QED
    BY <1>1, <1>2, <1>3, <1>4, <1>5, <1>6 DEF Apart, GapRecord, Record

-----------------------------------------------------------------------------
(* A piece that an insertion makes from the records R.                     *)
OutsidePiece(x, range, R) == \E r \in R : x \in Outside(r, range)
CoveredBy(x, range, b, R) ==
    /\ range.start < range.end
    /\ \E r \in R : x = Covered(r, range, b)
GapPiece(x, range, b, R) ==
    /\ range.start < range.end
    /\ \E g \in Gaps(range, R) : x = GapRecord(g, b)
PointPiece(x, range, b) == range.start = range.end /\ x = Record(range.start, range.end, <<b>>)

LEMMA PiecesOfInsert ==
    ASSUME NEW range \in Ranges, NEW b, NEW R,
           NEW x \in (UNION {Outside(r, range) : r \in R}) \cup Inserted(range, b, R)
    PROVE  \/ OutsidePiece(x, range, R)
           \/ CoveredBy(x, range, b, R)
           \/ GapPiece(x, range, b, R)
           \/ PointPiece(x, range, b)
  <1>1. range.start < range.end \/ range.start = range.end
    BY RangeProper DEF ProperRecord
  <1> QED
    BY <1>1 DEF Inserted, OutsidePiece, CoveredBy, GapPiece, PointPiece, GapRecord

(* The new pieces are proper and apart from one another.                   *)
LEMMA PiecesProper ==
    ASSUME NEW range \in Ranges, NEW b, NEW R, \A r \in R : ProperRecord(r) /\ Overlaps(r, range),
           NEW x \in (UNION {Outside(r, range) : r \in R}) \cup Inserted(range, b, R)
    PROVE  ProperRecord(x)
  <1>1. CASE OutsidePiece(x, range, R)
    BY <1>1, OutsidePieces DEF OutsidePiece
  <1>2. CASE CoveredBy(x, range, b, R)
    BY <1>2, CoveredPiece DEF CoveredBy
  <1>3. CASE GapPiece(x, range, b, R)
    <2>1. PICK g \in Gaps(range, R) : x = GapRecord(g, b)
      BY <1>3 DEF GapPiece
    <2>2. g[1] \in Int /\ g[2] \in Int /\ g[1] < g[2]
      BY GapFacts
    <2> QED
      BY <2>1, <2>2 DEF GapRecord, Record, ProperRecord
  <1>4. CASE PointPiece(x, range, b)
    BY <1>4, RangeProper DEF PointPiece, ProperRecord, Record
  <1> QED
    BY <1>1, <1>2, <1>3, <1>4, PiecesOfInsert

(* Two parts of the same or of different records are apart, when the parts *)
(* of one and the same record are.                                         *)
LEMMA OutsideApartFromRange ==
    ASSUME NEW range \in Ranges, NEW b, NEW R, \A r \in R : ProperRecord(r) /\ Overlaps(r, range),
           NEW x, OutsidePiece(x, range, R),
           NEW y \in (UNION {Outside(r, range) : r \in R}) \cup Inserted(range, b, R),
           ~OutsidePiece(y, range, R)
    PROVE  Apart(x, y)
  <1>1. ProperRecord(x) /\ Apart(x, range) /\ ProperRecord(range) /\ ProperRecord(y)
    BY OutsidePieces, PiecesProper, RangeProper DEF OutsidePiece
  <1>2. Within(y, range)
    <2>1. CASE CoveredBy(y, range, b, R)
      BY <2>1, CoveredPiece DEF CoveredBy
    <2>2. CASE GapPiece(y, range, b, R)
      BY <2>2, GapFacts DEF GapPiece, GapRecord, Record, Within
    <2>3. CASE PointPiece(y, range, b)
      BY <2>3, RangeProper DEF PointPiece, Record, Within, ProperRecord
    <2> QED
      BY <2>1, <2>2, <2>3, PiecesOfInsert
  <1> QED
    BY <1>1, <1>2 DEF Apart, Within, ProperRecord

LEMMA PiecesApart ==
    ASSUME NEW range \in Ranges, NEW b, NEW R,
           \A r \in R : ProperRecord(r) /\ Overlaps(r, range),
           \A r, q \in R : r # q => Apart(r, q),
           NEW x \in (UNION {Outside(r, range) : r \in R}) \cup Inserted(range, b, R),
           NEW y \in (UNION {Outside(r, range) : r \in R}) \cup Inserted(range, b, R),
           x # y
    PROVE  Apart(x, y)
  <1>0. ProperRecord(x) /\ ProperRecord(y)
    BY PiecesProper
  <1>1. CASE OutsidePiece(x, range, R) /\ OutsidePiece(y, range, R)
    <2>1. PICK r \in R : x \in Outside(r, range)
      BY <1>1 DEF OutsidePiece
    <2>2. PICK q \in R : y \in Outside(q, range)
      BY <1>1 DEF OutsidePiece
    <2>3. Within(x, r) /\ Within(y, q)
      BY <2>1, <2>2, OutsidePieces
    <2>4. CASE r = q
      BY <2>1, <2>2, <2>4, RangeProper DEF Outside, Record, Apart, ProperRecord
    <2> QED
      BY <1>0, <2>3, <2>4, PartsApart
  <1>2. CASE OutsidePiece(x, range, R) /\ ~OutsidePiece(y, range, R)
    BY <1>2, OutsideApartFromRange
  <1>3. CASE ~OutsidePiece(x, range, R) /\ OutsidePiece(y, range, R)
    <2>1. Apart(y, x)
      BY <1>3, OutsideApartFromRange
    <2> QED
      BY <2>1 DEF Apart
  <1>4. CASE CoveredBy(x, range, b, R) /\ CoveredBy(y, range, b, R)
    <2>1. PICK r \in R : x = Covered(r, range, b)
      BY <1>4 DEF CoveredBy
    <2>2. PICK q \in R : y = Covered(q, range, b)
      BY <1>4 DEF CoveredBy
    <2>3. Within(x, r) /\ Within(y, q) /\ r # q
      BY <2>1, <2>2, CoveredPiece
    <2> QED
      BY <1>0, <2>3, PartsApart
  <1>5. ASSUME NEW u, NEW v, CoveredBy(u, range, b, R), GapPiece(v, range, b, R),
               ProperRecord(u), ProperRecord(v)
        PROVE  Apart(u, v)
    <2>1. PICK r \in R : u = Covered(r, range, b)
      BY <1>5 DEF CoveredBy
    <2>2. PICK g \in Gaps(range, R) : v = GapRecord(g, b)
      BY <1>5 DEF GapPiece
    <2>3. Apart(v, r) /\ Within(u, r) /\ Within(v, v)
      BY <1>5, <2>1, <2>2, GapApartFromRecord, CoveredPiece DEF Within, ProperRecord
    <2>4. Apart(v, u)
      BY <1>5, <2>3, PartsApart
    <2> QED
      BY <2>4 DEF Apart
  <1>6. CASE GapPiece(x, range, b, R) /\ GapPiece(y, range, b, R)
    BY <1>6, GapsApart DEF GapPiece
  <1>7. CASE PointPiece(x, range, b) /\ PointPiece(y, range, b)
    BY <1>7 DEF PointPiece
  <1>8. CASE PointPiece(x, range, b) /\ ~PointPiece(y, range, b) /\ ~OutsidePiece(y, range, R)
    BY <1>8, PiecesOfInsert, RangeProper DEF PointPiece, CoveredBy, GapPiece, ProperRecord
  <1>9. CASE PointPiece(y, range, b) /\ ~PointPiece(x, range, b) /\ ~OutsidePiece(x, range, R)
    BY <1>9, PiecesOfInsert, RangeProper DEF PointPiece, CoveredBy, GapPiece, ProperRecord
  <1>10. CASE CoveredBy(x, range, b, R) /\ GapPiece(y, range, b, R)
    BY <1>0, <1>5, <1>10
  <1>11. CASE GapPiece(x, range, b, R) /\ CoveredBy(y, range, b, R)
    <2>1. Apart(y, x)
      BY <1>0, <1>5, <1>11
    <2> QED
      BY <2>1 DEF Apart
  <1>12. /\ OutsidePiece(x, range, R) \/ CoveredBy(x, range, b, R) \/ GapPiece(x, range, b, R)
               \/ PointPiece(x, range, b)
         /\ OutsidePiece(y, range, R) \/ CoveredBy(y, range, b, R) \/ GapPiece(y, range, b, R)
               \/ PointPiece(y, range, b)
    BY PiecesOfInsert
  <1> QED
    BY <1>1, <1>2, <1>3, <1>4, <1>6, <1>7, <1>8, <1>9, <1>10, <1>11, <1>12

(* A record that the insertion leaves alone is apart from the new pieces.  *)
LEMMA KeptApart ==
    ASSUME NEW range \in Ranges, NEW b, Inv, NEW R,
           NEW skipped \in SUBSET {p \in recs : Overlaps(p, range) /\ p.start = p.end},
           R = {r \in recs : Overlaps(r, range)} \ skipped,
           \A p \in skipped : Touched(p, R),
           NEW k \in recs \ R,
           NEW x \in (UNION {Outside(r, range) : r \in R}) \cup Inserted(range, b, R)
    PROVE  Apart(k, x)
  <1>0. /\ ProperRecord(k) /\ ProperRecord(range)
        /\ \A r \in R : ProperRecord(r) /\ Overlaps(r, range) /\ r # k /\ Apart(k, r)
    BY RangeProper DEF Inv, Proper, AllApart
  <1>x. ProperRecord(x)
    BY <1>0, PiecesProper
  <1>k. Within(k, k)
    BY <1>0 DEF Within, ProperRecord
  <1>1. CASE OutsidePiece(x, range, R)
    BY <1>0, <1>1, <1>x, <1>k, OutsidePieces, PartsApart DEF OutsidePiece
  <1>2. CASE CoveredBy(x, range, b, R)
    BY <1>0, <1>2, <1>x, <1>k, CoveredPiece, PartsApart DEF CoveredBy
  <1>3. CASE GapPiece(x, range, b, R)
    <2>1. PICK g \in Gaps(range, R) : x = GapRecord(g, b)
      BY <1>3 DEF GapPiece
    <2>2. /\ g[1] \in Int /\ g[2] \in Int /\ g[1] < g[2]
          /\ \A z \in Cuts(range, R) : z <= g[1] \/ g[2] <= z
          /\ range.start <= g[1] /\ g[2] <= range.end
      BY <1>0, GapFacts
    <2>3. CASE ~Overlaps(k, range)
      BY <1>0, <2>1, <2>2, <2>3 DEF Overlaps, Apart, GapRecord, Record, ProperRecord
    <2>4. CASE Overlaps(k, range)
      <3>1. k.start = k.end /\ Touched(k, R)
        BY <2>4
      <3>2. k.start \in Cuts(range, R)
        <4>1. range.start < k.start /\ k.start < range.end
          BY <1>0, <2>4, <3>1 DEF Overlaps, ProperRecord
        <4> QED
          BY <3>1, <4>1 DEF Touched, Cuts
      <3>3. k.start <= g[1] \/ g[2] <= k.start
        BY <2>2, <3>2
      <3> QED
        BY <1>0, <2>1, <2>2, <3>1, <3>3 DEF Apart, GapRecord, Record, ProperRecord
    <2> QED
      BY <2>3, <2>4
  <1>4. CASE PointPiece(x, range, b)
    <2>1. k \notin skipped
      BY <1>0, <1>4 DEF PointPiece, Overlaps, ProperRecord
    <2>2. ~Overlaps(k, range)
      BY <2>1
    <2> QED
      BY <1>0, <1>4, <2>2 DEF PointPiece, Overlaps, Apart, Record, ProperRecord
  <1> QED
    BY <1>1, <1>2, <1>3, <1>4, PiecesOfInsert

-----------------------------------------------------------------------------
LEMMA InsertKeepsInv ==
    ASSUME NEW range \in Ranges, NEW b \in Blocks, Inv, Insert(range, b)
    PROVE  Inv'
  <1>1. PICK skipped \in SUBSET {p \in {r \in recs : Overlaps(r, range)} : p.start = p.end} :
            LET R == {r \in recs : Overlaps(r, range)} \ skipped
            IN  /\ \A p \in skipped : Touched(p, R)
                /\ recs' = (recs \ R) \cup (UNION {Outside(r, range) : r \in R})
                           \cup Inserted(range, b, R)
    BY DEF Insert
  <1> DEFINE R == {r \in recs : Overlaps(r, range)} \ skipped
             pieces == (UNION {Outside(r, range) : r \in R}) \cup Inserted(range, b, R)
  <1>2. recs' = (recs \ R) \cup pieces
    BY <1>1
  <1>3. /\ \A r \in R : ProperRecord(r) /\ Overlaps(r, range)
        /\ \A r, q \in R : r # q => Apart(r, q)
    BY DEF Inv, Proper, AllApart
  <1>4. \A k \in recs \ R, x \in pieces : Apart(k, x)
    BY <1>1, KeptApart
  <1>5. \A x, y \in pieces : x # y => Apart(x, y)
    BY <1>3, PiecesApart
  <1>6. \A x \in pieces : ProperRecord(x)
    BY <1>3, PiecesProper
  <1> HIDE DEF R, pieces
  <1>7. Proper'
    BY <1>2, <1>6 DEF Inv, Proper
  <1>8. ASSUME NEW x \in recs', NEW y \in recs', x # y
        PROVE  Apart(x, y)
    <2>1. CASE x \in pieces /\ y \in pieces
      BY <1>5, <1>8, <2>1
    <2>2. CASE x \in recs \ R /\ y \in pieces
      BY <1>4, <2>2
    <2>3. CASE x \in pieces /\ y \in recs \ R
      <3>1. Apart(y, x)
        BY <1>4, <2>3
      <3> QED
        BY <3>1 DEF Apart
    <2>4. CASE x \in recs \ R /\ y \in recs \ R
      BY <1>8, <2>4 DEF Inv, AllApart
    <2> QED
      BY <1>2, <2>1, <2>2, <2>3, <2>4
  <1> QED
    BY <1>7, <1>8 DEF Inv, AllApart

(* Growing the last record: nothing lies behind it.                        *)
LEMMA UpdateLastKeepsInv ==
    ASSUME NEW range \in Ranges, NEW b \in Blocks, Inv, UpdateLast(range, b)
    PROVE  Inv'
  <1>1. CASE Insert(range, b)
    BY <1>1, InsertKeepsInv
  <1>2. CASE \E r \in Last :
                /\ r.start = range.start
                /\ r.end <= range.end
                /\ recs' = (recs \ {r}) \cup {Record(r.start, range.end, <<b>>)}
    <2>1. PICK r \in Last :
                /\ r.start = range.start
                /\ r.end <= range.end
                /\ recs' = (recs \ {r}) \cup {Record(r.start, range.end, <<b>>)}
      BY <1>2
    <2> DEFINE grown == Record(r.start, range.end, <<b>>)
    <2>2. ProperRecord(r) /\ ProperRecord(range) /\ r \in recs
      BY RangeProper DEF Last, Inv, Proper
    <2>3. ProperRecord(grown) /\ grown.start = r.start
      BY <2>1, <2>2 DEF ProperRecord, Record
    <2>4. ASSUME NEW q \in recs, q # r
          PROVE  q.end <= grown.start
      <3>1. ProperRecord(q) /\ Apart(q, r) /\ q.start <= r.start /\ q.end <= r.end
        BY <2>2, <2>4 DEF Inv, Proper, AllApart, Last
      <3> QED
        BY <2>2, <2>3, <3>1 DEF Apart, ProperRecord
    <2> HIDE DEF grown
    <2>5. recs' = (recs \ {r}) \cup {grown}
      BY <2>1 DEF grown
    <2>6. Proper'
      BY <2>3, <2>5 DEF Inv, Proper
    <2>7. AllApart'
      BY <2>4, <2>5 DEF Inv, AllApart, Apart
    <2> QED
      BY <2>6, <2>7 DEF Inv
  <1> QED
    BY <1>1, <1>2 DEF UpdateLast

LEMMA RemoveKeepsInv ==
    ASSUME NEW range \in Ranges, NEW b \in Blocks, Inv, Remove(range, b)
    PROVE  Inv'
  <1> DEFINE Kept(q) == IF Overlaps(q, range)
                        THEN Record(q.start, q.end, RemoveFromChain(q.blocks, b))
                        ELSE q
  <1>1. \A r \in recs' : \E q \in recs : r = Kept(q)
    BY DEF Remove
  <1>2. \A q \in recs : Kept(q).start = q.start /\ Kept(q).end = q.end
    BY DEF Record
  <1> HIDE DEF Kept
  <1>3. Proper'
    BY <1>1, <1>2 DEF Inv, Proper, ProperRecord
  <1>4. AllApart'
    BY <1>1, <1>2 DEF Inv, AllApart, Apart
  <1> QED
    BY <1>3, <1>4 DEF Inv

LEMMA StepKeepsInv == ASSUME Inv, [Next]_recs PROVE Inv'
  <1>1. CASE Next
    BY <1>1, InsertKeepsInv, UpdateLastKeepsInv, RemoveKeepsInv DEF Next
  <1>2. CASE UNCHANGED recs
    BY <1>2 DEF Inv, Proper, AllApart
  <1> QED
    BY <1>1, <1>2

(* No two records of the index overlap, so that every time has at most one *)
(* chain of data blocks (the check of RTree::Node::selfTest, for any       *)
(* intervals and any order of calls).                                      *)
THEOREM IndexDisjoint == Spec => []Disjoint
  <1>1. Init => Inv
    BY DEF Init, Inv, Proper, AllApart
  <1>2. Inv /\ [Next]_recs => Inv'
    BY StepKeepsInv
  <1>3. Inv => Disjoint
    BY InvIsDisjoint
  <1> QED
    BY <1>1, <1>2, <1>3, PTL DEF Spec

-----------------------------------------------------------------------------
(* Coverage.  Chains are sequences, so that a block stays in a chain that  *)
(* another is added to, or another removed from.                           *)
Chains == \A r \in recs : r.blocks \in Seq(Blocks)

LEMMA AddKeepsSeq ==
    ASSUME NEW chain \in Seq(Blocks), NEW b \in Blocks
    PROVE  AddToChain(chain, b) \in Seq(Blocks)
  BY DEF AddToChain

LEMMA RemoveKeepsSeq ==
    ASSUME NEW chain \in Seq(Blocks), NEW b \in Blocks
    PROVE  RemoveFromChain(chain, b) \in Seq(Blocks)
  <1>1. CASE ~InChain(b, chain)
    BY <1>1 DEF RemoveFromChain
  <1>2. CASE InChain(b, chain)
    <2> DEFINE at == CHOOSE i \in DOMAIN chain : chain[i] = b
               rest == [i \in 1..(Len(chain) - 1) |-> IF i < at THEN chain[i] ELSE chain[i + 1]]
    <2>1. Len(chain) \in Nat /\ Len(chain) > 0
      BY <1>2 DEF InChain
    <2>2. rest \in [1..(Len(chain) - 1) -> Blocks]
      <3> HIDE DEF at
      <3>1. \A i \in 1..(Len(chain) - 1) : chain[i] \in Blocks /\ chain[i + 1] \in Blocks
        BY <2>1
      <3> QED
        BY <3>1
    <2>3. rest \in Seq(Blocks)
      BY <2>1, <2>2
    <2> QED
      BY <1>2, <2>3 DEF RemoveFromChain
  <1> QED
    BY <1>1, <1>2

LEMMA AddKeepsIn ==
    ASSUME NEW chain \in Seq(Blocks), NEW b \in Blocks, NEW c \in Blocks, InChain(c, chain)
    PROVE  InChain(c, AddToChain(chain, b))
  <1>1. CASE InChain(b, chain)
    BY <1>1 DEF AddToChain
  <1>2. CASE ~InChain(b, chain)
    <2>1. PICK i \in 1..Len(chain) : chain[i] = c
      BY DEF InChain
    <2>2. /\ DOMAIN Append(chain, b) = 1..(Len(chain) + 1)
          /\ Append(chain, b)[i] = chain[i]
      BY <2>1
    <2> QED
      BY <1>2, <2>1, <2>2 DEF AddToChain, InChain
  <1> QED
    BY <1>1, <1>2

LEMMA RemoveKeepsOthers ==
    ASSUME NEW chain \in Seq(Blocks), NEW b \in Blocks, NEW c \in Blocks, InChain(c, chain), c # b
    PROVE  InChain(c, RemoveFromChain(chain, b))
  <1>1. CASE ~InChain(b, chain)
    BY <1>1 DEF RemoveFromChain
  <1>2. CASE InChain(b, chain)
    <2> DEFINE at == CHOOSE i \in DOMAIN chain : chain[i] = b
               rest == [i \in 1..(Len(chain) - 1) |-> IF i < at THEN chain[i] ELSE chain[i + 1]]
    <2>1. RemoveFromChain(chain, b) = rest
      BY <1>2 DEF RemoveFromChain
    <2>2. PICK i \in 1..Len(chain) : chain[i] = c
      BY DEF InChain
    <2>3. Len(chain) \in Nat
      OBVIOUS
    <2>4. at \in 1..Len(chain) /\ chain[at] = b
      BY <1>2 DEF InChain
    <2> HIDE DEF at
    <2>5. CASE i < at
      <3>1. i \in 1..(Len(chain) - 1)
        BY <2>3, <2>4, <2>5
      <3>2. rest[i] = c
        BY <2>2, <2>5, <3>1
      <3> QED
        BY <2>1, <3>1, <3>2 DEF InChain
    <2>6. CASE i > at
      <3>1. (i - 1) \in 1..(Len(chain) - 1) /\ ~(i - 1 < at) /\ (i - 1) + 1 = i
        BY <2>3, <2>4, <2>6
      <3>2. rest[i - 1] = c
        BY <2>2, <3>1
      <3> QED
        BY <2>1, <3>1, <3>2 DEF InChain
    <2> QED
      BY <2>2, <2>4, <2>5, <2>6
  <1> QED
    BY <1>1, <1>2

LEMMA PieceChain ==
    ASSUME NEW range \in Ranges, NEW b \in Blocks, NEW R,
           \A r \in R : r.blocks \in Seq(Blocks),
           NEW x \in (UNION {Outside(r, range) : r \in R}) \cup Inserted(range, b, R)
    PROVE  x.blocks \in Seq(Blocks)
  <1>1. CASE OutsidePiece(x, range, R)
    BY <1>1 DEF OutsidePiece, Outside, Record
  <1>2. CASE CoveredBy(x, range, b, R)
    BY <1>2, AddKeepsSeq DEF CoveredBy, Covered, Record
  <1>3. CASE GapPiece(x, range, b, R)
    BY <1>3 DEF GapPiece, GapRecord, Record
  <1>4. CASE PointPiece(x, range, b)
    BY <1>4 DEF PointPiece, Record
  <1> QED
    BY <1>1, <1>2, <1>3, <1>4, PiecesOfInsert

LEMMA StepKeepsChains == ASSUME Chains, [Next]_recs PROVE Chains'
  <1>1. ASSUME NEW range \in Ranges, NEW b \in Blocks, Insert(range, b)
        PROVE  Chains'
    <2>1. PICK skipped \in SUBSET {p \in {r \in recs : Overlaps(r, range)} : p.start = p.end} :
              LET R == {r \in recs : Overlaps(r, range)} \ skipped
              IN  recs' = (recs \ R) \cup (UNION {Outside(r, range) : r \in R})
                             \cup Inserted(range, b, R)
      BY <1>1 DEF Insert
    <2> DEFINE R == {r \in recs : Overlaps(r, range)} \ skipped
    <2>2. \A r \in R : r.blocks \in Seq(Blocks)
      BY DEF Chains
    <2>3. recs' = (recs \ R) \cup ((UNION {Outside(r, range) : r \in R})
                                   \cup Inserted(range, b, R))
      BY <2>1
    <2> HIDE DEF R
    <2> QED
      BY <2>2, <2>3, PieceChain DEF Chains
  <1>2. ASSUME NEW range \in Ranges, NEW b \in Blocks, UpdateLast(range, b)
        PROVE  Chains'
    <2>1. CASE Insert(range, b)
      BY <1>1, <2>1
    <2>2. ASSUME NEW r \in Last,
                 recs' = (recs \ {r}) \cup {Record(r.start, range.end, <<b>>)}
          PROVE  Chains'
      <3>1. \A q \in recs' : q \in recs \/ q.blocks = <<b>>
        BY <2>2 DEF Record
      <3>2. <<b>> \in Seq(Blocks)
        OBVIOUS
      <3> QED
        BY <3>1, <3>2 DEF Chains
    <2> QED
      BY <1>2, <2>1, <2>2 DEF UpdateLast
  <1>3. ASSUME NEW range \in Ranges, NEW b \in Blocks, Remove(range, b)
        PROVE  Chains'
    <2>1. \A r \in recs' : \E q \in recs :
              r = q \/ r = Record(q.start, q.end, RemoveFromChain(q.blocks, b))
      BY <1>3 DEF Remove
    <2> QED
      BY <2>1, RemoveKeepsSeq DEF Chains, Record
  <1>4. CASE UNCHANGED recs
    BY <1>4 DEF Chains
  <1> QED
    BY <1>1, <1>2, <1>3, <1>4 DEF Next

(* The pieces of a record, what is outside the new range and what it       *)
(* covers, make up the record again.                                       *)
LEMMA PiecesHold ==
    ASSUME NEW range \in Ranges, NEW b \in Blocks, NEW c \in Blocks, NEW R, NEW r \in R,
           ProperRecord(r), Overlaps(r, range),
           r.blocks \in Seq(Blocks), InChain(c, r.blocks),
           NEW time \in Int, r.start <= time, time < r.end
    PROVE  \E x \in (UNION {Outside(q, range) : q \in R}) \cup Inserted(range, b, R) :
              x.start <= time /\ time < x.end /\ InChain(c, x.blocks)
  <1> USE RangeProper DEF ProperRecord
  <1>1. CASE time < range.start
    <2>1. Record(r.start, range.start, r.blocks) \in Outside(r, range)
      BY <1>1 DEF Outside
    <2> QED
      BY <1>1, <2>1 DEF Record
  <1>2. CASE range.end <= time
    <2>1. Record(range.end, r.end, r.blocks) \in Outside(r, range)
      BY <1>2 DEF Outside
    <2> QED
      BY <1>2, <2>1 DEF Record
  <1>3. CASE range.start <= time /\ time < range.end
    <2>1. Covered(r, range, b) \in Inserted(range, b, R)
      BY <1>3 DEF Inserted
    <2>2. Covered(r, range, b).start <= time /\ time < Covered(r, range, b).end
      BY <1>3 DEF Covered, Record, Later, Earlier
    <2>3. InChain(c, Covered(r, range, b).blocks)
      BY AddKeepsIn DEF Covered, Record
    <2> QED
      BY <2>1, <2>2, <2>3
  <1> QED
    BY <1>1, <1>2, <1>3

LEMMA InsertKeepsCoverage ==
    ASSUME Inv, Chains, NEW range \in Ranges, NEW b \in Blocks, Insert(range, b),
           NEW c \in Blocks, NEW time \in Int, Holds(c, time)
    PROVE  Holds(c, time)'
  <1>1. PICK skipped \in SUBSET {p \in {r \in recs : Overlaps(r, range)} : p.start = p.end} :
            LET R == {r \in recs : Overlaps(r, range)} \ skipped
            IN  recs' = (recs \ R) \cup (UNION {Outside(r, range) : r \in R})
                           \cup Inserted(range, b, R)
    BY DEF Insert
  <1> DEFINE R == {r \in recs : Overlaps(r, range)} \ skipped
  <1>2. recs' = (recs \ R) \cup ((UNION {Outside(r, range) : r \in R})
                                 \cup Inserted(range, b, R))
    BY <1>1
  <1>3. PICK r \in recs : r.start <= time /\ time < r.end /\ InChain(c, r.blocks)
    BY DEF Holds
  <1>4. CASE r \in R
    <2>1. ProperRecord(r) /\ Overlaps(r, range) /\ r.blocks \in Seq(Blocks)
      BY <1>4 DEF Inv, Proper, Chains
    <2> HIDE DEF R
    <2> QED
      BY <1>2, <1>3, <1>4, <2>1, PiecesHold DEF Holds
  <1>5. CASE r \notin R
    BY <1>2, <1>3, <1>5 DEF Holds
  <1> QED
    BY <1>4, <1>5

LEMMA UpdateLastKeepsCoverage ==
    ASSUME Inv, Chains, NEW range \in Ranges, NEW b \in Blocks, UpdateLast(range, b),
           NEW c \in Blocks, NEW time \in Int, Holds(c, time)
    PROVE  Holds(c, time)'
  <1>1. CASE Insert(range, b)
    BY <1>1, InsertKeepsCoverage
  <1>2. CASE \E r \in Last :
                /\ r.start = range.start
                /\ r.end <= range.end
                /\ r.blocks = <<b>>
                /\ recs' = (recs \ {r}) \cup {Record(r.start, range.end, <<b>>)}
    <2>1. PICK r \in Last :
                /\ r.end <= range.end
                /\ r.blocks = <<b>>
                /\ recs' = (recs \ {r}) \cup {Record(r.start, range.end, <<b>>)}
      BY <1>2
    <2>2. PICK q \in recs : q.start <= time /\ time < q.end /\ InChain(c, q.blocks)
      BY DEF Holds
    <2>3. CASE q = r
      <3>1. time < range.end
        BY <2>1, <2>2, <2>3, RangeProper DEF Inv, Proper, ProperRecord
      <3>2. PICK x \in recs' : x = Record(r.start, range.end, <<b>>)
        BY <2>1
      <3>3. x.start <= time /\ time < x.end /\ InChain(c, x.blocks)
        BY <2>1, <2>2, <2>3, <3>1, <3>2 DEF Record
      <3> QED
        BY <3>3 DEF Holds
    <2>4. CASE q # r
      BY <2>1, <2>2, <2>4 DEF Holds
    <2> QED
      BY <2>3, <2>4
  <1> QED
    BY <1>1, <1>2 DEF UpdateLast

LEMMA RemoveKeepsCoverage ==
    ASSUME Chains, NEW range \in Ranges, NEW b \in Blocks, Remove(range, b),
           NEW c \in Blocks, c # b, NEW time \in Int, Holds(c, time)
    PROVE  Holds(c, time)'
  <1>1. PICK q \in recs : q.start <= time /\ time < q.end /\ InChain(c, q.blocks)
    BY DEF Holds
  <1> DEFINE r == IF Overlaps(q, range)
                  THEN Record(q.start, q.end, RemoveFromChain(q.blocks, b))
                  ELSE q
  <1>2. r.start = q.start /\ r.end = q.end /\ InChain(c, r.blocks)
    BY <1>1, RemoveKeepsOthers DEF Record, Chains
  <1>3. r.blocks # <<>>
    BY <1>2 DEF InChain
  <1>4. r \in recs'
    BY <1>3 DEF Remove
  <1> HIDE DEF r
  <1> QED
    BY <1>1, <1>2, <1>4 DEF Holds

(* Inserting and extending data blocks loses no other block, and removing  *)
(* one loses only that one (insertDatablock, updateLastDatablock and       *)
(* removeDatablock of RTree.cpp, which split, shrink and rebuild records). *)
THEOREM IndexKeepsCoverage == Spec => CoverageKept
  <1>1. Init => Inv /\ Chains
    BY DEF Init, Inv, Proper, AllApart, Chains
  <1>2. Inv /\ Chains /\ [Next]_recs => Inv' /\ Chains'
    BY StepKeepsInv, StepKeepsChains
  <1>3. Inv /\ Chains /\ [Next]_recs
            => [\A b \in Blocks, time \in Int :
                  Holds(b, time) /\ ~Holds(b, time)'
                     => \E range \in Ranges : Remove(range, b)]_recs
    <2> SUFFICES ASSUME Inv, Chains, Next, NEW b \in Blocks, NEW time \in Int,
                        Holds(b, time), ~Holds(b, time)'
                 PROVE  \E range \in Ranges : Remove(range, b)
      OBVIOUS
    <2>1. PICK range \in Ranges, c \in Blocks :
             Insert(range, c) \/ UpdateLast(range, c) \/ Remove(range, c)
      BY DEF Next
    <2>2. Remove(range, c) /\ c = b
      BY <2>1, InsertKeepsCoverage, UpdateLastKeepsCoverage, RemoveKeepsCoverage
    <2> QED
      BY <2>2
  <1> QED
    BY <1>1, <1>2, <1>3, PTL DEF Spec, CoverageKept
==========================================================================
