------------------------------ MODULE RTree ------------------------------
(***************************************************************************)
(* The R-tree of one channel, in the index file (src/Storage/RTree.cpp).   *)
(* A node holds at most M records in time order; a record of an inner node *)
(* bears the interval of a child, one of a leaf the interval of a chain of *)
(* data blocks.  Every node knows its parent.  A tree is a value, the      *)
(* nodes by their offset in the file and the offset of the root, and each  *)
(* routine of the code is an operator from tree to tree: the routines keep *)
(* copies of nodes in memory, but read a node before they use it and write *)
(* every node they change.  The chain of blocks of a record is a sequence  *)
(* here, a list in the file there.                                         *)
(***************************************************************************)
EXTENDS Intervals, Sequences, FiniteSets, SequencesExt, FiniteSetsExt

CONSTANTS M,           \* records per node
          Updates,     \* those of the ranges that a writer reports for its last block
          MaxInserts,  \* bound: calls that insert or update
          MaxRemoves   \* bound: calls that remove

ASSUME MAssumption == M \in Nat /\ M > 2
ASSUME UpdatesAssumption == Updates \subseteq Ranges

VARIABLES tree,      \* [nodes |-> the nodes by offset, root |-> an offset]
          listed,    \* the blocks inserted and not removed, with their range
          inserts, removes

vars == <<tree, listed, inserts, removes>>

NoNode == 0
Removed == [start |-> -1, end |-> -1]   \* the range of a block that was removed

IntervalOf(r) == Interval(r.start, r.end)
Width(i) == i.end - i.start
Hull(i, j) == Interval(Earlier(i.start, j.start), Later(i.end, j.end))

(* Records: of a leaf (no child) and of an inner node (no blocks).         *)
LeafRecord(i, chain) ==
    [start |-> i.start, end |-> i.end, child |-> NoNode, blocks |-> chain]
ChildRecord(i, id) ==
    [start |-> i.start, end |-> i.end, child |-> id, blocks |-> <<>>]

Recs(t, id) == t.nodes[id].recs
NewNode(leaf, rs) == [leaf |-> leaf, parent |-> NoNode, recs |-> rs]

(* The interval of a node that is not empty.                               *)
NodeInterval(t, id) == FoldLeft(Hull, IntervalOf(Recs(t, id)[1]), Recs(t, id))

(* findRecordByID                                                          *)
IndexOfChild(t, parent, id) ==
    CHOOSE i \in DOMAIN Recs(t, parent) : Recs(t, parent)[i].child = id

(* The file allocator gives out freed space again.                         *)
Allocate(t) == CHOOSE n \in 1..(Cardinality(DOMAIN t.nodes) + 1) : n \notin DOMAIN t.nodes

Put(t, id, node) ==
    [t EXCEPT !.nodes = [n \in DOMAIN t.nodes \cup {id} |->
                            IF n = id THEN node ELSE t.nodes[n]]]
SetRecs(t, id, rs) == [t EXCEPT !.nodes[id].recs = rs]
SetParent(t, id, parent) == [t EXCEPT !.nodes[id].parent = parent]
Free(t, id) ==
    [t EXCEPT !.nodes = [n \in DOMAIN t.nodes \ {id} |-> t.nodes[n]]]

EmptyTree == [nodes |-> [n \in {1} |-> NewNode(TRUE, <<>>)], root |-> 1]

-----------------------------------------------------------------------------
(* Searching.                                                              *)

(* Enlargement of a child by a range.                                      *)
Enlargement(r, range) == Width(Hull(range, r)) - Width(r)

(* The leaf for a range: down through the first child that overlaps it,    *)
(* or else the rightmost of those that grow least.                         *)
RECURSIVE ChooseLeaf(_, _, _)
ChooseLeaf(t, id, range) ==
    LET rs == Recs(t, id)
        overlapping == {i \in DOMAIN rs : Overlaps(rs[i], range)}
        least == {i \in DOMAIN rs : \A j \in DOMAIN rs :
                     Enlargement(rs[i], range) <= Enlargement(rs[j], range)}
    IN  IF t.nodes[id].leaf THEN id
        ELSE ChooseLeaf(t, rs[IF overlapping # {} THEN Min(overlapping)
                                                  ELSE Max(least)].child, range)

(* The record of a leaf where a search for a time ends: the last one that  *)
(* starts at or before it, or the very first.  <<>> when there is none.    *)
RECURSIVE Extreme(_, _, _)
Extreme(t, id, dir) ==
    LET i == IF dir = 1 THEN 1 ELSE Len(Recs(t, id))
    IN  IF Recs(t, id) = <<>> THEN <<>>
        ELSE IF t.nodes[id].leaf THEN <<id, i>>
        ELSE Extreme(t, Recs(t, id)[i].child, dir)
FirstRecord(t) == Extreme(t, t.root, 1)
LastRecord(t) == Extreme(t, t.root, -1)

AtStrictlyBefore(t, id, time) == {i \in DOMAIN Recs(t, id) : Recs(t, id)[i].start < time}
AtOrBefore(t, id, time) == {i \in DOMAIN Recs(t, id) : Recs(t, id)[i].start <= time}

RECURSIVE SearchBelow(_, _, _)
SearchBelow(t, id, time) ==
    LET at == AtOrBefore(t, id, time)
    IN  IF at = {} THEN <<>>
        ELSE IF t.nodes[id].leaf THEN <<id, Max(at)>>
        ELSE SearchBelow(t, Recs(t, id)[Max(at)].child, time)
Search(t, time) ==
    IF Recs(t, t.root) # <<>> /\ time < Recs(t, t.root)[1].start
    THEN FirstRecord(t)
    ELSE SearchBelow(t, t.root, time)

(* From one leaf record to the next (dir 1) or the previous one (dir -1):  *)
(* up through the parents until there is a sibling, then down again.       *)
RECURSIVE Descend(_, _, _)
DescendLeft(t, id, dir) ==
    IF t.nodes[id].leaf THEN <<id, 1>> ELSE Descend(t, Recs(t, id)[1].child, dir)
Descend(t, id, dir) ==
    LET i == IF dir = 1 THEN 1 ELSE Len(Recs(t, id))
    IN  IF t.nodes[id].leaf THEN <<id, i>> ELSE Descend(t, Recs(t, id)[i].child, dir)

RECURSIVE PrevNext(_, _, _)
PrevNext(t, pos, dir) ==
    LET id == pos[1]
        i  == pos[2] + dir
        parent == t.nodes[id].parent
    IN  IF i \in DOMAIN Recs(t, id)
        THEN IF t.nodes[id].leaf THEN <<id, i>>
                                 ELSE Descend(t, Recs(t, id)[i].child, dir)
        ELSE IF parent = NoNode THEN <<>>
        ELSE PrevNext(t, <<parent, IndexOfChild(t, parent, id)>>, dir)

(* All records of the leaves, in the order of the tree.                    *)
RECURSIVE InOrder(_, _)
InOrder(t, id) ==
    IF t.nodes[id].leaf THEN Recs(t, id)
    ELSE FlattenSeq([i \in DOMAIN Recs(t, id) |-> InOrder(t, Recs(t, id)[i].child)])

LeafRecords ==
    UNION {{[start |-> r.start, end |-> r.end, blocks |-> r.blocks] :
               r \in Range(Recs(tree, n))} :
           n \in {m \in DOMAIN tree.nodes : tree.nodes[m].leaf}}

-----------------------------------------------------------------------------
(* Inserting.                                                              *)

(* Put a record before index idx of a node; a full node keeps the first    *)
(* half and a new node, the overflow, gets the rest.                       *)
InsertRecordOverfull(t, id, idx, rec) ==
    [tree |-> SetRecs(t, id, InsertAt(Recs(t, id), idx, rec)),
     overflow |-> NoNode, moved |-> FALSE]
InsertRecord(t, id, idx, rec) ==
    LET all  == InsertAt(Recs(t, id), idx, rec)
        cut  == M \div 2 + 1
        over == Allocate(t)
    IN  IF Len(all) <= M
        THEN [tree |-> SetRecs(t, id, all), overflow |-> NoNode, moved |-> FALSE]
        ELSE [tree |-> Put(SetRecs(t, id, SubSeq(all, 1, cut)), over,
                           NewNode(t.nodes[id].leaf, SubSeq(all, cut + 1, M + 1))),
              overflow |-> over, moved |-> idx > cut]

(* Grow by a root above the old one and its new sibling.                   *)
GrowRoot(t, id, new) ==
    LET top == Allocate(t)
        rs  == <<ChildRecord(NodeInterval(t, id), id),
                 ChildRecord(NodeInterval(t, new), new)>>
    IN  [SetParent(SetParent(Put(t, top, NewNode(FALSE, rs)), id, top), new, top)
            EXCEPT !.root = top]

(* The children of an inner node refer to it as their parent.              *)
ReparentNot(t, id) == t
Reparent(t, id) ==
    LET children == {r.child : r \in Range(Recs(t, id))}
    IN  [t EXCEPT !.nodes = [n \in DOMAIN t.nodes |->
            IF n \in children THEN [t.nodes[n] EXCEPT !.parent = id] ELSE t.nodes[n]]]

(* From a node on upwards: its parent takes over its interval and, when    *)
(* the node was split, the new sibling, which may split the parent.  The   *)
(* children that moved to the parent's overflow get it as their parent.    *)
RECURSIVE AdjustTree(_, _, _)
AdjustTree(t, id, new) ==
    LET parent == t.nodes[id].parent
        at   == IndexOfChild(t, parent, id)
        t1   == SetRecs(t, parent, [Recs(t, parent) EXCEPT
                            ![at] = ChildRecord(NodeInterval(t, id), id)])
        rs   == Recs(t1, parent)
        newInterval == NodeInterval(t, new)
        before == {i \in DOMAIN rs : newInterval.end <= rs[i].start}
        ins  == InsertRecord(t1, parent, IF before = {} THEN Len(rs) + 1 ELSE Min(before),
                             ChildRecord(newInterval, new))
        over == ins.overflow
        t2   == SetParent(ins.tree, new, IF ins.moved THEN over ELSE parent)
    IN  IF parent = NoNode
        THEN IF new = NoNode THEN t ELSE GrowRoot(t, id, new)
        ELSE IF new = NoNode THEN AdjustTree(t1, parent, NoNode)
        ELSE IF over = NoNode THEN AdjustTree(t2, parent, NoNode)
        ELSE AdjustTree(Reparent(t2, over), parent, over)

(* A record of its own for a range and a block.                            *)
InsertNew(t, leaf, idx, range, b) ==
    LET ins == InsertRecord(t, leaf, idx, LeafRecord(range, <<b>>))
    IN  AdjustTree(ins.tree, leaf, ins.overflow)

(* Add a block at the end of the chain of a record, once.                  *)
AddToRecordInFront(t, id, i, b) ==
    IF Contains(Recs(t, id)[i].blocks, b)
    THEN [tree |-> t, added |-> FALSE]
    ELSE [tree |-> [t EXCEPT !.nodes[id].recs[i].blocks = <<b>> \o @], added |-> TRUE]
AddToRecord(t, id, i, b) ==
    IF Contains(Recs(t, id)[i].blocks, b)
    THEN [tree |-> t, added |-> FALSE]
    ELSE [tree |-> [t EXCEPT !.nodes[id].recs[i].blocks = Append(@, b)], added |-> TRUE]

(* Insert a block for a range.  Where the range meets a record, the record *)
(* is split at the ends of the range and the pieces are inserted one by    *)
(* one, each from the root.  added tells whether anything was inserted.    *)
RECURSIVE InsertDatablock(_, _, _)
InsertPieces(r0, pieces, b) ==
    FoldLeft(LAMBDA r, piece :
                LET s == InsertDatablock(r.tree, piece, b)
                IN  [tree |-> s.tree, added |-> r.added \/ s.added],
             r0, SelectSeq(pieces, LAMBDA p : p.start < p.end))

(* Shrink a record to what is before the cut, and insert all its blocks    *)
(* again for what is after it.                                             *)
SplitRecord(t, id, i, cut) ==
    LET old == Recs(t, id)[i]
        t1  == AdjustTree([t EXCEPT !.nodes[id].recs[i].end = cut], id, NoNode)
    IN  FoldLeft(LAMBDA u, b : InsertDatablock(u, Interval(cut, old.end), b).tree,
                 t1, old.blocks)

InsertDatablock(t, range, b) ==
    LET leaf == ChooseLeaf(t, t.root, range)
        rs   == Recs(t, leaf)
        rest == {i \in DOMAIN rs : rs[i].end > range.start}
        idx  == IF rest = {} THEN Len(rs) + 1 ELSE Min(rest)
        r    == rs[idx]
        Again(u, pieces) == InsertPieces([tree |-> u, added |-> FALSE], pieces, b)
    IN  IF rest = {} \/ range.end <= r.start
        THEN [tree |-> InsertNew(t, leaf, idx, range, b), added |-> TRUE]
        ELSE IF r.start < range.start
        THEN IF r.end < range.end
             THEN Again(SplitRecord(t, leaf, idx, range.start),
                        <<Interval(range.start, r.end), Interval(r.end, range.end)>>)
             ELSE InsertDatablock(SplitRecord(t, leaf, idx, range.start), range, b)
        ELSE IF range.end < r.end
        THEN Again(SplitRecord(t, leaf, idx, range.end),
                   <<Interval(range.start, r.start), Interval(r.start, range.end)>>)
        ELSE InsertPieces(AddToRecord(t, leaf, idx, b),
                          <<Interval(range.start, r.start), Interval(r.end, range.end)>>, b)

(* The engine extends its last block: when that is the only block of the   *)
(* last record, only the end of the record changes.                        *)
UpdateLastDatablock(t, range, b) ==
    LET last == LastRecord(t)
        r == Recs(t, last[1])[last[2]]
    IN  IF last # <<>> /\ r.start = range.start /\ r.end <= range.end /\ r.blocks = <<b>>
        THEN [tree |-> AdjustTree([t EXCEPT !.nodes[last[1]].recs[last[2]].end = range.end],
                                  last[1], NoNode),
              added |-> FALSE]
        ELSE InsertDatablock(t, range, b)

-----------------------------------------------------------------------------
(* Removing.                                                               *)

(* From a node that shrank on upwards: an empty node is freed and leaves   *)
(* its parent, a root with one child makes way for it.                     *)
RECURSIVE CondenseTree(_, _)
CondenseTree(t, id) ==
    LET node   == t.nodes[id]
        parent == node.parent
        at     == IndexOfChild(t, parent, id)
        heir   == node.recs[1].child
    IN  IF parent = NoNode
        THEN IF ~node.leaf /\ Len(node.recs) = 1
             THEN [Free(SetParent(t, heir, NoNode), id) EXCEPT !.root = heir]
             ELSE t
        ELSE IF node.recs = <<>>
        THEN CondenseTree(SetRecs(Free(t, id), parent, RemoveAt(Recs(t, parent), at)), parent)
        ELSE CondenseTree(SetRecs(t, parent, [Recs(t, parent) EXCEPT
                                ![at] = ChildRecord(NodeInterval(t, id), id)]), parent)

(* Take the block out of the chain, and the record out of its leaf when no *)
(* block is left.                                                          *)
RemoveFromRecord(t, id, i, b) ==
    LET chain == Remove(Recs(t, id)[i].blocks, b)
    IN  IF chain # <<>> THEN [t EXCEPT !.nodes[id].recs[i].blocks = chain]
        ELSE CondenseTree(SetRecs(t, id, RemoveAt(Recs(t, id), i)), id)

(* The first leaf record with the block below records that overlap range.  *)
RECURSIVE FindReference(_, _, _, _)
FindReference(t, id, range, b) ==
    LET rs == Recs(t, id)
        below == [i \in DOMAIN rs |->
                    IF ~Overlaps(range, rs[i]) THEN <<>>
                    ELSE IF t.nodes[id].leaf
                         THEN IF Contains(rs[i].blocks, b) THEN <<id, i>> ELSE <<>>
                         ELSE FindReference(t, rs[i].child, range, b)]
        found == {i \in DOMAIN rs : below[i] # <<>>}
    IN  IF found = {} THEN <<>> ELSE below[Min(found)]

(* After each reference removed the search starts over from the root.      *)
RECURSIVE RemoveDatablock(_, _, _)
RemoveDatablock(t, range, b) ==
    LET ref == FindReference(t, t.root, range, b)
    IN  IF ref = <<>> THEN t
        ELSE RemoveDatablock(RemoveFromRecord(t, ref[1], ref[2], b), range, b)

-----------------------------------------------------------------------------
(* Nodes hold at most M records with times in range; the records of leaves *)
(* have blocks and no child, those of inner nodes a child and no blocks.   *)
TypeOK ==
    /\ tree.root \in DOMAIN tree.nodes
    /\ NoNode \notin DOMAIN tree.nodes
    /\ \A n \in DOMAIN tree.nodes :
          /\ tree.nodes[n].leaf \in BOOLEAN
          /\ tree.nodes[n].parent \in DOMAIN tree.nodes \cup {NoNode}
          /\ Len(Recs(tree, n)) <= M
          /\ \A i \in DOMAIN Recs(tree, n) :
                LET r == Recs(tree, n)[i]
                IN  /\ r.start \in Times /\ r.end \in Times
                    /\ IF tree.nodes[n].leaf
                       THEN r.child = NoNode /\ r.blocks \in Seq(Blocks) /\ r.blocks # <<>>
                       ELSE r.child \in DOMAIN tree.nodes /\ r.blocks = <<>>
    /\ DOMAIN listed \subseteq Blocks
    /\ \A b \in DOMAIN listed : listed[b] \in Ranges \cup {Removed}
    /\ inserts \in 0..MaxInserts /\ removes \in 0..MaxRemoves

Init ==
    /\ tree = EmptyTree
    /\ listed = <<>>
    /\ inserts = 0 /\ removes = 0

(* A block is inserted for one range, and again only for the same one.     *)
Insert(range, b) ==
    /\ inserts < MaxInserts
    /\ b \in DOMAIN listed => listed[b] = range
    /\ tree' = InsertDatablock(tree, range, b).tree
    /\ listed' = [c \in DOMAIN listed \cup {b} |-> IF c = b THEN range ELSE listed[c]]
    /\ inserts' = inserts + 1
    /\ UNCHANGED removes

(* The writer of a block reports where it ends now.  A block of a single   *)
(* time stamp (start = end) is reported only when it is the newest: every  *)
(* record ends before it, or just there if it has a length, or is the      *)
(* block's own.                                                            *)
UpdateLast(range, b) ==
    /\ inserts < MaxInserts
    /\ b \in DOMAIN listed => /\ listed[b].start = range.start
                              /\ listed[b].end <= range.end
    /\ range.start = range.end => \A r \in LeafRecords :
            \/ r.end < range.start \/ (r.end = range.start /\ r.start < r.end)
            \/ r = [start |-> range.start, end |-> range.end, blocks |-> <<b>>]
    /\ tree' = UpdateLastDatablock(tree, range, b).tree
    /\ listed' = [c \in DOMAIN listed \cup {b} |-> IF c = b THEN range ELSE listed[c]]
    /\ inserts' = inserts + 1
    /\ UNCHANGED removes

(* A block is removed with its range; the answer is how many references    *)
(* were found, none for a range without length.                            *)
RemoveBlock(b) ==
    /\ removes < MaxRemoves
    /\ b \in DOMAIN listed /\ listed[b] # Removed
    /\ tree' = RemoveDatablock(tree, listed[b], b)
    /\ listed' = IF tree' = tree THEN listed ELSE [listed EXCEPT ![b] = Removed]
    /\ removes' = removes + 1
    /\ UNCHANGED inserts

Next ==
    \/ \E range \in Ranges \ Updates, b \in Blocks : Insert(range, b)
    \/ \E range \in Updates, b \in Blocks : UpdateLast(range, b)
    \/ \E b \in Blocks : RemoveBlock(b)

Spec == Init /\ [][Next]_vars

-----------------------------------------------------------------------------
(* The self test of the code: in every node the records are in time order  *)
(* and do not overlap, a record of an inner node has the very interval of  *)
(* the child it refers to, and that child refers back to its parent.       *)
(* Splitting, re-parenting and condensing nodes keeps it so.               *)
SelfTestPasses ==
    \A n \in DOMAIN tree.nodes :
        LET rs == Recs(tree, n)
        IN  /\ \A i \in 2..Len(rs) : rs[i-1].end <= rs[i].start
            /\ ~tree.nodes[n].leaf => \A i \in DOMAIN rs :
                  /\ tree.nodes[rs[i].child].parent = n
                  /\ Recs(tree, rs[i].child) # <<>>
                  /\ NodeInterval(tree, rs[i].child) = IntervalOf(rs[i])
            /\ (tree.nodes[n].parent = NoNode) <=> (n = tree.root)
            /\ n # tree.root => \E r \in Range(Recs(tree, tree.nodes[n].parent)) : r.child = n

(* A search for a time ends at the last record of the whole tree that      *)
(* starts at or before it, or at the very first record when none does:     *)
(* the descent, which looks at one path only, misses nothing.              *)
SearchFinds ==
    LET all == InOrder(tree, tree.root)
    IN  \A time \in Times :
            LET found == Search(tree, time)
                before == {i \in DOMAIN all : all[i].start <= time}
            IN  IF all = <<>> THEN found = <<>>
                ELSE /\ found # <<>>
                     /\ Recs(tree, found[1])[found[2]] = all[IF before = {} THEN 1 ELSE Max(before)]

RECURSIVE Walk(_, _, _)
Walk(t, pos, dir) ==
    IF pos = <<>> THEN <<>>
    ELSE <<Recs(t, pos[1])[pos[2]]>> \o Walk(t, PrevNext(t, pos, dir), dir)

(* A reader that asks for the next data block again and again, or for the  *)
(* previous one, visits every record once, in the order of time, however   *)
(* deep the tree is.                                                       *)
IterationVisitsAll ==
    LET all == InOrder(tree, tree.root)
    IN  /\ Walk(tree, FirstRecord(tree), 1) = all
        /\ Walk(tree, LastRecord(tree), -1) = Reverse(all)

(* The records of the leaves are an index as TimeIndex promises it: every  *)
(* call cuts, covers and fills the records as that module says, although   *)
(* it does so piece by piece through recursive insertions from the root.   *)
Index == INSTANCE TimeIndex WITH recs <- LeafRecords
ImplementsIndex == Index!Spec
==========================================================================
