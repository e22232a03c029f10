---------------------------- MODULE FileAllocator ----------------------------
(***************************************************************************)
(* The FileAllocator (Storage/FileAllocator.cpp): the blocks of an index   *)
(* file, each behind a node with its size, kept in two doubly linked lists *)
(* that are sorted by file offset, one of allocated and one of free        *)
(* blocks.  A store is                                                     *)
(*   node : what is on file, from the offset of a node to its three        *)
(*          numbers, the two list heads included,                          *)
(*   head : the copies of the heads that the FileAllocator keeps,          *)
(*   size : the size of the file.                                          *)
(* Offset 0 is no node.  file_size_increment is 0, the value that          *)
(* IndexFile::open sets (IndexFile.cpp:92), so allocate() does not round   *)
(* the size of the file up.                                                *)
(***************************************************************************)
EXTENDS Integers, Sequences, SequencesExt, FiniteSetsExt

CONSTANTS NodeSize,     \* bytes of a node
          Reserved,     \* bytes in front of the list heads
          MinimumSize,  \* no block is smaller
          MaxFileSize   \* no file grows to this size

ASSUME SizesAssumption ==
    /\ {NodeSize, Reserved, MaxFileSize} \subseteq Nat \ {0}
    /\ MinimumSize \in Nat

HeadAt == [allocated |-> Reserved, free |-> Reserved + NodeSize]
Lists == DOMAIN HeadAt
HeapStart == Reserved + 2 * NodeSize

EmptyNode == [bytes |-> 0, prev |-> 0, next |-> 0]

\* attach() to an empty file, and to one that has been initialised.
Created == [node |-> [o \in {HeadAt[l] : l \in Lists} |-> EmptyNode],
            head |-> [l \in Lists |-> EmptyNode],
            size |-> HeapStart]
Attached(s) == [s EXCEPT !.head = [l \in Lists |-> s.node[HeadAt[l]]]]

WriteHead(s, l, h) == [s EXCEPT !.head[l] = h, !.node[HeadAt[l]] = h]

\* From `first' on as `next' leads from one offset to another, up to a 0.
Followed(next, first) ==
    LET from[o \in DOMAIN next \cup {0}] ==
            IF o = 0 THEN <<>> ELSE <<o>> \o from[next[o]]
    IN  from[first]

\* The offsets of a list in the order of its 'next' pointers.
Blocks(s, l) ==
    Followed([o \in DOMAIN s.node |-> s.node[o].next], s.head[l].next)

\* Put `o' between `p' and `n', where 0 stands for the end of the list.
Linked(nodes, p, o, n, bytes) ==
    [x \in DOMAIN nodes \cup {o} |->
        CASE x = o -> [bytes |-> bytes, prev |-> p, next |-> n]
          [] x = p -> [nodes[x] EXCEPT !.next = o]
          [] x = n -> [nodes[x] EXCEPT !.prev = o]
          [] OTHER -> nodes[x]]

RemoveNode(s, l, o) ==
    LET n == s.node[o]
        h == s.head[l]
        first == h.next = o
        p == IF first THEN 0
             ELSE CHOOSE q \in ToSet(Blocks(s, l)) : s.node[q].next = o
        skipped == [x \in DOMAIN s.node |->
                       CASE x = p -> [s.node[x] EXCEPT !.next = n.next]
                         [] x = n.next -> [s.node[x] EXCEPT !.prev = p]
                         [] OTHER -> s.node[x]]
    IN  WriteHead([s EXCEPT !.node = skipped], l,
            [bytes |-> h.bytes - n.bytes,
             next  |-> IF first THEN n.next ELSE h.next,
             prev  |-> IF h.next = o /\ n.next = 0 THEN 0
                       ELSE IF ~first /\ h.prev = o THEN n.prev
                       ELSE h.prev])

InsertNode(s, l, o, bytes) ==
    LET h == s.head[l]
        L == Blocks(s, l)
        first == L = <<>> \/ o < h.next
        p == IF first THEN 0
             ELSE L[SelectInSeq(L, LAMBDA q : \/ s.node[q].next = 0
                                              \/ s.node[q].next >= o)]
        n == IF first THEN h.next ELSE s.node[p].next
    IN  WriteHead([s EXCEPT !.node = Linked(@, p, o, n, bytes)], l,
            [bytes |-> h.bytes + bytes,
             next  |-> IF first THEN o ELSE h.next,
             prev  |-> IF L = <<>> \/ h.prev = p THEN o ELSE h.prev])

------------------------------------------------------------------------------
\* allocate(): the new store and the offset of the block's data, or 0 when
\* the file would grow too large.  The first free block that is large enough
\* is used, all of it or its tail; else the file grows.
TakeWhole(s, o) ==
    [store |-> InsertNode(RemoveNode(s, "free", o), "allocated", o,
                          s.node[o].bytes),
     at    |-> o + NodeSize]

TakeTail(s, o, num) ==
    LET rest == s.node[o].bytes - NodeSize - num
        tail == o + NodeSize + rest
        cut == WriteHead([s EXCEPT !.node[o].bytes = rest], "free",
                         [s.head["free"] EXCEPT !.bytes = @ - NodeSize - num])
    IN  [store |-> InsertNode(cut, "allocated", tail, num),
         at    |-> tail + NodeSize]

AppendBlock(s, num) ==
    LET h == s.head["allocated"]
        o == s.size
        grown == [s EXCEPT !.node = Linked(@, h.prev, o, 0, num),
                           !.size = @ + NodeSize + num]
    IN  [store |-> WriteHead(grown, "allocated",
                       [bytes |-> h.bytes + num,
                        next  |-> IF h.next = 0 THEN o ELSE h.next,
                        prev  |-> o]),
         at    |-> o + NodeSize]

HoldsWithNode(s, o, num) == s.node[o].bytes + NodeSize >= num  \* mutant
Holds(s, o, num) == s.node[o].bytes >= num

MayEqualMaximum(s, num) == s.size + num <= MaxFileSize  \* mutant
MayGrow(s, num) == s.size + NodeSize + num < MaxFileSize

Allocate(s, wanted) ==
    LET num == Max({wanted, MinimumSize})
        L == Blocks(s, "free")
        i == SelectInSeq(L, LAMBDA q : Holds(s, q, num))
    IN  IF i # 0
        THEN IF s.node[L[i]].bytes < num + NodeSize + MinimumSize
             THEN TakeWhole(s, L[i])
             ELSE TakeTail(s, L[i], num)
        ELSE IF MayGrow(s, num) THEN AppendBlock(s, num)
        ELSE [store |-> s, at |-> 0]

\* free(): the block joins the free list and is merged with the free block
\* in front of it and with the one behind it.
Adjacent(s, a) ==
    /\ s.node[a].next # 0
    /\ a + NodeSize + s.node[a].bytes = s.node[a].next

MergedTail(h, a, n) == [h EXCEPT !.bytes = @ + NodeSize]  \* mutant
MergedHead(h, a, n) == [h EXCEPT !.bytes = @ + NodeSize,
                                 !.prev = IF n = 0 THEN a ELSE @]

MergeNext(s, a) ==
    IF ~Adjacent(s, a) THEN s ELSE
    LET b == s.node[a].next
        n == s.node[b].next
        joined == [x \in DOMAIN s.node \ {b} |->
                      CASE x = a -> [s.node[a] EXCEPT
                                        !.bytes = @ + NodeSize + s.node[b].bytes,
                                        !.next = n]
                        [] x = n -> [s.node[x] EXCEPT !.prev = a]
                        [] OTHER -> s.node[x]]
    IN  WriteHead([s EXCEPT !.node = joined], "free",
                  MergedHead(s.head["free"], a, n))

Free(s, at) ==
    LET o == at - NodeSize
        freed == InsertNode(RemoveNode(s, "allocated", o), "free", o,
                            s.node[o].bytes)
        p == freed.node[o].prev
    IN  IF p # 0 /\ Adjacent(freed, p)
        THEN MergeNext(MergeNext(freed, p), p)
        ELSE MergeNext(freed, o)

------------------------------------------------------------------------------
BlockEnd(s, o) == o + NodeSize + s.node[o].bytes

\* The bytes of the blocks in S, over all offsets of the file.
SumTo(w, n) == LET sum[k \in 0 .. n] == IF k = 0 THEN 0 ELSE sum[k - 1] + w[k]
               IN  sum[n]
Weight(s, S) == [o \in Nat |-> IF o \in S THEN s.node[o].bytes ELSE 0]
Total(s, S) == SumTo(Weight(s, S), s.size)

ListIsSound(s, l) ==
    LET L == Blocks(s, l)
        h == s.head[l]
    IN  /\ \A i \in 1 .. Len(L) :
              /\ s.node[L[i]].prev = IF i = 1 THEN 0 ELSE L[i - 1]
              /\ i > 1 => L[i - 1] < L[i]
        /\ h.prev = IF L = <<>> THEN 0 ELSE Last(L)
        /\ h.bytes = Total(s, ToSet(L))

\* What dump() checks: the 'prev' pointers, that the blocks of both lists
\* follow each other without a gap up to the end of the file, and the sums
\* in the heads.
Sound(s) ==
    LET all == ToSet(Blocks(s, "allocated")) \cup ToSet(Blocks(s, "free"))
    IN  /\ \A l \in Lists : ListIsSound(s, l)
        /\ ToSet(Blocks(s, "allocated")) \cap ToSet(Blocks(s, "free")) = {}
        /\ {BlockEnd(s, o) : o \in all} \cup {HeapStart} = all \cup {s.size}
==============================================================================
