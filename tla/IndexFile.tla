------------------------------ MODULE IndexFile ------------------------------
(***************************************************************************)
(* An index file (Storage/IndexFile.cpp): a hash table of channel names    *)
(* (Storage/NameHash.cpp) whose entries lead to one RTree per channel,     *)
(* all in blocks of a FileAllocator, beside a program that reads the file  *)
(* while one process writes it.                                            *)
(*                                                                         *)
(* Of an RTree this module has the anchor, the first root and the blocks   *)
(* that the tree allocates and gives back (RTree.cpp:313, :341, :376,      *)
(* :1081, :1156, :1328, :1348); what is in them is the module RTree.  The  *)
(* writer's steps end where data that was written is made reachable: what  *)
(* stdio still holds back of a step reaches the file with the next fseek,  *)
(* in the order in which it was written.  The module starts after open()   *)
(* has created the file.                                                   *)
(***************************************************************************)
EXTENDS FileAllocator

CONSTANTS Names,       \* of channels
          TableSize,   \* slots of the hash table (ht_size)
          Hash,        \* NameHash::hash(), any function from Names to Slots
          TableBytes, AnchorBytes, RootBytes,
          EntryBytes,  \* from a name to the size of its entry
          TreeBytes    \* sizes of the further blocks of a tree

Slots == 0 .. TableSize - 1

\* The last one says that a file has room for the table.
ASSUME IndexAssumption ==
    /\ TableSize \in Nat \ {0}
    /\ Hash \in [Names -> Slots]
    /\ EntryBytes \in [Names -> Nat \ {0}]
    /\ TreeBytes \subseteq Nat \ {0}
    /\ {TableBytes, AnchorBytes, RootBytes} \subseteq Nat \ {0}
    /\ HeapStart + NodeSize + Max({TableBytes, MinimumSize}) < MaxFileSize

VARIABLES store,     \* the FileAllocator and its nodes on file
          data,      \* what has been written into blocks, by offset
          opened,    \* has the writer opened the file?
          writer,    \* what addChannel() is doing
          added,     \* the channels for which addChannel() has succeeded
          reader     \* what findChannel() of the reading program is doing

vars == <<store, data, opened, writer, added, reader>>

WriterIdle == [pc |-> "idle", name |-> "", id |-> 0, at |-> 0]
ReaderIdle == [pc |-> "idle"]

Entry(n, id) == [kind |-> "entry", name |-> n, id |-> id, next |-> 0]
Anchor(root) == [kind |-> "anchor", root |-> root]
Node == [kind |-> "node"]

Bytes(c) == CASE c.kind = "table"  -> TableBytes
              [] c.kind = "entry"  -> EntryBytes[c.name]
              [] c.kind = "anchor" -> AnchorBytes
              [] c.kind = "node"   -> RootBytes
              [] c.kind = "block"  -> c.bytes

\* Write `c' at `at': what was written inside of these bytes is gone.
Put(d, at, c) ==
    [o \in {at} \cup (DOMAIN d \ (at .. at + Bytes(c) - 1)) |->
        IF o = at THEN c ELSE d[o]]

\* The anchor of the NameHash holds the offset of the table, which is the
\* first block of the file.
table == HeapStart + NodeSize

Init ==
    LET a == Allocate(Created, TableBytes)
    IN  /\ store = a.store
        /\ data = Put(<< >>, a.at, [kind |-> "table", slot |-> [h \in Slots |-> 0]])
        /\ opened = TRUE
        /\ writer = WriterIdle
        /\ added = {}
        /\ reader = ReaderIdle

------------------------------------------------------------------------------
\* NameHash::find() when nothing interferes: the offset of the entry, or 0.
Entries == {o \in DOMAIN data : data[o].kind = "entry"}
Chain(h) == Followed([o \in Entries |-> data[o].next], data[table].slot[h])

Find(n) ==
    LET L == Chain(Hash[n])
        i == SelectInSeq(L, LAMBDA o : data[o].name = n)
    IN  IF i = 0 THEN 0 ELSE L[i]

\* NameHash::Iterator: the entries of all slots, one slot after the other.
Iterated == FlattenSeq([i \in 1 .. TableSize |-> Chain(i - 1)])

\* The order of the steps of addChannel(): the anchor of the new tree, the
\* tree, the entry of the hash table, and the link that makes it known.
TreeLast == [anchor |-> "entry", tree |-> "idle", entry |-> "link", link |-> "tree"]  \* mutant
Then == [anchor |-> "tree", tree |-> "entry", entry |-> "link", link |-> "idle"]

\* On to the step after `step', unless allocate() threw.
Go(step, thrown, w) ==
    writer' = IF thrown \/ Then[step] = "idle" THEN WriterIdle
              ELSE [w EXCEPT !.pc = Then[step]]

\* addChannel() of a name that is not found allocates the tree's anchor.
AddChannel(n) ==
    LET a == Allocate(store, AnchorBytes)
    IN  /\ opened /\ writer.pc = "idle"
        /\ Find(n) = 0
        /\ store' = a.store
        /\ Go("anchor", a.at = 0, [writer EXCEPT !.name = n, !.id = a.at])
        /\ UNCHANGED <<data, opened, added, reader>>

\* RTree::init(): the first root, then the anchor that points to it.
InitTree ==
    LET a == Allocate(store, RootBytes)
    IN  /\ writer.pc = "tree"
        /\ store' = a.store
        /\ data' = IF a.at = 0 THEN data
                   ELSE Put(Put(data, a.at, Node), writer.id, Anchor(a.at))
        /\ Go("tree", a.at = 0, writer)
        /\ UNCHANGED <<opened, added, reader>>

\* NameHash::insert(): the entry is written, then linked to the last entry
\* of its slot or into the table.
WriteEntry ==
    LET a == Allocate(store, EntryBytes[writer.name])
    IN  /\ writer.pc = "entry"
        /\ store' = a.store
        /\ data' = IF a.at = 0 THEN data
                   ELSE Put(data, a.at, Entry(writer.name, writer.id))
        /\ Go("entry", a.at = 0, [writer EXCEPT !.at = a.at])
        /\ UNCHANGED <<opened, added, reader>>

LinkedInFront(h, at) == [data EXCEPT ![table].slot[h] = at]  \* mutant
LinkedAtEnd(h, at) ==
    LET L == Chain(h)
    IN  IF L = <<>> THEN [data EXCEPT ![table].slot[h] = at]
        ELSE [data EXCEPT ![Last(L)].next = at]

Link ==
    /\ writer.pc = "link"
    /\ data' = LinkedAtEnd(Hash[writer.name], writer.at)
    /\ added' = added \cup {writer.name}
    /\ Go("link", FALSE, writer)
    /\ UNCHANGED <<store, opened, reader>>

\* A tree grows by a block and gives one back.
TreeGrows(b) ==
    LET a == Allocate(store, b)
    IN  /\ opened /\ writer.pc = "idle" /\ added # {}
        /\ store' = a.store
        /\ data' = IF a.at = 0 THEN data
                   ELSE Put(data, a.at, [kind |-> "block", bytes |-> b])
        /\ UNCHANGED <<opened, writer, added, reader>>

TreeShrinks(at) ==
    /\ opened /\ writer.pc = "idle"
    /\ data[at].kind = "block"
    /\ store' = Free(store, at)
    /\ data' = [o \in DOMAIN data \ {at} |-> data[o]]
    /\ UNCHANGED <<opened, writer, added, reader>>

\* close() forgets the list heads, open() reads them from the file.
Close ==
    /\ opened /\ writer.pc = "idle"
    /\ opened' = FALSE
    /\ store' = [store EXCEPT !.head = [l \in Lists |-> EmptyNode]]
    /\ UNCHANGED <<data, writer, added, reader>>

Open ==
    /\ ~opened
    /\ opened' = TRUE
    /\ store' = Attached(store)
    /\ UNCHANGED <<data, writer, added, reader>>

------------------------------------------------------------------------------
\* findChannel() of the program that reads: the table, one entry after the
\* other, then the anchor and the root of the tree.  `known' says whether
\* the channel was in the index when the search began.
Search(n) ==
    /\ reader.pc = "idle"
    /\ reader' = [pc |-> "entry", name |-> n, known |-> n \in added,
                  at |-> data[table].slot[Hash[n]]]
    /\ UNCHANGED <<store, data, opened, writer, added>>

ReadEntry ==
    /\ reader.pc = "entry" /\ reader.at # 0
    /\ LET e == data[reader.at]
       IN  reader' = IF e.name = reader.name
                     THEN [reader EXCEPT !.pc = "anchor", !.at = e.id]
                     ELSE [reader EXCEPT !.at = e.next]
    /\ UNCHANGED <<store, data, opened, writer, added>>

ReadAnchor ==
    /\ reader.pc = "anchor"
    /\ reader' = [reader EXCEPT !.pc = "root", !.at = data[reader.at].root]
    /\ UNCHANGED <<store, data, opened, writer, added>>

SearchEnds ==
    /\ \/ reader.pc = "root"
       \/ reader.pc = "entry" /\ reader.at = 0
    /\ reader' = ReaderIdle
    /\ UNCHANGED <<store, data, opened, writer, added>>

Next ==
    \/ \E n \in Names : AddChannel(n) \/ Search(n)
    \/ InitTree \/ WriteEntry \/ Link
    \/ \E b \in TreeBytes : TreeGrows(b)
    \/ \E at \in DOMAIN data : TreeShrinks(at)
    \/ Close \/ Open
    \/ ReadEntry \/ ReadAnchor \/ SearchEnds

Spec == Init /\ [][Next]_vars

------------------------------------------------------------------------------
\* The variables have their types (the fields of FileAllocator, NameHash and
\* IndexFile, Storage/FileAllocator.h, NameHash.h and IndexFile.h).
TypeOK ==
    /\ store.size \in HeapStart .. MaxFileSize - 1
    /\ DOMAIN store.node \subseteq Reserved .. store.size
    /\ \A o \in DOMAIN store.node :
          /\ store.node[o].bytes \in 0 .. store.size
          /\ {store.node[o].prev, store.node[o].next}
                 \subseteq {0} \cup DOMAIN store.node
    /\ \A l \in Lists : DOMAIN store.head[l] = {"bytes", "prev", "next"}
    /\ \A o \in DOMAIN data : data[o].kind \in
          {"table", "entry", "anchor", "node", "block"}
    /\ opened \in BOOLEAN /\ added \subseteq Names
    /\ writer.pc \in {"idle", "tree", "entry", "link"}
    /\ reader.pc \in {"idle", "entry", "anchor", "root"}

\* The consistency check of the file, FileAllocator::dump(), finds no error
\* whatever blocks were allocated, given back, split and merged before, and
\* no two free blocks are left side by side (FileAllocator.cpp:271-322).
FileSound ==
    LET s == Attached(store)
    IN  /\ opened => store.head = s.head
        /\ Sound(s)
        /\ \A o \in ToSet(Blocks(s, "free")) : ~Adjacent(s, o)

\* Whatever the index can reach or is about to link lies in an allocated
\* block of its own that is large enough: no block is handed out twice and
\* none that is in use is given back (FileAllocator.h:74-80).
BlocksOwned ==
    LET s == Attached(store)
        allocated == ToSet(Blocks(s, "allocated"))
    IN  \A at \in DOMAIN data :
            /\ at - NodeSize \in allocated
            /\ Bytes(data[at]) <= s.node[at - NodeSize].bytes

\* find() knows exactly the channels that were added, iterating over the
\* names visits each of them once, and each leads to a tree of its own that
\* has been initialised (IndexFile::check(), IndexFile.cpp:236-285).
NamesAsAdded ==
    /\ \A n \in Names : Find(n) # 0 <=> n \in added
    /\ \A n \in Names : Cardinality({i \in DOMAIN Iterated :
                             data[Iterated[i]].name = n})
                        = IF n \in added THEN 1 ELSE 0
    /\ \A n \in added :
          LET id == data[Find(n)].id
          IN  /\ data[id].kind = "anchor"
              /\ data[data[id].root].kind = "node"
              /\ \A m \in added \ {n} : data[Find(m)].id # id

\* A program that reads the index beside the writer only follows offsets of
\* things that were written before, and finds every channel that was in the
\* index when it began to search.
ReaderFinds ==
    /\ reader.pc # "idle" /\ reader.at # 0 =>
          /\ reader.at \in DOMAIN data
          /\ data[reader.at].kind = IF reader.pc = "root" THEN "node" ELSE reader.pc
    /\ reader.pc = "entry" /\ reader.at = 0 => ~reader.known
==============================================================================
