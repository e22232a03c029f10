--------------------------- MODULE IndexFileProofs ---------------------------
(***************************************************************************)
(* The index file keeps its invariants for every set of channel names,     *)
(* hash function, size of the table and sizes of what is stored, with any  *)
(* number of exceptions because the file is full, beside a program that    *)
(* reads it.                                                               *)
(***************************************************************************)
EXTENDS IndexFile, FileAllocatorProofs, FiniteSetTheorems

-----------------------------------------------------------------------------
(* The invariant of the index.                                             *)

\* What may be in a block.
Contents ==
    [kind : {"table"}, slot : [Slots -> Nat]]
        \cup [kind : {"entry"}, name : Names, id : Nat, next : Nat]
        \cup [kind : {"anchor"}, root : Nat]
        \cup [kind : {"node"}]
        \cup [kind : {"block"}, bytes : TreeBytes]

\* The data at `at' has a block of A for itself.
Owned(d, s, A) ==
    \A at \in DOMAIN d : /\ d[at] \in Contents
                         /\ at \in Nat /\ HeapStart + NodeSize <= at
                         /\ at - NodeSize \in A
                         /\ Bytes(d[at]) <= s.node[at - NodeSize].bytes

\* Where the data of a kind is.
OfKind(d, k) == {o \in DOMAIN d : d[o].kind = k}

\* Anchors lead to roots, and entries to anchors, each to one of its own.
TreesOK(d) ==
    /\ \A o \in OfKind(d, "anchor") : d[o].root \in OfKind(d, "node")
    /\ \A o \in OfKind(d, "entry") : d[o].id \in OfKind(d, "anchor")
    /\ \A o, p \in OfKind(d, "entry") : d[o].id = d[p].id => o = p

\* chain[h] has the entries that slot h leads to, one for each name.
ChainsOK(d, chain) ==
    /\ table \in OfKind(d, "table")
    /\ chain \in [Slots -> Seq(OfKind(d, "entry"))]
    /\ \A h \in Slots :
          LET L == chain[h]
          IN  /\ d[table].slot[h] = IF L = << >> THEN 0 ELSE L[1]
              /\ \A i \in 1 .. Len(L) :
                    /\ d[L[i]].next = IF i = Len(L) THEN 0 ELSE L[i + 1]
                    /\ Hash[d[L[i]].name] = h
              /\ \A i, j \in 1 .. Len(L) : d[L[i]].name = d[L[j]].name => i = j

\* `next' leads to what was linked later.
Ordered(d, key, m) ==
    /\ m \in Nat /\ key \in [OfKind(d, "entry") -> 0 .. m]
    /\ \A o \in OfKind(d, "entry") :
          d[o].next # 0 => /\ d[o].next \in OfKind(d, "entry")
                           /\ key[o] < key[d[o].next]

\* The entry of the name n is at position i of its chain.
At(d, chain, n, i) ==
    /\ i \in 1 .. Len(chain[Hash[n]])
    /\ d[chain[Hash[n]][i]].name = n
\* The chains have the names in N.
AreListed(d, chain, N) == \A n \in Names : n \in N <=> \E i \in Nat : At(d, chain, n, i)

\* What addChannel() relies on from one step to the next.
WriterOK(s, A, d, chain, w, N) ==
    /\ w \in [pc : {"idle", "tree", "entry", "link"}, name : Names \cup {""},
              id : Nat, at : Nat]
    /\ w.pc # "idle" => w.name \in Names \ N
    /\ w.pc = "tree" => /\ w.id \notin DOMAIN d /\ HeapStart + NodeSize <= w.id
                        /\ w.id - NodeSize \in A
                        /\ AnchorBytes <= s.node[w.id - NodeSize].bytes
    /\ w.pc \in {"entry", "link"} => w.id \in OfKind(d, "anchor")
    /\ w.pc = "entry" => \A o \in OfKind(d, "entry") : d[o].id # w.id
    /\ w.pc = "link" => /\ w.at \in OfKind(d, "entry")
                        /\ d[w.at] = Entry(w.name, w.id)
                        /\ \A h \in Slots : \A i \in 1 .. Len(chain[h]) : chain[h][i] # w.at

\* The reader is not behind what it looks for.
Ahead(d, chain, r) ==
    \/ r.at = 0 /\ ~r.known
    \/ \E i \in 1 .. Len(chain[Hash[r.name]]) :
          /\ r.at = chain[Hash[r.name]][i]
          /\ r.known => \E j \in Nat : i <= j /\ At(d, chain, r.name, j)
\* What findChannel() of the reading program relies on.
ReaderOK(d, chain, r) ==
    \/ r = ReaderIdle
    \/ /\ r \in [pc : {"entry", "anchor", "root"}, name : Names, known : BOOLEAN, at : Nat]
       /\ r.pc = "entry" => Ahead(d, chain, r)
       /\ r.pc = "anchor" => r.at \in OfKind(d, "anchor")
       /\ r.pc = "root" => r.at \in OfKind(d, "node")

\* All of it, for a store with its heads in memory.
IndexOK(s, A, d, chain, key, m, w, N, r) ==
    /\ Owned(d, s, A) /\ TreesOK(d)
    /\ ChainsOK(d, chain) /\ Ordered(d, key, m)
    /\ N \subseteq Names /\ AreListed(d, chain, N)
    /\ WriterOK(s, A, d, chain, w, N) /\ ReaderOK(d, chain, r)

\* close() forgets the heads.
Closed(s) == [s EXCEPT !.head = [l \in Lists |-> EmptyNode]]
\* s is the file with its heads in memory, st what there is of it.
IsStored(st, op, w, s, A, F) ==
    /\ FileOK(s, A, F)
    /\ op \in BOOLEAN /\ (w.pc # "idle" => op)
    /\ st = IF op THEN s ELSE Closed(s)

\* There are blocks, chains and an order of the entries like these.
IndexInv(st, d, op, w, N, r) ==
    \E s, A, F, chain, key, m :
        /\ IsStored(st, op, w, s, A, F)
        /\ IndexOK(s, A, d, chain, key, m, w, N, r)
\* The inductive invariant.
IInv == IndexInv(store, data, opened, writer, added, reader)

-----------------------------------------------------------------------------
(* Writing into a block.                                                   *)
LEMMA ContentBytes ==
    ASSUME NEW c \in Contents
    PROVE  /\ Bytes(c) \in Nat \ {0}
           /\ c.kind \in {"table", "entry", "anchor", "node", "block"}
<1>1. /\ TableBytes \in Nat \ {0} /\ AnchorBytes \in Nat \ {0} /\ RootBytes \in Nat \ {0}
      /\ EntryBytes \in [Names -> Nat \ {0}] /\ TreeBytes \subseteq Nat \ {0}
  BY IndexAssumption
<1>2. CASE c \in [kind : {"table"}, slot : [Slots -> Nat]]
  <2>1. c.kind = "table"
    BY <1>2
  <2> QED BY <2>1, <1>1 DEF Bytes
<1>3. CASE c \in [kind : {"entry"}, name : Names, id : Nat, next : Nat]
  <2>1. c.kind = "entry" /\ c.name \in Names
    BY <1>3
  <2> QED BY <2>1, <1>1 DEF Bytes
<1>4. CASE c \in [kind : {"anchor"}, root : Nat]
  <2>1. c.kind = "anchor"
    BY <1>4
  <2> QED BY <2>1, <1>1 DEF Bytes
<1>5. CASE c \in [kind : {"node"}]
  <2>1. c.kind = "node"
    BY <1>5
  <2> QED BY <2>1, <1>1 DEF Bytes
<1>6. CASE c \in [kind : {"block"}, bytes : TreeBytes]
  <2>1. c.kind = "block" /\ c.bytes \in TreeBytes
    BY <1>6
  <2> QED BY <2>1, <1>1 DEF Bytes
<1> QED BY <1>2, <1>3, <1>4, <1>5, <1>6 DEF Contents

\* What a content of some kind has.
LEMMA ContentFields ==
    ASSUME NEW c \in Contents
    PROVE  /\ c.kind = "table" => c \in [kind : {"table"}, slot : [Slots -> Nat]]
           /\ c.kind = "entry" => c \in [kind : {"entry"}, name : Names, id : Nat, next : Nat]
           /\ c.kind = "anchor" => c \in [kind : {"anchor"}, root : Nat]
           /\ c.kind = "block" => c \in [kind : {"block"}, bytes : TreeBytes]
  BY DEF Contents

\* Nothing is erased: c comes to what is there.
HasPut(d, e, at, c) ==
    /\ at \notin DOMAIN d
    /\ DOMAIN e = DOMAIN d \cup {at}
    /\ e[at] = c
    /\ \A o \in DOMAIN d : e[o] = d[o]

\* A block that is no one's yet, of this size at least.
IsVacant(s, A, d, at, bytes) ==
    /\ at \in Nat /\ HeapStart + NodeSize <= at /\ at - NodeSize \in A
    /\ at \notin DOMAIN d
    /\ bytes <= s.node[at - NodeSize].bytes

\* A block does not reach into another one.
LEMMA BlocksApart ==
    ASSUME NEW s, NEW A, NEW F, FileOK(s, A, F),
           NEW at \in Nat, at - NodeSize \in A, NEW bytes \in Nat, bytes <= s.node[at - NodeSize].bytes,
           NEW x \in Nat, x - NodeSize \in A, x # at
    PROVE  x \notin at .. at + bytes - 1
<1> DEFINE o == at - NodeSize
           p == x - NodeSize
<1>1. StoreOK(s, A \cup F) /\ Tiles(s, A \cup F) /\ NodeSize \in Nat \ {0}
  BY Places DEF FileOK, ListsOK
<1>2. /\ o \in Nat /\ s.node[o].bytes \in Nat /\ BlockEnd(s, o) = o + NodeSize + s.node[o].bytes
      /\ p \in Nat /\ s.node[p].bytes \in Nat /\ BlockEnd(s, p) = p + NodeSize + s.node[p].bytes
  BY <1>1, BlockFields
<1>3. at = o + NodeSize /\ x = p + NodeSize /\ o # p /\ bytes <= s.node[o].bytes
  BY <1>1
<1>4. (o < p => BlockEnd(s, o) <= p) /\ (p < o => BlockEnd(s, p) <= o)
  BY <1>1 DEF Tiles
<1> HIDE DEF o, p
<1> QED BY <1>1, <1>2, <1>3, <1>4

\* Writing into a vacant block erases nothing.
LEMMA PutKeeps ==
    ASSUME NEW s, NEW A, NEW F, FileOK(s, A, F), NEW d, Owned(d, s, A),
           NEW c \in Contents, NEW at, IsVacant(s, A, d, at, Bytes(c))
    PROVE  HasPut(d, Put(d, at, c), at, c) /\ Owned(Put(d, at, c), s, A)
<1> DEFINE e == Put(d, at, c)
           n == Bytes(c)
<1>1. n \in Nat \ {0} /\ at \in Nat /\ at - NodeSize \in A /\ n <= s.node[at - NodeSize].bytes
      /\ at \notin DOMAIN d /\ HeapStart + NodeSize <= at
  BY ContentBytes DEF IsVacant
<1>2. ASSUME NEW x \in DOMAIN d PROVE x \notin at .. at + n - 1
  <2>1. x \in Nat /\ x - NodeSize \in A /\ x # at
    BY <1>1 DEF Owned
  <2> HIDE DEF n
  <2> QED BY <2>1, <1>1, BlocksApart
<1>3. DOMAIN d \ (at .. at + n - 1) = DOMAIN d
  BY <1>2
<1>4. e = [o \in {at} \cup DOMAIN d |-> IF o = at THEN c ELSE d[o]]
  BY <1>3 DEF Put
<1> HIDE DEF n
<1>5. DOMAIN e = DOMAIN d \cup {at} /\ e[at] = c /\ \A o \in DOMAIN d : e[o] = d[o]
  BY <1>4, <1>1
<1> HIDE DEF e
<1>6. HasPut(d, e, at, c)
  BY <1>5, <1>1 DEF HasPut
<1>7. Owned(e, s, A)
  BY <1>5, <1>1 DEF Owned, n
<1> QED BY <1>6, <1>7 DEF e

\* It adds one offset to one kind.
LEMMA PutKinds ==
    ASSUME NEW d, NEW e, NEW at, NEW c, HasPut(d, e, at, c)
    PROVE  /\ OfKind(e, c.kind) = OfKind(d, c.kind) \cup {at}
           /\ \A k : k # c.kind => OfKind(e, k) = OfKind(d, k)
  BY DEF HasPut, OfKind

-----------------------------------------------------------------------------
(* What does not change the index.                                         *)

\* Neither an entry nor an anchor is changed, and no root is lost.
Keeps(d, e) ==
    /\ OfKind(d, "entry") \subseteq OfKind(e, "entry")
    /\ OfKind(d, "table") \subseteq OfKind(e, "table")
    /\ OfKind(d, "anchor") \subseteq OfKind(e, "anchor")
    /\ OfKind(d, "node") \subseteq OfKind(e, "node")
    /\ \A o \in OfKind(d, "entry") \cup OfKind(d, "table") \cup OfKind(d, "anchor") : e[o] = d[o]

\* The chains are the same then.
LEMMA KeepsChains ==
    ASSUME NEW d, NEW e, Keeps(d, e), NEW chain, ChainsOK(d, chain)
    PROVE  ChainsOK(e, chain)
<1>1. /\ OfKind(d, "entry") \subseteq OfKind(e, "entry")
      /\ table \in OfKind(e, "table") /\ e[table] = d[table]
  BY DEF Keeps, ChainsOK
<1>2. chain \in [Slots -> Seq(OfKind(e, "entry"))]
  <2>1. Seq(OfKind(d, "entry")) \subseteq Seq(OfKind(e, "entry"))
    BY <1>1
  <2> QED BY <2>1 DEF ChainsOK
<1>3. ASSUME NEW h \in Slots, NEW i \in 1 .. Len(chain[h])
      PROVE  e[chain[h][i]] = d[chain[h][i]]
  <2>1. chain[h] \in Seq(OfKind(d, "entry"))
    BY DEF ChainsOK
  <2>2. chain[h][i] \in OfKind(d, "entry")
    BY <2>1
  <2> QED BY <2>2 DEF Keeps
<1>4. ASSUME NEW h \in Slots
      PROVE  LET L == chain[h]
             IN  /\ e[table].slot[h] = IF L = << >> THEN 0 ELSE L[1]
                 /\ \A i \in 1 .. Len(L) :
                       /\ e[L[i]].next = IF i = Len(L) THEN 0 ELSE L[i + 1]
                       /\ Hash[e[L[i]].name] = h
                 /\ \A i, j \in 1 .. Len(L) : e[L[i]].name = e[L[j]].name => i = j
  <2>1. /\ d[table].slot[h] = IF chain[h] = << >> THEN 0 ELSE chain[h][1]
        /\ \A i \in 1 .. Len(chain[h]) :
              /\ d[chain[h][i]].next = IF i = Len(chain[h]) THEN 0 ELSE chain[h][i + 1]
              /\ Hash[d[chain[h][i]].name] = h
        /\ \A i, j \in 1 .. Len(chain[h]) : d[chain[h][i]].name = d[chain[h][j]].name => i = j
    BY DEF ChainsOK
  <2> QED BY <2>1, <1>1, <1>3
<1> QED BY <1>1, <1>2, <1>4 DEF ChainsOK

\* So is the order.
LEMMA KeepsOrder ==
    ASSUME NEW d, NEW e, Keeps(d, e), NEW key, NEW m, Ordered(d, key, m),
           OfKind(e, "entry") = OfKind(d, "entry")
    PROVE  Ordered(e, key, m)
  BY DEF Keeps, Ordered

\* The entries of the chains, with the index of a name.
LEMMA ChainEntries ==
    ASSUME NEW d, NEW chain, ChainsOK(d, chain)
    PROVE  /\ \A h \in Slots : /\ chain[h] \in Seq(OfKind(d, "entry")) /\ Len(chain[h]) \in Nat
                               /\ \A i \in 1 .. Len(chain[h]) : chain[h][i] \in OfKind(d, "entry")
           /\ \A n \in Names : Hash[n] \in Slots
<1>1. \A h \in Slots : chain[h] \in Seq(OfKind(d, "entry"))
  BY DEF ChainsOK
<1>2. ASSUME NEW h \in Slots
      PROVE  Len(chain[h]) \in Nat /\ \A i \in 1 .. Len(chain[h]) : chain[h][i] \in OfKind(d, "entry")
  BY <1>1
<1>3. \A n \in Names : Hash[n] \in Slots
  BY IndexAssumption
<1> QED BY <1>1, <1>2, <1>3

\* So are the names in the chains.
LEMMA KeepsNames ==
    ASSUME NEW d, NEW e, Keeps(d, e), NEW chain, ChainsOK(d, chain)
    PROVE  \A n \in Names : \A i : At(e, chain, n, i) <=> At(d, chain, n, i)
<1>1. TAKE n \in Names
<1>2. ASSUME NEW i \in 1 .. Len(chain[Hash[n]])
      PROVE  e[chain[Hash[n]][i]] = d[chain[Hash[n]][i]]
  <2>1. chain[Hash[n]][i] \in OfKind(d, "entry")
    BY ChainEntries
  <2> QED BY <2>1 DEF Keeps
<1> QED BY <1>2 DEF At

\* So is what is listed.
LEMMA KeepsListed ==
    ASSUME NEW d, NEW e, Keeps(d, e), NEW chain, ChainsOK(d, chain),
           NEW N, AreListed(d, chain, N)
    PROVE  AreListed(e, chain, N)
  BY KeepsNames DEF AreListed

\* And the reader may go on.
LEMMA KeepsReader ==
    ASSUME NEW d, NEW e, Keeps(d, e), NEW chain, ChainsOK(d, chain),
           NEW r, ReaderOK(d, chain, r)
    PROVE  ReaderOK(e, chain, r)
<1>1. CASE r = ReaderIdle
  BY <1>1 DEF ReaderOK
<1>2. CASE r # ReaderIdle
  <2>1. r \in [pc : {"entry", "anchor", "root"}, name : Names, known : BOOLEAN, at : Nat]
    BY <1>2 DEF ReaderOK
  <2>2. r.name \in Names
    BY <2>1
  <2>3. \A j \in Nat : At(e, chain, r.name, j) <=> At(d, chain, r.name, j)
    BY <2>2, KeepsNames
  <2>4. Ahead(d, chain, r) => Ahead(e, chain, r)
    BY <2>3 DEF Ahead
  <2>5. (r.pc = "entry" => Ahead(d, chain, r)) /\ (r.pc = "anchor" => r.at \in OfKind(d, "anchor"))
        /\ (r.pc = "root" => r.at \in OfKind(d, "node"))
    BY <1>2 DEF ReaderOK
  <2>6. OfKind(d, "anchor") \subseteq OfKind(e, "anchor") /\ OfKind(d, "node") \subseteq OfKind(e, "node")
    BY DEF Keeps
  <2> QED BY <2>1, <2>4, <2>5, <2>6 DEF ReaderOK
<1> QED BY <1>1, <1>2

-----------------------------------------------------------------------------
(* A block for the index.                                                  *)
IsGiven(s, A, d, chain, key, m, w, N, r, wanted, a) ==
    LET B == A \cup {a.at - NodeSize}
    IN  /\ \E F : FileOK(a.store, B, F)
        /\ IndexOK(a.store, B, d, chain, key, m, w, N, r)
        /\ IsVacant(a.store, B, d, a.at, wanted)
        /\ w.pc = "tree" => w.id # a.at

\* The index does not mind more allocated blocks.
LEMMA MoreBlocks ==
    ASSUME NEW s, NEW q, NEW A, NEW B, A \subseteq B, SameBytes(s, q, A),
           NEW d, NEW chain, NEW key, NEW m, NEW w, NEW N, NEW r,
           IndexOK(s, A, d, chain, key, m, w, N, r)
    PROVE  IndexOK(q, B, d, chain, key, m, w, N, r)
<1>1. \A o \in A : o \in B /\ q.node[o].bytes = s.node[o].bytes
  BY DEF SameBytes
<1>2. Owned(d, q, B)
  <2>1. Owned(d, s, A)
    BY DEF IndexOK
  <2> QED BY <1>1, <2>1 DEF Owned
<1>3. WriterOK(q, B, d, chain, w, N)
  <2>1. WriterOK(s, A, d, chain, w, N)
    BY DEF IndexOK
  <2> QED BY <1>1, <2>1 DEF WriterOK
<1> QED BY <1>2, <1>3 DEF IndexOK

\* allocate() gives the index a vacant block, or nothing.
LEMMA GivenBlock ==
    ASSUME NEW s, NEW A, NEW F, FileOK(s, A, F),
           NEW d, NEW chain, NEW key, NEW m, NEW w, NEW N, NEW r,
           IndexOK(s, A, d, chain, key, m, w, N, r),
           NEW wanted \in Nat
    PROVE  LET a == Allocate(s, wanted)
           IN  IF a.at = 0 THEN a.store = s
               ELSE IsGiven(s, A, d, chain, key, m, w, N, r, wanted, a)
<1> DEFINE a == Allocate(s, wanted)
           B == A \cup {a.at - NodeSize}
<1>1. IsAllocated(s, A, wanted, a)
  BY AllocateKeeps
<1> HIDE DEF a
<1>2. HeapStart \in Nat \ {0} /\ NodeSize \in Nat \ {0}
  BY HeadsInFront, Places
<1>3. CASE a.at = 0
  <2>1. ~(HeapStart + NodeSize <= 0)
    BY <1>2
  <2>2. a.store = s
    BY <1>1, <1>3, <2>1 DEF IsAllocated
  <2> QED BY <1>3, <2>2 DEF a
<1>4. CASE a.at # 0
  <2>1. /\ a.at \in Nat /\ HeapStart + NodeSize <= a.at /\ a.at - NodeSize \notin A
        /\ \E G : FileOK(a.store, B, G)
        /\ wanted <= a.store.node[a.at - NodeSize].bytes
        /\ SameBytes(s, a.store, A)
    BY <1>1, <1>4 DEF IsAllocated
  <2>2. A \subseteq B /\ a.at - NodeSize \in B
    OBVIOUS
  <2> HIDE DEF B
  <2>3. IndexOK(a.store, B, d, chain, key, m, w, N, r)
    BY <2>1, <2>2, MoreBlocks
  <2>4. a.at \notin DOMAIN d /\ (w.pc = "tree" => w.id # a.at)
    BY <2>1 DEF IndexOK, Owned, WriterOK
  <2>5. IsVacant(a.store, B, d, a.at, wanted)
    BY <2>1, <2>2, <2>4 DEF IsVacant
  <2>6. IsGiven(s, A, d, chain, key, m, w, N, r, wanted, a)
    BY <2>1, <2>3, <2>4, <2>5 DEF IsGiven, B
  <2> QED BY <1>4, <2>6 DEF a
<1> QED BY <1>3, <1>4

\* An exception ends addChannel().
LEMMA WriterMayStop ==
    ASSUME NEW s, NEW A, NEW d, NEW chain, NEW key, NEW m, NEW w, NEW N, NEW r,
           IndexOK(s, A, d, chain, key, m, w, N, r)
    PROVE  IndexOK(s, A, d, chain, key, m, WriterIdle, N, r)
<1>1. WriterOK(s, A, d, chain, WriterIdle, N)
  BY DEF WriterOK, WriterIdle
<1> QED BY <1>1 DEF IndexOK

-----------------------------------------------------------------------------
(* The steps of addChannel().                                              *)

\* A block that is not for an entry is written: a root or a tree's block.
LEMMA BesidePut ==
    ASSUME NEW s, NEW A, NEW d, NEW chain, NEW key, NEW m, NEW w, NEW N, NEW r,
           IndexOK(s, A, d, chain, key, m, w, N, r),
           NEW e, NEW at, NEW c, HasPut(d, e, at, c), Owned(e, s, A),
           c.kind \in {"node", "block"}, w.pc = "tree" => w.id # at
    PROVE  IndexOK(s, A, e, chain, key, m, w, N, r)
<1>1. /\ OfKind(e, c.kind) = OfKind(d, c.kind) \cup {at}
      /\ \A k : k # c.kind => OfKind(e, k) = OfKind(d, k)
      /\ \A o \in DOMAIN d : e[o] = d[o]
      /\ DOMAIN e = DOMAIN d \cup {at}
  BY PutKinds DEF HasPut
<1>2. /\ OfKind(e, "entry") = OfKind(d, "entry") /\ OfKind(e, "table") = OfKind(d, "table")
      /\ OfKind(e, "anchor") = OfKind(d, "anchor") /\ OfKind(d, "node") \subseteq OfKind(e, "node")
  BY <1>1
<1>3. \A k : \A o \in OfKind(d, k) : e[o] = d[o]
  BY <1>1 DEF OfKind
<1>4. Keeps(d, e)
  BY <1>2, <1>3 DEF Keeps
<1>5. TreesOK(e)
  <2>1. TreesOK(d)
    BY DEF IndexOK
  <2> QED BY <2>1, <1>2, <1>3 DEF TreesOK
<1>6. ChainsOK(d, chain) /\ Ordered(d, key, m) /\ AreListed(d, chain, N) /\ ReaderOK(d, chain, r)
      /\ N \subseteq Names /\ WriterOK(s, A, d, chain, w, N)
  BY DEF IndexOK
<1>7. ChainsOK(e, chain) /\ Ordered(e, key, m) /\ AreListed(e, chain, N) /\ ReaderOK(e, chain, r)
  BY <1>2, <1>4, <1>6, KeepsChains, KeepsOrder, KeepsListed, KeepsReader
<1>8. WriterOK(s, A, e, chain, w, N)
  <2>1. w.pc = "tree" => w.id \notin DOMAIN e
    BY <1>1, <1>6 DEF WriterOK
  <2>2. w.pc = "link" => e[w.at] = d[w.at]
    BY <1>3, <1>6 DEF WriterOK
  <2>3. /\ w.pc \in {"entry", "link"} => w.id \in OfKind(e, "anchor")
        /\ w.pc = "link" => w.at \in OfKind(e, "entry") /\ e[w.at] = Entry(w.name, w.id)
    BY <2>2, <1>2, <1>6 DEF WriterOK
  <2>4. w.pc = "entry" => \A o \in OfKind(e, "entry") : e[o].id # w.id
    BY <1>2, <1>3, <1>6 DEF WriterOK
  <2> QED BY <2>1, <2>3, <2>4, <1>6 DEF WriterOK
<1> QED BY <1>5, <1>6, <1>7, <1>8 DEF IndexOK

\* RTree::init() writes the anchor that points to the root.
LEMMA AnchorPut ==
    ASSUME NEW s, NEW A, NEW F, FileOK(s, A, F),
           NEW d, NEW chain, NEW key, NEW m, NEW w, NEW N, NEW r,
           IndexOK(s, A, d, chain, key, m, w, N, r),
           w.pc = "tree", NEW root \in OfKind(d, "node")
    PROVE  IndexOK(s, A, Put(d, w.id, Anchor(root)), chain, key, m, [w EXCEPT !.pc = "entry"], N, r)
<1> DEFINE c == Anchor(root)
           e == Put(d, w.id, c)
           v == [w EXCEPT !.pc = "entry"]
<1>1. /\ ChainsOK(d, chain) /\ Ordered(d, key, m) /\ AreListed(d, chain, N) /\ ReaderOK(d, chain, r)
      /\ N \subseteq Names /\ WriterOK(s, A, d, chain, w, N) /\ Owned(d, s, A) /\ TreesOK(d)
  BY DEF IndexOK
<1>2. c \in Contents /\ c.kind = "anchor" /\ c.root = root /\ Bytes(c) = AnchorBytes
  <2>1. root \in Nat
    BY <1>1 DEF Owned, OfKind
  <2>2. c \in [kind : {"anchor"}, root : Nat]
    BY <2>1 DEF Anchor
  <2> QED BY <2>2 DEF Anchor, Bytes, Contents
<1>3. IsVacant(s, A, d, w.id, Bytes(c))
  BY <1>1, <1>2 DEF WriterOK, IsVacant
<1>4. HasPut(d, e, w.id, c) /\ Owned(e, s, A)
  <2> HIDE DEF c
  <2> QED BY <1>1, <1>2, <1>3, PutKeeps
<1> HIDE DEF c, e
<1>5. /\ OfKind(e, "anchor") = OfKind(d, "anchor") \cup {w.id}
      /\ \A k : k # "anchor" => OfKind(e, k) = OfKind(d, k)
      /\ \A o \in DOMAIN d : e[o] = d[o]
      /\ e[w.id] = c /\ w.id \notin DOMAIN d
  <2>1. /\ OfKind(e, c.kind) = OfKind(d, c.kind) \cup {w.id}
        /\ \A k : k # c.kind => OfKind(e, k) = OfKind(d, k)
    BY <1>4, PutKinds
  <2> QED BY <2>1, <1>2, <1>4 DEF HasPut
<1>6. \A k : \A o \in OfKind(d, k) : e[o] = d[o] /\ o # w.id
  BY <1>5 DEF OfKind
<1>7. /\ OfKind(e, "entry") = OfKind(d, "entry") /\ OfKind(e, "table") = OfKind(d, "table")
      /\ OfKind(e, "node") = OfKind(d, "node")
  BY <1>5
<1>8. Keeps(d, e)
  BY <1>5, <1>6, <1>7 DEF Keeps
<1>9. TreesOK(e)
  BY <1>1, <1>2, <1>5, <1>6, <1>7 DEF TreesOK
<1>10. ChainsOK(e, chain) /\ Ordered(e, key, m) /\ AreListed(e, chain, N) /\ ReaderOK(e, chain, r)
  BY <1>1, <1>7, <1>8, KeepsChains, KeepsOrder, KeepsListed, KeepsReader
<1>11. WriterOK(s, A, e, chain, v, N)
  <2>1. /\ w \in [pc : {"idle", "tree", "entry", "link"}, name : Names \cup {""}, id : Nat, at : Nat]
        /\ w.name \in Names \ N
    BY <1>1 DEF WriterOK
  <2>2. /\ v \in [pc : {"idle", "tree", "entry", "link"}, name : Names \cup {""}, id : Nat, at : Nat]
        /\ v.pc = "entry" /\ v.name = w.name /\ v.id = w.id
    BY <2>1
  <2>3. \A o \in OfKind(e, "entry") : e[o].id # w.id
    BY <1>1, <1>6, <1>7 DEF TreesOK
  <2> HIDE DEF v
  <2> QED BY <2>1, <2>2, <2>3, <1>5 DEF WriterOK
<1>12. IndexOK(s, A, e, chain, key, m, v, N, r)
  BY <1>1, <1>4, <1>9, <1>10, <1>11 DEF IndexOK
<1> QED BY <1>12 DEF e, c

\* NameHash::insert() writes an entry that nothing leads to yet.
LEMMA EntryPut ==
    ASSUME NEW s, NEW A, NEW F, FileOK(s, A, F),
           NEW d, NEW chain, NEW key, NEW m, NEW w, NEW N, NEW r,
           IndexOK(s, A, d, chain, key, m, w, N, r),
           w.pc = "entry", NEW at, IsVacant(s, A, d, at, EntryBytes[w.name])
    PROVE  \E key2 : IndexOK(s, A, Put(d, at, Entry(w.name, w.id)), chain, key2, m,
                             [w EXCEPT !.at = at, !.pc = "link"], N, r)
<1> DEFINE c == Entry(w.name, w.id)
           e == Put(d, at, c)
           v == [w EXCEPT !.at = at, !.pc = "link"]
           key2 == [o \in OfKind(e, "entry") |-> IF o = at THEN 0 ELSE key[o]]
<1>1. /\ ChainsOK(d, chain) /\ Ordered(d, key, m) /\ AreListed(d, chain, N) /\ ReaderOK(d, chain, r)
      /\ N \subseteq Names /\ WriterOK(s, A, d, chain, w, N) /\ Owned(d, s, A) /\ TreesOK(d)
  BY DEF IndexOK
<1>2. /\ w \in [pc : {"idle", "tree", "entry", "link"}, name : Names \cup {""}, id : Nat, at : Nat]
      /\ w.name \in Names \ N /\ w.id \in OfKind(d, "anchor")
      /\ \A o \in OfKind(d, "entry") : d[o].id # w.id
  BY <1>1 DEF WriterOK
<1>3. /\ c \in Contents /\ c.kind = "entry" /\ c.id = w.id /\ c.name = w.name /\ c.next = 0
      /\ Bytes(c) = EntryBytes[w.name]
  <2>1. c \in [kind : {"entry"}, name : Names, id : Nat, next : Nat]
    BY <1>2 DEF Entry
  <2> QED BY <2>1 DEF Entry, Bytes, Contents
<1>4. HasPut(d, e, at, c) /\ Owned(e, s, A)
  <2> HIDE DEF c
  <2> QED BY <1>1, <1>3, PutKeeps
<1> HIDE DEF e
<1>5. /\ OfKind(e, "entry") = OfKind(d, "entry") \cup {at}
      /\ \A k : k # "entry" => OfKind(e, k) = OfKind(d, k)
      /\ \A o \in DOMAIN d : e[o] = d[o]
      /\ e[at] = c /\ at \notin DOMAIN d
  <2> HIDE DEF c
  <2> QED BY <1>3, <1>4, PutKinds DEF HasPut
<1>6. \A k : \A o \in OfKind(d, k) : e[o] = d[o] /\ o # at
  BY <1>5 DEF OfKind
<1>7. /\ OfKind(e, "anchor") = OfKind(d, "anchor") /\ OfKind(e, "table") = OfKind(d, "table")
      /\ OfKind(e, "node") = OfKind(d, "node")
  BY <1>5
<1>8. Keeps(d, e)
  BY <1>5, <1>6, <1>7 DEF Keeps
<1>9. TreesOK(e)
  <2>1. ASSUME NEW o \in OfKind(e, "entry") PROVE e[o].id \in OfKind(e, "anchor")
    BY <1>1, <1>2, <1>3, <1>5, <1>6, <1>7 DEF TreesOK
  <2>2. ASSUME NEW o \in OfKind(e, "entry"), NEW p \in OfKind(e, "entry"), e[o].id = e[p].id
        PROVE  o = p
    <3>1. e[at].id = w.id /\ \A x \in OfKind(d, "entry") : e[x] = d[x] /\ e[x].id # w.id
      BY <1>2, <1>3, <1>5, <1>6
    <3>2. \A x, y \in OfKind(d, "entry") : e[x].id = e[y].id => x = y
      BY <3>1, <1>1 DEF TreesOK
    <3> HIDE DEF c
    <3> QED BY <2>2, <3>1, <3>2, <1>5
  <2>3. \A o \in OfKind(e, "anchor") : e[o].root \in OfKind(e, "node")
    BY <1>1, <1>6, <1>7 DEF TreesOK
  <2> HIDE DEF c
  <2> QED BY <2>1, <2>2, <2>3 DEF TreesOK
<1> HIDE DEF c
<1>10. ChainsOK(e, chain) /\ AreListed(e, chain, N) /\ ReaderOK(e, chain, r)
  BY <1>1, <1>8, KeepsChains, KeepsListed, KeepsReader
<1>11. Ordered(e, key2, m)
  <2>1. m \in Nat /\ key \in [OfKind(d, "entry") -> 0 .. m]
    BY <1>1 DEF Ordered
  <2>2. key2 \in [OfKind(e, "entry") -> 0 .. m]
    BY <2>1, <1>5
  <2>3. ASSUME NEW o \in OfKind(e, "entry"), e[o].next # 0
        PROVE  e[o].next \in OfKind(e, "entry") /\ key2[o] < key2[e[o].next]
    <3>1. o \in OfKind(d, "entry") /\ e[o] = d[o] /\ o # at
      BY <2>3, <1>3, <1>5, <1>6
    <3>2. d[o].next \in OfKind(d, "entry") /\ key[o] < key[d[o].next]
      BY <3>1, <2>3, <1>1 DEF Ordered
    <3>3. d[o].next \in OfKind(e, "entry") /\ d[o].next # at
      BY <3>2, <1>5, <1>6
    <3> QED BY <3>1, <3>2, <3>3
  <2> HIDE DEF key2
  <2> QED BY <2>1, <2>2, <2>3 DEF Ordered
<1>12. WriterOK(s, A, e, chain, v, N)
  <2>1. at \in Nat
    BY DEF IsVacant
  <2>2. /\ v \in [pc : {"idle", "tree", "entry", "link"}, name : Names \cup {""}, id : Nat, at : Nat]
        /\ v.pc = "link" /\ v.name = w.name /\ v.id = w.id /\ v.at = at
    BY <2>1, <1>2
  <2>3. \A h \in Slots : \A i \in 1 .. Len(chain[h]) : chain[h][i] # at
    <3>1. TAKE h \in Slots
    <3>2. TAKE i \in 1 .. Len(chain[h])
    <3>3. chain[h][i] \in OfKind(d, "entry")
      BY <1>1, ChainEntries
    <3> QED BY <3>3, <1>6
  <2>4. e[at] = Entry(w.name, w.id)
    BY <1>5 DEF c
  <2> HIDE DEF v
  <2> QED BY <1>2, <1>5, <1>7, <2>2, <2>3, <2>4 DEF WriterOK
<1>13. IndexOK(s, A, e, chain, key2, m, v, N, r)
  <2> HIDE DEF v, key2
  <2> QED BY <1>1, <1>4, <1>9, <1>10, <1>11, <1>12 DEF IndexOK
<1> QED BY <1>13 DEF e, c

-----------------------------------------------------------------------------
(* What reading a chain returns.                                           *)
LEMMA PathWithin ==
    ASSUME NEW next, NEW D, 0 \notin D, NEW L, NEW M,
           IsPath(L, next, D), IsPath(M, next, D),
           L = << >> <=> M = << >>, L # << >> => L[1] = M[1]
    PROVE  Len(L) <= Len(M) /\ \A i \in 1 .. Len(L) : L[i] = M[i]
<1>1. /\ L \in Seq(D) /\ Len(L) \in Nat /\ \A i \in 1 .. Len(L) : L[i] \in D
      /\ M \in Seq(D) /\ Len(M) \in Nat
  <2>1. L \in Seq(D) /\ M \in Seq(D)
    BY DEF IsPath
  <2> QED BY <2>1
<1>2. /\ \A i \in 1 .. Len(L) : next[L[i]] = IF i = Len(L) THEN 0 ELSE L[i + 1]
      /\ \A i \in 1 .. Len(M) : next[M[i]] = IF i = Len(M) THEN 0 ELSE M[i + 1]
  BY DEF IsPath
<1> DEFINE Bad == {i \in 1 .. Len(L) : ~(i \in 1 .. Len(M) /\ L[i] = M[i])}
<1>3. ASSUME Bad # {} PROVE FALSE
  <2>1. PICK i \in Bad : \A j \in Bad : i <= j
    <3>1. Bad \in SUBSET Nat
      OBVIOUS
    <3> QED BY <1>3, <3>1, HasLeast
  <2>2. i \in 1 .. Len(L) /\ ~(i \in 1 .. Len(M) /\ L[i] = M[i])
    OBVIOUS
  <2>3. CASE i = 1
    <3>1. L # << >> /\ M # << >> /\ L[1] = M[1]
      BY <2>2, <2>3, <1>1
    <3>2. 1 \in 1 .. Len(M)
      BY <3>1, <1>1
    <3> QED BY <3>1, <3>2, <2>2, <2>3
  <2>4. CASE i # 1
    <3>1. i - 1 \in 1 .. Len(L) /\ i - 1 \notin Bad
      <4> HIDE DEF Bad
      <4> QED BY <2>1, <2>2, <2>4, <1>1
    <3>2. i - 1 \in 1 .. Len(M) /\ L[i - 1] = M[i - 1]
      BY <3>1
    <3>3. next[L[i - 1]] = L[i] /\ L[i] # 0
      BY <3>1, <1>1, <1>2, <2>2
    <3>4. i - 1 # Len(M) /\ M[i] = L[i]
      BY <3>2, <3>3, <1>1, <1>2, <2>2
    <3> QED BY <3>2, <3>4, <2>2, <1>1
  <2> QED BY <2>3, <2>4
<1>4. \A i \in 1 .. Len(L) : i \in 1 .. Len(M) /\ L[i] = M[i]
  BY <1>3
<1>5. Len(L) <= Len(M)
  <2>1. CASE Len(L) = 0
    BY <2>1, <1>1
  <2>2. CASE Len(L) # 0
    <3>1. Len(L) \in 1 .. Len(L)
      BY <2>2, <1>1
    <3>2. Len(L) \in 1 .. Len(M)
      BY <3>1, <1>4
    <3> QED BY <3>2, <1>1
  <2> QED BY <2>1, <2>2
<1> QED BY <1>4, <1>5

\* Reading a slot returns its chain.
LEMMA ChainIs ==
    ASSUME NEW s, NEW A, Owned(data, s, A),
           NEW chain, ChainsOK(data, chain), NEW key, NEW m, Ordered(data, key, m)
    PROVE  \A h \in Slots : Chain(h) = chain[h]
<1> DEFINE D == OfKind(data, "entry")
           next == [o \in D |-> data[o].next]
           rank == [o \in D |-> m - key[o]]
<1>1. TAKE h \in Slots
<1> DEFINE first == data[table].slot[h]
           L == Followed(next, first)
           M == chain[h]
<1>2. Chain(h) = L
  BY DEF Chain, Entries, OfKind
<1>3. 0 \notin D
  <2>1. \A o \in D : o \in Nat /\ HeapStart + NodeSize <= o
    BY DEF Owned, OfKind
  <2>2. HeapStart \in Nat \ {0} /\ NodeSize \in Nat \ {0}
    BY HeadsInFront, Places
  <2> HIDE DEF D
  <2> QED BY <2>1, <2>2
<1>4. Descends(next, D, rank, m + 1) /\ m + 1 \in Nat
  <2>1. m \in Nat /\ \A o \in D : key[o] \in 0 .. m
    BY DEF Ordered
  <2>2. \A o \in D : rank[o] \in 0 .. (m + 1) - 1
    BY <2>1
  <2>3. ASSUME NEW o \in D, next[o] # 0
        PROVE  next[o] \in D /\ rank[next[o]] < rank[o]
    <3>1. data[o].next # 0
      BY <2>3
    <3>2. data[o].next \in D /\ key[o] < key[data[o].next]
      BY <3>1 DEF Ordered
    <3>3. next[o] = data[o].next
      OBVIOUS
    <3>4. rank[o] = m - key[o] /\ rank[next[o]] = m - key[next[o]]
      BY <3>2, <3>3
    <3>5. key[o] \in 0 .. m /\ key[next[o]] \in 0 .. m
      BY <2>1, <3>2, <3>3
    <3> HIDE DEF next, rank, D
    <3> QED BY <3>2, <3>3, <3>4, <3>5, <2>1
  <2>4. DOMAIN next = D
    OBVIOUS
  <2> HIDE DEF next, rank, D
  <2> QED BY <1>3, <2>1, <2>2, <2>3, <2>4 DEF Descends
<1>5. M \in Seq(D) /\ Len(M) \in Nat /\ \A i \in 1 .. Len(M) : M[i] \in D
  <2> HIDE DEF D
  <2> QED BY ChainEntries DEF D
<1>6. /\ first = IF M = << >> THEN 0 ELSE M[1]
      /\ \A i \in 1 .. Len(M) : data[M[i]].next = IF i = Len(M) THEN 0 ELSE M[i + 1]
  BY DEF ChainsOK
<1>7. first \in D \cup {0}
  <2>1. M # << >> => M[1] \in D
    <3> HIDE DEF M, D
    <3> QED BY <1>5
  <2> QED BY <2>1, <1>6
<1>8. IsPath(M, next, D)
  <2>1. \A i \in 1 .. Len(M) : next[M[i]] = data[M[i]].next
    BY <1>5
  <2> HIDE DEF M, next, D
  <2> QED BY <2>1, <1>5, <1>6 DEF IsPath
<1> HIDE DEF next, rank, D, first
<1>9. Leads(L, next, D, rank, first)
  BY <1>4, <1>7, FollowedLeads
<1> HIDE DEF L, M
<1>10. /\ IsPath(L, next, D) /\ (L = << >> <=> M = << >>)
       /\ (L # << >> => L[1] = M[1]) /\ (M # << >> => M[1] = L[1])
  <2>1. M # << >> => M[1] # 0
    BY <1>3, <1>5
  <2> QED BY <2>1, <1>6, <1>9 DEF Leads
<1>11. Len(L) = Len(M) /\ \A i \in 1 .. Len(L) : L[i] = M[i]
  <2>1. Len(L) <= Len(M) /\ \A i \in 1 .. Len(L) : L[i] = M[i]
    BY <1>3, <1>8, <1>10, PathWithin
  <2>2. Len(M) <= Len(L)
    BY <1>3, <1>8, <1>10, PathWithin
  <2>3. L \in Seq(D)
    BY <1>10 DEF IsPath
  <2>4. Len(L) \in Nat
    BY <2>3
  <2> QED BY <2>1, <2>2, <2>4, <1>5
<1>12. L = M
  <2>1. L \in Seq(D)
    BY <1>10 DEF IsPath
  <2> QED BY <2>1, <1>5, <1>11
<1> QED BY <1>2, <1>12 DEF M

\* What find() should return.
FoundAs(n, d, chain, N) ==
    IF n \in N THEN \E i \in Nat : At(d, chain, n, i) /\ Find(n) = chain[Hash[n]][i]
    ELSE Find(n) = 0

\* find() knows the names that were added, and no other.
LEMMA FindKnows ==
    ASSUME NEW s, NEW A, Owned(data, s, A),
           NEW chain, ChainsOK(data, chain), NEW key, NEW m, Ordered(data, key, m),
           NEW N, AreListed(data, chain, N), NEW n \in Names
    PROVE  FoundAs(n, data, chain, N)
<1> DEFINE h == Hash[n]
           L == chain[h]
           I == {j \in 1 .. Len(L) : data[L[j]].name = n}
           i == IF I # {} THEN Min(I) ELSE 0
<1>1. h \in Slots /\ Len(L) \in Nat
  BY ChainEntries
<1>2. Find(n) = IF i = 0 THEN 0 ELSE L[i]
  <2>1. Chain(Hash[n]) = L
    BY <1>1, ChainIs
  <2> QED BY <2>1 DEF Find, SelectInSeq
<1> HIDE DEF L, h
<1>3. \A j : j \in I <=> At(data, chain, n, j)
  BY DEF At, L, h
<1> HIDE DEF I
<1>4. I \subseteq Nat \ {0}
  BY <1>1, <1>3 DEF At, L, h
<1>5. CASE n \in N
  <2>1. I # {}
    BY <1>3, <1>5 DEF AreListed
  <2>2. \E x \in I : \A y \in I : x <= y
    BY <2>1, <1>4, HasLeast
  <2>3. Min(I) \in I
    BY <2>2 DEF Min
  <2>4. i \in I /\ i # 0 /\ i \in Nat
    BY <2>1, <2>3, <1>4
  <2> HIDE DEF i
  <2>5. At(data, chain, n, i) /\ Find(n) = L[i]
    BY <2>4, <1>2, <1>3
  <2> QED BY <2>4, <2>5, <1>5 DEF FoundAs, L, h
<1>6. CASE n \notin N
  <2>1. I = {}
    BY <1>3, <1>4, <1>6 DEF AreListed
  <2>2. i = 0
    BY <2>1
  <2> QED BY <2>2, <1>2, <1>6 DEF FoundAs
<1> QED BY <1>5, <1>6

-----------------------------------------------------------------------------
(* The link that makes an entry known.                                     *)

\* What it changes: the slot, or the last entry of the slot.
HasLinked(d, e, L, h, at) ==
    /\ DOMAIN e = DOMAIN d
    /\ \A k : OfKind(e, k) = OfKind(d, k)
    /\ \A o \in OfKind(d, "entry") :
          /\ e[o].name = d[o].name /\ e[o].id = d[o].id
          /\ e[o].next = IF L # << >> /\ o = Last(L) THEN at ELSE d[o].next
    /\ \A x \in Slots :
          e[table].slot[x] = IF L = << >> /\ x = h THEN at ELSE d[table].slot[x]
    /\ \A o \in OfKind(d, "anchor") : e[o] = d[o]

\* The first entry of a slot is linked into the table.
LEMMA SlotWritten ==
    ASSUME NEW s, NEW A, NEW d, Owned(d, s, A), table \in OfKind(d, "table"),
           NEW h \in Slots, NEW at \in Nat, NEW L, L = << >>
    PROVE  LET e == [d EXCEPT ![table].slot[h] = at]
           IN  HasLinked(d, e, L, h, at) /\ Owned(e, s, A)
<1> DEFINE e == [d EXCEPT ![table].slot[h] = at]
           c == [d[table] EXCEPT !.slot[h] = at]
<1>1. table \in DOMAIN d /\ d[table].kind = "table" /\ d[table] \in Contents
  BY DEF OfKind, Owned
<1>2. d[table] \in [kind : {"table"}, slot : [Slots -> Nat]]
  BY <1>1, ContentFields
<1>3. /\ c \in [kind : {"table"}, slot : [Slots -> Nat]] /\ c.kind = "table"
      /\ \A x \in Slots : c.slot[x] = IF x = h THEN at ELSE d[table].slot[x]
  BY <1>2
<1>4. /\ DOMAIN e = DOMAIN d /\ e[table] = c
      /\ \A o \in DOMAIN d : o # table => e[o] = d[o]
  BY <1>1
<1>5. c \in Contents /\ Bytes(c) = TableBytes /\ Bytes(d[table]) = TableBytes
  <2>1. c \in Contents
    BY <1>3 DEF Contents
  <2> HIDE DEF c
  <2> QED BY <2>1, <1>1, <1>3 DEF Bytes
<1> HIDE DEF e, c
<1>6. \A k : OfKind(e, k) = OfKind(d, k)
  BY <1>1, <1>3, <1>4 DEF OfKind
<1>7. \A o \in OfKind(d, "entry") \cup OfKind(d, "anchor") : e[o] = d[o]
  BY <1>1, <1>4 DEF OfKind
<1>8. HasLinked(d, e, L, h, at)
  BY <1>3, <1>4, <1>6, <1>7 DEF HasLinked
<1>9. Owned(e, s, A)
  <2>1. ASSUME NEW o \in DOMAIN e
        PROVE  /\ e[o] \in Contents /\ Bytes(e[o]) = Bytes(d[o]) /\ o \in DOMAIN d
    BY <1>1, <1>4, <1>5 DEF Owned
  <2> QED BY <2>1 DEF Owned
<1> QED BY <1>8, <1>9 DEF e

\* Another one is linked to the last entry.
LEMMA LastWritten ==
    ASSUME NEW s, NEW A, NEW d, Owned(d, s, A), table \in OfKind(d, "table"),
           NEW h \in Slots, NEW at \in Nat, NEW L, L # << >>, Last(L) \in OfKind(d, "entry")
    PROVE  LET e == [d EXCEPT ![Last(L)].next = at]
           IN  HasLinked(d, e, L, h, at) /\ Owned(e, s, A)
<1> DEFINE p == Last(L)
           e == [d EXCEPT ![p].next = at]
           c == [d[p] EXCEPT !.next = at]
<1>1. p \in DOMAIN d /\ d[p].kind = "entry" /\ d[p] \in Contents
  BY DEF OfKind, Owned
<1>2. d[p] \in [kind : {"entry"}, name : Names, id : Nat, next : Nat]
  BY <1>1, ContentFields
<1>3. /\ c \in [kind : {"entry"}, name : Names, id : Nat, next : Nat] /\ c.kind = "entry"
      /\ c.name = d[p].name /\ c.id = d[p].id /\ c.next = at
  BY <1>2
<1> HIDE DEF p
<1>4. /\ DOMAIN e = DOMAIN d /\ e[p] = c
      /\ \A o \in DOMAIN d : o # p => e[o] = d[o]
  BY <1>1
<1>5. c \in Contents /\ Bytes(c) = EntryBytes[d[p].name] /\ Bytes(d[p]) = EntryBytes[d[p].name]
  <2>1. c \in Contents
    BY <1>3 DEF Contents
  <2> HIDE DEF c
  <2> QED BY <2>1, <1>1, <1>3 DEF Bytes
<1> HIDE DEF e, c
<1>6. \A k : OfKind(e, k) = OfKind(d, k)
  BY <1>1, <1>3, <1>4 DEF OfKind
<1>7. \A o \in OfKind(d, "table") \cup OfKind(d, "anchor") : e[o] = d[o]
  BY <1>1, <1>4 DEF OfKind
<1>8. ASSUME NEW o \in OfKind(d, "entry")
      PROVE  /\ e[o].name = d[o].name /\ e[o].id = d[o].id
             /\ e[o].next = IF L # << >> /\ o = p THEN at ELSE d[o].next
  <2>1. o \in DOMAIN d
    BY DEF OfKind
  <2> QED BY <2>1, <1>3, <1>4
<1>9. HasLinked(d, e, L, h, at)
  BY <1>4, <1>6, <1>7, <1>8 DEF HasLinked, p
<1>10. Owned(e, s, A)
  <2>1. ASSUME NEW o \in DOMAIN e
        PROVE  /\ e[o] \in Contents /\ Bytes(e[o]) = Bytes(d[o]) /\ o \in DOMAIN d
    BY <1>1, <1>4, <1>5 DEF Owned
  <2> QED BY <2>1 DEF Owned
<1> QED BY <1>9, <1>10 DEF e, p

\* Both are what NameHash::insert() does.
LEMMA LinkWritten ==
    ASSUME NEW s, NEW A, Owned(data, s, A),
           NEW chain, ChainsOK(data, chain), NEW key, NEW m, Ordered(data, key, m),
           NEW h \in Slots, NEW at \in Nat
    PROVE  LET e == LinkedAtEnd(h, at)
           IN  HasLinked(data, e, chain[h], h, at) /\ Owned(e, s, A)
<1> DEFINE L == chain[h]
<1>1. Chain(h) = L
  BY ChainIs
<1>2. table \in OfKind(data, "table")
  BY DEF ChainsOK
<1>3. L # << >> => Last(L) \in OfKind(data, "entry")
  <2>1. L \in Seq(OfKind(data, "entry"))
    BY ChainEntries
  <2> HIDE DEF L
  <2> QED BY <2>1 DEF Last
<1> HIDE DEF L
<1>4. LinkedAtEnd(h, at) = IF L = << >> THEN [data EXCEPT ![table].slot[h] = at]
                           ELSE [data EXCEPT ![Last(L)].next = at]
  BY <1>1 DEF LinkedAtEnd
<1>5. CASE L = << >>
  <2> DEFINE e == [data EXCEPT ![table].slot[h] = at]
  <2>1. HasLinked(data, e, L, h, at) /\ Owned(e, s, A)
    BY <1>2, <1>5, SlotWritten
  <2> QED BY <2>1, <1>4, <1>5 DEF L
<1>6. CASE L # << >>
  <2> DEFINE e == [data EXCEPT ![Last(L)].next = at]
  <2>1. HasLinked(data, e, L, h, at) /\ Owned(e, s, A)
    BY <1>2, <1>3, <1>6, LastWritten
  <2> QED BY <2>1, <1>4, <1>6 DEF L
<1> QED BY <1>5, <1>6

\* The chains behind the link: at the end of chain h comes `at'.
Longer(chain, h, at) == [chain EXCEPT ![h] = Append(chain[h], at)]

\* Chain h goes on to the entry at, of the entries at D; the others end
\* where they did.
IsLonger(M, chain, h, at, D) ==
    /\ M \in [Slots -> Seq(D)]
    /\ \A x \in Slots : x # h => M[x] = chain[x]
    /\ Len(M[h]) = Len(chain[h]) + 1
    /\ \A i \in 1 .. Len(chain[h]) : M[h][i] = chain[h][i]
    /\ M[h][Len(chain[h]) + 1] = at

\* What Longer does to each chain.
LEMMA LongerFields ==
    ASSUME NEW d, NEW chain, ChainsOK(d, chain), NEW h \in Slots, NEW at \in OfKind(d, "entry")
    PROVE  IsLonger(Longer(chain, h, at), chain, h, at, OfKind(d, "entry"))
<1>1. chain \in [Slots -> Seq(OfKind(d, "entry"))] /\ chain[h] \in Seq(OfKind(d, "entry"))
  BY ChainEntries DEF ChainsOK
<1>2. Append(chain[h], at) \in Seq(OfKind(d, "entry"))
  BY <1>1
<1>3. Longer(chain, h, at)[h] = Append(chain[h], at)
  BY <1>1 DEF Longer
<1>4. /\ Longer(chain, h, at) \in [Slots -> Seq(OfKind(d, "entry"))]
      /\ \A x \in Slots : x # h => Longer(chain, h, at)[x] = chain[x]
  BY <1>1, <1>2 DEF Longer
<1> DEFINE L == chain[h]
           M == Longer(chain, h, at)
<1>5. /\ Len(Append(L, at)) = Len(L) + 1
      /\ \A i \in 1 .. Len(L) : Append(L, at)[i] = L[i]
      /\ Append(L, at)[Len(L) + 1] = at
  <2> HIDE DEF L
  <2> QED BY <1>1 DEF L
<1>6. /\ M \in [Slots -> Seq(OfKind(d, "entry"))] /\ M[h] = Append(L, at)
      /\ \A x \in Slots : x # h => M[x] = chain[x]
  BY <1>3, <1>4
<1> HIDE DEF M
<1>7. /\ Len(M[h]) = Len(L) + 1 /\ M[h][Len(L) + 1] = at
      /\ \A i \in 1 .. Len(L) : M[h][i] = L[i]
  BY <1>5, <1>6
<1>8. IsLonger(M, chain, h, at, OfKind(d, "entry"))
  BY <1>6, <1>7 DEF IsLonger
<1> QED BY <1>8 DEF M

\* The entry that is linked is of a name that no chain has.
Unlinked(d, chain, at, n) ==
    /\ at \in OfKind(d, "entry") /\ d[at].next = 0 /\ d[at].name = n /\ n \in Names
    /\ \A h \in Slots : \A i \in 1 .. Len(chain[h]) : chain[h][i] # at
    /\ \A i \in Nat : ~At(d, chain, n, i)

\* The chains are chains after the link.
LEMMA LinkChains ==
    ASSUME NEW d, NEW chain, ChainsOK(d, chain), NEW n, NEW at, Unlinked(d, chain, at, n),
           NEW e, HasLinked(d, e, chain[Hash[n]], Hash[n], at)
    PROVE  ChainsOK(e, Longer(chain, Hash[n], at))
<1> DEFINE h == Hash[n]
           L == chain[h]
           M == Longer(chain, h, at)
           D == OfKind(d, "entry")
<1>1. /\ h \in Slots /\ at \in D /\ d[at].next = 0 /\ d[at].name = n /\ n \in Names
      /\ L \in Seq(D) /\ Len(L) \in Nat /\ \A i \in 1 .. Len(L) : L[i] \in D /\ L[i] # at
      /\ \A x \in Slots : \A i \in 1 .. Len(chain[x]) : chain[x][i] \in D
  BY ChainEntries DEF Unlinked
<1>2. /\ M \in [Slots -> Seq(D)] /\ \A x \in Slots : x # h => M[x] = chain[x]
      /\ Len(M[h]) = Len(L) + 1 /\ M[h][Len(L) + 1] = at
      /\ \A i \in 1 .. Len(L) : M[h][i] = L[i]
  <2>1. IsLonger(M, chain, h, at, D)
    BY <1>1, LongerFields
  <2> HIDE DEF M, D
  <2> QED BY <2>1 DEF IsLonger
<1>3. /\ OfKind(e, "entry") = D /\ table \in OfKind(e, "table")
      /\ \A o \in D : /\ e[o].name = d[o].name
                      /\ e[o].next = IF L # << >> /\ o = Last(L) THEN at ELSE d[o].next
      /\ \A x \in Slots : e[table].slot[x] = IF L = << >> /\ x = h THEN at ELSE d[table].slot[x]
  BY DEF HasLinked, ChainsOK
<1>4. /\ \A x \in Slots :
            /\ d[table].slot[x] = IF chain[x] = << >> THEN 0 ELSE chain[x][1]
            /\ \A i \in 1 .. Len(chain[x]) :
                 /\ d[chain[x][i]].next = IF i = Len(chain[x]) THEN 0 ELSE chain[x][i + 1]
                 /\ Hash[d[chain[x][i]].name] = x
            /\ \A i, j \in 1 .. Len(chain[x]) : d[chain[x][i]].name = d[chain[x][j]].name => i = j
  BY DEF ChainsOK
<1>5. \A i \in 1 .. Len(L) : d[L[i]].name # n
  <2>1. ASSUME NEW i \in 1 .. Len(L), d[L[i]].name = n PROVE FALSE
    <3>1. i \in Nat /\ At(d, chain, n, i)
      BY <2>1 DEF At
    <3> QED BY <3>1 DEF Unlinked
  <2> QED BY <2>1
<1>6. L # << >> => Last(L) = L[Len(L)] /\ Len(L) \in 1 .. Len(L)
  <2> HIDE DEF L
  <2> QED BY <1>1 DEF Last
<1> HIDE DEF M, D
<1>7. ASSUME NEW x \in Slots, x # h
      PROVE  /\ e[table].slot[x] = IF M[x] = << >> THEN 0 ELSE M[x][1]
             /\ \A i \in 1 .. Len(M[x]) :
                  /\ e[M[x][i]].next = IF i = Len(M[x]) THEN 0 ELSE M[x][i + 1]
                  /\ Hash[e[M[x][i]].name] = x
             /\ \A i, j \in 1 .. Len(M[x]) : e[M[x][i]].name = e[M[x][j]].name => i = j
  <2>1. M[x] = chain[x] /\ e[table].slot[x] = d[table].slot[x]
    BY <1>2, <1>3, <1>7
  <2>2. ASSUME NEW i \in 1 .. Len(chain[x])
        PROVE  e[chain[x][i]].name = d[chain[x][i]].name /\ e[chain[x][i]].next = d[chain[x][i]].next
    <3>1. chain[x][i] \in D /\ Hash[d[chain[x][i]].name] = x
      BY <1>1, <1>4
    <3>2. L # << >> => Hash[d[Last(L)].name] = h
      <4>1. \A j \in 1 .. Len(L) : Hash[d[L[j]].name] = h
        BY <1>1, <1>4
      <4> HIDE DEF L, h
      <4> QED BY <4>1, <1>6
    <3>3. ~(L # << >> /\ chain[x][i] = Last(L))
      BY <3>1, <3>2, <1>7
    <3> HIDE DEF L, h
    <3> QED BY <3>1, <3>3, <1>3
  <2> QED BY <2>1, <2>2, <1>4
<1>8. /\ e[table].slot[h] = IF M[h] = << >> THEN 0 ELSE M[h][1]
      /\ \A i \in 1 .. Len(M[h]) :
           /\ e[M[h][i]].next = IF i = Len(M[h]) THEN 0 ELSE M[h][i + 1]
           /\ Hash[e[M[h][i]].name] = h
      /\ \A i, j \in 1 .. Len(M[h]) : e[M[h][i]].name = e[M[h][j]].name => i = j
  <2> DEFINE K == M[h]
             n1 == Len(L) + 1
  <2>0. K \in Seq(D) /\ Len(K) = n1 /\ K[n1] = at /\ \A i \in 1 .. Len(L) : K[i] = L[i]
    BY <1>1, <1>2
  <2>1. /\ d[table].slot[h] = IF L = << >> THEN 0 ELSE L[1]
        /\ \A i \in 1 .. Len(L) :
             /\ d[L[i]].next = IF i = Len(L) THEN 0 ELSE L[i + 1]
             /\ Hash[d[L[i]].name] = h
        /\ \A i, j \in 1 .. Len(L) : d[L[i]].name = d[L[j]].name => i = j
    BY <1>1, <1>4
  <2>2. Hash[n] = h
    OBVIOUS
  <2> HIDE DEF K, L, h
  <2>3. K # << >> /\ \A i \in 1 .. n1 : i \in 1 .. Len(L) \/ i = n1
    BY <2>0, <1>1
  <2>4. e[table].slot[h] = K[1]
    <3>1. CASE L = << >>
      BY <3>1, <2>0, <1>1, <1>3
    <3>2. CASE L # << >>
      <4>1. 1 \in 1 .. Len(L)
        BY <3>2, <1>1
      <4> QED BY <4>1, <3>2, <2>0, <2>1, <1>1, <1>3
    <3> QED BY <3>1, <3>2
  <2>5. e[at].name = n /\ e[at].next = 0
    BY <1>1, <1>3, <1>6
  <2>6. ASSUME NEW i \in 1 .. Len(L)
        PROVE  e[L[i]].name = d[L[i]].name /\ e[L[i]].next = IF i = Len(L) THEN at ELSE L[i + 1]
    <3>1. L[i] \in D /\ L # << >> /\ Len(L) \in 1 .. Len(L) /\ Last(L) = L[Len(L)]
      BY <1>1, <1>6
    <3>2. L[i] = Last(L) <=> i = Len(L)
      BY <3>1, <2>1
    <3> QED BY <3>1, <3>2, <1>3, <2>1
  <2>7. ASSUME NEW i \in 1 .. n1
        PROVE  e[K[i]].next = IF i = n1 THEN 0 ELSE K[i + 1]
    <3>1. CASE i = n1
      BY <3>1, <2>0, <2>5
    <3>2. CASE i \in 1 .. Len(L)
      <4>1. i # n1 /\ K[i] = L[i] /\ (i = Len(L) => K[i + 1] = at)
            /\ (i # Len(L) => K[i + 1] = L[i + 1])
        BY <3>2, <2>0, <1>1
      <4> QED BY <4>1, <3>2, <2>6
    <3> QED BY <3>1, <3>2, <2>3
  <2>8. ASSUME NEW i \in 1 .. n1
        PROVE  Hash[e[K[i]].name] = h
    <3>1. CASE i = n1
      BY <3>1, <2>0, <2>2, <2>5
    <3>2. CASE i \in 1 .. Len(L)
      BY <3>2, <2>0, <2>1, <2>6
    <3> QED BY <3>1, <3>2, <2>3
  <2>9. ASSUME NEW i \in 1 .. n1, NEW j \in 1 .. n1, e[K[i]].name = e[K[j]].name
        PROVE  i = j
    <3>1. \A x \in 1 .. n1 : IF x = n1 THEN e[K[x]].name = n
                             ELSE /\ x \in 1 .. Len(L)
                                  /\ e[K[x]].name = d[L[x]].name /\ d[L[x]].name # n
      BY <2>0, <2>3, <2>5, <2>6, <1>5 DEF L
    <3> QED BY <3>1, <2>9, <2>1
  <2>10. /\ e[table].slot[h] = IF K = << >> THEN 0 ELSE K[1]
         /\ \A i \in 1 .. n1 : /\ e[K[i]].next = IF i = n1 THEN 0 ELSE K[i + 1]
                               /\ Hash[e[K[i]].name] = h
         /\ \A i, j \in 1 .. n1 : e[K[i]].name = e[K[j]].name => i = j
    BY <2>3, <2>4, <2>7, <2>8, <2>9
  <2> HIDE DEF n1
  <2> QED BY <2>0, <2>10 DEF K
<1>9. ASSUME NEW x \in Slots
      PROVE  LET K == M[x]
             IN  /\ e[table].slot[x] = IF K = << >> THEN 0 ELSE K[1]
                 /\ \A i \in 1 .. Len(K) :
                      /\ e[K[i]].next = IF i = Len(K) THEN 0 ELSE K[i + 1]
                      /\ Hash[e[K[i]].name] = x
                 /\ \A i, j \in 1 .. Len(K) : e[K[i]].name = e[K[j]].name => i = j
  BY <1>7, <1>8
<1>10. ChainsOK(e, M)
  BY <1>2, <1>3, <1>9 DEF ChainsOK
<1> QED BY <1>10 DEF M

\* M has, besides what chain has, the name n behind the end of chain L.
HasName(d, e, chain, M, L, n) ==
    \A k \in Names : \A i \in Nat :
        At(e, M, k, i) <=> At(d, chain, k, i) \/ (k = n /\ i = Len(L) + 1)

\* The link adds its name, and no other.
LEMMA LinkNames ==
    ASSUME NEW d, NEW chain, ChainsOK(d, chain), NEW n, NEW at, Unlinked(d, chain, at, n),
           NEW e, HasLinked(d, e, chain[Hash[n]], Hash[n], at)
    PROVE  HasName(d, e, chain, Longer(chain, Hash[n], at), chain[Hash[n]], n)
<1> DEFINE h == Hash[n]
           L == chain[h]
           M == Longer(chain, h, at)
           D == OfKind(d, "entry")
<1>1. /\ h \in Slots /\ at \in D /\ d[at].name = n /\ n \in Names
      /\ Len(L) \in Nat
      /\ \A x \in Slots : Len(chain[x]) \in Nat /\ \A i \in 1 .. Len(chain[x]) : chain[x][i] \in D
      /\ \A k \in Names : Hash[k] \in Slots
  BY ChainEntries DEF Unlinked
<1>2. /\ \A x \in Slots : x # h => M[x] = chain[x]
      /\ Len(M[h]) = Len(L) + 1 /\ M[h][Len(L) + 1] = at
      /\ \A i \in 1 .. Len(L) : M[h][i] = L[i]
  <2>1. IsLonger(M, chain, h, at, D)
    BY <1>1, LongerFields
  <2> HIDE DEF M, D
  <2> QED BY <2>1 DEF IsLonger
<1>3. \A o \in D : e[o].name = d[o].name
  BY DEF HasLinked
<1> HIDE DEF M, D
<1>4. ASSUME NEW k \in Names, NEW i \in Nat
      PROVE  At(e, M, k, i) <=> At(d, chain, k, i) \/ (k = n /\ i = Len(L) + 1)
  <2>1. CASE Hash[k] # h
    <3>1. Hash[k] \in Slots /\ M[Hash[k]] = chain[Hash[k]] /\ k # n
      BY <2>1, <1>1, <1>2
    <3>2. \A j \in 1 .. Len(chain[Hash[k]]) : e[chain[Hash[k]][j]].name = d[chain[Hash[k]][j]].name
      BY <3>1, <1>1, <1>3
    <3> QED BY <3>1, <3>2 DEF At
  <2>2. CASE Hash[k] = h
    <3>1. At(e, M, k, i) <=> i \in 1 .. Len(L) + 1 /\ e[M[h][i]].name = k
      BY <2>2, <1>2 DEF At
    <3>2. At(d, chain, k, i) <=> i \in 1 .. Len(L) /\ d[L[i]].name = k
      BY <2>2 DEF At
    <3>3. i \in 1 .. Len(L) => e[M[h][i]].name = d[L[i]].name
      BY <1>1, <1>2, <1>3
    <3>4. e[M[h][Len(L) + 1]].name = n
      BY <1>1, <1>2, <1>3
    <3>5. i \in 1 .. Len(L) + 1 <=> i \in 1 .. Len(L) \/ i = Len(L) + 1
      BY <1>1
    <3>6. Len(L) + 1 \notin 1 .. Len(L)
      BY <1>1
    <3> QED BY <3>1, <3>2, <3>3, <3>4, <3>5, <3>6
  <2> QED BY <2>1, <2>2
<1> QED BY <1>4 DEF M, HasName

\* A reader on its way through the chains does not lose it.
LEMMA LinkReader ==
    ASSUME NEW d, NEW chain, ChainsOK(d, chain), NEW n, NEW at, Unlinked(d, chain, at, n),
           NEW e, HasLinked(d, e, chain[Hash[n]], Hash[n], at),
           NEW r, ReaderOK(d, chain, r)
    PROVE  ReaderOK(e, Longer(chain, Hash[n], at), r)
<1> DEFINE h == Hash[n]
           L == chain[h]
           M == Longer(chain, h, at)
<1>1. CASE r = ReaderIdle
  BY <1>1 DEF ReaderOK
<1>2. CASE r # ReaderIdle
  <2>1. /\ r \in [pc : {"entry", "anchor", "root"}, name : Names, known : BOOLEAN, at : Nat]
        /\ r.name \in Names
        /\ (r.pc = "entry" => Ahead(d, chain, r)) /\ (r.pc = "anchor" => r.at \in OfKind(d, "anchor"))
        /\ (r.pc = "root" => r.at \in OfKind(d, "node"))
    BY <1>2 DEF ReaderOK
  <2>2. OfKind(e, "anchor") = OfKind(d, "anchor") /\ OfKind(e, "node") = OfKind(d, "node")
    BY DEF HasLinked
  <2>3. \A j \in Nat : At(d, chain, r.name, j) => At(e, M, r.name, j)
    <3>1. HasName(d, e, chain, M, L, n)
      BY LinkNames
    <3> HIDE DEF M, L
    <3> QED BY <3>1, <2>1 DEF HasName
  <2>4. /\ h \in Slots /\ at \in OfKind(d, "entry") /\ Len(L) \in Nat /\ Hash[r.name] \in Slots
    BY <2>1, ChainEntries DEF Unlinked
  <2>5. /\ \A x \in Slots : x # h => M[x] = chain[x]
        /\ Len(M[h]) = Len(L) + 1
        /\ \A i \in 1 .. Len(L) : M[h][i] = L[i]
    <3>1. IsLonger(M, chain, h, at, OfKind(d, "entry"))
      BY <2>4, LongerFields
    <3> HIDE DEF M
    <3> QED BY <3>1 DEF IsLonger
  <2> HIDE DEF M
  <2>6. \A i \in 1 .. Len(chain[Hash[r.name]]) :
           i \in 1 .. Len(M[Hash[r.name]]) /\ M[Hash[r.name]][i] = chain[Hash[r.name]][i]
    <3>1. CASE Hash[r.name] = h
      BY <3>1, <2>4, <2>5
    <3>2. CASE Hash[r.name] # h
      BY <3>2, <2>4, <2>5
    <3> QED BY <3>1, <3>2
  <2>7. Ahead(d, chain, r) => Ahead(e, M, r)
    BY <2>3, <2>6 DEF Ahead
  <2>8. ReaderOK(e, M, r)
    BY <2>1, <2>2, <2>7 DEF ReaderOK
  <2> QED BY <2>8 DEF M
<1> QED BY <1>1, <1>2

\* The entry that is linked is the latest.
LEMMA LinkOrder ==
    ASSUME NEW d, NEW key, NEW m, Ordered(d, key, m), NEW L, NEW h,
           NEW at \in OfKind(d, "entry"), d[at].next = 0, L # << >> => Last(L) # at,
           NEW e, HasLinked(d, e, L, h, at)
    PROVE  Ordered(e, [key EXCEPT ![at] = m + 1], m + 1)
<1> DEFINE D == OfKind(d, "entry")
           key2 == [key EXCEPT ![at] = m + 1]
<1>1. /\ m \in Nat /\ key \in [D -> 0 .. m]
      /\ \A o \in D : d[o].next # 0 => d[o].next \in D /\ key[o] < key[d[o].next]
  BY DEF Ordered
<1>2. \A o \in D : key[o] \in 0 .. m
  <2> HIDE DEF D
  <2> QED BY <1>1
<1>3. /\ key2 \in [D -> 0 .. m + 1] /\ key2[at] = m + 1
      /\ \A o \in D : o # at => key2[o] = key[o]
  <2> HIDE DEF D
  <2> QED BY <1>1 DEF D
<1>4. /\ OfKind(e, "entry") = D /\ at \in D
      /\ \A o \in D : e[o].next = IF L # << >> /\ o = Last(L) THEN at ELSE d[o].next
  BY DEF HasLinked
<1> HIDE DEF D, key2
<1>5. ASSUME NEW o \in D, e[o].next # 0
      PROVE  e[o].next \in D /\ key2[o] < key2[e[o].next]
  <2>1. o # at
    BY <1>4, <1>5
  <2>2. key2[o] = key[o] /\ key[o] \in 0 .. m
    BY <2>1, <1>2, <1>3
  <2>3. CASE e[o].next = at
    BY <2>2, <2>3, <1>1, <1>3, <1>4
  <2>4. CASE e[o].next # at
    <3>1. e[o].next = d[o].next
      BY <2>4, <1>4
    <3> QED BY <3>1, <2>2, <2>4, <1>1, <1>3, <1>5
  <2> QED BY <2>3, <2>4
<1>6. m + 1 \in Nat
  BY <1>1
<1>7. Ordered(e, key2, m + 1)
  BY <1>3, <1>4, <1>5, <1>6 DEF Ordered
<1> QED BY <1>7 DEF key2

\* The link keeps the invariant.
LEMMA LinkKeeps ==
    ASSUME NEW s, NEW A, NEW chain, NEW key, NEW m, NEW w, NEW N, NEW r,
           IndexOK(s, A, data, chain, key, m, w, N, r), w.pc = "link"
    PROVE  \E chain2, key2, m2 :
              IndexOK(s, A, LinkedAtEnd(Hash[w.name], w.at), chain2, key2, m2, WriterIdle,
                      N \cup {w.name}, r)
<1> DEFINE n == w.name
           at == w.at
           h == Hash[n]
           L == chain[h]
           e == LinkedAtEnd(h, at)
           M == Longer(chain, h, at)
<1>1. /\ ChainsOK(data, chain) /\ Ordered(data, key, m) /\ AreListed(data, chain, N)
      /\ ReaderOK(data, chain, r) /\ N \subseteq Names
      /\ WriterOK(s, A, data, chain, w, N) /\ Owned(data, s, A) /\ TreesOK(data)
  BY DEF IndexOK
<1>2. /\ w \in [pc : {"idle", "tree", "entry", "link"}, name : Names \cup {""}, id : Nat, at : Nat]
      /\ n \in Names \ N /\ at \in Nat
      /\ at \in OfKind(data, "entry") /\ data[at] = Entry(n, w.id)
      /\ \A x \in Slots : \A i \in 1 .. Len(chain[x]) : chain[x][i] # at
  BY <1>1 DEF WriterOK
<1> HIDE DEF n, at
<1>3. Unlinked(data, chain, at, n)
  <2>1. data[at].next = 0 /\ data[at].name = n
    <3>1. data[at] = Entry(n, w.id)
      BY <1>2
    <3> QED BY <3>1 DEF Entry
  <2>2. \A i \in Nat : ~At(data, chain, n, i)
    BY <1>1, <1>2 DEF AreListed
  <2> QED BY <2>1, <2>2, <1>2 DEF Unlinked
<1>4. /\ h \in Slots /\ Len(L) \in Nat
      /\ (L # << >> => Last(L) # at)
  <2>1. h \in Slots /\ L \in Seq(OfKind(data, "entry"))
    BY <1>1, <1>2, ChainEntries
  <2>2. Len(L) \in Nat /\ (L # << >> => Len(L) \in 1 .. Len(L))
    <3> HIDE DEF L
    <3> QED BY <2>1
  <2> QED BY <2>1, <2>2, <1>2 DEF Last
<1>5. HasLinked(data, e, L, h, at) /\ Owned(e, s, A)
  <2> HIDE DEF h
  <2> QED BY <1>1, <1>2, <1>4, LinkWritten
<1> HIDE DEF e
<1>6. ChainsOK(e, M) /\ ReaderOK(e, M, r)
  BY <1>1, <1>3, <1>5, LinkChains, LinkReader
<1>7. Ordered(e, [key EXCEPT ![at] = m + 1], m + 1)
  <2>1. at \in OfKind(data, "entry") /\ data[at].next = 0
    BY <1>3 DEF Unlinked
  <2> HIDE DEF L, h
  <2> QED BY <2>1, <1>1, <1>4, <1>5, LinkOrder
<1>8. AreListed(e, M, N \cup {n})
  <2>1. HasName(data, e, chain, M, L, n)
    BY <1>1, <1>3, <1>5, LinkNames
  <2>2. Len(L) + 1 \in Nat
    BY <1>4
  <2> HIDE DEF M, L
  <2>3. \A k \in Names : (\E i \in Nat : At(e, M, k, i)) <=> k = n \/ (\E i \in Nat : At(data, chain, k, i))
    BY <2>1, <2>2 DEF HasName
  <2> QED BY <2>3, <1>1 DEF AreListed
<1>9. TreesOK(e)
  <2>1. /\ \A k : OfKind(e, k) = OfKind(data, k)
        /\ \A o \in OfKind(data, "entry") : e[o].id = data[o].id
        /\ \A o \in OfKind(data, "anchor") : e[o] = data[o]
    BY <1>5 DEF HasLinked
  <2> QED BY <2>1, <1>1 DEF TreesOK
<1>10. N \cup {n} \subseteq Names
  BY <1>1, <1>2
<1>11. WriterOK(s, A, e, M, WriterIdle, N \cup {n})
  BY DEF WriterOK, WriterIdle
<1>12. IndexOK(s, A, e, M, [key EXCEPT ![at] = m + 1], m + 1, WriterIdle, N \cup {n}, r)
  <2> HIDE DEF M
  <2> QED BY <1>5, <1>6, <1>7, <1>8, <1>9, <1>10, <1>11 DEF IndexOK
<1> QED BY <1>12 DEF e, n, at

-----------------------------------------------------------------------------
(* The state in which the index is created.                                *)
LEMMA AttachedClosed ==
    ASSUME NEW s, NEW A, NEW F, FileOK(s, A, F)
    PROVE  Attached(Closed(s)) = s
<1>1. StoreOK(s, A \cup F)
  BY DEF FileOK, ListsOK
<1>2. [l \in Lists |-> s.node[HeadAt[l]]] = s.head
  BY <1>1 DEF StoreOK
<1> QED BY <1>1, <1>2 DEF StoreOK, Attached, Closed

\* Whether it is open or closed, a file has the same lists.
LEMMA StoredIs ==
    ASSUME NEW st, NEW op, NEW w, NEW s, NEW A, NEW F, IsStored(st, op, w, s, A, F)
    PROVE  Attached(st) = s
  BY AttachedClosed, AttachedIsSame DEF IsStored

\* The table is the first block of the file.
LEMMA FirstBlock ==
    LET a == Allocate(Created, TableBytes)
    IN  /\ a.at = table
        /\ IsAllocated(Created, {}, TableBytes, a)
<1> DEFINE num == Max({TableBytes, MinimumSize})
           a == Allocate(Created, TableBytes)
<1>1. TableBytes \in Nat
  BY IndexAssumption
<1>2. FileOK(Created, {}, {})
  <2>1. {TableBytes, MinimumSize, NodeSize, MaxFileSize, HeapStart} \subseteq Nat
    BY IndexAssumption, SizesAssumption, HeadsInFront
  <2>2. num \in Nat
    BY <2>1, LargerOf
  <2>3. HeapStart + NodeSize + num < MaxFileSize
    BY IndexAssumption
  <2> HIDE DEF num
  <2>4. HeapStart < MaxFileSize
    BY <2>1, <2>2, <2>3
  <2> QED BY <2>4, EmptyFile
<1>3. IsAllocated(Created, {}, TableBytes, a)
  BY <1>1, <1>2, AllocateKeeps
<1>4. Blocks(Created, "free") = << >>
  <2>1. StoreOK(Created, {}) /\ Linking(Created, Created.head["free"], {}) /\ "free" \in Lists
    BY <1>2, Places DEF FileOK, ListsOK, ListOK
  <2> QED BY <2>1, BlocksOfList
<1>5. SelectInSeq(Blocks(Created, "free"), LAMBDA q : Holds(Created, q, num)) = 0
  BY <1>4 DEF SelectInSeq
<1>6. MayGrow(Created, num)
  BY IndexAssumption DEF MayGrow, Created
<1>7. a = AppendBlock(Created, num)
  BY <1>5, <1>6 DEF Allocate
<1>8. a.at = table
  BY <1>7 DEF AppendBlock, Created, table
<1> QED BY <1>3, <1>8

\* A table without entries.
EmptyTable == [kind |-> "table", slot |-> [h \in Slots |-> 0]]

\* An index with nothing but this table.
LEMMA CreatedIndex ==
    ASSUME NEW s, NEW A, NEW d, Owned(d, s, A),
           DOMAIN d = {table}, d[table] = EmptyTable
    PROVE  IndexOK(s, A, d, [h \in Slots |-> << >>], << >>, 0, WriterIdle, {}, ReaderIdle)
<1> DEFINE chain == [h \in Slots |-> << >>]
<1>1. d[table].kind = "table" /\ \A h \in Slots : d[table].slot[h] = 0
  BY DEF EmptyTable
<1>2. \A k : OfKind(d, k) = IF k = "table" THEN {table} ELSE {}
  BY <1>1 DEF OfKind
<1>3. OfKind(d, "entry") = {} /\ OfKind(d, "anchor") = {} /\ table \in OfKind(d, "table")
  BY <1>2
<1>4. TreesOK(d)
  BY <1>3 DEF TreesOK
<1>5. chain \in [Slots -> Seq(OfKind(d, "entry"))] /\ \A h \in Slots : chain[h] = << >>
  OBVIOUS
<1>6. \A n \in Names : Hash[n] \in Slots
  BY IndexAssumption
<1> HIDE DEF chain
<1>7. ChainsOK(d, chain)
  BY <1>1, <1>3, <1>5 DEF ChainsOK
<1>8. Ordered(d, << >>, 0)
  BY <1>3 DEF Ordered
<1>9. AreListed(d, chain, {})
  <2>1. \A n \in Names : Len(chain[Hash[n]]) = 0
    BY <1>5, <1>6
  <2> QED BY <2>1 DEF AreListed, At
<1>10. WriterOK(s, A, d, chain, WriterIdle, {}) /\ ReaderOK(d, chain, ReaderIdle)
  BY DEF WriterOK, WriterIdle, ReaderOK
<1> QED BY <1>4, <1>7, <1>8, <1>9, <1>10 DEF IndexOK, chain

\* The invariant holds when open() has created the file.
LEMMA InitOK ==
    Init => IInv
<1> SUFFICES ASSUME Init PROVE IInv
  OBVIOUS
<1> DEFINE a == Allocate(Created, TableBytes)
           c == EmptyTable
           A == {HeapStart}
<1>1. /\ store = a.store /\ data = Put(<< >>, a.at, c) /\ opened = TRUE
      /\ writer = WriterIdle /\ added = {} /\ reader = ReaderIdle
  BY DEF Init, EmptyTable
<1>2. a.at = table /\ IsAllocated(Created, {}, TableBytes, a)
  BY FirstBlock
<1> HIDE DEF a
<1>3. table \in Nat /\ table # 0 /\ table - NodeSize = HeapStart /\ HeapStart + NodeSize <= table
  BY HeadsInFront, Places DEF table
<1>4. PICK F : FileOK(a.store, A, F)
  <2>1. \E F : FileOK(a.store, {} \cup {a.at - NodeSize}, F)
    BY <1>2, <1>3 DEF IsAllocated
  <2>2. {} \cup {a.at - NodeSize} = A
    BY <1>2, <1>3
  <2> QED BY <2>1, <2>2
<1>5. TableBytes <= a.store.node[table - NodeSize].bytes
  BY <1>2, <1>3 DEF IsAllocated
<1>6. c \in Contents /\ Bytes(c) = TableBytes
  <2>1. c \in [kind : {"table"}, slot : [Slots -> Nat]] /\ c.kind = "table"
    BY DEF EmptyTable
  <2> HIDE DEF c
  <2> QED BY <2>1 DEF Bytes, Contents
<1>7. DOMAIN << >> = {}
  OBVIOUS
<1> HIDE DEF c
<1>8. HasPut(<< >>, data, table, c) /\ Owned(data, a.store, A)
  <2>1. Owned(<< >>, a.store, A)
    BY <1>7 DEF Owned
  <2>2. IsVacant(a.store, A, << >>, table, Bytes(c))
    BY <1>3, <1>5, <1>6, <1>7 DEF IsVacant
  <2>3. HasPut(<< >>, Put(<< >>, table, c), table, c) /\ Owned(Put(<< >>, table, c), a.store, A)
    BY <2>1, <2>2, <1>4, <1>6, PutKeeps
  <2> QED BY <2>3, <1>1, <1>2
<1>9. DOMAIN data = {table} /\ data[table] = EmptyTable
  BY <1>7, <1>8 DEF HasPut, c
<1>10. IndexOK(a.store, A, data, [h \in Slots |-> << >>], << >>, 0, writer, added, reader)
  BY <1>1, <1>8, <1>9, CreatedIndex
<1>11. IsStored(store, opened, writer, a.store, A, F)
  BY <1>1, <1>4 DEF IsStored, WriterIdle
<1>12. IndexInv(store, data, opened, writer, added, reader)
  BY <1>10, <1>11 DEF IndexInv
<1> QED BY <1>12 DEF IInv

-----------------------------------------------------------------------------
(* The steps of the writer.                                                *)

\* What is open has its heads in memory.
LEMMA OpenStore ==
    ASSUME NEW s, NEW A, NEW F, IsStored(store, opened, writer, s, A, F),
           opened \/ writer.pc # "idle"
    PROVE  store = s /\ opened = TRUE /\ FileOK(s, A, F)
  BY DEF IsStored

\* A step that keeps the file open and leaves its store as it was or as
\* FileOK has it.
LEMMA StoredOpen ==
    ASSUME NEW st, NEW w, NEW A, NEW F, FileOK(st, A, F)
    PROVE  IsStored(st, TRUE, w, st, A, F)
  BY DEF IsStored

\* addChannel() starts.
LEMMA AddChannelKeeps ==
    ASSUME IInv, NEW n \in Names, AddChannel(n)
    PROVE  IndexInv(store', data', opened', writer', added', reader')
<1> DEFINE a == Allocate(store, AnchorBytes)
           B == a.at - NodeSize
<1>1. PICK s, A, F, chain, key, m :
           /\ IsStored(store, opened, writer, s, A, F)
           /\ IndexOK(s, A, data, chain, key, m, writer, added, reader)
  BY DEF IInv, IndexInv
<1>2. /\ opened /\ writer.pc = "idle" /\ Find(n) = 0 /\ store' = a.store
      /\ data' = data /\ opened' = opened /\ added' = added /\ reader' = reader
      /\ writer' = IF a.at = 0 THEN WriterIdle
                   ELSE [[writer EXCEPT !.name = n, !.id = a.at] EXCEPT !.pc = "tree"]
  BY DEF AddChannel, Go, Then
<1>3. store = s /\ opened = TRUE /\ FileOK(s, A, F)
  BY <1>1, <1>2, OpenStore
<1>4. IF a.at = 0 THEN a.store = s
      ELSE IsGiven(s, A, data, chain, key, m, writer, added, reader, AnchorBytes, a)
  <2>1. AnchorBytes \in Nat
    BY IndexAssumption
  <2> QED BY <2>1, <1>1, <1>3, GivenBlock
<1> HIDE DEF a
<1>5. CASE a.at = 0
  <2>1. store' = s /\ writer' = WriterIdle /\ opened' = TRUE
    BY <1>2, <1>3, <1>4, <1>5
  <2>2. IndexOK(s, A, data', chain, key, m, writer', added', reader')
    BY <2>1, <1>1, <1>2, WriterMayStop
  <2>3. IsStored(store', opened', writer', s, A, F)
    BY <2>1, <1>3, StoredOpen
  <2> QED BY <2>2, <2>3 DEF IndexInv
<1>6. CASE a.at # 0
  <2> DEFINE C == A \cup {B}
  <2>1. PICK G : FileOK(a.store, C, G)
    BY <1>4, <1>6 DEF IsGiven
  <2>2. /\ IndexOK(a.store, C, data, chain, key, m, writer, added, reader)
        /\ IsVacant(a.store, C, data, a.at, AnchorBytes)
    BY <1>4, <1>6 DEF IsGiven
  <2> HIDE DEF C
  <2>3. n \notin added
    <3>1. FoundAs(n, data, chain, added)
      BY <1>1, FindKnows DEF IndexOK
    <3>2. CASE n \in added
      <4>1. PICK i \in Nat : At(data, chain, n, i) /\ Find(n) = chain[Hash[n]][i]
        BY <3>1, <3>2 DEF FoundAs
      <4>2. Find(n) \in OfKind(data, "entry")
        BY <4>1, <1>1, ChainEntries DEF IndexOK, At
      <4>3. Find(n) \in Nat /\ HeapStart + NodeSize <= Find(n)
        BY <4>2, <1>1 DEF IndexOK, Owned, OfKind
      <4> QED BY <4>3, <1>2, HeadsInFront, Places
    <3> QED BY <3>2
  <2>4. WriterOK(a.store, C, data, chain, writer', added)
    <3>1. /\ writer \in [pc : {"idle", "tree", "entry", "link"}, name : Names \cup {""}, id : Nat, at : Nat]
      BY <1>1 DEF IndexOK, WriterOK
    <3>2. /\ a.at \in Nat /\ HeapStart + NodeSize <= a.at /\ a.at - NodeSize \in C
          /\ a.at \notin DOMAIN data /\ AnchorBytes <= a.store.node[a.at - NodeSize].bytes
      BY <2>2 DEF IsVacant
    <3>3. /\ writer' \in [pc : {"idle", "tree", "entry", "link"}, name : Names \cup {""}, id : Nat, at : Nat]
          /\ writer'.pc = "tree" /\ writer'.name = n /\ writer'.id = a.at
      BY <3>1, <3>2, <1>2, <1>6
    <3> QED BY <2>3, <3>2, <3>3 DEF WriterOK
  <2>5. IndexOK(a.store, C, data', chain, key, m, writer', added', reader')
    BY <2>2, <2>4, <1>2 DEF IndexOK
  <2>6. IsStored(store', opened', writer', a.store, C, G)
    BY <2>1, <1>2, <1>3, StoredOpen
  <2> QED BY <2>5, <2>6 DEF IndexInv
<1> QED BY <1>5, <1>6

\* The tree is initialised.
LEMMA InitTreeKeeps ==
    ASSUME IInv, InitTree
    PROVE  IndexInv(store', data', opened', writer', added', reader')
<1> DEFINE a == Allocate(store, RootBytes)
           B == a.at - NodeSize
<1>1. PICK s, A, F, chain, key, m :
           /\ IsStored(store, opened, writer, s, A, F)
           /\ IndexOK(s, A, data, chain, key, m, writer, added, reader)
  BY DEF IInv, IndexInv
<1>2. /\ writer.pc = "tree" /\ store' = a.store
      /\ data' = IF a.at = 0 THEN data
                 ELSE Put(Put(data, a.at, Node), writer.id, Anchor(a.at))
      /\ opened' = opened /\ added' = added /\ reader' = reader
      /\ writer' = IF a.at = 0 THEN WriterIdle ELSE [writer EXCEPT !.pc = "entry"]
  BY DEF InitTree, Go, Then
<1>3. store = s /\ opened = TRUE /\ FileOK(s, A, F)
  BY <1>1, <1>2, OpenStore
<1>4. IF a.at = 0 THEN a.store = s
      ELSE IsGiven(s, A, data, chain, key, m, writer, added, reader, RootBytes, a)
  <2>1. RootBytes \in Nat
    BY IndexAssumption
  <2> QED BY <2>1, <1>1, <1>3, GivenBlock
<1> HIDE DEF a
<1>5. CASE a.at = 0
  <2>1. store' = s /\ writer' = WriterIdle /\ data' = data
    BY <1>2, <1>4, <1>5
  <2>2. IndexOK(s, A, data', chain, key, m, writer', added', reader')
    BY <2>1, <1>1, <1>2, WriterMayStop
  <2>3. IsStored(store', opened', writer', s, A, F)
    BY <2>1, <1>2, <1>3, StoredOpen
  <2> QED BY <2>2, <2>3 DEF IndexInv
<1>6. CASE a.at # 0
  <2> DEFINE C == A \cup {B}
             e == Put(data, a.at, Node)
  <2>1. PICK G : FileOK(a.store, C, G)
    BY <1>4, <1>6 DEF IsGiven
  <2>2. /\ IndexOK(a.store, C, data, chain, key, m, writer, added, reader)
        /\ IsVacant(a.store, C, data, a.at, RootBytes) /\ writer.id # a.at
    BY <1>2, <1>4, <1>6 DEF IsGiven
  <2>3. Node \in Contents /\ Bytes(Node) = RootBytes /\ Node.kind = "node"
    BY DEF Node, Contents, Bytes
  <2> HIDE DEF C
  <2>4. HasPut(data, e, a.at, Node) /\ Owned(e, a.store, C)
    BY <2>1, <2>2, <2>3, PutKeeps DEF IndexOK
  <2> HIDE DEF e
  <2>5. IndexOK(a.store, C, e, chain, key, m, writer, added, reader)
    BY <2>2, <2>3, <2>4, BesidePut
  <2>6. a.at \in OfKind(e, "node")
    BY <2>3, <2>4 DEF HasPut, OfKind
  <2>7. IndexOK(a.store, C, Put(e, writer.id, Anchor(a.at)), chain, key, m,
                [writer EXCEPT !.pc = "entry"], added, reader)
    BY <2>1, <2>5, <2>6, <1>2, AnchorPut
  <2>8. IndexOK(a.store, C, data', chain, key, m, writer', added', reader')
    BY <2>7, <1>2, <1>6 DEF e
  <2>9. IsStored(store', opened', writer', a.store, C, G)
    BY <2>1, <1>2, <1>3, StoredOpen
  <2> QED BY <2>8, <2>9 DEF IndexInv
<1> QED BY <1>5, <1>6

\* The entry is written.
LEMMA WriteEntryKeeps ==
    ASSUME IInv, WriteEntry
    PROVE  IndexInv(store', data', opened', writer', added', reader')
<1> DEFINE wanted == EntryBytes[writer.name]
           a == Allocate(store, wanted)
           B == a.at - NodeSize
<1>1. PICK s, A, F, chain, key, m :
           /\ IsStored(store, opened, writer, s, A, F)
           /\ IndexOK(s, A, data, chain, key, m, writer, added, reader)
  BY DEF IInv, IndexInv
<1>2. /\ writer.pc = "entry" /\ store' = a.store
      /\ data' = IF a.at = 0 THEN data
                 ELSE Put(data, a.at, Entry(writer.name, writer.id))
      /\ opened' = opened /\ added' = added /\ reader' = reader
      /\ writer' = IF a.at = 0 THEN WriterIdle
                   ELSE [[writer EXCEPT !.at = a.at] EXCEPT !.pc = "link"]
  BY DEF WriteEntry, Go, Then
<1>3. store = s /\ opened = TRUE /\ FileOK(s, A, F)
  BY <1>1, <1>2, OpenStore
<1>4. wanted \in Nat
  <2>1. writer.name \in Names
    BY <1>1, <1>2 DEF IndexOK, WriterOK
  <2> QED BY <2>1, IndexAssumption
<1> HIDE DEF wanted
<1>5. IF a.at = 0 THEN a.store = s
      ELSE IsGiven(s, A, data, chain, key, m, writer, added, reader, wanted, a)
  BY <1>1, <1>3, <1>4, GivenBlock
<1> HIDE DEF a
<1>6. CASE a.at = 0
  <2>1. store' = s /\ writer' = WriterIdle /\ data' = data
    BY <1>2, <1>5, <1>6
  <2>2. IndexOK(s, A, data', chain, key, m, writer', added', reader')
    BY <2>1, <1>1, <1>2, WriterMayStop
  <2>3. IsStored(store', opened', writer', s, A, F)
    BY <2>1, <1>2, <1>3, StoredOpen
  <2> QED BY <2>2, <2>3 DEF IndexInv
<1>7. CASE a.at # 0
  <2> DEFINE C == A \cup {B}
  <2>1. PICK G : FileOK(a.store, C, G)
    BY <1>5, <1>7 DEF IsGiven
  <2>2. /\ IndexOK(a.store, C, data, chain, key, m, writer, added, reader)
        /\ IsVacant(a.store, C, data, a.at, wanted)
    BY <1>5, <1>7 DEF IsGiven
  <2> HIDE DEF C
  <2>3. PICK key2 : IndexOK(a.store, C, Put(data, a.at, Entry(writer.name, writer.id)), chain, key2, m,
                            [writer EXCEPT !.at = a.at, !.pc = "link"], added, reader)
    BY <2>1, <2>2, <1>2, EntryPut DEF wanted
  <2>4. writer' = [writer EXCEPT !.at = a.at, !.pc = "link"]
    <3>1. writer \in [pc : {"idle", "tree", "entry", "link"}, name : Names \cup {""}, id : Nat, at : Nat]
      BY <1>1 DEF IndexOK, WriterOK
    <3> QED BY <3>1, <1>2, <1>7
  <2>5. IndexOK(a.store, C, data', chain, key2, m, writer', added', reader')
    BY <2>3, <2>4, <1>2, <1>7
  <2>6. IsStored(store', opened', writer', a.store, C, G)
    BY <2>1, <1>2, <1>3, StoredOpen
  <2> QED BY <2>5, <2>6 DEF IndexInv
<1> QED BY <1>6, <1>7

\* The entry is linked.
LEMMA LinkActionKeeps ==
    ASSUME IInv, Link
    PROVE  IndexInv(store', data', opened', writer', added', reader')
<1>1. PICK s, A, F, chain, key, m :
           /\ IsStored(store, opened, writer, s, A, F)
           /\ IndexOK(s, A, data, chain, key, m, writer, added, reader)
  BY DEF IInv, IndexInv
<1>2. /\ writer.pc = "link" /\ data' = LinkedAtEnd(Hash[writer.name], writer.at)
      /\ added' = added \cup {writer.name} /\ writer' = WriterIdle
      /\ store' = store /\ opened' = opened /\ reader' = reader
  BY DEF Link, Go, Then
<1>3. store = s /\ opened = TRUE /\ FileOK(s, A, F)
  BY <1>1, <1>2, OpenStore
<1>4. PICK chain2, key2, m2 :
           IndexOK(s, A, LinkedAtEnd(Hash[writer.name], writer.at), chain2, key2, m2, WriterIdle,
                   added \cup {writer.name}, reader)
  BY <1>1, <1>2, LinkKeeps
<1>5. IndexOK(s, A, data', chain2, key2, m2, writer', added', reader')
  BY <1>2, <1>4
<1>6. IsStored(store', opened', writer', s, A, F)
  BY <1>2, <1>3, StoredOpen
<1> QED BY <1>5, <1>6 DEF IndexInv

-----------------------------------------------------------------------------
(* The blocks of the trees.                                                *)
LEMMA TreeGrowsKeeps ==
    ASSUME IInv, NEW b \in TreeBytes, TreeGrows(b)
    PROVE  IndexInv(store', data', opened', writer', added', reader')
<1> DEFINE a == Allocate(store, b)
           B == a.at - NodeSize
           c == [kind |-> "block", bytes |-> b]
<1>1. PICK s, A, F, chain, key, m :
           /\ IsStored(store, opened, writer, s, A, F)
           /\ IndexOK(s, A, data, chain, key, m, writer, added, reader)
  BY DEF IInv, IndexInv
<1>2. /\ opened /\ writer.pc = "idle" /\ store' = a.store
      /\ data' = IF a.at = 0 THEN data ELSE Put(data, a.at, c)
      /\ opened' = opened /\ added' = added /\ reader' = reader /\ writer' = writer
  BY DEF TreeGrows
<1>3. store = s /\ opened = TRUE /\ FileOK(s, A, F)
  BY <1>1, <1>2, OpenStore
<1>4. IF a.at = 0 THEN a.store = s
      ELSE IsGiven(s, A, data, chain, key, m, writer, added, reader, b, a)
  <2>1. b \in Nat
    BY IndexAssumption
  <2> QED BY <2>1, <1>1, <1>3, GivenBlock
<1>5. c \in Contents /\ c.kind = "block" /\ Bytes(c) = b
  BY DEF Contents, Bytes
<1> HIDE DEF a, c
<1>6. CASE a.at = 0
  <2>1. store' = s /\ data' = data /\ opened' = TRUE
    BY <1>2, <1>3, <1>4, <1>6
  <2>2. IndexOK(s, A, data', chain, key, m, writer', added', reader')
    BY <2>1, <1>1, <1>2
  <2>3. IsStored(store', opened', writer', s, A, F)
    BY <2>1, <1>3, StoredOpen
  <2> QED BY <2>2, <2>3 DEF IndexInv
<1>7. CASE a.at # 0
  <2> DEFINE C == A \cup {B}
             e == Put(data, a.at, c)
  <2>1. PICK G : FileOK(a.store, C, G)
    BY <1>4, <1>7 DEF IsGiven
  <2>2. /\ IndexOK(a.store, C, data, chain, key, m, writer, added, reader)
        /\ IsVacant(a.store, C, data, a.at, b)
    BY <1>4, <1>7 DEF IsGiven
  <2> HIDE DEF C
  <2>3. HasPut(data, e, a.at, c) /\ Owned(e, a.store, C)
    BY <2>1, <2>2, <1>5, PutKeeps DEF IndexOK
  <2>4. IndexOK(a.store, C, e, chain, key, m, writer, added, reader)
    <3> HIDE DEF e
    <3> QED BY <2>2, <2>3, <1>2, <1>5, BesidePut
  <2>5. IndexOK(a.store, C, data', chain, key, m, writer', added', reader')
    BY <2>4, <1>2, <1>7
  <2>6. IsStored(store', opened', writer', a.store, C, G)
    BY <2>1, <1>2, <1>3, StoredOpen
  <2> QED BY <2>5, <2>6 DEF IndexInv
<1> QED BY <1>6, <1>7

\* The index without one of a tree's blocks.
LEMMA BesideTaken ==
    ASSUME NEW s, NEW A, NEW d, NEW chain, NEW key, NEW m, NEW w, NEW N, NEW r,
           IndexOK(s, A, d, chain, key, m, w, N, r), w.pc = "idle",
           NEW at \in DOMAIN d, d[at].kind = "block",
           NEW q, SameBytes(s, q, A \ {at - NodeSize})
    PROVE  IndexOK(q, A \ {at - NodeSize}, [o \in DOMAIN d \ {at} |-> d[o]],
                   chain, key, m, w, N, r)
<1> DEFINE e == [o \in DOMAIN d \ {at} |-> d[o]]
           B == A \ {at - NodeSize}
<1>1. DOMAIN e = DOMAIN d \ {at} /\ \A o \in DOMAIN e : e[o] = d[o]
  OBVIOUS
<1> HIDE DEF e
<1>2. /\ \A k : k # "block" => OfKind(e, k) = OfKind(d, k)
      /\ \A k : \A o \in OfKind(e, k) : e[o] = d[o]
  BY <1>1 DEF OfKind
<1>3. Keeps(d, e) /\ OfKind(e, "entry") = OfKind(d, "entry")
  BY <1>2 DEF Keeps
<1>4. /\ ChainsOK(d, chain) /\ Ordered(d, key, m) /\ AreListed(d, chain, N) /\ ReaderOK(d, chain, r)
      /\ N \subseteq Names /\ WriterOK(s, A, d, chain, w, N) /\ Owned(d, s, A) /\ TreesOK(d)
  BY DEF IndexOK
<1>5. ChainsOK(e, chain) /\ Ordered(e, key, m) /\ AreListed(e, chain, N) /\ ReaderOK(e, chain, r)
  BY <1>3, <1>4, KeepsChains, KeepsOrder, KeepsListed, KeepsReader
<1>6. TreesOK(e)
  BY <1>2, <1>4 DEF TreesOK
<1>7. Owned(e, q, B)
  <2>1. ASSUME NEW x \in DOMAIN e
        PROVE  /\ e[x] \in Contents /\ x \in Nat /\ HeapStart + NodeSize <= x
               /\ x - NodeSize \in B
               /\ Bytes(e[x]) <= q.node[x - NodeSize].bytes
    <3>1. /\ e[x] = d[x] /\ x \in DOMAIN d /\ x # at
      BY <1>1
    <3>2. /\ d[x] \in Contents /\ x \in Nat /\ HeapStart + NodeSize <= x
          /\ x - NodeSize \in A /\ Bytes(d[x]) <= s.node[x - NodeSize].bytes /\ at \in Nat
      BY <3>1, <1>4 DEF Owned
    <3>3. x - NodeSize \in B
      BY <3>1, <3>2, Places
    <3>4. q.node[x - NodeSize].bytes = s.node[x - NodeSize].bytes
      BY <3>3 DEF SameBytes
    <3> QED BY <3>1, <3>2, <3>3, <3>4
  <2> HIDE DEF B
  <2> QED BY <2>1 DEF Owned
<1>8. WriterOK(q, B, e, chain, w, N)
  BY <1>4 DEF WriterOK
<1> QED BY <1>4, <1>5, <1>6, <1>7, <1>8 DEF IndexOK, e

\* A tree gives a block back.
LEMMA TreeShrinksKeeps ==
    ASSUME IInv, NEW at \in DOMAIN data, TreeShrinks(at)
    PROVE  IndexInv(store', data', opened', writer', added', reader')
<1> DEFINE e == [o \in DOMAIN data \ {at} |-> data[o]]
           o == at - NodeSize
<1>1. PICK s, A, F, chain, key, m :
           /\ IsStored(store, opened, writer, s, A, F)
           /\ IndexOK(s, A, data, chain, key, m, writer, added, reader)
  BY DEF IInv, IndexInv
<1>2. /\ opened /\ writer.pc = "idle" /\ data[at].kind = "block"
      /\ store' = Free(store, at) /\ data' = e
      /\ opened' = opened /\ added' = added /\ reader' = reader /\ writer' = writer
  BY DEF TreeShrinks
<1>3. store = s /\ opened = TRUE /\ FileOK(s, A, F)
  BY <1>1, <1>2, OpenStore
<1>4. at \in Nat /\ o \in A
  BY <1>1 DEF IndexOK, Owned
<1>5. IsFreed(s, store', A, o)
  BY <1>2, <1>3, <1>4, FreeKeeps
<1>6. SameBytes(s, store', A \ {o})
  BY <1>5 DEF IsFreed
<1>7. PICK G : FileOK(store', A \ {o}, G)
  BY <1>5 DEF IsFreed
<1>8. IndexOK(store', A \ {o}, e, chain, key, m, writer, added, reader)
  BY <1>1, <1>2, <1>6, BesideTaken
<1> HIDE DEF e, o
<1>9. IndexOK(store', A \ {o}, data', chain, key, m, writer', added', reader')
  BY <1>2, <1>8
<1>10. IsStored(store', opened', writer', store', A \ {o}, G)
  BY <1>2, <1>3, <1>7, StoredOpen
<1> QED BY <1>9, <1>10 DEF IndexInv

-----------------------------------------------------------------------------
(* Closing and opening.                                                    *)
LEMMA CloseKeeps ==
    ASSUME IInv, Close
    PROVE  IndexInv(store', data', opened', writer', added', reader')
<1>1. PICK s, A, F, chain, key, m :
           /\ IsStored(store, opened, writer, s, A, F)
           /\ IndexOK(s, A, data, chain, key, m, writer, added, reader)
  BY DEF IInv, IndexInv
<1>2. /\ opened /\ writer.pc = "idle" /\ opened' = FALSE
      /\ store' = Closed(store)
      /\ data' = data /\ added' = added /\ reader' = reader /\ writer' = writer
  BY DEF Close, Closed
<1>3. store = s /\ FileOK(s, A, F)
  BY <1>1, <1>2, OpenStore
<1>4. IsStored(store', opened', writer', s, A, F)
  BY <1>2, <1>3 DEF IsStored
<1>5. IndexOK(s, A, data', chain, key, m, writer', added', reader')
  BY <1>1, <1>2
<1> QED BY <1>4, <1>5 DEF IndexInv

\* open() reads them.
LEMMA OpenKeeps ==
    ASSUME IInv, Open
    PROVE  IndexInv(store', data', opened', writer', added', reader')
<1>1. PICK s, A, F, chain, key, m :
           /\ IsStored(store, opened, writer, s, A, F)
           /\ IndexOK(s, A, data, chain, key, m, writer, added, reader)
  BY DEF IInv, IndexInv
<1>2. /\ opened' = TRUE /\ store' = Attached(store)
      /\ data' = data /\ added' = added /\ reader' = reader /\ writer' = writer
  BY DEF Open
<1>3. store' = s /\ FileOK(s, A, F)
  BY <1>1, <1>2, StoredIs DEF IsStored
<1>4. IsStored(store', opened', writer', s, A, F)
  BY <1>2, <1>3, StoredOpen
<1>5. IndexOK(s, A, data', chain, key, m, writer', added', reader')
  BY <1>1, <1>2
<1> QED BY <1>4, <1>5 DEF IndexInv

-----------------------------------------------------------------------------
(* The steps of the reader.                                                *)
LEMMA ReaderStep ==
    ASSUME NEW s, NEW A, NEW F, NEW chain, NEW key, NEW m,
           IsStored(store, opened, writer, s, A, F),
           IndexOK(s, A, data, chain, key, m, writer, added, reader),
           UNCHANGED <<store, data, opened, writer, added>>,
           ReaderOK(data, chain, reader')
    PROVE  IndexInv(store', data', opened', writer', added', reader')
<1>1. IsStored(store', opened', writer', s, A, F)
  <2>1. store' = store /\ opened' = opened /\ writer' = writer
    OBVIOUS
  <2> QED BY <2>1
<1>2. IndexOK(s, A, data', chain, key, m, writer', added', reader')
  BY DEF IndexOK
<1> QED BY <1>1, <1>2 DEF IndexInv

\* A search starts at the slot.
LEMMA SearchKeeps ==
    ASSUME IInv, NEW n \in Names, Search(n)
    PROVE  IndexInv(store', data', opened', writer', added', reader')
<1>1. PICK s, A, F, chain, key, m :
           /\ IsStored(store, opened, writer, s, A, F)
           /\ IndexOK(s, A, data, chain, key, m, writer, added, reader)
  BY DEF IInv, IndexInv
<1> DEFINE known == n \in added
           r == [pc |-> "entry", name |-> n, known |-> known,
                 at |-> data[table].slot[Hash[n]]]
           L == chain[Hash[n]]
<1>2. reader' = r /\ UNCHANGED <<store, data, opened, writer, added>>
  BY DEF Search
<1>3. /\ Owned(data, s, A) /\ ChainsOK(data, chain) /\ AreListed(data, chain, added)
      /\ Hash[n] \in Slots /\ L \in Seq(OfKind(data, "entry")) /\ Len(L) \in Nat
  BY <1>1, ChainEntries DEF IndexOK
<1>4. data[table].slot[Hash[n]] = IF L = << >> THEN 0 ELSE L[1]
  BY <1>3 DEF ChainsOK
<1>5. r.at \in Nat
  <2>1. table \in DOMAIN data /\ data[table].kind = "table" /\ data[table] \in Contents
    BY <1>3 DEF ChainsOK, OfKind, Owned
  <2> QED BY <2>1, <1>3, ContentFields
<1>6. /\ r \in [pc : {"entry", "anchor", "root"}, name : Names, known : BOOLEAN, at : Nat]
      /\ r.pc = "entry" /\ r.name = n /\ (r.known <=> n \in added)
      /\ r.at = IF L = << >> THEN 0 ELSE L[1]
  <2>1. known \in BOOLEAN /\ (known <=> n \in added)
    OBVIOUS
  <2> HIDE DEF known
  <2>2. r.known = known /\ r.pc = "entry" /\ r.name = n
    OBVIOUS
  <2>3. r \in [pc : {"entry", "anchor", "root"}, name : Names, known : BOOLEAN, at : Nat]
    BY <2>1, <1>5
  <2>4. r.known <=> n \in added
    BY <2>1, <2>2, Zenon
  <2> QED BY <2>2, <2>3, <2>4, <1>4
<1>7. n \in added => \E j \in Nat : At(data, chain, n, j)
  BY <1>3 DEF AreListed
<1> HIDE DEF r
<1>8. Ahead(data, chain, r)
  <2>1. CASE L = << >>
    <3>1. \A j \in Nat : ~At(data, chain, n, j)
      BY <2>1 DEF At
    <3> QED BY <2>1, <3>1, <1>6, <1>7 DEF Ahead
  <2>2. CASE L # << >>
    <3>1. 1 \in 1 .. Len(L)
      BY <2>2, <1>3
    <3>2. \A j \in Nat : At(data, chain, n, j) => 1 <= j
      BY DEF At
    <3> QED BY <2>2, <3>1, <3>2, <1>6, <1>7 DEF Ahead
  <2> QED BY <2>1, <2>2
<1>9. ReaderOK(data, chain, reader')
  BY <1>2, <1>6, <1>8 DEF ReaderOK
<1> QED BY <1>1, <1>2, <1>9, ReaderStep

\* It goes on to the next entry or to the anchor.
LEMMA ReadEntryKeeps ==
    ASSUME IInv, ReadEntry
    PROVE  IndexInv(store', data', opened', writer', added', reader')
<1>1. PICK s, A, F, chain, key, m :
           /\ IsStored(store, opened, writer, s, A, F)
           /\ IndexOK(s, A, data, chain, key, m, writer, added, reader)
  BY DEF IInv, IndexInv
<1> DEFINE e == data[reader.at]
           L == chain[Hash[reader.name]]
<1>2. /\ reader.pc = "entry" /\ reader.at # 0
      /\ reader' = IF e.name = reader.name
                   THEN [reader EXCEPT !.pc = "anchor", !.at = e.id]
                   ELSE [reader EXCEPT !.at = e.next]
      /\ UNCHANGED <<store, data, opened, writer, added>>
  BY DEF ReadEntry
<1>3. /\ Owned(data, s, A) /\ ChainsOK(data, chain) /\ TreesOK(data) /\ ReaderOK(data, chain, reader)
  BY <1>1 DEF IndexOK
<1>4. /\ reader \in [pc : {"entry", "anchor", "root"}, name : Names, known : BOOLEAN, at : Nat]
      /\ Ahead(data, chain, reader)
  BY <1>2, <1>3 DEF ReaderOK, ReaderIdle
<1>5. /\ Hash[reader.name] \in Slots /\ L \in Seq(OfKind(data, "entry")) /\ Len(L) \in Nat
      /\ \A i \in 1 .. Len(L) : L[i] \in OfKind(data, "entry")
  BY <1>3, <1>4, ChainEntries
<1>6. PICK i \in 1 .. Len(L) :
         /\ reader.at = L[i]
         /\ reader.known => \E j \in Nat : i <= j /\ At(data, chain, reader.name, j)
  BY <1>2, <1>4 DEF Ahead
<1>7. reader.at \in OfKind(data, "entry")
  BY <1>5, <1>6
<1>8. e \in [kind : {"entry"}, name : Names, id : Nat, next : Nat]
  <2>1. e \in Contents /\ e.kind = "entry"
    BY <1>3, <1>7 DEF Owned, OfKind
  <2> QED BY <2>1, ContentFields
<1>9. CASE e.name = reader.name
  <2>1. e.id \in OfKind(data, "anchor")
    BY <1>3, <1>7 DEF TreesOK
  <2>2. /\ reader' \in [pc : {"entry", "anchor", "root"}, name : Names, known : BOOLEAN, at : Nat]
        /\ reader'.pc = "anchor" /\ reader'.at = e.id
    BY <1>2, <1>4, <1>8, <1>9
  <2>3. ReaderOK(data, chain, reader')
    BY <2>1, <2>2 DEF ReaderOK
  <2> QED BY <1>1, <1>2, <2>3, ReaderStep
<1>10. CASE e.name # reader.name
  <2>1. /\ reader' \in [pc : {"entry", "anchor", "root"}, name : Names, known : BOOLEAN, at : Nat]
        /\ reader'.pc = "entry" /\ reader'.at = e.next
        /\ reader'.name = reader.name /\ reader'.known = reader.known
    BY <1>2, <1>4, <1>8, <1>10
  <2>2. e.next = IF i = Len(L) THEN 0 ELSE L[i + 1]
    BY <1>3, <1>5, <1>6 DEF ChainsOK
  <2>3. ~At(data, chain, reader.name, i)
    BY <1>6, <1>10 DEF At
  <2>4. \A j \in Nat : At(data, chain, reader.name, j) => j <= Len(L)
    BY DEF At
  <2>5. Ahead(data, chain, reader')
    <3>1. CASE i = Len(L)
      <4>1. ~reader.known
        <5>1. ASSUME NEW j \in Nat, i <= j, At(data, chain, reader.name, j) PROVE FALSE
          <6>1. j <= Len(L) /\ j = i
            BY <5>1, <2>4, <3>1, <1>5
          <6> QED BY <6>1, <5>1, <2>3
        <5> QED BY <5>1, <1>6
      <4> QED BY <4>1, <3>1, <2>1, <2>2 DEF Ahead
    <3>2. CASE i # Len(L)
      <4>1. i + 1 \in 1 .. Len(L)
        BY <3>2, <1>5
      <4>2. reader.known => \E j \in Nat : i + 1 <= j /\ At(data, chain, reader.name, j)
        <5>1. ASSUME reader.known
              PROVE  \E j \in Nat : i + 1 <= j /\ At(data, chain, reader.name, j)
          <6>1. PICK j \in Nat : i <= j /\ At(data, chain, reader.name, j)
            BY <5>1, <1>6
          <6>2. j # i
            BY <6>1, <2>3
          <6> QED BY <6>1, <6>2
        <5> QED BY <5>1
      <4> HIDE DEF e
      <4> QED BY <4>1, <4>2, <3>2, <2>1, <2>2 DEF Ahead
    <3> QED BY <3>1, <3>2
  <2>6. ReaderOK(data, chain, reader')
    BY <2>1, <2>5 DEF ReaderOK
  <2> QED BY <1>1, <1>2, <2>6, ReaderStep
<1> QED BY <1>9, <1>10

\* The anchor leads to the root.
LEMMA ReadAnchorKeeps ==
    ASSUME IInv, ReadAnchor
    PROVE  IndexInv(store', data', opened', writer', added', reader')
<1>1. PICK s, A, F, chain, key, m :
           /\ IsStored(store, opened, writer, s, A, F)
           /\ IndexOK(s, A, data, chain, key, m, writer, added, reader)
  BY DEF IInv, IndexInv
<1>2. /\ reader.pc = "anchor"
      /\ reader' = [reader EXCEPT !.pc = "root", !.at = data[reader.at].root]
      /\ UNCHANGED <<store, data, opened, writer, added>>
  BY DEF ReadAnchor
<1>3. Owned(data, s, A) /\ TreesOK(data) /\ ReaderOK(data, chain, reader)
  BY <1>1 DEF IndexOK
<1>4. /\ reader \in [pc : {"entry", "anchor", "root"}, name : Names, known : BOOLEAN, at : Nat]
      /\ reader.at \in OfKind(data, "anchor")
  BY <1>2, <1>3 DEF ReaderOK, ReaderIdle
<1>5. data[reader.at].root \in OfKind(data, "node")
  BY <1>3, <1>4 DEF TreesOK
<1>6. data[reader.at].root \in Nat
  BY <1>3, <1>5 DEF Owned, OfKind
<1>7. /\ reader' \in [pc : {"entry", "anchor", "root"}, name : Names, known : BOOLEAN, at : Nat]
      /\ reader'.pc = "root" /\ reader'.at = data[reader.at].root
  BY <1>2, <1>4, <1>6
<1>8. ReaderOK(data, chain, reader')
  BY <1>5, <1>7 DEF ReaderOK
<1> QED BY <1>1, <1>2, <1>8, ReaderStep

\* The search is over.
LEMMA SearchEndsKeeps ==
    ASSUME IInv, SearchEnds
    PROVE  IndexInv(store', data', opened', writer', added', reader')
<1>1. PICK s, A, F, chain, key, m :
           /\ IsStored(store, opened, writer, s, A, F)
           /\ IndexOK(s, A, data, chain, key, m, writer, added, reader)
  BY DEF IInv, IndexInv
<1>2. reader' = ReaderIdle /\ UNCHANGED <<store, data, opened, writer, added>>
  BY DEF SearchEnds
<1>3. ReaderOK(data, chain, reader')
  BY <1>2 DEF ReaderOK
<1> QED BY <1>1, <1>2, <1>3, ReaderStep

-----------------------------------------------------------------------------
(* The invariant holds, and what follows from it.                          *)
LEMMA StepKeeps ==
    IInv /\ [Next]_vars => IInv'
<1> SUFFICES ASSUME IInv, [Next]_vars
             PROVE  IndexInv(store', data', opened', writer', added', reader')
  BY DEF IInv
<1>1. ASSUME NEW n \in Names, AddChannel(n)
      PROVE  IndexInv(store', data', opened', writer', added', reader')
  BY <1>1, AddChannelKeeps
<1>2. ASSUME NEW n \in Names, Search(n)
      PROVE  IndexInv(store', data', opened', writer', added', reader')
  BY <1>2, SearchKeeps
<1>3. CASE InitTree
  BY <1>3, InitTreeKeeps
<1>4. CASE WriteEntry
  BY <1>4, WriteEntryKeeps
<1>5. CASE Link
  BY <1>5, LinkActionKeeps
<1>6. ASSUME NEW b \in TreeBytes, TreeGrows(b)
      PROVE  IndexInv(store', data', opened', writer', added', reader')
  BY <1>6, TreeGrowsKeeps
<1>7. ASSUME NEW at \in DOMAIN data, TreeShrinks(at)
      PROVE  IndexInv(store', data', opened', writer', added', reader')
  BY <1>7, TreeShrinksKeeps
<1>8. CASE Close
  BY <1>8, CloseKeeps
<1>9. CASE Open
  BY <1>9, OpenKeeps
<1>10. CASE ReadEntry
  BY <1>10, ReadEntryKeeps
<1>11. CASE ReadAnchor
  BY <1>11, ReadAnchorKeeps
<1>12. CASE SearchEnds
  BY <1>12, SearchEndsKeeps
<1>13. CASE UNCHANGED vars
  BY <1>13 DEF vars, IInv
<1> QED
  BY <1>1, <1>2, <1>3, <1>4, <1>5, <1>6, <1>7, <1>8, <1>9, <1>10, <1>11, <1>12, <1>13
  DEF Next

\* For every set of names, every hash function and all sizes, the invariant
\* holds in every state of the writer and of the reading program.
THEOREM IInvHolds == Spec => []IInv
  BY InitOK, StepKeeps, PTL DEF Spec

-----------------------------------------------------------------------------
\* What there is of the file, and the file itself.
LEMMA AttachedFile ==
    ASSUME NEW s, NEW A, NEW F, IsStored(store, opened, writer, s, A, F)
    PROVE  /\ Attached(store) = s /\ FileOK(s, A, F)
           /\ store.size = s.size /\ store.node = s.node
           /\ \A l \in Lists : store.head[l] = IF opened THEN s.head[l] ELSE EmptyNode
           /\ opened => store.head = s.head
<1>1. Attached(store) = s /\ FileOK(s, A, F)
  BY StoredIs DEF IsStored
<1>2. StoreOK(s, A \cup F)
  BY <1>1 DEF FileOK, ListsOK
<1>3. opened \in BOOLEAN /\ store = IF opened THEN s ELSE Closed(s)
  BY DEF IsStored
<1>4. /\ Closed(s).size = s.size /\ Closed(s).node = s.node
      /\ \A l \in Lists : Closed(s).head[l] = EmptyNode
  BY <1>2 DEF Closed, StoreOK
<1> QED BY <1>1, <1>3, <1>4

\* The invariant gives the types.
LEMMA IInvTyped ==
    IInv => TypeOK
<1> SUFFICES ASSUME IInv PROVE TypeOK
  OBVIOUS
<1>1. PICK s, A, F, chain, key, m :
           /\ IsStored(store, opened, writer, s, A, F)
           /\ IndexOK(s, A, data, chain, key, m, writer, added, reader)
  BY DEF IInv, IndexInv
<1>2. /\ FileOK(s, A, F) /\ store.size = s.size /\ store.node = s.node
      /\ \A l \in Lists : store.head[l] = IF opened THEN s.head[l] ELSE EmptyNode
  BY <1>1, AttachedFile
<1>3. /\ store.size \in HeapStart .. MaxFileSize - 1
      /\ DOMAIN store.node \subseteq Reserved .. store.size
      /\ \A o \in DOMAIN store.node :
            /\ store.node[o].bytes \in 0 .. store.size
            /\ {store.node[o].prev, store.node[o].next} \subseteq {0} \cup DOMAIN store.node
      /\ \A l \in Lists : DOMAIN s.head[l] = {"bytes", "prev", "next"}
  BY <1>2, FileHasTypes
<1>4. DOMAIN EmptyNode = {"bytes", "prev", "next"}
  BY DEF EmptyNode
<1>5. \A l \in Lists : DOMAIN store.head[l] = {"bytes", "prev", "next"}
  BY <1>2, <1>3, <1>4
<1>6. \A o \in DOMAIN data : data[o].kind \in {"table", "entry", "anchor", "node", "block"}
  BY <1>1, ContentBytes DEF IndexOK, Owned
<1>7. opened \in BOOLEAN /\ added \subseteq Names
  BY <1>1 DEF IndexOK, IsStored
<1>8. writer.pc \in {"idle", "tree", "entry", "link"}
  <2>1. writer \in [pc : {"idle", "tree", "entry", "link"}, name : Names \cup {""},
                    id : Nat, at : Nat]
    BY <1>1 DEF IndexOK, WriterOK
  <2> QED BY <2>1
<1>9. reader.pc \in {"idle", "entry", "anchor", "root"}
  <2>1. ReaderOK(data, chain, reader)
    BY <1>1 DEF IndexOK
  <2>2. CASE reader = ReaderIdle
    BY <2>2 DEF ReaderIdle
  <2>3. CASE reader # ReaderIdle
    <3>1. reader \in [pc : {"entry", "anchor", "root"}, name : Names, known : BOOLEAN, at : Nat]
      BY <2>1, <2>3 DEF ReaderOK
    <3> QED BY <3>1
  <2> QED BY <2>2, <2>3
<1> QED BY <1>3, <1>5, <1>6, <1>7, <1>8, <1>9 DEF TypeOK

\* Every variable keeps its type: no offset and no size leaves the file, and
\* pointers lead to nodes.
THEOREM TypesHold == Spec => []TypeOK
  BY IInvHolds, IInvTyped, PTL

\* It gives a sound file.
LEMMA IInvSound ==
    IInv => FileSound
<1> SUFFICES ASSUME IInv PROVE FileSound
  OBVIOUS
<1>1. PICK s, A, F, chain, key, m :
           /\ IsStored(store, opened, writer, s, A, F)
           /\ IndexOK(s, A, data, chain, key, m, writer, added, reader)
  BY DEF IInv, IndexInv
<1>2. Attached(store) = s /\ FileOK(s, A, F) /\ (opened => store.head = s.head)
  BY <1>1, AttachedFile
<1>3. Sound(s) /\ \A o \in ToSet(Blocks(s, "free")) : ~Adjacent(s, o)
  BY <1>2, FileIsSound
<1> QED BY <1>2, <1>3 DEF FileSound

\* dump() never finds an error, and no two free blocks stay side by side,
\* whatever sizes are allocated and given back in whatever order.
THEOREM FilesAreSound == Spec => []FileSound
  BY IInvHolds, IInvSound, PTL

\* It gives blocks that are owned.
LEMMA IInvOwned ==
    IInv => BlocksOwned
<1> SUFFICES ASSUME IInv PROVE BlocksOwned
  OBVIOUS
<1>1. PICK s, A, F, chain, key, m :
           /\ IsStored(store, opened, writer, s, A, F)
           /\ IndexOK(s, A, data, chain, key, m, writer, added, reader)
  BY DEF IInv, IndexInv
<1>2. Attached(store) = s /\ FileOK(s, A, F)
  BY <1>1, AttachedFile
<1>3. ToSet(Blocks(s, "allocated")) = A
  BY <1>2, FileIsSound
<1>4. Owned(data, s, A)
  BY <1>1 DEF IndexOK
<1> QED BY <1>2, <1>3, <1>4 DEF BlocksOwned, Owned

\* What the index has written lies in an allocated block of its own that is
\* large enough, so that no block is handed out twice or given back in use.
THEOREM BlocksAreOwned == Spec => []BlocksOwned
  BY IInvHolds, IInvOwned, PTL

\* It gives a reader that is safe.
LEMMA IInvReads ==
    IInv => ReaderFinds
<1> SUFFICES ASSUME IInv PROVE ReaderFinds
  OBVIOUS
<1>1. PICK s, A, F, chain, key, m :
           /\ IsStored(store, opened, writer, s, A, F)
           /\ IndexOK(s, A, data, chain, key, m, writer, added, reader)
  BY DEF IInv, IndexInv
<1>2. ReaderOK(data, chain, reader) /\ ChainsOK(data, chain) /\ Owned(data, s, A)
  BY <1>1 DEF IndexOK
<1>3. CASE reader = ReaderIdle
  BY <1>3 DEF ReaderFinds, ReaderIdle
<1>4. CASE reader # ReaderIdle
  <2>1. /\ reader \in [pc : {"entry", "anchor", "root"}, name : Names, known : BOOLEAN, at : Nat]
        /\ (reader.pc = "entry" => Ahead(data, chain, reader))
        /\ (reader.pc = "anchor" => reader.at \in OfKind(data, "anchor"))
        /\ (reader.pc = "root" => reader.at \in OfKind(data, "node"))
    BY <1>2, <1>4 DEF ReaderOK
  <2>2. reader.pc \in {"entry", "anchor", "root"} /\ reader.name \in Names
    BY <2>1
  <2>3. ASSUME reader.pc = "entry"
        PROVE  IF reader.at = 0 THEN ~reader.known ELSE reader.at \in OfKind(data, "entry")
    <3>1. \A i \in 1 .. Len(chain[Hash[reader.name]]) :
             chain[Hash[reader.name]][i] \in OfKind(data, "entry")
      BY <1>2, <2>2, ChainEntries
    <3>2. 0 \notin OfKind(data, "entry")
      <4>1. \A o \in OfKind(data, "entry") : o \in Nat /\ HeapStart + NodeSize <= o
        BY <1>2 DEF Owned, OfKind
      <4>2. HeapStart \in Nat \ {0} /\ NodeSize \in Nat \ {0}
        BY HeadsInFront, Places
      <4> QED BY <4>1, <4>2
    <3> QED BY <2>1, <2>3, <3>1, <3>2 DEF Ahead
  <2>4. \A k : reader.at \in OfKind(data, k) => reader.at \in DOMAIN data /\ data[reader.at].kind = k
    BY DEF OfKind
  <2> QED BY <2>1, <2>2, <2>3, <2>4 DEF ReaderFinds
<1> QED BY <1>3, <1>4

\* A program that reads beside the writer follows offsets of what was
\* written before, and finds every channel that was there when it began.
THEOREM ReaderIsSafe == Spec => []ReaderFinds
  BY IInvHolds, IInvReads, PTL

-----------------------------------------------------------------------------
(* Iterating over all names.                                               *)

\* g[i] is the first i sequences of s put together.
Joins(g, s, m) == g = [i \in 1..m |-> IF i = 1 THEN s[i] ELSE g[i - 1] \o s[i]]

\* There is such a g.
LEMMA JoinsExists ==
    ASSUME NEW s
    PROVE  \A m \in Nat : \E g : Joins(g, s, m)
<1> DEFINE Bad == {m \in Nat : ~ \E g : Joins(g, s, m)}
<1>1. SUFFICES ASSUME Bad # {} PROVE FALSE
  OBVIOUS
<1>2. PICK m \in Bad : \A n \in Bad : m <= n
  BY <1>1, HasLeast
<1>3. m \in Nat /\ ~ \E g : Joins(g, s, m)
  OBVIOUS
<1>4. m # 0
  <2> DEFINE e == [i \in 1..0 |-> s]
  <2>1. Joins(e, s, 0)
    BY DEF Joins
  <2> QED BY <2>1, <1>3
<1>5. m - 1 \in Nat /\ m - 1 \notin Bad
  BY <1>2, <1>3, <1>4
<1>6. PICK g : Joins(g, s, m - 1)
  BY <1>5
<1> DEFINE h == [i \in 1..m |-> IF i < m THEN g[i]
                                ELSE IF m = 1 THEN s[m] ELSE g[m - 1] \o s[m]]
<1>7. ASSUME NEW i \in 1..m
      PROVE  h[i] = IF i = 1 THEN s[i] ELSE h[i - 1] \o s[i]
  <2>1. CASE i < m
    <3>1. i \in 1..m - 1 /\ i \in Int
      BY <2>1, <1>3
    <3>2. g[i] = IF i = 1 THEN s[i] ELSE g[i - 1] \o s[i]
      BY <1>6, <3>1 DEF Joins
    <3>3. i # 1 => h[i - 1] = g[i - 1]
      BY <3>1, <2>1
    <3> QED BY <3>2, <3>3, <2>1
  <2>2. CASE i = m
    <3>1. i # 1 => h[i - 1] = g[i - 1]
      BY <2>2, <1>3
    <3> QED BY <2>2, <3>1
  <2> QED BY <2>1, <2>2, <1>3
<1>8. h = [i \in 1..m |-> h[i]]
  OBVIOUS
<1> HIDE DEF h
<1>9. Joins(h, s, m)
  BY <1>7, <1>8 DEF Joins
<1> QED BY <1>9, <1>3

\* FlattenSeq returns its last.
LEMMA FlattenJoins ==
    ASSUME NEW s, Len(s) \in Nat, Len(s) # 0
    PROVE  \E g : Joins(g, s, Len(s)) /\ FlattenSeq(s) = g[Len(s)]
<1> DEFINE f == CHOOSE g : Joins(g, s, Len(s))
<1>1. Joins(f, s, Len(s))
  BY JoinsExists
<1>2. FlattenSeq(s) = f[Len(s)]
  BY DEF FlattenSeq, Joins
<1> QED BY <1>1, <1>2


\* Where L has an entry of this name.
Hits(d, L, n) == {i \in DOMAIN L : d[L[i]].name = n}

\* Where two sequences in a row have it.
LEMMA HitsJoined ==
    ASSUME NEW d, NEW n, NEW D, NEW L \in Seq(D), NEW M \in Seq(D)
    PROVE  Hits(d, L \o M, n) = Hits(d, L, n) \cup {Len(L) + i : i \in Hits(d, M, n)}
<1> DEFINE K == L \o M
<1>1. /\ Len(L) \in Nat /\ Len(M) \in Nat /\ Len(K) = Len(L) + Len(M)
      /\ DOMAIN L = 1 .. Len(L) /\ DOMAIN M = 1 .. Len(M) /\ DOMAIN K = 1 .. Len(K)
  OBVIOUS
<1>2. /\ \A i \in 1 .. Len(L) : K[i] = L[i]
      /\ \A i \in 1 .. Len(M) : K[Len(L) + i] = M[i]
  OBVIOUS
<1> HIDE DEF K
<1>3. ASSUME NEW i \in Hits(d, K, n)
      PROVE  i \in Hits(d, L, n) \cup {Len(L) + x : x \in Hits(d, M, n)}
  <2>1. i \in 1 .. Len(K) /\ d[K[i]].name = n
    BY <1>1 DEF Hits
  <2>2. CASE i <= Len(L)
    <3>1. i \in 1 .. Len(L)
      BY <2>1, <2>2, <1>1
    <3> QED BY <3>1, <2>1, <1>1, <1>2 DEF Hits
  <2>3. CASE ~(i <= Len(L))
    <3>1. i - Len(L) \in 1 .. Len(M) /\ i = Len(L) + (i - Len(L))
      BY <2>1, <2>3, <1>1
    <3>2. i - Len(L) \in Hits(d, M, n)
      BY <3>1, <2>1, <1>1, <1>2 DEF Hits
    <3> QED BY <3>1, <3>2
  <2> QED BY <2>2, <2>3
<1>4. ASSUME NEW i \in Hits(d, L, n) PROVE i \in Hits(d, K, n)
  BY <1>1, <1>2 DEF Hits
<1>5. ASSUME NEW x \in Hits(d, M, n) PROVE Len(L) + x \in Hits(d, K, n)
  BY <1>1, <1>2 DEF Hits
<1> QED BY <1>3, <1>4, <1>5 DEF K

\* One hit or none.
HasHits(d, L, n, one) ==
    IF one THEN \E i \in Nat : Hits(d, L, n) = {i} ELSE Hits(d, L, n) = {}

\* The chain of the slot has a name once, every other chain not at all.
LEMMA ChainHits ==
    ASSUME NEW d, NEW chain, ChainsOK(d, chain), NEW N, AreListed(d, chain, N),
           NEW n \in Names, NEW h \in Slots
    PROVE  HasHits(d, chain[h], n, n \in N /\ h = Hash[n])
<1> DEFINE L == chain[h]
<1>1. /\ Len(L) \in Nat /\ DOMAIN L = 1 .. Len(L)
  <2>1. L \in Seq(OfKind(d, "entry"))
    BY ChainEntries
  <2> HIDE DEF L
  <2> QED BY <2>1
<1>2. /\ \A i \in 1 .. Len(L) : Hash[d[L[i]].name] = h
      /\ \A i, j \in 1 .. Len(L) : d[L[i]].name = d[L[j]].name => i = j
  BY DEF ChainsOK
<1>3. CASE n \in N /\ h = Hash[n]
  <2>1. PICK i \in Nat : At(d, chain, n, i)
    BY <1>3 DEF AreListed
  <2>2. i \in 1 .. Len(L) /\ d[L[i]].name = n
    BY <2>1, <1>3 DEF At
  <2> HIDE DEF L
  <2>3. Hits(d, L, n) = {i}
    BY <2>2, <1>1, <1>2 DEF Hits
  <2> QED BY <2>3, <1>3 DEF HasHits, L
<1>4. CASE ~(n \in N /\ h = Hash[n])
  <2>1. ASSUME NEW i \in Hits(d, L, n) PROVE FALSE
    <3>1. i \in 1 .. Len(L) /\ d[L[i]].name = n
      BY <1>1 DEF Hits
    <3>2. Hash[n] = h
      BY <3>1, <1>2
    <3>3. i \in Nat /\ At(d, chain, n, i)
      BY <3>1, <3>2 DEF At
    <3> QED BY <3>2, <3>3, <1>4 DEF AreListed
  <2>2. Hits(d, L, n) = {}
    BY <2>1
  <2> QED BY <2>2, <1>4 DEF HasHits
<1> QED BY <1>3, <1>4

\* So do all of them together.
LEMMA JoinedHits ==
    ASSUME NEW d, NEW chain, ChainsOK(d, chain), NEW N, AreListed(d, chain, N),
           NEW n \in Names, NEW ss, \A i \in 1 .. TableSize : ss[i] = chain[i - 1],
           NEW g, Joins(g, ss, TableSize)
    PROVE  HasHits(d, g[TableSize], n, n \in N)
<1> DEFINE D == OfKind(d, "entry")
           one(k) == n \in N /\ Hash[n] < k
           good(k) == g[k] \in Seq(D) /\ HasHits(d, g[k], n, one(k))
           Bad == {k \in 1 .. TableSize : ~good(k)}
<1>1. TableSize \in Nat \ {0} /\ Hash[n] \in 0 .. TableSize - 1
  BY IndexAssumption DEF Slots
<1>2. ASSUME NEW k \in 1 .. TableSize
      PROVE  /\ ss[k] \in Seq(D)
             /\ HasHits(d, ss[k], n, n \in N /\ Hash[n] = k - 1)
  <2>1. k - 1 \in Slots /\ ss[k] = chain[k - 1]
    BY <1>1 DEF Slots
  <2>2. HasHits(d, chain[k - 1], n, n \in N /\ k - 1 = Hash[n])
    BY <2>1, ChainHits
  <2> QED BY <2>1, <2>2, ChainEntries DEF HasHits
<1>3. ASSUME Bad # {} PROVE FALSE
  <2>1. PICK k \in Bad : \A j \in Bad : k <= j
    <3>1. Bad \in SUBSET Nat
      OBVIOUS
    <3> QED BY <1>3, <3>1, HasLeast
  <2>2. k \in 1 .. TableSize /\ ~good(k)
    OBVIOUS
  <2>3. g[k] = IF k = 1 THEN ss[k] ELSE g[k - 1] \o ss[k]
    BY <2>2 DEF Joins
  <2>4. CASE k = 1
    <3>1. g[k] \in Seq(D) /\ HasHits(d, g[k], n, n \in N /\ Hash[n] = k - 1)
      BY <2>2, <2>3, <2>4, <1>2
    <3>2. (Hash[n] = k - 1) <=> (Hash[n] < k)
      BY <2>4, <1>1
    <3>3. HasHits(d, g[k], n, one(k))
      BY <3>1, <3>2 DEF HasHits
    <3> QED BY <3>1, <3>3, <2>2
  <2>5. CASE k # 1
    <3>1. k - 1 \in 1 .. TableSize /\ k - 1 \notin Bad
      <4> HIDE DEF Bad
      <4> QED BY <2>1, <2>2, <2>5, <1>1
    <3>2. good(k - 1)
      BY <3>1
    <3> DEFINE L == g[k - 1]
               M == ss[k]
    <3>3. /\ L \in Seq(D) /\ HasHits(d, L, n, n \in N /\ Hash[n] < k - 1)
          /\ M \in Seq(D) /\ HasHits(d, M, n, n \in N /\ Hash[n] = k - 1)
          /\ g[k] = L \o M
      BY <3>2, <2>2, <2>3, <2>5, <1>2
    <3> HIDE DEF L, M, D
    <3>4. /\ Hits(d, L \o M, n) = Hits(d, L, n) \cup {Len(L) + i : i \in Hits(d, M, n)}
          /\ Len(L) \in Nat /\ L \o M \in Seq(D)
      <4>1. L \in Seq(D) /\ M \in Seq(D)
        BY <3>3
      <4>2. Hits(d, L \o M, n) = Hits(d, L, n) \cup {Len(L) + i : i \in Hits(d, M, n)}
        BY <4>1, HitsJoined
      <4> QED BY <4>1, <4>2
    <3>5. HasHits(d, L \o M, n, one(k))
      <4>1. CASE n \in N /\ Hash[n] < k - 1
        <5>1. /\ \E i \in Nat : Hits(d, L, n) = {i}
              /\ Hits(d, M, n) = {} /\ one(k)
          BY <4>1, <3>3, <2>2, <1>1 DEF HasHits
        <5>2. Hits(d, L \o M, n) = Hits(d, L, n)
          BY <5>1, <3>4
        <5> QED BY <5>1, <5>2 DEF HasHits
      <4>2. CASE n \in N /\ Hash[n] = k - 1
        <5>1. Hits(d, L, n) = {} /\ one(k)
          BY <4>2, <3>3, <2>2, <1>1 DEF HasHits
        <5>2. PICK i \in Nat : Hits(d, M, n) = {i}
          BY <4>2, <3>3 DEF HasHits
        <5>3. Hits(d, L \o M, n) = {Len(L) + i} /\ Len(L) + i \in Nat
          BY <5>1, <5>2, <3>4
        <5> QED BY <5>1, <5>3 DEF HasHits
      <4>3. CASE ~(n \in N /\ Hash[n] < k - 1) /\ ~(n \in N /\ Hash[n] = k - 1)
        <5>0. Hits(d, L, n) = {} /\ Hits(d, M, n) = {}
          BY <4>3, <3>3 DEF HasHits
        <5>1. Hits(d, L, n) = {} /\ Hits(d, M, n) = {} /\ ~one(k)
          <6>1. Hash[n] < k => Hash[n] < k - 1 \/ Hash[n] = k - 1
            BY <2>2, <1>1
          <6> QED BY <5>0, <6>1, <4>3
        <5>2. Hits(d, L \o M, n) = {}
          BY <5>1, <3>4
        <5> QED BY <5>1, <5>2 DEF HasHits
      <4> QED BY <4>1, <4>2, <4>3
    <3> QED BY <3>3, <3>4, <3>5, <2>2 DEF D
  <2> QED BY <2>4, <2>5
<1>4. HasHits(d, g[TableSize], n, one(TableSize))
  BY <1>1, <1>3
<1>5. one(TableSize) <=> n \in N
  BY <1>1
<1> QED BY <1>4, <1>5 DEF HasHits

\* The iterator returns a name that was added once.
LEMMA IteratedHits ==
    ASSUME NEW s, NEW A, Owned(data, s, A),
           NEW chain, ChainsOK(data, chain), NEW key, NEW m, Ordered(data, key, m),
           NEW N, AreListed(data, chain, N), NEW n \in Names
    PROVE  HasHits(data, Iterated, n, n \in N)
<1> DEFINE ss == [i \in 1 .. TableSize |-> Chain(i - 1)]
<1>1. TableSize \in Nat \ {0}
  BY IndexAssumption
<1>2. \A i \in 1 .. TableSize : ss[i] = chain[i - 1]
  <2>1. TAKE i \in 1 .. TableSize
  <2>2. i - 1 \in Slots
    BY <1>1 DEF Slots
  <2>3. Chain(i - 1) = chain[i - 1]
    BY <2>2, ChainIs
  <2> QED BY <2>3
<1>3. Len(ss) = TableSize
  <2>1. DOMAIN ss = 1 .. TableSize
    OBVIOUS
  <2>2. ss \in Seq({ss[i] : i \in 1 .. TableSize})
    <3>1. ss \in [1 .. TableSize -> {ss[i] : i \in 1 .. TableSize}]
      OBVIOUS
    <3> HIDE DEF ss
    <3> QED BY <3>1, <1>1, SeqDef
  <2> HIDE DEF ss
  <2> QED BY <2>1, <2>2, <1>1
<1>4. Iterated = FlattenSeq(ss)
  BY DEF Iterated
<1> HIDE DEF ss
<1>5. PICK g : Joins(g, ss, Len(ss)) /\ FlattenSeq(ss) = g[Len(ss)]
  BY <1>1, <1>3, FlattenJoins
<1> QED BY <1>2, <1>3, <1>4, <1>5, JoinedHits

\* The invariant gives the names.
LEMMA IInvNames ==
    IInv => NamesAsAdded
<1> SUFFICES ASSUME IInv PROVE NamesAsAdded
  OBVIOUS
<1>1. PICK s, A, F, chain, key, m :
           /\ IsStored(store, opened, writer, s, A, F)
           /\ IndexOK(s, A, data, chain, key, m, writer, added, reader)
  BY DEF IInv, IndexInv
<1>2. /\ ChainsOK(data, chain) /\ Owned(data, s, A) /\ Ordered(data, key, m)
      /\ AreListed(data, chain, added) /\ TreesOK(data) /\ added \subseteq Names
  BY <1>1 DEF IndexOK
<1>3. 0 \notin OfKind(data, "entry")
  <2>1. \A o \in OfKind(data, "entry") : o \in Nat /\ HeapStart + NodeSize <= o
    BY <1>2 DEF Owned, OfKind
  <2>2. HeapStart \in Nat \ {0} /\ NodeSize \in Nat \ {0}
    BY HeadsInFront, Places
  <2> QED BY <2>1, <2>2
<1>4. ASSUME NEW n \in Names
      PROVE  IF n \in added THEN Find(n) \in OfKind(data, "entry") /\ data[Find(n)].name = n
             ELSE Find(n) = 0
  <2>1. FoundAs(n, data, chain, added)
    BY <1>2, FindKnows
  <2>2. CASE n \in added
    <3>1. PICK i \in Nat : At(data, chain, n, i) /\ Find(n) = chain[Hash[n]][i]
      BY <2>1, <2>2 DEF FoundAs
    <3>2. Find(n) \in OfKind(data, "entry")
      BY <3>1, <1>2, ChainEntries DEF At
    <3> QED BY <3>1, <3>2, <2>2 DEF At
  <2>3. CASE n \notin added
    BY <2>1, <2>3 DEF FoundAs
  <2> QED BY <2>2, <2>3
<1>5. ASSUME NEW n \in Names
      PROVE  Cardinality({i \in DOMAIN Iterated : data[Iterated[i]].name = n})
             = IF n \in added THEN 1 ELSE 0
  <2>1. HasHits(data, Iterated, n, n \in added)
    BY <1>2, IteratedHits
  <2>2. CASE n \in added
    <3>1. PICK i \in Nat : Hits(data, Iterated, n) = {i}
      BY <2>1, <2>2 DEF HasHits
    <3>2. Cardinality({i}) = 1
      BY FS_Singleton
    <3> QED BY <3>1, <3>2, <2>2 DEF Hits
  <2>3. CASE n \notin added
    <3>1. Hits(data, Iterated, n) = {}
      BY <2>1, <2>3 DEF HasHits
    <3> QED BY <3>1, <2>3, FS_EmptySet DEF Hits
  <2> QED BY <2>2, <2>3
<1>6. ASSUME NEW n \in added
      PROVE  LET id == data[Find(n)].id
             IN  /\ data[id].kind = "anchor"
                 /\ data[data[id].root].kind = "node"
                 /\ \A k \in added \ {n} : data[Find(k)].id # id
  <2> DEFINE id == data[Find(n)].id
  <2>1. n \in Names /\ Find(n) \in OfKind(data, "entry") /\ data[Find(n)].name = n
    BY <1>2, <1>4
  <2>2. id \in OfKind(data, "anchor")
    BY <2>1, <1>2 DEF TreesOK
  <2>3. data[id].root \in OfKind(data, "node")
    BY <2>2, <1>2 DEF TreesOK
  <2>4. ASSUME NEW k \in added \ {n}, data[Find(k)].id = id PROVE FALSE
    <3>1. Find(k) \in OfKind(data, "entry") /\ data[Find(k)].name = k
      BY <1>2, <1>4
    <3>2. Find(k) = Find(n)
      BY <3>1, <2>1, <2>4, <1>2 DEF TreesOK
    <3> QED BY <3>1, <3>2, <2>1, <2>4
  <2> QED BY <2>2, <2>3, <2>4 DEF OfKind
<1>7. \A n \in Names : Find(n) # 0 <=> n \in added
  BY <1>3, <1>4
<1> QED BY <1>5, <1>6, <1>7 DEF NamesAsAdded

\* find() knows exactly the channels that were added, iterating visits each
\* of them once, and each leads to a tree of its own.
THEOREM NamesAreFound == Spec => []NamesAsAdded
  BY IInvHolds, IInvNames, PTL
==============================================================================
