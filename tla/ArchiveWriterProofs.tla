------------------------ MODULE ArchiveWriterProofs ------------------------
(***************************************************************************)
(* The data files of a channel are sound at every step of its writers and  *)
(* at every crash: TypeOK, HeadersTrue and StoredForGood, for all time     *)
(* stamps, kinds of data, buffer sizes, file limits and numbers of writers *)
(* and samples.                                                            *)
(*                                                                         *)
(* The invariant looks at what is still on its way to the disk: each write *)
(* in memory would leave a sound buffer behind, and none undoes what the   *)
(* header on the disk counts; the header that the writer has in memory     *)
(* tells the truth of what its buffer will hold when all writes are done.  *)
(***************************************************************************)
EXTENDS ArchiveWriter, SequenceTheorems, WellFoundedInduction, TLAPS

(* The types of what the writer handles, of constants only.                *)
HeaderType == [num : Nat, begin : Times, end : Times, next : Nat]
BufferType == [file : Files, size : Nat, kind : Kinds, hdr : HeaderType, data : Seq(Times)]
WriterType == [pc : {"ready", "header", "link", "list", "store", "list last", "files"},
               kind : Kinds, b : Nat, hdr : HeaderType, avail : Int, size : Nat, new : Nat,
               stamp : Times, old : SUBSET Times]
Sizes == FirstSize..(2 * LastSize)

(* A header that is in order for a buffer x, when there are n buffers.     *)
HeaderOK(h, x, n) ==
    /\ h \in HeaderType
    /\ h.next <= n
    /\ h.num <= x.size
    /\ Truthful(h, x.data)

(* Buffer b of n.  A file is never newer than the first buffer in it.      *)
BufferOK(x, b, n) ==
    /\ x \in BufferType
    /\ x.file <= b
    /\ x.size \in Sizes
    /\ Len(x.data) = x.size
    /\ HeaderOK(x.hdr, x, n)

DiskOK(d) ==
    /\ d \in Seq(BufferType)
    /\ \A b \in 1..Len(d) : BufferOK(d[b], b, Len(d))

(* A write that is still in memory changes nothing that the header on the  *)
(* disk counts: a header counts as much as that one, and tells the truth   *)
(* of the samples on the disk; a sample is behind those that it counts.    *)
WriteOK(write, f, d) ==
    /\ write.b \in 1..Len(d)
    /\ d[write.b].file = f
    /\ \/ /\ write.slot = 0
          /\ HeaderOK(write.value, d[write.b], Len(d))
          /\ d[write.b].hdr.num <= write.value.num
       \/ /\ write.slot \in (d[write.b].hdr.num + 1)..d[write.b].size
          /\ write.value \in Stamps
WritesOK(p, d) ==
    /\ p = [f \in Files |-> p[f]]
    /\ \A f \in Files : p[f] = NoWrite \/ WriteOK(p[f], f, d)

FilesOK == DiskOK(disk) /\ WritesOK(pending, disk)

Idle == w.pc = "none" => \A f \in Files : pending[f] = NoWrite

(* Buffer b as it is when all writes are done.                             *)
Settled(b) == Done(pending[disk[b].file], b)

(* The header that the writer has in memory tells the truth of what its    *)
(* buffer will hold, and counts at least what any header in the file does. *)
HeaderInMemory ==
    w.pc # "none" /\ w.b # Null => /\ HeaderOK(w.hdr, Settled(w.b), Len(disk))
                                   /\ Settled(w.b).hdr.num <= w.hdr.num

(* A buffer that is being added is as it was made.                         *)
NewIsFresh ==
    w.pc \in {"link", "list"} => /\ w.new \in 1..Len(disk)
                                 /\ w.new # w.b
                                 /\ disk[w.new].hdr = FreshHeader
                                 /\ pending[disk[w.new].file].b # w.new

WriterOK ==
    \/ w = NoWriter
    \/ /\ w \in WriterType
       /\ w.size \in Sizes
       /\ w.b <= Len(disk) /\ (w.b = Null => w.pc = "header")
       /\ w.pc \in {"ready", "store"} => w.avail = disk[w.b].size - w.hdr.num
       /\ w.pc = "store" => w.stamp \in Stamps /\ w.hdr = FreshHeader

ChainOK(chain, n) ==
    chain \in Seq(Nat) /\ chain # <<>> /\ \A i \in 1..Len(chain) : chain[i] \in 1..n
RecordsOK(records, n) ==
    \A rec \in records : rec.start \in Times /\ rec.end \in Times /\ ChainOK(rec.blocks, n)
IndexOK == RecordsOK(index, Len(disk))

(* Every buffer was added for a writer that started, or for a sample that  *)
(* was given to one, so there are addresses for all.                       *)
CountersOK ==
    /\ sessions \in 0..MaxSessions /\ samples \in 0..MaxSamples
    /\ crash \in {"none", "clean", "torn"}
    /\ Len(disk) + (IF w.pc = "header" THEN 1 ELSE 0) <= sessions + samples

IInv == /\ FilesOK /\ Idle /\ HeaderInMemory /\ NewIsFresh
        /\ WriterOK /\ IndexOK /\ CountersOK

-----------------------------------------------------------------------------
(* The least of some numbers.                                              *)
LEMMA MinIsLeast ==
    ASSUME NEW S \in SUBSET Nat, S # {}
    PROVE  Min(S) \in S /\ \A y \in S : Min(S) <= y
  <1> DEFINE Less == {ss \in Nat \X Nat : ss[1] < ss[2]}
  <1>1. Less = OpToRel(<, Nat)
    BY DEF OpToRel
  <1> HIDE DEF Less
  <1>2. IsWellFoundedOn(Less, Nat)
    BY <1>1, NatLessThanWellFounded, Zenon
  <1>3. PICK x \in S : \A y \in S : <<y, x>> \notin Less
    BY <1>2, WFMin
  <1>4. ASSUME NEW y \in S PROVE x <= y
    <2>1. y < x => <<y, x>> \in Less
      BY DEF Less
    <2> QED
      BY <1>3, <2>1
  <1> QED
    BY <1>4 DEF Min

LEMMA TimesAreNumbers == Times \subseteq Nat /\ Null \in Times /\ Null \notin Stamps
  BY StampsAssumption DEF Times, Null

LEMMA FreshHeaderOK ==
    ASSUME NEW x, x.size \in Nat, NEW n \in Nat
    PROVE  HeaderOK(FreshHeader, x, n)
  BY TimesAreNumbers DEF HeaderOK, HeaderType, FreshHeader, Truthful, Null

-----------------------------------------------------------------------------
(* What a write leaves of its buffer.                                      *)
Keeps(x, y) ==
    /\ y.file = x.file /\ y.size = x.size /\ y.kind = x.kind
    /\ x.hdr.num <= y.hdr.num
    /\ \A i \in 1..x.hdr.num : y.data[i] = x.data[i]

LEMMA HeaderWritten ==
    ASSUME NEW b, NEW n \in Nat, NEW x, BufferOK(x, b, n), NEW h, HeaderOK(h, x, n),
           x.hdr.num <= h.num,
           NEW y, y = [x EXCEPT !.hdr = h]
    PROVE  BufferOK(y, b, n) /\ Keeps(x, y) /\ y.hdr = h /\ y.data = x.data
  BY DEF BufferOK, HeaderOK, BufferType, HeaderType, Keeps

(* Sample i of the buffer x is set to t, which makes it y.                  *)
Stores(x, i, t, y) ==
    /\ y = [file |-> x.file, size |-> x.size, kind |-> x.kind, hdr |-> x.hdr, data |-> y.data]
    /\ y.data = [x.data EXCEPT ![i] = t]

LEMMA SampleWritten ==
    ASSUME NEW b, NEW n \in Nat, NEW x, BufferOK(x, b, n),
           NEW i \in (x.hdr.num + 1)..x.size, NEW t \in Stamps,
           NEW y, Stores(x, i, t, y)
    PROVE  BufferOK(y, b, n) /\ Keeps(x, y)
  <1>1. x \in BufferType /\ x.hdr.num \in Nat /\ x.size \in Nat /\ Len(x.data) = x.size
    BY DEF BufferOK, BufferType, HeaderType
  <1>2. x.data \in Seq(Times) /\ i \in 1..Len(x.data) /\ t \in Times
    BY <1>1 DEF BufferType, Times
  <1>3. /\ y.data \in Seq(Times)
        /\ Len(y.data) = x.size
        /\ \A j \in 1..x.size : y.data[j] = IF j = i THEN t ELSE x.data[j]
    BY <1>1, <1>2, ExceptSeq DEF Stores
  <1>4. /\ y.file = x.file /\ y.size = x.size /\ y.kind = x.kind /\ y.hdr = x.hdr
        /\ y \in BufferType
    BY <1>1, <1>3 DEF BufferType, Stores
  <1>5. ASSUME NEW j \in 1..x.hdr.num PROVE y.data[j] = x.data[j]
    <2>1. j \in 1..x.size /\ j # i
      BY <1>1
    <2> QED
      BY <1>3, <2>1
  <1>6. Truthful(x.hdr, y.data)
    <2>1. Truthful(x.hdr, x.data)
      BY DEF BufferOK, HeaderOK
    <2>2. x.hdr.num > 0 => x.hdr.begin = y.data[1] /\ x.hdr.end = y.data[x.hdr.num]
      BY <1>1, <1>5, <2>1 DEF Truthful
    <2>3. \A j \in 1..x.hdr.num : y.data[j] # Null
      BY <1>5, <2>1 DEF Truthful
    <2>4. ASSUME NEW j \in 2..x.hdr.num PROVE y.data[j-1] <= y.data[j]
      <3>1. j \in 1..x.hdr.num /\ j - 1 \in 1..x.hdr.num
        BY <1>1
      <3> QED
        BY <1>5, <2>1, <3>1 DEF Truthful
    <2> QED
      BY <2>2, <2>3, <2>4 DEF Truthful
  <1>7. BufferOK(y, b, n)
    <2> QED
      BY <1>1, <1>3, <1>4, <1>6 DEF BufferOK, HeaderOK
  <1>8. Keeps(x, y)
    BY <1>1, <1>4, <1>5 DEF Keeps
  <1> QED
    BY <1>4, <1>7, <1>8

LEMMA KeepsItself == ASSUME NEW x, x.hdr.num \in Nat PROVE Keeps(x, x)
  BY DEF Keeps

LEMMA DoneFacts ==
    ASSUME FilesOK, NEW b \in 1..Len(disk)
    PROVE  /\ BufferOK(disk[b], b, Len(disk)) /\ disk[b].file \in Files
           /\ BufferOK(Settled(b), b, Len(disk))
           /\ Keeps(disk[b], Settled(b))
           /\ pending[disk[b].file].b # b => Settled(b) = disk[b]
  <1> DEFINE f == disk[b].file
             p == pending[f]
  <1>1. BufferOK(disk[b], b, Len(disk)) /\ f \in Files /\ Len(disk) \in Nat /\ b # Null
    BY DEF FilesOK, DiskOK, BufferOK, BufferType, Null
  <1>2. disk[b].hdr.num \in Nat
    BY <1>1 DEF BufferOK, BufferType, HeaderType
  <1>3. CASE p.b # b
    BY <1>1, <1>2, <1>3, KeepsItself DEF Settled, Done
  <1>4. CASE p.b = b
    <2>1. WriteOK(p, f, disk)
      BY <1>1, <1>4 DEF FilesOK, WritesOK, NoWrite
    <2>2. CASE p.slot = 0
      <3>1. HeaderOK(p.value, disk[b], Len(disk)) /\ disk[b].hdr.num <= p.value.num
        BY <1>2, <1>4, <2>1, <2>2 DEF WriteOK
      <3>2. Settled(b) = [disk[b] EXCEPT !.hdr = p.value]
        BY <1>4, <2>2 DEF Settled, Done
      <3>3. BufferOK(Settled(b), b, Len(disk)) /\ Keeps(disk[b], Settled(b))
        BY <1>1, <3>1, <3>2, HeaderWritten
      <3> QED
        BY <1>1, <1>4, <3>3
    <2>3. CASE p.slot # 0
      <3>1. p.slot \in (disk[b].hdr.num + 1)..disk[b].size /\ p.value \in Stamps
        BY <1>4, <2>1, <2>3 DEF WriteOK
      <3>2. Settled(b) = [disk[b] EXCEPT !.data[p.slot] = p.value]
        BY <1>4, <2>3 DEF Settled, Done
      <3>3. Stores(disk[b], p.slot, p.value, Settled(b))
        BY <1>1, <3>2 DEF Stores, BufferOK, BufferType
      <3>4. BufferOK(Settled(b), b, Len(disk)) /\ Keeps(disk[b], Settled(b))
        BY <1>1, <3>1, <3>3, SampleWritten
      <3> QED
        BY <1>1, <1>4, <3>4
    <2> QED
      BY <2>2, <2>3
  <1> QED
    BY <1>3, <1>4

(* The disk once some of the writes are done.                              *)
LEMMA FlushedFacts ==
    ASSUME FilesOK, NEW fs
    PROVE  /\ DiskOK(Flushed(fs))
           /\ Len(Flushed(fs)) = Len(disk)
           /\ \A b \in 1..Len(disk) :
                 /\ Keeps(disk[b], Flushed(fs)[b])
                 /\ Flushed(fs)[b] = IF disk[b].file \in fs THEN Settled(b) ELSE disk[b]
  <1>1. disk \in Seq(BufferType) /\ Len(disk) \in Nat /\ Buffers = 1..Len(disk)
    BY DEF FilesOK, DiskOK, Buffers
  <1>2. Flushed(fs) = [b \in 1..Len(disk) |-> IF disk[b].file \in fs THEN Settled(b) ELSE disk[b]]
    BY <1>1 DEF Flushed, Settled
  <1>3. \A b \in 1..Len(disk) : /\ BufferOK(Flushed(fs)[b], b, Len(disk))
                               /\ Keeps(disk[b], Flushed(fs)[b])
    <2>1. TAKE b \in 1..Len(disk)
    <2>2. BufferOK(disk[b], b, Len(disk)) /\ disk[b].hdr.num \in Nat
      BY DoneFacts DEF BufferOK, BufferType, HeaderType
    <2> QED
      BY <1>2, <2>2, DoneFacts, KeepsItself
  <1>4. \A b \in 1..Len(disk) : Flushed(fs)[b] \in BufferType
    BY <1>3 DEF BufferOK
  <1>5. Flushed(fs) \in Seq(BufferType) /\ Len(Flushed(fs)) = Len(disk)
    BY <1>1, <1>2, <1>4
  <1> QED
    BY <1>2, <1>3, <1>5 DEF DiskOK

(* Writes to other files are still in order.                               *)
LEMMA OthersStayOK ==
    ASSUME FilesOK, NEW fs, NEW f \in Files \ fs
    PROVE  pending[f] = NoWrite \/ WriteOK(pending[f], f, Flushed(fs))
  <1>1. pending[f] = NoWrite \/ WriteOK(pending[f], f, disk)
    BY DEF FilesOK, WritesOK
  <1>2. CASE WriteOK(pending[f], f, disk)
    <2>1. pending[f].b \in 1..Len(disk) /\ disk[pending[f].b].file = f
      BY <1>2 DEF WriteOK
    <2>2. Flushed(fs)[pending[f].b] = disk[pending[f].b] /\ Len(Flushed(fs)) = Len(disk)
      BY <2>1, FlushedFacts
    <2> QED
      BY <1>2, <2>2 DEF WriteOK
  <1> QED
    BY <1>1, <1>2

-----------------------------------------------------------------------------
(* What the steps do to the files.                                         *)
Kept == \A b \in 1..Len(disk) : Keeps(disk[b], disk'[b])

LEMMA AllFlushed ==
    ASSUME FilesOK, NEW fs, disk' = Flushed(fs), pending' = [f \in Files |-> NoWrite]
    PROVE  FilesOK' /\ Kept /\ Len(disk') = Len(disk)
  BY FlushedFacts DEF FilesOK, WritesOK, Kept

LEMMA WriteFacts ==
    ASSUME FilesOK, NEW write, write.b \in 1..Len(disk), Write(write),
           WriteOK(write, disk[write.b].file, disk')
    PROVE  /\ FilesOK' /\ Kept /\ Len(disk') = Len(disk)
           /\ disk'[write.b] = Settled(write.b)
           /\ \A b \in 1..Len(disk) : disk'[b] \in {disk[b], Settled(b)}
           /\ \A f \in Files : pending'[f] \in {pending[f], write}
  <1> DEFINE f == disk[write.b].file
  <1>1. f \in Files /\ disk' = Flushed({f}) /\ pending' = [pending EXCEPT ![f] = write]
    BY DoneFacts DEF Write
  <1>2. /\ DiskOK(disk') /\ Kept /\ Len(disk') = Len(disk)
        /\ disk'[write.b] = Settled(write.b)
        /\ \A b \in 1..Len(disk) : disk'[b] \in {disk[b], Settled(b)}
    BY <1>1, FlushedFacts DEF Kept
  <1>3. /\ pending' = [g \in Files |-> pending'[g]]
        /\ \A g \in Files : pending'[g] = IF g = f THEN write ELSE pending[g]
    BY <1>1 DEF FilesOK, WritesOK
  <1>4. ASSUME NEW g \in Files PROVE pending'[g] = NoWrite \/ WriteOK(pending'[g], g, disk')
    <2>1. CASE g = f
      BY <1>3, <2>1
    <2>2. CASE g # f
      BY <1>1, <1>3, <2>2, OthersStayOK
    <2> QED
      BY <2>1, <2>2
  <1>5. FilesOK'
    BY <1>2, <1>3, <1>4 DEF FilesOK, WritesOK
  <1> QED
    BY <1>2, <1>3, <1>5

(* A header is in order for more buffers, too.                             *)
LEMMA MoreBuffers ==
    ASSUME NEW h, NEW x, NEW n \in Nat, NEW m \in Nat, n <= m, HeaderOK(h, x, n)
    PROVE  HeaderOK(h, x, m)
  BY DEF HeaderOK, HeaderType

LEMMA BufferAdded ==
    ASSUME NEW d, DiskOK(d), NEW x, BufferOK(x, Len(d) + 1, Len(d) + 1)
    PROVE  /\ DiskOK(Append(d, x))
           /\ Len(Append(d, x)) = Len(d) + 1
           /\ \A b \in 1..Len(d) : Append(d, x)[b] = d[b]
           /\ Append(d, x)[Len(d) + 1] = x
           /\ \A write, f : WriteOK(write, f, d) => WriteOK(write, f, Append(d, x))
  <1> DEFINE e == Append(d, x)
  <1>1. d \in Seq(BufferType) /\ x \in BufferType /\ Len(d) \in Nat
    BY DEF DiskOK, BufferOK
  <1>2. /\ e \in Seq(BufferType)
        /\ Len(e) = Len(d) + 1
        /\ \A b \in 1..Len(d) : e[b] = d[b]
        /\ e[Len(d) + 1] = x
    BY <1>1, AppendProperties
  <1> HIDE DEF e
  <1>3. ASSUME NEW b \in 1..Len(e) PROVE BufferOK(e[b], b, Len(e))
    <2>1. CASE b = Len(d) + 1
      BY <1>2, <2>1
    <2>2. CASE b # Len(d) + 1
      <3>1. b \in 1..Len(d) /\ BufferOK(d[b], b, Len(d))
        BY <1>1, <1>2, <2>2 DEF DiskOK
      <3>2. HeaderOK(d[b].hdr, d[b], Len(d) + 1)
        BY <1>1, <3>1, MoreBuffers DEF BufferOK
      <3> QED
        BY <1>2, <3>1, <3>2 DEF BufferOK
    <2> QED
      BY <2>1, <2>2
  <1>4. DiskOK(e)
    BY <1>2, <1>3 DEF DiskOK
  <1>5. ASSUME NEW write, NEW f, WriteOK(write, f, d) PROVE WriteOK(write, f, e)
    <2>1. write.b \in 1..Len(d) /\ write.b \in 1..Len(e) /\ e[write.b] = d[write.b]
      BY <1>1, <1>2, <1>5 DEF WriteOK
    <2>2. HeaderOK(write.value, d[write.b], Len(d)) => HeaderOK(write.value, e[write.b], Len(e))
      BY <1>1, <1>2, <2>1, MoreBuffers
    <2> QED
      BY <1>5, <2>1, <2>2 DEF WriteOK
  <1> QED
    BY <1>2, <1>4, <1>5 DEF e

LEMMA EmptyBufferOK ==
    ASSUME NEW f \in Files, NEW size \in Sizes, NEW kind \in Kinds,
           NEW b \in Nat, f <= b, NEW n \in Nat
    PROVE  /\ BufferOK(EmptyBuffer(f, size, kind), b, n)
           /\ EmptyBuffer(f, size, kind).hdr = FreshHeader
           /\ EmptyBuffer(f, size, kind).size = size
           /\ EmptyBuffer(f, size, kind).file = f
  <1> DEFINE data == [i \in 1..size |-> Null]
             x == EmptyBuffer(f, size, kind)
  <1>1. size \in Nat
    BY SizesAssumption DEF Sizes
  <1>2. data \in Seq(Times) /\ Len(data) = size
    BY <1>1, TimesAreNumbers
  <1>3. FreshHeader \in HeaderType
    BY TimesAreNumbers DEF HeaderType, FreshHeader, Null
  <1>4. x = [file |-> f, size |-> size, kind |-> kind, hdr |-> FreshHeader, data |-> data]
    BY DEF EmptyBuffer
  <1> HIDE DEF data
  <1>5. /\ x \in BufferType /\ x.file = f /\ x.size = size /\ x.hdr = FreshHeader
        /\ x.data = data
    BY <1>1, <1>2, <1>3, <1>4 DEF BufferType
  <1> HIDE DEF x
  <1>6. HeaderOK(x.hdr, x, n)
    BY <1>1, <1>5, FreshHeaderOK
  <1>7. BufferOK(x, b, n)
    BY <1>2, <1>5, <1>6 DEF BufferOK
  <1> QED
    BY <1>5, <1>7 DEF x

(* There is a file for every new buffer.                                   *)
LEMMA FileForFacts ==
    ASSUME FilesOK, NEW old, old \in 1..Len(disk) \/ old = Null, NEW size,
           Len(disk) < MaxSamples + MaxSessions
    PROVE  FileFor(old, size) \in Files /\ FileFor(old, size) <= Len(disk) + 1
  <1> DEFINE S == {f \in Files : \/ \A b \in Buffers : disk[b].file # f
                                 \/ FileSize(f) + (IF old = Null THEN 0 ELSE 1 + size) < FileLimit}
             n == Len(disk) + 1
  <1>1. Len(disk) \in Nat /\ Buffers = 1..Len(disk)
    BY DEF FilesOK, DiskOK, Buffers
  <1>2. \A b \in Buffers : disk[b].file \in Files /\ disk[b].file <= b
    BY <1>1, DoneFacts DEF BufferOK
  <1>3. n \in Files
    BY <1>1, BoundsAssumption DEF Files, Addresses
  <1>4. \A b \in Buffers : disk[b].file # n
    BY <1>1, <1>2 DEF Files, Addresses
  <1>5. n \in S
    BY <1>3, <1>4
  <1>6. S \in SUBSET Nat /\ S \subseteq Files
    BY DEF Files, Addresses
  <1> HIDE DEF S
  <1>7. Min(S) \in Files /\ Min(S) <= n
    BY <1>5, <1>6, MinIsLeast
  <1>8. CASE old # Null /\ FileSize(disk[old].file) + 1 + size <= FileLimit
    <2>1. old \in Buffers /\ old <= n
      BY <1>1, <1>8
    <2>2. FileFor(old, size) = disk[old].file
      BY <1>8 DEF FileFor
    <2> QED
      BY <1>1, <1>2, <2>1, <2>2 DEF Files, Addresses
  <1>9. CASE ~(old # Null /\ FileSize(disk[old].file) + 1 + size <= FileLimit)
    <2>1. FileFor(old, size) = Min(S)
      BY <1>9 DEF FileFor, S
    <2> QED
      BY <1>7, <2>1
  <1> QED
    BY <1>8, <1>9

-----------------------------------------------------------------------------
(* What the writer tells the index.                                        *)
LEMMA ChainGrows ==
    ASSUME NEW n \in Nat, NEW chain, ChainOK(chain, n), NEW b \in 1..n
    PROVE  ChainOK(Idx!AddToChain(chain, b), n) /\ ChainOK(<<b>>, n)
  <1>1. ChainOK(<<b>>, n)
    BY DEF ChainOK
  <1>2. ChainOK(Append(chain, b), n)
    <2>1. chain \in Seq(Nat) /\ b \in Nat
      BY DEF ChainOK
    <2>2. /\ Append(chain, b) \in Seq(Nat) /\ Append(chain, b) # <<>>
          /\ Len(Append(chain, b)) = Len(chain) + 1
          /\ \A i \in 1..Len(chain) : Append(chain, b)[i] = chain[i]
          /\ Append(chain, b)[Len(chain) + 1] = b
      BY <2>1, AppendProperties
    <2>3. ASSUME NEW i \in 1..(Len(chain) + 1) PROVE Append(chain, b)[i] \in 1..n
      <3>1. i \in 1..Len(chain) \/ i = Len(chain) + 1
        BY <2>1
      <3> QED
        BY <2>2, <3>1 DEF ChainOK
    <2> QED
      BY <2>2, <2>3 DEF ChainOK
  <1> QED
    BY <1>1, <1>2 DEF Idx!AddToChain

LEMMA InsertedRecords ==
    ASSUME NEW n \in Nat, RecordsOK(index, n),
           NEW range, range.start \in Times, range.end \in Times, NEW b \in 1..n,
           Idx!Insert(range, b)
    PROVE  RecordsOK(index', n)
  <1> DEFINE overlapped == {r \in index : Idx!Overlaps(r, range)}
  <1>1. PICK skipped \in SUBSET {p \in overlapped : p.start = p.end} :
            index' = (index \ (overlapped \ skipped))
                     \cup (UNION {Idx!Outside(r, range) : r \in overlapped \ skipped})
                     \cup Idx!Inserted(range, b, overlapped \ skipped)
    BY DEF Idx!Insert
  <1> DEFINE R == overlapped \ skipped
  <1>2. R \subseteq index
    OBVIOUS
  <1> HIDE DEF R
  <1>3. ChainOK(<<b>>, n)
    BY DEF ChainOK
  <1>4. ASSUME NEW r \in R, NEW x \in Idx!Outside(r, range)
        PROVE  x.start \in Times /\ x.end \in Times /\ ChainOK(x.blocks, n)
    BY <1>2 DEF Idx!Outside, Idx!Record, RecordsOK
  <1>5. ASSUME NEW r \in R
        PROVE  LET x == Idx!Covered(r, range, b)
               IN  x.start \in Times /\ x.end \in Times /\ ChainOK(x.blocks, n)
    <2>1. r.start \in Times /\ r.end \in Times /\ ChainOK(r.blocks, n)
      BY <1>2 DEF RecordsOK
    <2>2. ChainOK(Idx!AddToChain(r.blocks, b), n)
      BY <2>1, ChainGrows
    <2> QED
      BY <2>1, <2>2 DEF Idx!Covered, Idx!Record, Idx!Later, Idx!Earlier
  <1>6. ASSUME NEW g \in Idx!Gaps(range, R)
        PROVE  g[1] \in Times /\ g[2] \in Times
    <2> DEFINE cuts == {range.start, range.end}
                       \cup {x \in UNION {{r.start, r.end} : r \in R} :
                               range.start < x /\ x < range.end}
    <2>1. cuts \subseteq Times
      BY <1>2 DEF RecordsOK
    <2>2. g \in cuts \X cuts
      BY DEF Idx!Gaps
    <2> HIDE DEF cuts
    <2> QED
      BY <2>1, <2>2
  <1>7. ASSUME NEW x \in Idx!Inserted(range, b, R)
        PROVE  x.start \in Times /\ x.end \in Times /\ ChainOK(x.blocks, n)
    <2>1. CASE range.start = range.end
      BY <1>3, <2>1 DEF Idx!Inserted, Idx!Record
    <2>2. CASE range.start # range.end
      <3>1. \/ \E r \in R : x = Idx!Covered(r, range, b)
            \/ \E g \in Idx!Gaps(range, R) : x = Idx!Record(g[1], g[2], <<b>>)
        BY <2>2 DEF Idx!Inserted
      <3>2. CASE \E r \in R : x = Idx!Covered(r, range, b)
        BY <1>5, <3>2
      <3>3. CASE \E g \in Idx!Gaps(range, R) : x = Idx!Record(g[1], g[2], <<b>>)
        BY <1>3, <1>6, <3>3 DEF Idx!Record
      <3> QED
        BY <3>1, <3>2, <3>3
    <2> QED
      BY <2>1, <2>2
  <1>8. ASSUME NEW x \in index'
        PROVE  x.start \in Times /\ x.end \in Times /\ ChainOK(x.blocks, n)
    <2>1. \/ x \in index
          \/ \E r \in R : x \in Idx!Outside(r, range)
          \/ x \in Idx!Inserted(range, b, R)
      BY <1>1 DEF R
    <2> QED
      BY <1>4, <1>7, <2>1 DEF RecordsOK
  <1> QED
    BY <1>8 DEF RecordsOK

LEMMA UpdatedRecords ==
    ASSUME NEW n \in Nat, RecordsOK(index, n),
           NEW range, range.start \in Times, range.end \in Times, NEW b \in 1..n,
           UpdateLast(range, b)
    PROVE  RecordsOK(index', n)
  <1>1. CASE Idx!Insert(range, b)
    BY <1>1, InsertedRecords
  <1>2. CASE \E rec \in index :
               index' = (index \ {rec}) \cup {Idx!Record(range.start, range.end, <<b>>)}
    <2>1. ChainOK(<<b>>, n)
      BY DEF ChainOK
    <2> QED
      BY <1>2, <2>1 DEF RecordsOK, Idx!Record
  <1> QED
    BY <1>1, <1>2 DEF UpdateLast

(* Records that were in order still are when there are more buffers.       *)
LEMMA RecordsStayOK ==
    ASSUME NEW records, NEW n \in Nat, NEW m \in Nat, n <= m, RecordsOK(records, n)
    PROVE  RecordsOK(records, m)
  BY DEF RecordsOK, ChainOK

-----------------------------------------------------------------------------
(* A sample is stored behind those that the header in memory counts, and   *)
(* the header that counts it as well is again true.                        *)
LEMMA HeaderCounts ==
    ASSUME NEW b, NEW n \in Nat, NEW x, BufferOK(x, b, n), NEW h, HeaderOK(h, x, n),
           h.num < x.size, NEW t \in Stamps, h.num > 0 => h.end <= t,
           NEW y, Stores(x, h.num + 1, t, y), y.data \in Seq(Times),
           NEW k \in HeaderType, k.num = h.num + 1, k.end = t, k.next = h.next,
           k.begin = IF h.num = 0 THEN t ELSE h.begin
    PROVE  HeaderOK(k, y, n)
  <1>1. /\ x \in BufferType /\ h \in HeaderType /\ Len(x.data) = x.size
        /\ h.num \in Nat /\ x.size \in Nat /\ t \in Times
    BY DEF BufferOK, HeaderOK, BufferType, HeaderType, Times
  <1>2. k \in HeaderType /\ k.next <= n /\ k.num = h.num + 1 /\ k.end = t
    BY <1>1 DEF HeaderOK, HeaderType
  <1>3. k.begin = IF h.num = 0 THEN t ELSE h.begin
    OBVIOUS
  <1>4. \A j \in 1..x.size : y.data[j] = IF j = h.num + 1 THEN t ELSE x.data[j]
    BY <1>1 DEF Stores, BufferType
  <1>5. /\ \A j \in 1..h.num : y.data[j] = x.data[j]
        /\ y.data[h.num + 1] = t
        /\ y.size = x.size
    BY <1>1, <1>4 DEF Stores
  <1>6. Truthful(h, x.data)
    BY DEF HeaderOK
  <1>7. h.num > 0 => x.data[h.num] <= t /\ h.begin = y.data[1]
    BY <1>1, <1>5, <1>6 DEF Truthful
  <1>8. k.begin = y.data[1] /\ k.end = y.data[k.num]
    BY <1>1, <1>2, <1>3, <1>5, <1>7
  <1>9. ASSUME NEW j \in 1..k.num PROVE y.data[j] # Null
    <2>1. CASE j = h.num + 1
      BY <1>5, <2>1, TimesAreNumbers
    <2>2. CASE j # h.num + 1
      <3>1. j \in 1..h.num
        BY <1>1, <1>2, <2>2
      <3> QED
        BY <1>5, <1>6, <3>1 DEF Truthful
    <2> QED
      BY <2>1, <2>2
  <1>10. ASSUME NEW j \in 2..k.num PROVE y.data[j-1] <= y.data[j]
    <2>1. CASE j = h.num + 1
      <3>1. h.num > 0 /\ h.num \in 1..h.num /\ j - 1 = h.num
        BY <1>1, <2>1
      <3> QED
        BY <1>5, <1>7, <2>1, <3>1
    <2>2. CASE j # h.num + 1
      <3>1. j \in 1..h.num /\ j - 1 \in 1..h.num /\ j \in 2..h.num
        BY <1>1, <1>2, <2>2
      <3> QED
        BY <1>5, <1>6, <3>1 DEF Truthful
    <2> QED
      BY <2>1, <2>2
  <1>11. Truthful(k, y.data)
    BY <1>8, <1>9, <1>10 DEF Truthful
  <1>12. k.num <= y.size
    BY <1>1, <1>2, <1>5
  <1> QED
    BY <1>2, <1>11, <1>12 DEF HeaderOK

LEMMA AtWork ==
    ASSUME IInv, w.pc # "none"
    PROVE  /\ w \in WriterType /\ w.size \in Sizes /\ Len(disk) \in Nat
           /\ w.b = Null \/ w.b \in 1..Len(disk)
           /\ w.pc # "header" => w.b \in 1..Len(disk) /\ w.b # Null
           /\ w.pc \in {"ready", "store"} => w.avail = disk[w.b].size - w.hdr.num
           /\ w.pc = "store" => w.stamp \in Stamps /\ w.hdr = FreshHeader
           /\ w.hdr \in HeaderType /\ w.hdr.num \in Nat /\ w.avail \in Int
           /\ w.kind \in Kinds
  <1>1. w \in WriterType /\ Len(disk) \in Nat
    BY DEF IInv, WriterOK, NoWriter, FilesOK, DiskOK
  <1>2. /\ w.b \in Nat /\ w.hdr \in HeaderType /\ w.hdr.num \in Nat /\ w.avail \in Int
        /\ w.kind \in Kinds
    BY <1>1 DEF WriterType, HeaderType
  <1>3. /\ w.size \in Sizes
        /\ w.b <= Len(disk) /\ (w.b = Null => w.pc = "header")
        /\ w.pc \in {"ready", "store"} => w.avail = disk[w.b].size - w.hdr.num
        /\ w.pc = "store" => w.stamp \in Stamps /\ w.hdr = FreshHeader
    BY DEF IInv, WriterOK, NoWriter
  <1>4. w.b = Null \/ w.b \in 1..Len(disk)
    BY <1>1, <1>2, <1>3 DEF Null
  <1> QED
    BY <1>1, <1>2, <1>3, <1>4

LEMMA StoreStep ==
    ASSUME IInv, NEW t \in Stamps, Store(t), w.pc \in {"ready", "store"}, 0 < w.avail,
           w.hdr.num > 0 => w.hdr.end <= t
    PROVE  /\ FilesOK' /\ Kept /\ Len(disk') = Len(disk)
           /\ Idle' /\ HeaderInMemory' /\ NewIsFresh' /\ WriterOK' /\ w'.pc = "ready"
  <1> DEFINE b == w.b
             x == Settled(b)
             h == w.hdr
             first == IF h.num = 0 THEN t ELSE h.begin
             k == [h EXCEPT !.num = h.num + 1, !.end = t, !.begin = first]
             write == SampleWrite(b, h.num + 1, t)
             n == Len(disk)
  <1>1. /\ w \in WriterType /\ w.size \in Sizes /\ b \in 1..n /\ b # Null
        /\ w.avail = disk[b].size - h.num /\ h \in HeaderType /\ n \in Nat
    BY AtWork
  <1>2. Write(write)
    BY <1>1 DEF Store, HeaderType
  <1>3. w' = [w EXCEPT !.pc = "ready", !.hdr = k, !.avail = w.avail - 1, !.stamp = Null]
    BY DEF Store
  <1>4. write.b = b /\ write.slot = h.num + 1 /\ write.value = t
    BY DEF SampleWrite
  <1>counted. /\ k \in HeaderType /\ k.num = h.num + 1 /\ k.end = t /\ k.next = h.next
        /\ k.begin = IF h.num = 0 THEN t ELSE h.begin
    <2>1. first \in Times /\ t \in Times
      BY <1>1 DEF HeaderType, Times
    <2>2. h \in HeaderType /\ h.num + 1 \in Nat
      BY <1>1, AtWork
    <2> HIDE DEF first, h
    <2>3. /\ k \in HeaderType /\ k.num = h.num + 1 /\ k.end = t /\ k.next = h.next
          /\ k.begin = first
      BY <2>1, <2>2 DEF HeaderType
    <2> QED
      BY <2>3 DEF first
  <1>5. HeaderOK(h, x, n) /\ x.hdr.num <= h.num
    BY <1>1 DEF IInv, HeaderInMemory, Null
  <1>6. BufferOK(x, b, n) /\ x.size = disk[b].size /\ x.file = disk[b].file /\ disk[b].file \in Files
    BY <1>1, DoneFacts DEF IInv, Keeps
  <1>7. /\ x.hdr.num \in Nat /\ h.num \in Nat /\ x.size \in Nat
        /\ h.num < x.size
        /\ h.num + 1 \in (x.hdr.num + 1)..x.size
    BY <1>1, <1>5, <1>6 DEF BufferOK, BufferType, HeaderType
  <1>8. disk' = Flushed({disk[b].file})
    BY <1>2, <1>4 DEF Write
  <1>9. disk'[b] = x /\ Len(disk') = n
    BY <1>1, <1>8, FlushedFacts DEF IInv
  <1>10. WriteOK(write, disk[b].file, disk')
    BY <1>1, <1>4, <1>6, <1>7, <1>9 DEF WriteOK
  <1>11. FilesOK' /\ Kept
    <2>1. /\ write.b \in 1..Len(disk)
          /\ WriteOK(write, disk[write.b].file, disk')
      BY <1>1, <1>4, <1>10
    <2> HIDE DEF write
    <2> QED
      BY <1>2, <1>4, <2>1, WriteFacts DEF IInv
  <1>12. w'.b = b /\ w'.pc = "ready" /\ w'.hdr = k /\ w'.size = w.size
         /\ w'.avail = w.avail - 1
    BY <1>1, <1>3 DEF WriterType
  <1> DEFINE y == [x EXCEPT !.data[h.num + 1] = t]
  <1>13. Settled(w.b)' = y
    <2>1. pending'[disk'[w'.b].file] = write
      <3>1. pending' = [pending EXCEPT ![disk[b].file] = write]
        BY <1>2, <1>4 DEF Write
      <3> QED
        BY <1>6, <1>9, <1>12, <3>1 DEF IInv, FilesOK, WritesOK
    <2>2. Settled(w.b)' = IF write.slot = 0 THEN [x EXCEPT !.hdr = t] ELSE y
      BY <1>4, <1>9, <1>12, <2>1 DEF Settled, Done
    <2> QED
      BY <1>4, <1>7, <2>2
  <1>14. Stores(x, h.num + 1, t, y) /\ y.hdr = x.hdr
    BY <1>6 DEF Stores, BufferOK, BufferType
  <1>15. y.data \in Seq(Times)
    <2> HIDE DEF y
    <2>1. BufferOK(y, b, n)
      BY <1>1, <1>6, <1>7, <1>14, SampleWritten
    <2> QED
      BY <2>1 DEF BufferOK, BufferType
  <1>16. HeaderOK(k, y, n)
    <2> HIDE DEF x, y, k, h
    <2> QED
      BY <1>1, <1>5, <1>6, <1>7, <1>14, <1>15, <1>counted, HeaderCounts DEF h
  <1>17. HeaderInMemory'
    <2> HIDE DEF x, y, k, h
    <2>1. y.hdr.num <= k.num
      BY <1>5, <1>7, <1>14, <1>counted
    <2> QED
      BY <1>9, <1>12, <1>13, <1>16, <2>1 DEF HeaderInMemory
  <1>18. WriterOK'
    <2>2. w' \in WriterType
      <3>1. w \in WriterType
        BY <1>1
      <3> HIDE DEF k, y, x, h
      <3>2. w.avail - 1 \in Int
        BY AtWork
      <3> QED
        BY <1>3, <1>counted, <3>1, <3>2, TimesAreNumbers DEF WriterType
    <2>3. w'.avail = disk'[w'.b].size - w'.hdr.num
      BY <1>1, <1>6, <1>7, <1>9, <1>12, <1>counted
    <2> HIDE DEF x, y, k, h
    <2> QED
      BY <1>1, <1>9, <1>12, <2>2, <2>3 DEF WriterOK
  <1>19. Idle' /\ NewIsFresh'
    BY <1>12 DEF Idle, NewIsFresh
  <1> QED
    BY <1>9, <1>11, <1>12, <1>17, <1>18, <1>19

-----------------------------------------------------------------------------
(* The steps of the writer, one by one.                                    *)
LEMMA NextSizeInSizes == ASSUME NEW n \in Nat PROVE NextSize(n) \in Sizes
  BY SizesAssumption DEF NextSize, Sizes

LEMMA StoredAreTimes == ASSUME FilesOK PROVE Stored \in SUBSET Times
  <1>1. Buffers = 1..Len(disk)
    BY DEF FilesOK, DiskOK, Buffers
  <1>2. \A b \in Buffers : disk[b].data \in Seq(Times)
    BY <1>1, DoneFacts DEF BufferOK, BufferType
  <1>3. \A b \in Buffers : ToSet(disk[b].data) \subseteq Times
    BY <1>2 DEF ToSet
  <1> QED
    BY <1>3 DEF Stored

(* Nothing happens to the files.                                           *)
LEMMA FilesStay ==
    ASSUME FilesOK, UNCHANGED <<disk, pending>>
    PROVE  /\ FilesOK' /\ Kept /\ Len(disk') = Len(disk)
           /\ \A b \in 1..Len(disk) : disk'[b] = disk[b] /\ Settled(b)' = Settled(b)
  <1>1. FilesOK'
    BY DEF FilesOK
  <1>2. Kept
    BY DoneFacts, KeepsItself DEF Kept, BufferOK, BufferType, HeaderType
  <1> QED
    BY <1>1, <1>2 DEF Settled, Done

LEMMA SizesAreNumbers == Sizes \subseteq Nat
  BY SizesAssumption DEF Sizes

LEMMA WriterTyped ==
    ASSUME NEW pc \in {"ready", "header"}, NEW kind \in Kinds, NEW b \in Nat,
           NEW hdr \in HeaderType, NEW avail \in Int, NEW size \in Nat,
           NEW null \in Times, null \in Nat, NEW old \in SUBSET Times, NEW v,
           v = [pc |-> pc, kind |-> kind, b |-> b, hdr |-> hdr, avail |-> avail, size |-> size,
                new |-> null, stamp |-> null, old |-> old]
    PROVE  v \in WriterType
  BY DEF WriterType

LEMMA WriterFields ==
    ASSUME FilesOK, NEW pc \in {"ready", "header"}, NEW kind \in Kinds, NEW b \in Nat,
           NEW hdr \in HeaderType, NEW avail \in Int, NEW size \in Sizes,
           NEW v, v = Writer(pc, kind, b, hdr, avail, size)
    PROVE  /\ v \in WriterType
           /\ v.pc = pc /\ v.b = b /\ v.hdr = hdr /\ v.avail = avail /\ v.size = size
  <1>1. Stored \in SUBSET Times /\ Null \in Times /\ Null \in Nat /\ size \in Nat
    BY StoredAreTimes, TimesAreNumbers, SizesAreNumbers DEF Null
  <1>2. v = [pc |-> pc, kind |-> kind, b |-> b, hdr |-> hdr, avail |-> avail, size |-> size,
             new |-> Null, stamp |-> Null, old |-> Stored]
    BY DEF Writer
  <1>3. v \in WriterType
    BY <1>1, <1>2, WriterTyped
  <1> QED
    BY <1>2, <1>3

LEMMA ContinuedOK ==
    ASSUME FilesOK, NEW kind \in Kinds, NEW b \in 1..Len(disk), NEW num \in Nat, NEW v,
           v = Continued(kind, b, num)
    PROVE  /\ v \in WriterType /\ v.size \in Sizes
           /\ v.b = b /\ v.hdr = disk[b].hdr /\ v.pc \in {"ready", "header"}
           /\ v.pc = "ready" => v.avail = disk[b].size - disk[b].hdr.num
  <1>1. /\ disk[b].size \in Nat /\ disk[b].hdr \in HeaderType /\ disk[b].hdr.num \in Nat
        /\ b \in Nat
    BY DoneFacts DEF BufferOK, BufferType, HeaderType
  <1>2. disk[b].size - disk[b].hdr.num \in Int
    BY <1>1
  <1> DEFINE size == NextSize(IF disk[b].size > num THEN disk[b].size ELSE num)
  <1>3. NextSize(num) \in Sizes /\ size \in Sizes
    BY <1>1, NextSizeInSizes
  <1> HIDE DEF size
  <1>4. CASE disk[b].kind = kind
    <2>1. v = Writer("ready", kind, b, disk[b].hdr, disk[b].size - disk[b].hdr.num, size)
      BY <1>4 DEF Continued, size
    <2> QED
      BY <1>1, <1>2, <1>3, <2>1, WriterFields
  <1>5. CASE disk[b].kind # kind
    <2>1. v = Writer("header", kind, b, disk[b].hdr, 0, NextSize(num))
      BY <1>5 DEF Continued
    <2> QED
      BY <1>1, <1>3, <2>1, WriterFields
  <1> QED
    BY <1>4, <1>5

LEMMA OpenStep ==
    ASSUME IInv, NEW kind \in Kinds, NEW num \in NumSamples, Open(kind, num)
    PROVE  IInv' /\ Kept
  <1>0. num \in Nat
    BY NumAssumption
  <1>1. /\ w.pc = "none" /\ sessions < MaxSessions /\ sessions' = sessions + 1
        /\ UNCHANGED <<disk, pending, index, crash, samples>>
    BY DEF Open
  <1>2. /\ FilesOK' /\ Kept /\ Len(disk') = Len(disk) /\ Len(disk) \in Nat
        /\ \A b \in 1..Len(disk) : disk'[b] = disk[b] /\ Settled(b)' = Settled(b)
    BY <1>1, FilesStay DEF IInv, FilesOK, DiskOK
  <1>3. IndexOK'
    BY <1>1, <1>2 DEF IInv, IndexOK
  <1>4. CountersOK'
    BY <1>1, <1>2, BoundsAssumption DEF IInv, CountersOK
  <1>5. \A f \in Files : pending[f] = NoWrite
    BY <1>1 DEF IInv, Idle
  <1>6. CASE w' = Writer("header", kind, Null, FreshHeader, 0, NextSize(num))
    <2>1. w' \in WriterType /\ w'.size \in Sizes /\ w'.b = Null /\ w'.pc = "header"
      <3>1. NextSize(num) \in Sizes /\ Null \in Nat
        BY <1>0, NextSizeInSizes DEF Null
      <3>2. FreshHeader \in HeaderType
        BY TimesAreNumbers DEF FreshHeader, HeaderType, Null
      <3> QED
        BY <1>6, <3>1, <3>2, WriterFields DEF IInv
    <2>2. WriterOK'
      BY <1>2, <2>1 DEF WriterOK, Null
    <2>3. Idle' /\ HeaderInMemory' /\ NewIsFresh'
      BY <2>1 DEF Idle, HeaderInMemory, NewIsFresh
    <2> QED
      BY <1>2, <1>3, <1>4, <2>2, <2>3 DEF IInv
  <1>7. CASE \E rec \in index : w' = Continued(kind, rec.blocks[1], num)
    <2>1. PICK rec \in index : w' = Continued(kind, rec.blocks[1], num)
      BY <1>7
    <2> DEFINE b == rec.blocks[1]
    <2>2. b \in 1..Len(disk)
      BY DEF IInv, IndexOK, RecordsOK, ChainOK
    <2> HIDE DEF b
    <2>3. /\ w' \in WriterType /\ w'.size \in Sizes /\ w'.b = b /\ w'.hdr = disk[b].hdr
          /\ w'.pc \in {"ready", "header"}
          /\ w'.pc = "ready" => w'.avail = disk[b].size - w'.hdr.num
      BY <1>0, <2>1, <2>2, ContinuedOK DEF IInv, b
    <2>4. BufferOK(disk[b], b, Len(disk)) /\ disk[b].file \in Files /\ disk[b].hdr.num \in Nat
      BY <2>2, DoneFacts DEF IInv, BufferOK, BufferType, HeaderType
    <2>5. Settled(b)' = disk[b]
      <3>1. Settled(b) = disk[b]
        BY <1>5, <2>2, <2>4, DoneFacts DEF IInv, NoWrite, Null
      <3> QED
        BY <1>2, <2>2, <3>1
    <2>6. Settled(w.b)' = disk[b]
      BY <2>3, <2>5 DEF Settled, Done
    <2>7. HeaderInMemory'
      BY <1>2, <2>3, <2>4, <2>6 DEF HeaderInMemory, BufferOK
    <2>8. WriterOK'
      BY <1>2, <2>2, <2>3 DEF WriterOK, Null
    <2>9. Idle' /\ NewIsFresh'
      BY <2>3 DEF Idle, NewIsFresh
    <2> QED
      BY <1>2, <1>3, <1>4, <2>7, <2>8, <2>9 DEF IInv
  <1> QED
    BY <1>6, <1>7 DEF Open

(* The writer is where it was, with the same header.                       *)
LEMMA HeaderStays ==
    ASSUME IInv, w.pc # "none", UNCHANGED <<disk, pending>>, w'.b = w.b, w'.hdr = w.hdr
    PROVE  HeaderInMemory'
  <1>1. Settled(w.b)' = Settled(w.b)
    BY DEF Settled, Done
  <1> QED
    BY <1>1 DEF IInv, HeaderInMemory

LEMMA AddStep == ASSUME IInv, NEW stamp \in Stamps, Add(stamp) PROVE IInv' /\ Kept
  <1>1. /\ w.pc = "ready" /\ samples < MaxSamples /\ samples' = samples + 1
        /\ UNCHANGED <<index, crash, sessions>>
    BY DEF Add
  <1>2. /\ w \in WriterType /\ w.size \in Sizes /\ w.b \in 1..Len(disk) /\ w.b # Null
        /\ Len(disk) \in Nat /\ w.avail = disk[w.b].size - w.hdr.num /\ w.avail \in Int
    BY <1>1, AtWork
  <1>3. ASSUME Len(disk') = Len(disk) PROVE IndexOK' /\ CountersOK'
    BY <1>1, <1>2, <1>3, BoundsAssumption DEF IInv, IndexOK, CountersOK
  <1>4. CASE Stale(stamp)
    <2>1. UNCHANGED <<w, disk, pending>>
      BY <1>4 DEF Add
    <2>2. /\ w'.pc = "ready" /\ w'.b = w.b /\ w'.hdr = w.hdr /\ w'.avail = w.avail
          /\ w'.size = w.size /\ w' \in WriterType
      BY <1>1, <1>2, <2>1 DEF WriterType
    <2>3. FilesOK' /\ Kept /\ Len(disk') = Len(disk)
      BY <2>1, FilesStay DEF IInv
    <2>4. HeaderInMemory'
      BY <1>1, <2>1, <2>2, HeaderStays
    <2>5. WriterOK'
      BY <1>1, <1>2, <2>1, <2>2 DEF WriterOK
    <2>6. Idle' /\ NewIsFresh'
      BY <2>2 DEF Idle, NewIsFresh
    <2> QED
      BY <1>3, <2>3, <2>4, <2>5, <2>6 DEF IInv
  <1>5. CASE ~Stale(stamp) /\ Room
    <2>1. Store(stamp)
      BY <1>5 DEF Add
    <2>2. 0 < w.avail
      BY <1>2, <1>5 DEF Room
    <2>3. w.hdr.end <= stamp
      <3>1. w.hdr.end \in Nat /\ stamp \in Nat
        BY <1>1, AtWork, TimesAreNumbers, StampsAssumption DEF HeaderType
      <3> QED
        BY <1>5, <3>1 DEF Stale
    <2>4. /\ FilesOK' /\ Kept /\ Len(disk') = Len(disk)
          /\ Idle' /\ HeaderInMemory' /\ NewIsFresh' /\ WriterOK'
      BY <1>1, <2>1, <2>2, <2>3, StoreStep
    <2> QED
      BY <1>3, <2>4 DEF IInv
  <1>6. CASE ~Stale(stamp) /\ ~Room
    <2>1. w' = [w EXCEPT !.pc = "header", !.stamp = stamp] /\ UNCHANGED <<disk, pending>>
      BY <1>6 DEF Add
    <2>2. /\ w'.pc = "header" /\ w'.b = w.b /\ w'.hdr = w.hdr
          /\ w'.size = w.size /\ w' \in WriterType
      BY <1>1, <1>2, <2>1 DEF WriterType, Times
    <2>3. FilesOK' /\ Kept /\ Len(disk') = Len(disk)
      BY <2>1, FilesStay DEF IInv
    <2>4. HeaderInMemory'
      BY <1>1, <2>1, <2>2, HeaderStays
    <2>5. WriterOK'
      BY <1>1, <1>2, <2>1, <2>2 DEF WriterOK
    <2>6. Idle' /\ NewIsFresh'
      BY <2>2 DEF Idle, NewIsFresh
    <2>7. CountersOK'
      BY <1>1, <1>2, <2>2, <2>3, BoundsAssumption DEF IInv, CountersOK
    <2> QED
      BY <1>3, <2>3, <2>4, <2>5, <2>6, <2>7 DEF IInv
  <1> QED
    BY <1>4, <1>5, <1>6

LEMMA StoreInNewStep == ASSUME IInv, StoreInNew PROVE IInv' /\ Kept
  <1>1. w.pc = "store" /\ Store(w.stamp) /\ UNCHANGED <<index, crash, sessions, samples>>
    BY DEF StoreInNew
  <1>2. /\ w.stamp \in Stamps /\ w.hdr = FreshHeader /\ w.b \in 1..Len(disk)
        /\ w.avail = disk[w.b].size - w.hdr.num /\ Len(disk) \in Nat
    BY <1>1, AtWork
  <1>3. w.hdr.num = 0 /\ 0 < w.avail
    <2>1. disk[w.b].size \in Nat \ {0}
      BY <1>2, DoneFacts, SizesAssumption DEF IInv, BufferOK, Sizes
    <2> QED
      BY <1>2, <2>1 DEF FreshHeader
  <1>4. /\ FilesOK' /\ Kept /\ Len(disk') = Len(disk)
        /\ Idle' /\ HeaderInMemory' /\ NewIsFresh' /\ WriterOK' /\ w'.pc = "ready"
    BY <1>1, <1>2, <1>3, StoreStep
  <1>5. IndexOK' /\ CountersOK'
    BY <1>1, <1>2, <1>4 DEF IInv, IndexOK, CountersOK
  <1> QED
    BY <1>4, <1>5 DEF IInv

(* A header in memory is written to the file.                              *)
LEMMA HeaderWriteStep ==
    ASSUME IInv, w.pc \in {"ready", "link"}, NEW h, h \in HeaderType, h.num = w.hdr.num,
           h.begin = w.hdr.begin, h.end = w.hdr.end, h.next <= Len(disk),
           Write(HeaderWrite(w.b, h)), w'.b = w.b, w'.hdr = w.hdr
    PROVE  /\ FilesOK' /\ Kept /\ Len(disk') = Len(disk) /\ HeaderInMemory'
           /\ \A b \in 1..Len(disk) : disk'[b] \in {disk[b], Settled(b)}
           /\ \A f \in Files : pending'[f] = pending[f] \/ pending'[f].b = w.b
  <1> DEFINE b == w.b
             x == Settled(w.b)
             write == HeaderWrite(w.b, h)
             n == Len(disk)
  <1>1. b \in 1..n /\ b # Null /\ n \in Nat
    BY AtWork
  <1>2. write.b = b /\ write.slot = 0 /\ write.value = h
    BY DEF HeaderWrite
  <1>3. HeaderOK(w.hdr, x, n) /\ x.hdr.num <= w.hdr.num
    BY <1>1 DEF IInv, HeaderInMemory
  <1>4. BufferOK(x, b, n) /\ x.size = disk[b].size /\ x.file = disk[b].file /\ disk[b].file \in Files
    BY <1>1, DoneFacts DEF IInv, Keeps
  <1>5. disk' = Flushed({disk[b].file}) /\ pending' = [pending EXCEPT ![disk[b].file] = write]
    BY <1>2 DEF Write
  <1>6. disk'[b] = x /\ Len(disk') = n
    BY <1>1, <1>5, FlushedFacts DEF IInv
  <1> HIDE DEF x
  <1>7. HeaderOK(h, x, n)
    BY <1>3 DEF HeaderOK, Truthful
  <1>8. write.b \in 1..Len(disk) /\ WriteOK(write, disk[write.b].file, disk')
    BY <1>1, <1>2, <1>3, <1>4, <1>6, <1>7 DEF WriteOK
  <1>9. /\ FilesOK' /\ Kept
        /\ \A c \in 1..Len(disk) : disk'[c] \in {disk[c], Settled(c)}
        /\ \A f \in Files : pending'[f] \in {pending[f], write}
    <2>1. Write(write)
      OBVIOUS
    <2> HIDE DEF write
    <2> QED
      BY <1>8, <2>1, WriteFacts DEF IInv
  <1> DEFINE y == [x EXCEPT !.hdr = h]
  <1>10. Settled(w.b)' = y
    <2>1. pending'[disk'[w'.b].file] = write
      BY <1>4, <1>5, <1>6 DEF IInv, FilesOK, WritesOK
    <2>2. disk'[w'.b] = x /\ w'.b = b
      BY <1>6
    <2> HIDE DEF write, b
    <2> QED
      BY <1>2, <2>1, <2>2 DEF Settled, Done
  <1>11. y.hdr = h /\ y.data = x.data /\ y.size = x.size
    BY <1>4 DEF BufferOK, BufferType
  <1> HIDE DEF y
  <1>12. HeaderOK(w.hdr, y, n) /\ y.hdr.num <= w.hdr.num
    <2>1. w.hdr.num \in Nat
      BY AtWork
    <2> QED
      BY <1>3, <1>11, <2>1 DEF HeaderOK
  <1>13. HeaderInMemory'
    BY <1>6, <1>10, <1>12 DEF HeaderInMemory
  <1> QED
    BY <1>2, <1>6, <1>9, <1>13

LEMMA LinkOldStep == ASSUME IInv, LinkOld PROVE IInv' /\ Kept
  <1> DEFINE h == [w.hdr EXCEPT !.next = w.new]
  <1>1. /\ w.pc = "link" /\ Write(HeaderWrite(w.b, h)) /\ w' = [w EXCEPT !.pc = "list"]
        /\ UNCHANGED <<index, crash, sessions, samples>>
    BY DEF LinkOld
  <1>2. /\ w \in WriterType /\ w.size \in Sizes /\ w.b \in 1..Len(disk) /\ w.b # Null
        /\ Len(disk) \in Nat /\ w.hdr \in HeaderType
    BY <1>1, AtWork
  <1>3. /\ w.new \in 1..Len(disk) /\ w.new # w.b /\ disk[w.new].hdr = FreshHeader
        /\ pending[disk[w.new].file].b # w.new
    BY <1>1 DEF IInv, NewIsFresh
  <1>4. /\ h \in HeaderType /\ h.num = w.hdr.num /\ h.begin = w.hdr.begin
        /\ h.end = w.hdr.end /\ h.next <= Len(disk)
    BY <1>2, <1>3 DEF HeaderType
  <1> HIDE DEF h
  <1>5. /\ w'.pc = "list" /\ w'.b = w.b /\ w'.hdr = w.hdr /\ w'.size = w.size
        /\ w'.new = w.new /\ w' \in WriterType
    BY <1>1, <1>2 DEF WriterType
  <1>6. /\ FilesOK' /\ Kept /\ Len(disk') = Len(disk) /\ HeaderInMemory'
        /\ \A b \in 1..Len(disk) : disk'[b] \in {disk[b], Settled(b)}
        /\ \A f \in Files : pending'[f] = pending[f] \/ pending'[f].b = w.b
    BY <1>1, <1>4, <1>5, HeaderWriteStep
  <1>7. NewIsFresh'
    <2>1. disk'[w.new] = disk[w.new] /\ disk[w.new].file \in Files
      BY <1>3, <1>6, DoneFacts DEF IInv
    <2>2. pending'[disk'[w.new].file].b # w.new
      BY <1>3, <1>6, <2>1
    <2> QED
      BY <1>3, <1>5, <1>6, <2>1, <2>2 DEF NewIsFresh
  <1>8. WriterOK'
    BY <1>2, <1>5, <1>6 DEF WriterOK
  <1>9. Idle' /\ IndexOK' /\ CountersOK'
    BY <1>1, <1>5, <1>6 DEF IInv, Idle, IndexOK, CountersOK
  <1> QED
    BY <1>6, <1>7, <1>8, <1>9 DEF IInv

LEMMA CloseHeaderStep == ASSUME IInv, CloseHeader PROVE IInv' /\ Kept
  <1>1. /\ w.pc = "ready" /\ Write(HeaderWrite(w.b, w.hdr)) /\ w' = [w EXCEPT !.pc = "list last"]
        /\ UNCHANGED <<index, crash, sessions, samples>>
    BY DEF CloseHeader
  <1>2. /\ w \in WriterType /\ w.size \in Sizes /\ w.b \in 1..Len(disk) /\ w.b # Null
        /\ Len(disk) \in Nat /\ w.hdr \in HeaderType
    BY <1>1, AtWork
  <1>3. w.hdr.next <= Len(disk)
    BY <1>1, <1>2 DEF IInv, HeaderInMemory, HeaderOK
  <1>4. /\ w'.pc = "list last" /\ w'.b = w.b /\ w'.hdr = w.hdr /\ w'.size = w.size
        /\ w' \in WriterType
    BY <1>1, <1>2 DEF WriterType
  <1>5. FilesOK' /\ Kept /\ Len(disk') = Len(disk) /\ HeaderInMemory'
    BY <1>1, <1>2, <1>3, <1>4, HeaderWriteStep
  <1>6. WriterOK'
    <2>1. w'.b # Null /\ w'.size \in Sizes
      BY <1>2, <1>4, Zenon
    <2>2. w'.b \in 1..Len(disk')
      BY <1>2, <1>4, <1>5, Zenon
    <2>3. w'.b <= Len(disk')
      BY <2>2
    <2> QED
      BY <1>4, <2>1, <2>3 DEF WriterOK
  <1>7. Idle' /\ NewIsFresh' /\ IndexOK' /\ CountersOK'
    BY <1>1, <1>4, <1>5 DEF IInv, Idle, NewIsFresh, IndexOK, CountersOK
  <1> QED
    BY <1>5, <1>6, <1>7 DEF IInv

(* The interval that the writer tells the index is one of time stamps.     *)
LEMMA ListedOK ==
    ASSUME IInv, w.pc \in {"list", "list last"}, Len(disk') = Len(disk),
           UpdateLast(Interval(w.hdr.begin, w.hdr.end), w.b)
    PROVE  IndexOK'
  <1> DEFINE range == Interval(w.hdr.begin, w.hdr.end)
  <1>1. w.b \in 1..Len(disk) /\ Len(disk) \in Nat /\ w.hdr \in HeaderType
    BY AtWork
  <1>2. range.start \in Times /\ range.end \in Times
    BY <1>1 DEF HeaderType, Interval
  <1> HIDE DEF range
  <1>3. RecordsOK(index', Len(disk))
    BY <1>1, <1>2, UpdatedRecords DEF IInv, IndexOK, range
  <1> QED
    BY <1>3 DEF IndexOK

LEMMA ListLastStep == ASSUME IInv, ListLast PROVE IInv' /\ Kept
  <1>1. /\ w.pc = "list last" /\ UpdateLast(Interval(w.hdr.begin, w.hdr.end), w.b)
        /\ w' = [w EXCEPT !.pc = "files"]
        /\ UNCHANGED <<disk, pending, crash, sessions, samples>>
    BY DEF ListLast
  <1>2. /\ w \in WriterType /\ w.size \in Sizes /\ w.b \in 1..Len(disk) /\ w.b # Null
        /\ Len(disk) \in Nat
    BY <1>1, AtWork
  <1>3. /\ w'.pc = "files" /\ w'.b = w.b /\ w'.hdr = w.hdr /\ w'.size = w.size
        /\ w' \in WriterType
    BY <1>1, <1>2 DEF WriterType
  <1>4. FilesOK' /\ Kept /\ Len(disk') = Len(disk)
    BY <1>1, FilesStay DEF IInv
  <1>5. HeaderInMemory'
    BY <1>1, <1>3, HeaderStays
  <1>6. IndexOK'
    BY <1>1, <1>4, ListedOK
  <1>7. WriterOK'
    BY <1>2, <1>3, <1>4 DEF WriterOK
  <1>8. Idle' /\ NewIsFresh' /\ CountersOK'
    BY <1>1, <1>3, <1>4 DEF IInv, Idle, NewIsFresh, CountersOK
  <1> QED
    BY <1>4, <1>5, <1>6, <1>7, <1>8 DEF IInv

(* The writer goes on in a fresh buffer.                                   *)
LEMMA SwitchedFacts ==
    ASSUME w \in WriterType, NEW new \in Nat, NEW size \in Sizes,
           NEW v, v = Switched(new, size)
    PROVE  /\ v \in WriterType /\ v.size \in Sizes /\ v.b = new /\ v.hdr = FreshHeader
           /\ v.avail = size /\ v.pc \in {"ready", "store"}
           /\ v.pc = "store" => v.stamp \in Stamps
  <1>1. /\ size \in Int /\ Null \in Nat
        /\ NextSize(size) \in Sizes /\ NextSize(size) \in Nat
    <2>1. size \in Nat /\ Null \in Nat
      BY SizesAreNumbers DEF Null
    <2>2. NextSize(size) \in Sizes
      BY <2>1, NextSizeInSizes
    <2>3. NextSize(size) \in Nat
      BY <2>2, SizesAreNumbers
    <2>4. size \in Int
      BY <2>1
    <2> QED
      BY <2>1, <2>2, <2>3, <2>4
  <1>2. FreshHeader \in HeaderType
    BY TimesAreNumbers DEF FreshHeader, HeaderType, Null
  <1>3. w.stamp \in Times
    BY DEF WriterType
  <1>4. PICK pc \in {"ready", "store"} :
           /\ v = [w EXCEPT !.pc = pc, !.b = new, !.hdr = FreshHeader, !.avail = size,
                            !.size = NextSize(size), !.new = Null]
           /\ pc = "store" => w.stamp # Null
    BY DEF Switched
  <1>5. v \in WriterType
    BY <1>1, <1>2, <1>4 DEF WriterType
  <1>6. /\ v.pc = pc /\ v.b = new /\ v.hdr = FreshHeader /\ v.avail = size
        /\ v.size = NextSize(size) /\ v.stamp = w.stamp
    BY <1>4 DEF WriterType
  <1> QED
    BY <1>1, <1>3, <1>4, <1>5, <1>6 DEF Times

LEMMA SwitchedOK ==
    ASSUME IInv, w.pc # "none", FilesOK', NEW new \in 1..Len(disk'), NEW size \in Sizes,
           w' = Switched(new, size), disk'[new].hdr = FreshHeader, disk'[new].size = size,
           pending'[disk'[new].file].b # new
    PROVE  /\ HeaderInMemory' /\ NewIsFresh' /\ WriterOK' /\ Idle'
           /\ w'.pc \in {"ready", "store"}
  <1>1. /\ w' \in WriterType /\ w'.size \in Sizes /\ w'.b = new /\ w'.hdr = FreshHeader
        /\ w'.avail = size /\ w'.pc \in {"ready", "store"}
        /\ w'.pc = "store" => w'.stamp \in Stamps
    BY AtWork, SwitchedFacts
  <1>2. Len(disk') \in Nat /\ BufferOK(disk'[new], new, Len(disk'))
    BY DEF FilesOK, DiskOK
  <1>3. Settled(w.b)' = disk'[new]
    BY <1>1 DEF Settled, Done
  <1>4. disk'[new].size \in Nat /\ FreshHeader.num = 0
    BY SizesAreNumbers DEF FreshHeader
  <1>5. HeaderInMemory'
    BY <1>1, <1>2, <1>3, <1>4, FreshHeaderOK DEF HeaderInMemory
  <1>6. WriterOK'
    BY <1>1, <1>2, <1>4 DEF WriterOK, Null
  <1>7. NewIsFresh' /\ Idle'
    BY <1>1 DEF NewIsFresh, Idle
  <1> QED
    BY <1>1, <1>5, <1>6, <1>7

LEMMA ListOldStep == ASSUME IInv, ListOld PROVE IInv' /\ Kept
  <1>1. /\ w.pc = "list" /\ UpdateLast(Interval(w.hdr.begin, w.hdr.end), w.b)
        /\ w' = Switched(w.new, disk[w.new].size)
        /\ UNCHANGED <<disk, pending, crash, sessions, samples>>
    BY DEF ListOld
  <1>2. FilesOK' /\ Kept /\ Len(disk') = Len(disk)
    BY <1>1, FilesStay DEF IInv
  <1>3. IndexOK'
    BY <1>1, <1>2, ListedOK
  <1>4. /\ w.new \in 1..Len(disk) /\ disk[w.new].hdr = FreshHeader
        /\ pending[disk[w.new].file].b # w.new /\ disk[w.new].size \in Sizes
    BY <1>1, DoneFacts DEF IInv, NewIsFresh, BufferOK
  <1>5. /\ HeaderInMemory' /\ NewIsFresh' /\ WriterOK' /\ Idle'
        /\ w'.pc \in {"ready", "store"}
    <2> DEFINE new == w.new
               size == disk[w.new].size
    <2>1. /\ new \in 1..Len(disk') /\ size \in Sizes /\ w' = Switched(new, size)
          /\ disk'[w.new].hdr = FreshHeader /\ disk'[w.new].size = size
          /\ pending'[disk'[w.new].file].b # w.new
      BY <1>1, <1>2, <1>4
    <2> QED
      BY <1>1, <1>2, <2>1, SwitchedOK
  <1>6. CountersOK'
    BY <1>1, <1>2, <1>5 DEF IInv, CountersOK
  <1> QED
    BY <1>2, <1>3, <1>5, <1>6 DEF IInv

LEMMA CloseFilesStep == ASSUME IInv, CloseFiles PROVE IInv' /\ Kept
  <1>1. /\ disk' = Flushed(Files) /\ pending' = [f \in Files |-> NoWrite] /\ w' = NoWriter
        /\ w.pc = "files" /\ UNCHANGED <<index, crash, sessions, samples>>
    BY DEF CloseFiles
  <1>2. FilesOK' /\ Kept /\ Len(disk') = Len(disk)
    BY <1>1, AllFlushed DEF IInv
  <1>3. w'.pc = "none"
    BY <1>1 DEF NoWriter
  <1>4. WriterOK' /\ Idle' /\ HeaderInMemory' /\ NewIsFresh'
    BY <1>1, <1>3 DEF WriterOK, Idle, HeaderInMemory, NewIsFresh
  <1>5. IndexOK' /\ CountersOK'
    BY <1>1, <1>2, <1>3 DEF IInv, IndexOK, CountersOK
  <1> QED
    BY <1>2, <1>4, <1>5 DEF IInv

LEMMA CrashStep == ASSUME IInv, Crash PROVE IInv' /\ Kept
  <1>1. PICK fs \in SUBSET Files : disk' = Flushed(fs)
    BY DEF Crash
  <1>2. /\ pending' = [f \in Files |-> NoWrite] /\ w' = NoWriter /\ w.pc # "none"
        /\ crash' \in {"torn", "clean"} /\ UNCHANGED <<index, sessions, samples>>
    BY DEF Crash
  <1>3. FilesOK' /\ Kept /\ Len(disk') = Len(disk) /\ Len(disk) \in Nat
    BY <1>1, <1>2, AllFlushed DEF IInv, FilesOK, DiskOK
  <1>4. w'.pc = "none"
    BY <1>2 DEF NoWriter
  <1>5. WriterOK' /\ Idle' /\ HeaderInMemory' /\ NewIsFresh'
    BY <1>2, <1>4 DEF WriterOK, Idle, HeaderInMemory, NewIsFresh
  <1>6. IndexOK' /\ CountersOK'
    BY <1>2, <1>3, <1>4 DEF IInv, IndexOK, CountersOK
  <1> QED
    BY <1>3, <1>5, <1>6 DEF IInv

(* The files when the buffer new was added to file f, and all writes to    *)
(* the files fs, f among them, were done.                                  *)
LEMMA NewBufferFacts ==
    ASSUME FilesOK, NEW fs, NEW f \in Files, f \in fs, f <= Len(disk) + 1,
           NEW size \in Sizes, NEW kind \in Kinds,
           disk' = Append(Flushed(fs), EmptyBuffer(f, size, kind)),
           pending' = [g \in Files |-> IF g \in fs THEN NoWrite ELSE pending[g]]
    PROVE  /\ FilesOK' /\ Kept /\ Len(disk') = Len(disk) + 1
           /\ \A b \in 1..Len(disk) :
                 disk'[b] = IF disk[b].file \in fs THEN Settled(b) ELSE disk[b]
           /\ disk'[Len(disk) + 1] = EmptyBuffer(f, size, kind)
  <1> DEFINE n == Len(disk)
             d == Flushed(fs)
             x == EmptyBuffer(f, size, kind)
  <1>1. n \in Nat
    BY DEF FilesOK, DiskOK
  <1>2. /\ DiskOK(d) /\ Len(d) = n
        /\ \A b \in 1..n : /\ Keeps(disk[b], d[b])
                            /\ d[b] = IF disk[b].file \in fs THEN Settled(b) ELSE disk[b]
    BY FlushedFacts
  <1>3. BufferOK(x, n + 1, n + 1)
    BY <1>1, EmptyBufferOK
  <1> HIDE DEF d, x
  <1>4. /\ DiskOK(disk') /\ Len(disk') = n + 1
        /\ \A b \in 1..n : disk'[b] = d[b]
        /\ disk'[n + 1] = x
        /\ \A write, g : WriteOK(write, g, d) => WriteOK(write, g, disk')
    BY <1>2, <1>3, BufferAdded DEF d, x
  <1>5. /\ pending' = [g \in Files |-> pending'[g]]
        /\ \A g \in Files : pending'[g] = IF g \in fs THEN NoWrite ELSE pending[g]
    OBVIOUS
  <1>6. ASSUME NEW g \in Files PROVE pending'[g] = NoWrite \/ WriteOK(pending'[g], g, disk')
    <2>1. CASE g \in fs
      BY <1>5, <2>1
    <2>2. CASE g \notin fs
      <3>1. pending[g] = NoWrite \/ WriteOK(pending[g], g, d)
        BY <2>2, OthersStayOK DEF d
      <3> QED
        BY <1>4, <1>5, <2>2, <3>1
    <2> QED
      BY <2>1, <2>2
  <1>7. FilesOK'
    BY <1>4, <1>5, <1>6 DEF FilesOK, WritesOK
  <1>8. Kept
    BY <1>2, <1>4 DEF Kept
  <1> QED
    BY <1>2, <1>4, <1>7, <1>8 DEF x

LEMMA NewHeaderStep == ASSUME IInv, NewHeader PROVE IInv' /\ Kept
  <1> DEFINE n   == Len(disk)
             f   == FileFor(w.b, w.size)
             new == n + 1
             fs  == {f} \cup (IF w.b = Null THEN {} ELSE {disk[w.b].file})
  <1>1. w.pc = "header" /\ UNCHANGED <<index, crash, sessions, samples>>
    BY DEF NewHeader
  <1>2. w.size \in Sizes /\ n \in Nat /\ w.kind \in Kinds /\ w \in WriterType
    BY <1>1, AtWork
  <1>3. w.b = Null \/ w.b \in 1..n
    BY <1>1, AtWork
  <1>4. /\ n + 1 <= sessions + samples /\ sessions \in 0..MaxSessions /\ samples \in 0..MaxSamples
        /\ crash \in {"none", "clean", "torn"}
    BY <1>1 DEF IInv, CountersOK
  <1>5. n < MaxSamples + MaxSessions
    BY <1>2, <1>4, BoundsAssumption
  <1>6. f \in Files /\ f <= n + 1
    BY <1>3, <1>5, FileForFacts DEF IInv
  <1>7. f \in fs /\ (w.b # Null => disk[w.b].file \in fs)
    OBVIOUS
  <1>8. disk' = Append(Flushed(fs), EmptyBuffer(f, w.size, w.kind))
    BY DEF NewHeader
  <1>9. pending' = [g \in Files |-> IF g \in fs THEN NoWrite ELSE pending[g]]
    BY DEF NewHeader
  <1>10. w' = IF w.b = Null THEN Switched(new, w.size) ELSE [w EXCEPT !.pc = "link", !.new = new]
    BY DEF NewHeader
  <1> HIDE DEF f, fs
  <1>11. /\ FilesOK' /\ Kept /\ Len(disk') = n + 1
         /\ \A b \in 1..n : disk'[b] = IF disk[b].file \in fs THEN Settled(b) ELSE disk[b]
         /\ disk'[new] = EmptyBuffer(f, w.size, w.kind)
    <2> DEFINE size == w.size
               kind == w.kind
    <2>1. size \in Sizes /\ kind \in Kinds
      BY <1>2
    <2>2. disk' = Append(Flushed(fs), EmptyBuffer(f, size, kind))
      BY <1>8
    <2> HIDE DEF size, kind
    <2>3. /\ FilesOK' /\ Kept /\ Len(disk') = Len(disk) + 1
          /\ \A b \in 1..Len(disk) :
                disk'[b] = IF disk[b].file \in fs THEN Settled(b) ELSE disk[b]
          /\ disk'[Len(disk) + 1] = EmptyBuffer(f, size, kind)
      BY <1>6, <1>7, <1>9, <2>1, <2>2, NewBufferFacts DEF IInv
    <2> QED
      BY <2>3 DEF size, kind
  <1>12. disk'[new].hdr = FreshHeader /\ disk'[new].size = w.size /\ disk'[new].file = f
    BY <1>2, <1>6, <1>11, EmptyBufferOK
  <1>13. pending'[f] = NoWrite
    BY <1>6, <1>7, <1>9
  <1>14. new \in 1..Len(disk') /\ new # Null /\ new \in Nat
    BY <1>2, <1>11 DEF Null
  <1>15. pending'[disk'[new].file].b # new
    BY <1>12, <1>13, <1>14 DEF NoWrite
  <1>16. IndexOK'
    BY <1>1, <1>2, <1>11, RecordsStayOK DEF IInv, IndexOK
  <1>17. ASSUME w'.pc # "header" PROVE CountersOK'
    BY <1>1, <1>2, <1>4, <1>11, <1>17 DEF CountersOK
  <1>18. CASE w.b = Null
    <2>1. w' = Switched(new, w.size)
      BY <1>10, <1>18
    <2>2. /\ HeaderInMemory' /\ NewIsFresh' /\ WriterOK' /\ Idle'
          /\ w'.pc \in {"ready", "store"}
      <3>1. w.pc # "none" /\ FilesOK' /\ w.size \in Sizes
        BY <1>1, <1>2, <1>11
      <3> HIDE DEF new
      <3> QED
        BY <1>12, <1>14, <1>15, <2>1, <3>1, SwitchedOK
    <2> QED
      BY <1>11, <1>16, <1>17, <2>2 DEF IInv
  <1>19. CASE w.b # Null
    <2>1. /\ w'.pc = "link" /\ w'.b = w.b /\ w'.hdr = w.hdr /\ w'.size = w.size
          /\ w'.new = new /\ w' \in WriterType
      <3>1. w' = [w EXCEPT !.pc = "link", !.new = new]
        BY <1>10, <1>19
      <3>2. w \in WriterType /\ new \in Nat
        BY <1>2, <1>14
      <3> HIDE DEF new
      <3> QED
        BY <3>1, <3>2 DEF WriterType
    <2>2. w.b \in 1..n /\ w.b \in 1..Len(disk') /\ w.b # new
      BY <1>2, <1>3, <1>11, <1>19
    <2>3. NewIsFresh'
      BY <1>12, <1>14, <1>15, <2>1, <2>2 DEF NewIsFresh
    <2>4. disk'[w.b] = Settled(w.b) /\ disk'[w.b].file = disk[w.b].file /\ disk[w.b].file \in Files
      BY <1>7, <1>11, <1>19, <2>2, DoneFacts DEF IInv, Keeps
    <2>5. Settled(w.b)' = disk'[w.b]
      <3>1. pending'[disk[w.b].file] = NoWrite
        BY <1>7, <1>9, <1>19, <2>4
      <3>2. pending'[disk'[w'.b].file].b # w'.b
        BY <1>19, <2>1, <2>4, <3>1 DEF NoWrite
      <3> QED
        BY <2>1, <3>2 DEF Settled, Done
    <2>6. HeaderOK(w.hdr, Settled(w.b), n) /\ Settled(w.b).hdr.num <= w.hdr.num
      BY <1>1, <1>19 DEF IInv, HeaderInMemory
    <2>7. HeaderOK(w.hdr, Settled(w.b), n + 1)
      BY <1>2, <2>6, MoreBuffers
    <2>8. HeaderInMemory'
      BY <1>11, <2>1, <2>4, <2>5, <2>6, <2>7 DEF HeaderInMemory
    <2>9. WriterOK'
      <3>1. w'.b # Null /\ w'.size \in Sizes
        BY <1>2, <1>19, <2>1, Zenon
      <3>2. w'.b <= Len(disk')
        BY <2>1, <2>2
      <3> QED
        BY <2>1, <3>1, <3>2 DEF WriterOK
    <2>10. Idle'
      BY <2>1 DEF Idle
    <2> QED
      BY <1>11, <1>16, <1>17, <2>1, <2>3, <2>8, <2>9, <2>10 DEF IInv
  <1> QED
    BY <1>18, <1>19

-----------------------------------------------------------------------------
LEMMA InitOK == WriterInit => IInv
  <1> SUFFICES ASSUME WriterInit PROVE IInv
    OBVIOUS
  <1>1. /\ disk = <<>> /\ pending = [f \in Files |-> NoWrite] /\ index = {} /\ w = NoWriter
        /\ crash = "none" /\ sessions = 0 /\ samples = 0
    BY DEF WriterInit
  <1>2. FilesOK
    BY <1>1 DEF FilesOK, DiskOK, WritesOK
  <1>3. w.pc = "none"
    BY <1>1 DEF NoWriter
  <1>4. Idle /\ HeaderInMemory /\ NewIsFresh /\ WriterOK
    BY <1>1, <1>3 DEF Idle, HeaderInMemory, NewIsFresh, WriterOK
  <1>5. IndexOK /\ CountersOK
    BY <1>1, <1>3, BoundsAssumption DEF IndexOK, RecordsOK, CountersOK
  <1> QED
    BY <1>2, <1>4, <1>5 DEF IInv

LEMMA StutterOK == ASSUME IInv, UNCHANGED writerVars PROVE IInv' /\ Kept
  <1>1. FilesOK' /\ Kept /\ Len(disk') = Len(disk)
    BY FilesStay DEF IInv, writerVars
  <1>2. Idle' /\ HeaderInMemory' /\ NewIsFresh' /\ WriterOK'
    BY DEF IInv, writerVars, Idle, HeaderInMemory, Settled, Done, NewIsFresh, WriterOK
  <1>3. IndexOK' /\ CountersOK'
    BY DEF IInv, writerVars, IndexOK, CountersOK
  <1> QED
    BY <1>1, <1>2, <1>3 DEF IInv

LEMMA StepOK == IInv /\ [WriterNext]_writerVars => IInv' /\ Kept
  <1> SUFFICES ASSUME IInv, [WriterNext]_writerVars PROVE IInv' /\ Kept
    OBVIOUS
  <1>1. CASE \E kind \in Kinds, num \in NumSamples : Open(kind, num)
    BY <1>1, OpenStep
  <1>2. CASE \E stamp \in Stamps : Add(stamp)
    BY <1>2, AddStep
  <1>3. CASE NewHeader
    BY <1>3, NewHeaderStep
  <1>4. CASE LinkOld
    BY <1>4, LinkOldStep
  <1>5. CASE ListOld
    BY <1>5, ListOldStep
  <1>6. CASE StoreInNew
    BY <1>6, StoreInNewStep
  <1>7. CASE CloseHeader
    BY <1>7, CloseHeaderStep
  <1>8. CASE ListLast
    BY <1>8, ListLastStep
  <1>9. CASE CloseFiles
    BY <1>9, CloseFilesStep
  <1>10. CASE Crash
    BY <1>10, CrashStep
  <1>11. CASE UNCHANGED writerVars
    BY <1>11, StutterOK
  <1> QED
    BY <1>1, <1>2, <1>3, <1>4, <1>5, <1>6, <1>7, <1>8, <1>9, <1>10, <1>11 DEF WriterNext

LEMMA AlwaysIInv == WriterSpec => []IInv
  <1>1. IInv /\ [WriterNext]_writerVars => IInv'
    BY StepOK
  <1> QED
    BY InitOK, <1>1, PTL DEF WriterSpec

(* What a header on the disk says is on the disk, at every step of a       *)
(* writer and after every crash: DataWriter::add stores a sample before a  *)
(* header counts it (DataWriter.cpp:143-161, 89-122).                      *)
THEOREM HeadersAreTrue == WriterSpec => []HeadersTrue
  <1>1. IInv => HeadersTrue
    BY DEF IInv, FilesOK, DiskOK, BufferOK, HeaderOK, HeadersTrue, Buffers
  <1> QED
    BY <1>1, AlwaysIInv, PTL

(* No step, of a crashed or a later writer, takes back or overwrites a     *)
(* sample that a header on the disk counts: a writer that goes on in the   *)
(* last buffer goes on behind its header (DataWriter.cpp:46-76).           *)
THEOREM SamplesStoredForGood == WriterSpec => StoredForGood
  <1>1. IInv /\ [WriterNext]_writerVars =>
           [\A b \in Buffers :
              LET m == disk[b].hdr.num
              IN  /\ disk'[b].hdr.num >= m
                  /\ \A i \in 1..m : disk'[b].data[i] = disk[b].data[i]]_writerVars
    <2> SUFFICES ASSUME IInv, [WriterNext]_writerVars, NEW b \in Buffers
                 PROVE  /\ disk'[b].hdr.num >= disk[b].hdr.num
                        /\ \A i \in 1..disk[b].hdr.num : disk'[b].data[i] = disk[b].data[i]
      OBVIOUS
    <2>1. b \in 1..Len(disk) /\ disk \in Seq(BufferType)
      BY DEF IInv, FilesOK, DiskOK, Buffers
    <2>2. Keeps(disk[b], disk'[b])
      BY <2>1, StepOK DEF Kept
    <2> QED
      BY <2>2 DEF Keeps
  <1> QED
    BY <1>1, AlwaysIInv, PTL DEF WriterSpec, StoredForGood

(* Buffers, writes, records and the writer are of their types; above all,  *)
(* no header counts more samples than its buffer has room for              *)
(* (DataWriter.cpp:137-141).                                               *)
THEOREM ArchiveTypeOK == WriterSpec => []TypeOK
  <1>1. ASSUME IInv PROVE TypeOK
    <2>1. Buffers = 1..Len(disk) /\ Len(disk) \in Nat
      BY <1>1 DEF IInv, FilesOK, DiskOK, Buffers
    <2>2. ASSUME NEW b \in Buffers
          PROVE  /\ disk[b].file \in Files
                 /\ disk[b].kind \in Kinds
                 /\ disk[b].size \in FirstSize..(2 * LastSize)
                 /\ disk[b].hdr \in Headers /\ disk[b].hdr.num <= disk[b].size
                 /\ disk[b].data \in [1..disk[b].size -> Times]
      <3>1. BufferOK(disk[b], b, Len(disk))
        BY <1>1, <2>1, DoneFacts DEF IInv
      <3>2. /\ disk[b].file \in Files /\ disk[b].kind \in Kinds /\ disk[b].size \in Sizes
            /\ disk[b].hdr \in HeaderType /\ disk[b].hdr.num <= disk[b].size
            /\ disk[b].hdr.next \in Nat /\ disk[b].hdr.next <= Len(disk)
            /\ disk[b].data \in Seq(Times) /\ Len(disk[b].data) = disk[b].size
        BY <3>1 DEF BufferOK, BufferType, HeaderOK, HeaderType
      <3>3. disk[b].hdr.next \in Buffers \cup {Null}
        BY <2>1, <3>2 DEF Null
      <3>4. disk[b].hdr \in Headers
        BY <3>2, <3>3 DEF HeaderType, Headers
      <3>5. disk[b].data \in [1..disk[b].size -> Times]
        BY <3>2
      <3> QED
        BY <3>2, <3>4, <3>5 DEF Sizes
    <2>3. \A f \in Files : pending[f] = NoWrite \/ disk[pending[f].b].file = f
      BY <1>1 DEF IInv, FilesOK, WritesOK, WriteOK
    <2>4. \A rec \in index : /\ {rec.start, rec.end} \subseteq Times
                             /\ ToSet(rec.blocks) \subseteq Buffers
      <3>1. TAKE rec \in index
      <3>2. rec.start \in Times /\ rec.end \in Times /\ ChainOK(rec.blocks, Len(disk))
        BY <1>1 DEF IInv, IndexOK, RecordsOK
      <3>3. ToSet(rec.blocks) \subseteq Buffers
        BY <2>1, <3>2 DEF ChainOK, ToSet
      <3> QED
        BY <3>2, <3>3
    <2>5. w.pc # "none" => w.b \in Buffers \cup {Null} /\ (w.pc = "ready" => w.b # Null)
      BY <1>1, <2>1, AtWork
    <2>6. /\ crash \in {"none", "clean", "torn"}
          /\ sessions \in 0..MaxSessions /\ samples \in 0..MaxSamples
      BY <1>1 DEF IInv, CountersOK
    <2> QED
      BY <2>2, <2>3, <2>4, <2>5, <2>6 DEF TypeOK
  <1> QED
    BY <1>1, AlwaysIInv, PTL
==========================================================================
