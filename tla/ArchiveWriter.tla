--------------------------- MODULE ArchiveWriter ---------------------------
(***************************************************************************)
(* The archive of one channel: data files full of buffers, each a header   *)
(* and room for some samples, and the index of the channel.  A writer (one *)
(* DataWriter per write period of the engine) appends samples and looks    *)
(* after headers and index only when a buffer is full or it is closed; the *)
(* engine may crash at any step.                                           *)
(*                                                                         *)
(* The writer's files are buffered: disk is what a reader, or the next     *)
(* engine, finds, and lags behind by the last write to a file, which the   *)
(* next access to that file, or closing it, completes.  The index is as    *)
(* TimeIndex promises it, on the disk after each call.                     *)
(***************************************************************************)
EXTENDS Integers, Sequences, SequencesExt, FiniteSets, FiniteSetsExt

CONSTANTS Stamps,      \* time stamps, positive numbers
          Kinds,       \* what a buffer is for: the data type and CtrlInfo
          FirstSize,   \* samples in the first buffer of a writer ...
          LastSize,    \* ... and in the largest one
          NumSamples,  \* samples a writer is announced, rounded to a power of two
          FileLimit,   \* size at which a data file is not added to
          BackInTime,  \* may the clock be set back between two writers?
          MaxSessions, \* bound: writers that are opened
          MaxSamples   \* bound: samples that are added

ASSUME StampsAssumption == Stamps \subseteq Nat \ {0}
ASSUME SizesAssumption == FirstSize \in Nat \ {0} /\ LastSize \in Nat /\ FirstSize <= LastSize
ASSUME NumAssumption == NumSamples \subseteq Nat
ASSUME BoundsAssumption == MaxSessions \in Nat /\ MaxSamples \in Nat

VARIABLES disk,      \* the buffers of all data files, in the order they were added
          pending,   \* per file: the write that is still in memory, if any
          index,     \* the records of the index
          w,         \* the writer
          added,     \* the stamps add() took in this session
          committed, \* the stamps of all sessions that ended properly
          crash,     \* "clean" after a crash, "torn" after one that lost a header write
                     \* of a buffer the index lists; "none" before
          sessions, samples

writerVars == <<disk, pending, index, w, added, committed, crash, sessions, samples>>

Null == 0              \* no time stamp (the epoch), no buffer
Addresses == 1..(MaxSamples + MaxSessions)
Files == Addresses
Buffers == DOMAIN disk
Times == Stamps \cup {Null}
Interval(s, e) == [start |-> s, end |-> e]

(* What the index of a channel promises.                                   *)
Idx == INSTANCE TimeIndex WITH
          recs <- index, Blocks <- Addresses,
          Ranges <- {i \in [start : Times, end : Times] : i.start <= i.end}

(* The order of the records in the tree: new ones of one time stamp go     *)
(* behind the old.                                                         *)
Before(p, q) ==
    \/ p.start < q.start
    \/ p.start = q.start /\ p.end < q.end
    \/ p.start = q.start /\ p.end = q.end /\ p.blocks[1] < q.blocks[1]

LastRecord(rec) == \A q \in index \ {rec} : Before(q, rec)

(* updateLastDatablock: the last record grows when it is the block's alone. *)
Grows(rec, range, b) ==
    /\ LastRecord(rec)
    /\ rec.start = range.start /\ rec.end <= range.end
    /\ rec.blocks = <<b>>
UpdateLast(range, b) ==
    \/ \E rec \in index :
          /\ Grows(rec, range, b)
          /\ index' = (index \ {rec}) \cup {Idx!Record(range.start, range.end, <<b>>)}
    \/ /\ \A rec \in index : ~Grows(rec, range, b)
       /\ Idx!Insert(range, b)

FreshHeader == [num |-> 0, begin |-> Null, end |-> Null, next |-> Null]

-----------------------------------------------------------------------------
(* Files.  A write is one of a header or of a sample of a buffer.          *)
HeaderWrite(b, hdr) == [b |-> b, slot |-> 0, value |-> hdr]
SampleWrite(b, slot, stamp) == [b |-> b, slot |-> slot, value |-> stamp]
NoWrite == [b |-> Null]

(* What becomes of buffer b by a write.                                    *)
Done(write, b) ==
    IF write.b # b THEN disk[b]
    ELSE IF write.slot = 0 THEN [disk[b] EXCEPT !.hdr = write.value]
    ELSE [disk[b] EXCEPT !.data[write.slot] = write.value]

(* The disk once the files fs have been accessed again, or closed.         *)
Flushed(fs) ==
    [b \in Buffers |-> IF disk[b].file \in fs THEN Done(pending[disk[b].file], b) ELSE disk[b]]

(* Seek to a place in the file of a buffer and write there.                *)
Write(write) ==
    LET f == disk[write.b].file
    IN  /\ disk' = Flushed({f})
        /\ pending' = [pending EXCEPT ![f] = write]

(* The size of a file, where a header takes as much room as a sample.      *)
FileSize(f) ==
    MapThenSumSet(LAMBDA b : 1 + disk[b].size, {b \in Buffers : disk[b].file = f})

(* A new buffer: header, room for samples, and a mark at its end.          *)
EmptyBuffer(f, size, kind) ==
    [file |-> f, size |-> size, kind |-> kind, hdr |-> FreshHeader,
     data |-> [i \in 1..size |-> Null]]

(* The file for a new buffer: the one of the old buffer, if it stays below *)
(* the limit, or else the first that has room, or that does not exist yet. *)
FileFor(old, size) ==
    IF old # Null /\ FileSize(disk[old].file) + 1 + size <= FileLimit THEN disk[old].file
    ELSE Min({f \in Files : \/ \A b \in Buffers : disk[b].file # f
                            \/ FileSize(f) + (IF old = Null THEN 0 ELSE 1 + size) < FileLimit})

(* Buffers get bigger and bigger up to a limit: the next power of two, for *)
(* sizes that are all powers of two (64 to 4096).                          *)
NextSize(n) ==
    IF n < FirstSize THEN FirstSize ELSE IF n >= LastSize THEN LastSize ELSE 2 * n

Listed(b) == \E rec \in index : b \in ToSet(rec.blocks)

-----------------------------------------------------------------------------
(* The writer: pc, where it is; kind, of what it is given; b, its buffer,  *)
(* with the header as it has it in memory and the room that is left; size, *)
(* that of the buffer after it; new, the buffer that is being added; stamp,*)
(* the sample that waits for it; old, the stamps in the files when it was  *)
(* opened, which an engine whose clock is not set back does not go behind. *)
NoWriter == [pc |-> "none"]

(* All that ever got into a file.                                          *)
Stored == UNION {ToSet(disk[b].data) : b \in Buffers}

(* The writer starts in the last buffer of the index, unless there is none *)
(* or it is for another kind of data.                                      *)
Writer(pc, kind, b, hdr, avail, size) ==
    [pc |-> pc, kind |-> kind, b |-> b, hdr |-> hdr, avail |-> avail, size |-> size,
     new |-> Null, stamp |-> Null, old |-> Stored]

ContinuedFresh(kind, b, num) ==
    IF disk[b].kind = kind
    THEN Writer("ready", kind, b, FreshHeader, disk[b].size, NextSize(disk[b].size))
    ELSE Writer("header", kind, b, disk[b].hdr, 0, NextSize(num))
Continued(kind, b, num) ==
    IF disk[b].kind = kind
    THEN Writer("ready", kind, b, disk[b].hdr, disk[b].size - disk[b].hdr.num,
                NextSize(IF disk[b].size > num THEN disk[b].size ELSE num))
    ELSE Writer("header", kind, b, disk[b].hdr, 0, NextSize(num))

Open(kind, num) ==
    /\ w.pc = "none"
    /\ sessions < MaxSessions
    /\ sessions' = sessions + 1
    /\ \/ /\ index = {}
          /\ w' = Writer("header", kind, Null, FreshHeader, 0, NextSize(num))
       \/ \E rec \in index : /\ LastRecord(rec)
                             /\ w' = Continued(kind, rec.blocks[1], num)
    /\ added' = <<>>
    /\ UNCHANGED <<disk, pending, index, committed, crash, samples>>

(* Store a sample in the buffer; the header changes in memory only.        *)
StoreNoBegin(stamp) ==
    LET hdr == [w.hdr EXCEPT !.num = @ + 1, !.end = stamp]
    IN  /\ Write(SampleWrite(w.b, hdr.num, stamp))
        /\ w' = [w EXCEPT !.pc = "ready", !.hdr = hdr, !.avail = @ - 1, !.stamp = Null]
        /\ added' = Append(added, stamp)
Store(stamp) ==
    LET hdr == [w.hdr EXCEPT !.num = @ + 1, !.end = stamp,
                             !.begin = IF w.hdr.num = 0 THEN stamp ELSE @]
    IN  /\ Write(SampleWrite(w.b, hdr.num, stamp))
        /\ w' = [w EXCEPT !.pc = "ready", !.hdr = hdr, !.avail = @ - 1, !.stamp = Null]
        /\ added' = Append(added, stamp)

StaleNever(stamp) == FALSE
Stale(stamp) == stamp < w.hdr.end

RoomAtEnd == w.avail >= 0
Room == w.avail > 0

(* add(): a sample that goes back in time is ignored, and a full buffer    *)
(* makes the writer add another one first.                                 *)
Add(stamp) ==
    /\ w.pc = "ready"
    /\ samples < MaxSamples
    /\ BackInTime \/ \A t \in w.old : t <= stamp
    /\ samples' = samples + 1
    /\ IF Stale(stamp)
       THEN UNCHANGED <<w, disk, pending, added>>
       ELSE IF Room THEN Store(stamp)
       ELSE /\ w' = [w EXCEPT !.pc = "header", !.stamp = stamp]
            /\ UNCHANGED <<disk, pending, added>>
    /\ UNCHANGED <<index, committed, crash, sessions>>

(* The new header becomes the current one.                                 *)
Switched(new, size) ==
    [w EXCEPT !.pc = IF w.stamp = Null THEN "ready" ELSE "store",
              !.b = new, !.hdr = FreshHeader, !.avail = size,
              !.size = NextSize(size), !.new = Null]

(* addNewHeader(), first the new buffer, empty, in a file of its choice.   *)
NewHeader ==
    /\ w.pc = "header"
    /\ LET f   == FileFor(w.b, w.size)
           new == Len(disk) + 1
           fs  == {f} \cup (IF w.b = Null THEN {} ELSE {disk[w.b].file})
       IN  /\ disk' = Append(Flushed(fs), EmptyBuffer(f, w.size, w.kind))
           /\ pending' = [g \in Files |-> IF g \in fs THEN NoWrite ELSE pending[g]]
           /\ w' = IF w.b = Null THEN Switched(new, w.size)
                   ELSE [w EXCEPT !.pc = "link", !.new = new]
    /\ UNCHANGED <<index, added, committed, crash, sessions, samples>>

(* ... then the old header is linked to it and written ...                 *)
LinkOld ==
    /\ w.pc = "link"
    /\ Write(HeaderWrite(w.b, [w.hdr EXCEPT !.next = w.new]))
    /\ w' = [w EXCEPT !.pc = "list"]
    /\ UNCHANGED <<index, added, committed, crash, sessions, samples>>

(* ... and the index told how far the old buffer goes.                     *)
ListNew ==
    /\ w.pc = "list"
    /\ UpdateLast(Interval(w.hdr.begin, w.hdr.end), w.new)
    /\ w' = Switched(w.new, disk[w.new].size)
    /\ UNCHANGED <<disk, pending, added, committed, crash, sessions, samples>>
ListOld ==
    /\ w.pc = "list"
    /\ UpdateLast(Interval(w.hdr.begin, w.hdr.end), w.b)
    /\ w' = Switched(w.new, disk[w.new].size)
    /\ UNCHANGED <<disk, pending, added, committed, crash, sessions, samples>>

(* The sample that found the old buffer full.                              *)
StoreInNew ==
    /\ w.pc = "store"
    /\ Store(w.stamp)
    /\ UNCHANGED <<index, committed, crash, sessions, samples>>

(* The destructor: header, then index; the files are closed only when the  *)
(* index has been.                                                         *)
CloseHeader ==
    /\ w.pc = "ready"
    /\ Write(HeaderWrite(w.b, w.hdr))
    /\ w' = [w EXCEPT !.pc = "list last"]
    /\ UNCHANGED <<index, added, committed, crash, sessions, samples>>

ListLast ==
    /\ w.pc = "list last"
    /\ UpdateLast(Interval(w.hdr.begin, w.hdr.end), w.b)
    /\ w' = [w EXCEPT !.pc = "files"]
    /\ UNCHANGED <<disk, pending, added, committed, crash, sessions, samples>>

CloseFiles ==
    /\ w.pc = "files"
    /\ disk' = Flushed(Files)
    /\ pending' = [f \in Files |-> NoWrite]
    /\ committed' = committed \o added
    /\ w' = NoWriter
    /\ added' = <<>>
    /\ UNCHANGED <<index, crash, sessions, samples>>

(* The engine dies.  A write that was in memory may have got to the disk;  *)
(* one of a header that the index tells of already may not have.           *)
Crash ==
    /\ w.pc # "none"
    /\ \E fs \in SUBSET {f \in Files : pending[f] # NoWrite} :
          /\ disk' = Flushed(fs)
          /\ crash' = IF \/ crash = "torn"
                         \/ \E f \in Files \ fs : /\ pending[f] # NoWrite
                                                 /\ pending[f].slot = 0
                                                 /\ Listed(pending[f].b)
                      THEN "torn" ELSE "clean"
    /\ pending' = [f \in Files |-> NoWrite]
    /\ w' = NoWriter
    /\ added' = <<>>
    /\ UNCHANGED <<index, committed, sessions, samples>>

-----------------------------------------------------------------------------
WriterInit ==
    /\ disk = <<>>
    /\ pending = [f \in Files |-> NoWrite]
    /\ index = {}
    /\ w = NoWriter
    /\ added = <<>> /\ committed = <<>>
    /\ crash = "none"
    /\ sessions = 0 /\ samples = 0

WriterNext ==
    \/ \E kind \in Kinds, num \in NumSamples : Open(kind, num)
    \/ \E stamp \in Stamps : Add(stamp)
    \/ NewHeader \/ LinkOld \/ ListOld \/ StoreInNew
    \/ CloseHeader \/ ListLast \/ CloseFiles
    \/ Crash

WriterSpec == WriterInit /\ [][WriterNext]_writerVars

-----------------------------------------------------------------------------
Headers == [num : Nat, begin : Times, end : Times, next : Buffers \cup {Null}]

(* Buffers have a header, which counts no more samples than they have room *)
(* for; the writer and the index refer to buffers that exist, and time     *)
(* stamps are in range.  (A size is doubled while it is below LastSize.)   *)
TypeOK ==
    /\ \A b \in Buffers :
          /\ disk[b].file \in Files
          /\ disk[b].kind \in Kinds
          /\ disk[b].size \in FirstSize..(2 * LastSize)
          /\ disk[b].hdr \in Headers /\ disk[b].hdr.num <= disk[b].size
          /\ disk[b].data \in [1..disk[b].size -> Times]
    /\ \A f \in Files : pending[f] = NoWrite \/ disk[pending[f].b].file = f
    /\ \A rec \in index : /\ {rec.start, rec.end} \subseteq Times
                          /\ ToSet(rec.blocks) \subseteq Buffers
    /\ w.pc # "none" => w.b \in Buffers \cup {Null} /\ (w.pc = "ready" => w.b # Null)
    /\ crash \in {"none", "clean", "torn"}
    /\ sessions \in 0..MaxSessions /\ samples \in 0..MaxSamples

(* A header tells the truth of the samples of its buffer: it counts only   *)
(* samples that are there, in the order of time, and its first and last    *)
(* time stamp are theirs.                                                  *)
Truthful(h, data) ==
    /\ h.num > 0 => h.begin = data[1] /\ h.end = data[h.num]
    /\ \A i \in 1..h.num : data[i] # Null
    /\ \A i \in 2..h.num : data[i-1] <= data[i]

(* What a header on the disk says is on the disk.  Samples are written     *)
(* before the header that counts them, so this survives every crash.       *)
HeadersTrue == \A b \in Buffers : Truthful(disk[b].hdr, disk[b].data)

(* No step, of a crashed or a later writer, takes back or overwrites a     *)
(* sample that a header on the disk counts.                                *)
StoredForGood ==
    [][\A b \in Buffers :
          LET n == disk[b].hdr.num
          IN  /\ disk'[b].hdr.num >= n
              /\ \A i \in 1..n : disk'[b].data[i] = disk[b].data[i]]_writerVars
==========================================================================
