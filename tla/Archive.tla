----------------------------- MODULE Archive -----------------------------
(***************************************************************************)
(* The archive of one channel while its writer (ArchiveWriter) may be at   *)
(* work and a reader, in another process, follows the index from buffer to *)
(* buffer and, past its end, the links between the headers.                *)
(***************************************************************************)
EXTENDS ArchiveWriter

CONSTANT MaxReadSessions  \* bound: writers that are opened while there is a reader

VARIABLES bounds,  \* the start times at which a further leaf of the index begins
          r        \* the reader

vars == <<writerVars, bounds, r>>

(* The leaves of the tree that the index is kept in, each known by its     *)
(* lower bound, and their records as they are now.  How many records a     *)
(* leaf takes before it is split (50, in the engine) is left open.         *)
Leaves == {Null} \cup bounds
Leaf(low) ==
    SetToSortSeq({rec \in index : /\ low <= rec.start
                                  /\ \A c \in bounds : low < c => rec.start < c}, Before)

(* A record more may make the tree split its leaves, and their parents.    *)
Splits ==
    \/ bounds' = bounds
    \/ /\ Cardinality(index') > Cardinality(index)
       /\ \E rec \in index' :
             /\ rec.start \notin bounds /\ \E q \in index' : q.start < rec.start
             /\ bounds' = bounds \cup {rec.start}

-----------------------------------------------------------------------------
(* The reader.  x is a reader on its way: leaf, the leaf of the index it   *)
(* is in, view, its copy of the records, and tree, the bounds of the time  *)
(* of the copy; rec, the number of the record it is in, or Null past the   *)
(* end of the index; b and hdr, the buffer and the header as it read it;   *)
(* idx, the samples of the buffer passed; got, the sample found, Null at   *)
(* the end.  A reader has "failed" when it ends in an exception, or uses a *)
(* record it does not have.                                                *)
(* From leaf to leaf it goes by way of the parent its copy names, as that  *)
(* now is.  When nodes were split meanwhile the next child there may be    *)
(* what was the upper half of its own leaf, or, where the parent does not  *)
(* have its leaf any more, the first one of all: it is misled, and goes on *)
(* in astray, any of the leaves ({} is none).                              *)
Record(x) == x.view[x.rec]
AtLeaf(x, low) ==
    [x EXCEPT !.leaf = low, !.view = Leaf(low), !.rec = 1, !.tree = bounds,
              !.misled = @ \/ x.tree # bounds]
NextLeaf(x) ==
    IF x.tree = {} THEN {}
    ELSE IF x.tree = bounds THEN {low \in bounds : low > x.leaf}
    ELSE x.astray
AtBuffer(x, b) == [x EXCEPT !.b = b, !.hdr = disk[b].hdr, !.idx = 0]
Stopped(x, how) == [x EXCEPT !.pc = how, !.got = Null]

RECURSIVE Bisect(_, _, _, _)
BisectBefore(data, low, high, start) ==
    LET mid == (low + high + 1) \div 2
        stamp == data[mid + 1]
    IN  IF high - low <= 1
        THEN IF stamp >= start THEN [idx |-> low, hit |-> FALSE] ELSE [idx |-> mid + 1, hit |-> TRUE]
        ELSE IF stamp = start THEN [idx |-> mid + 1, hit |-> TRUE]
        ELSE IF stamp > start THEN Bisect(data, low, mid, start)
        ELSE Bisect(data, mid, high, start)
Bisect(data, low, high, start) ==
    LET mid == (low + high + 1) \div 2
        stamp == data[mid + 1]
    IN  IF high - low <= 1
        THEN IF stamp > start THEN [idx |-> low, hit |-> FALSE] ELSE [idx |-> mid + 1, hit |-> TRUE]
        ELSE IF stamp = start THEN [idx |-> mid + 1, hit |-> TRUE]
        ELSE IF stamp > start THEN Bisect(data, low, mid, start)
        ELSE Bisect(data, mid, high, start)

RECURSIVE ReadNext(_)

(* findSample(): the last sample at or before start, or else the first.    *)
(* In an empty buffer the search goes from 0 to -1, the largest number     *)
(* there is.  Its first probes wrap around to the first sample, for all    *)
(* sizes of a sample are multiples of 8; a later one is beyond any file.   *)
FindSample(x, start) ==
    LET data == disk[x.b].data
        at == Bisect(data, 0, x.hdr.num - 1, start)
    IN  IF start = x.hdr.begin THEN ReadNext([x EXCEPT !.idx = 0])
        ELSE IF x.hdr.num = 0
        THEN IF data[1] = start THEN [x EXCEPT !.idx = 1, !.got = start]
             ELSE Stopped(x, "failed")
        ELSE IF at.hit THEN [x EXCEPT !.idx = at.idx, !.got = data[at.idx]]
        ELSE ReadNext([x EXCEPT !.idx = at.idx])

(* The next sample of the buffer, unless it is past the end of the record. *)
FromBuffer(x) ==
    LET stamp == disk[x.b].data[x.idx + 1]
    IN  IF x.rec # Null /\ stamp > Record(x).end
        THEN ReadNext([x EXCEPT !.idx = x.hdr.num])
        ELSE [x EXCEPT !.idx = @ + 1, !.got = stamp]

(* Past the end of the index: read the header again, and follow its link.  *)
ReadOn(x) ==
    LET again == [x EXCEPT !.rec = Null, !.hdr = disk[x.b].hdr]
    IN  IF again.idx < again.hdr.num THEN FromBuffer(again)
        ELSE IF again.hdr.next = Null THEN Stopped(again, "end")
        ELSE FindSample(AtBuffer(again, again.hdr.next), disk[again.hdr.next].hdr.begin)

ReadNext(x) ==
    LET y == IF x.rec < Len(x.view) THEN [x EXCEPT !.rec = @ + 1]
             ELSE AtLeaf(x, Min(NextLeaf(x)))
        found == FindSample(AtBuffer(y, Record(y).blocks[1]), Record(y).start)
    IN  IF x.idx < x.hdr.num THEN FromBuffer(x)
        ELSE IF x.rec = Null \/ (x.rec = Len(x.view) /\ NextLeaf(x) = {}) THEN ReadOn(x)
        ELSE IF found.got = Null THEN found
        ELSE IF found.rec = Null THEN Stopped(found, "failed")
        ELSE IF found.got >= Record(found).start THEN found
        ELSE ReadNext(found)

(* find(): from a time on, or from the first record when start is Null.    *)
FindFrom(start) ==
    LET low == Max({Null} \cup {c \in bounds : c <= start})
        view == Leaf(low)
        before == {i \in DOMAIN view : view[i].start <= start}
        rec == IF before = {} THEN 1 ELSE Max(before)
        x == [pc |-> "reading", leaf |-> low, view |-> view, rec |-> rec, tree |-> bounds,
              astray |-> {}, misled |-> FALSE, b |-> Null,
              hdr |-> FreshHeader, idx |-> 0, got |-> Null]
    IN  FindSample(AtBuffer(x, view[rec].blocks[1]),
                   IF start = Null THEN view[rec].start ELSE start)

NoReader == [pc |-> "none"]

Find(start) ==
    /\ r.pc \in {"none", "end"}
    /\ index # {} /\ sessions <= MaxReadSessions
    /\ r' = FindFrom(start)
    /\ UNCHANGED <<writerVars, bounds>>

Read ==
    /\ r.pc = "reading"
    /\ \E astray \in IF r.tree = bounds THEN {{}} ELSE {{}} \cup {{low} : low \in Leaves} :
          r' = [ReadNext([r EXCEPT !.got = Null, !.astray = astray]) EXCEPT !.astray = {}]
    /\ UNCHANGED <<writerVars, bounds>>

LeaveReader ==
    /\ r.pc # "none"
    /\ r' = NoReader
    /\ UNCHANGED <<writerVars, bounds>>

-----------------------------------------------------------------------------
Init == WriterInit /\ bounds = {} /\ r = NoReader

Next ==
    \/ WriterNext /\ Splits /\ UNCHANGED r /\ (sessions' > MaxReadSessions => r = NoReader)
    \/ \E start \in Times : Find(start)
    \/ Read
    \/ LeaveReader

Spec == Init /\ [][Next]_vars

-----------------------------------------------------------------------------
RECURSIVE ReadAll(_, _)
ReadAll(x, out) ==
    IF x.got = Null THEN out ELSE ReadAll(ReadNext([x EXCEPT !.got = Null]), Append(out, x.got))

Occurrences(stamp, seq) == Cardinality({i \in DOMAIN seq : seq[i] = stamp})

(* Between two writers, a reader that starts at the beginning gets every   *)
(* sample that a properly closed writer took, however many buffers, files  *)
(* and kinds of data there are, and whatever crashed in between, unless    *)
(* the crash lost a header that the index lists.                           *)
CommittedReadable ==
    w.pc = "none" /\ committed # <<>> /\ crash # "torn" =>
        /\ index # {}
        /\ LET out == ReadAll(FindFrom(Null), <<>>)
           IN  \A t \in Stamps : Occurrences(t, committed) <= Occurrences(t, out)

(* find(): a reader that starts at some time gets the latest sample at or  *)
(* before it ("return sample before-or-at start"), so that a plot that     *)
(* starts there knows the value it starts with.                            *)
FindIsLatest ==
    w.pc = "none" /\ committed # <<>> /\ crash # "torn" =>
        \A t \in Stamps :
            LET got == FindFrom(t).got
                before == {s \in ToSet(committed) : s <= t}
            IN  before # {} => Max(before) <= got /\ got <= t

(* A reader that runs while an engine writes sees time advance, from leaf  *)
(* to leaf of the live index, and even where it outruns the index and      *)
(* follows the headers, unless the tree was split while it was in a leaf,  *)
(* and it went on to another.  (Then, and after a crash, it may not: see   *)
(* README.)                                                                *)
ReadInOrder ==
    [][r.pc = "reading" /\ r'.pc = "reading" /\ crash = "none" /\ ~r'.misled =>
          r.got <= r'.got]_vars
==========================================================================
