----------------------- MODULE SampleMechanismProofs -----------------------
(***************************************************************************)
(* First what the methods of CircularBuffer do to the sequence of its      *)
(* entries, for a ring of any size and with head and tail anywhere in it;  *)
(* and from that, that the ring of a channel (SampleBuffer) keeps its      *)
(* shape and is a drop-oldest queue.                                       *)
(*                                                                         *)
(* Then the ring of the sample mechanism, which stays well-formed and      *)
(* sorted by time stamp, for every buffer space, set of types, number of   *)
(* samples and interleaving of the writer with the callbacks.  As long as  *)
(* the ring does not change under the writer, every sample that was added  *)
(* is in exactly one place, and what a reconnect gives up are values.      *)
(***************************************************************************)
EXTENDS SampleMechanism, SampleBuffer, SequenceTheorems, FiniteSetTheorems, TLAPS

\* Going i + 1 slots on from slot t of a ring of m slots, at most one lap.
LEMMA OneLap ==
    ASSUME NEW m \in Nat \ {0}, NEW t \in Nat, t < m,
           NEW i \in Nat, i <= m - 1
    PROVE  /\ (t + 1 + i) % m = IF t + 1 + i >= m THEN t + 1 + i - m
                                                  ELSE t + 1 + i
           /\ (t + 1 + i) % m \in 0 .. m - 1
<1>1. CASE t + 1 + i < m
  BY <1>1, SMT
<1>2. CASE t + 1 + i >= m
  BY <1>2, SMT
<1> QED BY <1>1, <1>2

\* The fields of a ring.
LEMMA Fields ==
    ASSUME NEW V, NEW b, IsBuffer(b, V)
    PROVE  /\ b.max_index \in Nat \ {0}
           /\ b.head \in Nat /\ b.head < b.max_index
           /\ b.tail \in Nat /\ b.tail < b.max_index
           /\ b.overwrites \in Nat
           /\ b.slots \in [0 .. b.max_index - 1 -> V \cup {Blank}]
           /\ Capacity(b) = b.max_index - 1
           /\ Capacity(b) \in Nat
  BY DEF IsBuffer, Capacity

\* The number of entries is between zero and the capacity, and getCount()
\* is zero exactly when the two indices meet.
LEMMA CountRange ==
    ASSUME NEW V, NEW b, IsBuffer(b, V)
    PROVE  /\ Count(b) \in 0 .. Capacity(b)
           /\ Count(b) = 0 <=> IsEmpty(b)
  BY Fields DEF Count, IsEmpty

\* Where an entry is, without the remainder.
LEMMA IndexValue ==
    ASSUME NEW V, NEW b, IsBuffer(b, V), NEW i \in Nat, i <= Capacity(b)
    PROVE  /\ IndexOf(b, i) = IF b.tail + 1 + i >= b.max_index
                              THEN b.tail + 1 + i - b.max_index
                              ELSE b.tail + 1 + i
           /\ IndexOf(b, i) \in 0 .. b.max_index - 1
<1>1. /\ b.max_index \in Nat \ {0}
      /\ b.tail \in Nat /\ b.tail < b.max_index
      /\ i <= b.max_index - 1
  BY Fields
<1> QED BY <1>1, OneLap DEF IndexOf

\* The entries form a sequence of length getCount().
LEMMA ContentsType ==
    ASSUME NEW V, NEW b, IsBuffer(b, V)
    PROVE  /\ Contents(b) \in Seq(V \cup {Blank})
           /\ Len(Contents(b)) = Count(b)
           /\ \A i \in 1 .. Count(b) : Contents(b)[i] = RawValue(b, i - 1)
<1>1. Count(b) \in Nat
  BY CountRange, Fields
<1>2. \A i \in 1 .. Count(b) : RawValue(b, i - 1) \in V \cup {Blank}
  <2> TAKE i \in 1 .. Count(b)
  <2>1. Count(b) \in 0 .. Capacity(b) /\ Capacity(b) \in Nat
    BY CountRange, Fields
  <2>2. i - 1 \in Nat /\ i - 1 <= Capacity(b)
    BY <2>1
  <2>3. IndexOf(b, i - 1) \in 0 .. b.max_index - 1
    BY <2>2, IndexValue
  <2> QED BY <2>3, Fields DEF RawValue
<1> QED BY <1>1, <1>2 DEF Contents
-----------------------------------------------------------------------------
\* allocate() yields an empty ring of the requested capacity.
LEMMA AllocatedIsEmpty ==
    ASSUME NEW V, NEW num \in Nat
    PROVE  /\ IsBuffer(Allocated(num), V)
           /\ Contents(Allocated(num)) = <<>>
           /\ Capacity(Allocated(num)) = num
<1>1. IsBuffer(Allocated(num), V)
  BY DEF IsBuffer, Allocated
<1>2. Count(Allocated(num)) = 0
  BY DEF Count, Allocated
<1>3. Contents(Allocated(num)) \in Seq(V \cup {Blank}) /\ Len(Contents(Allocated(num))) = 0
  BY <1>1, <1>2, ContentsType
<1>4. Contents(Allocated(num)) = <<>>
  BY <1>3, EmptySeq
<1> QED BY <1>1, <1>4 DEF Capacity, Allocated

\* A buffer as constructed is a ring without room.
LEMMA UnallocatedIsEmpty ==
    ASSUME NEW V
    PROVE  /\ IsBuffer(Unallocated, V)
           /\ Contents(Unallocated) = <<>>
           /\ Capacity(Unallocated) = 0
<1>1. IsBuffer(Unallocated, V)
  BY DEF IsBuffer, Unallocated
<1>2. Count(Unallocated) = 0
  BY DEF Count, Unallocated
<1>3. Contents(Unallocated) \in Seq(V \cup {Blank}) /\ Len(Contents(Unallocated)) = 0
  BY <1>1, <1>2, ContentsType
<1>4. Contents(Unallocated) = <<>>
  BY <1>3, EmptySeq
<1> QED BY <1>1, <1>4 DEF Capacity, Unallocated

\* reset() forgets the entries and keeps the capacity.
LEMMA ClearedIsEmpty ==
    ASSUME NEW V, NEW b, IsBuffer(b, V)
    PROVE  /\ IsBuffer(Cleared(b), V)
           /\ Contents(Cleared(b)) = <<>>
           /\ Capacity(Cleared(b)) = Capacity(b)
<1>1. IsBuffer(Cleared(b), V)
  BY DEF IsBuffer, Cleared
<1>2. Count(Cleared(b)) = 0
  BY DEF Count, Cleared, IsBuffer
<1>3. Contents(Cleared(b)) \in Seq(V \cup {Blank}) /\ Len(Contents(Cleared(b))) = 0
  BY <1>1, <1>2, ContentsType
<1>4. Contents(Cleared(b)) = <<>>
  BY <1>3, EmptySeq
<1> QED BY <1>1, <1>4 DEF Capacity, Cleared, IsBuffer
-----------------------------------------------------------------------------
\* removeRawValue() hands out the oldest entry and takes it off the front.
LEMMA RemovedTakesHead ==
    ASSUME NEW V, NEW b, IsBuffer(b, V), ~IsEmpty(b)
    PROVE  /\ IsBuffer(Removed(b), V)
           /\ Capacity(Removed(b)) = Capacity(b)
           /\ Contents(b) # <<>>
           /\ b.slots[OldestIndex(b)] = Head(Contents(b))
           /\ Contents(Removed(b)) = Tail(Contents(b))
<1> DEFINE r == Removed(b)
<1>1. /\ IsBuffer(r, V)
      /\ r.max_index = b.max_index
      /\ r.slots = b.slots
      /\ r.head = b.head
      /\ r.tail = IF b.tail + 1 >= b.max_index THEN 0 ELSE b.tail + 1
  BY DEF IsBuffer, Removed, OldestIndex, Advance
<1>2. Capacity(r) = Capacity(b)
  BY <1>1 DEF Capacity
<1>3. Count(b) \in Nat /\ Count(b) > 0 /\ Count(b) <= Capacity(b)
  BY CountRange, Fields
<1>4. Count(r) = Count(b) - 1
  <2>1. /\ b.max_index \in Nat
        /\ b.head \in Nat /\ b.head < b.max_index
        /\ b.tail \in Nat /\ b.tail < b.max_index
        /\ b.tail # b.head
    BY Fields DEF IsEmpty
  <2>2. CASE b.tail + 1 >= b.max_index
    BY <1>1, <2>1, <2>2 DEF Count
  <2>3. CASE ~(b.tail + 1 >= b.max_index)
    BY <1>1, <2>1, <2>3 DEF Count
  <2> QED BY <2>2, <2>3
<1> HIDE DEF r
<1>5. IndexOf(b, 0) = OldestIndex(b)
  <2>1. IndexOf(b, 0) = IF b.tail + 1 + 0 >= b.max_index
                        THEN b.tail + 1 + 0 - b.max_index
                        ELSE b.tail + 1 + 0
    BY Fields, IndexValue
  <2> QED BY <2>1, Fields DEF OldestIndex, Advance
<1>6. ASSUME NEW i \in 1 .. Count(r)
      PROVE  RawValue(r, i - 1) = RawValue(b, i)
  <2>1. i - 1 \in Nat /\ i \in Nat /\ i <= Capacity(b) /\ i - 1 <= Capacity(r)
    BY <1>2, <1>3, <1>4, Fields
  <2>2. IndexOf(r, i - 1) = IF r.tail + 1 + (i - 1) >= r.max_index
                            THEN r.tail + 1 + (i - 1) - r.max_index
                            ELSE r.tail + 1 + (i - 1)
    BY <1>1, <2>1, IndexValue
  <2>3. IndexOf(b, i) = IF b.tail + 1 + i >= b.max_index
                        THEN b.tail + 1 + i - b.max_index
                        ELSE b.tail + 1 + i
    BY <2>1, IndexValue
  <2>4. IndexOf(r, i - 1) = IndexOf(b, i)
    <3>1. /\ b.max_index \in Nat
          /\ b.tail \in Nat /\ b.tail < b.max_index
          /\ i <= b.max_index - 1
      BY <2>1, Fields
    <3>2. CASE b.tail + 1 >= b.max_index
      BY <1>1, <2>1, <2>2, <2>3, <3>1, <3>2
    <3>3. CASE ~(b.tail + 1 >= b.max_index)
      BY <1>1, <2>1, <2>2, <2>3, <3>1, <3>3
    <3> QED BY <3>2, <3>3
  <2> QED BY <1>1, <2>4 DEF RawValue
<1>7. /\ Contents(b) \in Seq(V \cup {Blank}) /\ Len(Contents(b)) = Count(b)
      /\ \A i \in 1 .. Count(b) : Contents(b)[i] = RawValue(b, i - 1)
  BY ContentsType
<1>8. Contents(b) # <<>> /\ Head(Contents(b)) = b.slots[OldestIndex(b)]
  <2>1. Contents(b)[1] = RawValue(b, 0)
    BY <1>3, <1>7
  <2> QED BY <1>3, <1>5, <1>7, <2>1 DEF RawValue
<1>9. Contents(r) = Tail(Contents(b))
  <2>1. /\ Contents(r) \in Seq(V \cup {Blank}) /\ Len(Contents(r)) = Count(r)
        /\ \A i \in 1 .. Count(r) : Contents(r)[i] = RawValue(r, i - 1)
    BY <1>1, ContentsType
  <2>2. /\ Tail(Contents(b)) \in Seq(V \cup {Blank})
        /\ Len(Tail(Contents(b))) = Count(r)
    BY <1>3, <1>4, <1>7, <1>8
  <2>3. ASSUME NEW i \in 1 .. Count(r)
        PROVE  Contents(r)[i] = Tail(Contents(b))[i]
    <3>1. Tail(Contents(b))[i] = Contents(b)[i + 1]
      BY <1>3, <1>4, <1>7, <1>8
    <3>2. Contents(b)[i + 1] = RawValue(b, i)
      BY <1>3, <1>4, <1>7
    <3> QED BY <3>1, <3>2, <2>1, <1>6
  <2> QED BY <2>1, <2>2, <2>3, SeqEqual
<1> QED BY <1>1, <1>2, <1>8, <1>9 DEF r
-----------------------------------------------------------------------------
\* What getNextElement() changes: the head moves on and its slot takes v; on
\* a full ring the tail moves on as well and the overwrite is counted.
LEMMA AddedFields ==
    ASSUME NEW V, NEW b, IsBuffer(b, V), NEW v \in V
    PROVE  LET r == Added(b, v)
               h == IF b.head + 1 >= b.max_index THEN 0 ELSE b.head + 1
               t == IF b.tail + 1 >= b.max_index THEN 0 ELSE b.tail + 1
           IN  /\ IsBuffer(r, V)
               /\ r.max_index = b.max_index
               /\ r.head = h
               /\ r.tail = IF h = b.tail THEN t ELSE b.tail
               /\ r.overwrites = IF h = b.tail THEN b.overwrites + 1
                                               ELSE b.overwrites
               /\ r.slots = [b.slots EXCEPT ![h] = v]
  BY DEF IsBuffer, Added, Advance

\* The ring is full exactly when the head is about to meet the tail.
LEMMA FullRing ==
    ASSUME NEW V, NEW b, IsBuffer(b, V),
           NEW h, h = IF b.head + 1 >= b.max_index THEN 0 ELSE b.head + 1
    PROVE  h = b.tail <=> Count(b) = Capacity(b)
<1>1. /\ b.max_index \in Nat \ {0}
      /\ b.head \in Nat /\ b.head < b.max_index
      /\ b.tail \in Nat /\ b.tail < b.max_index
      /\ Capacity(b) = b.max_index - 1
  BY Fields
<1>2. CASE b.head >= b.tail
  BY <1>1, <1>2 DEF Count
<1>3. CASE ~(b.head >= b.tail)
  BY <1>1, <1>3 DEF Count
<1> QED BY <1>2, <1>3

\* Adding to a ring with room appends.
LEMMA AddedAppends ==
    ASSUME NEW V, NEW b, IsBuffer(b, V), NEW v \in V,
           Count(b) < Capacity(b)
    PROVE  /\ IsBuffer(Added(b, v), V)
           /\ Capacity(Added(b, v)) = Capacity(b)
           /\ Added(b, v).overwrites = b.overwrites
           /\ Contents(Added(b, v)) = Append(Contents(b), v)
<1> DEFINE r == Added(b, v)
           h == IF b.head + 1 >= b.max_index THEN 0 ELSE b.head + 1
<1>1. h # b.tail
  BY FullRing, CountRange, Fields
<1>2. /\ IsBuffer(r, V)
      /\ r.max_index = b.max_index
      /\ r.head = h
      /\ r.tail = b.tail
      /\ r.overwrites = b.overwrites
      /\ r.slots = [b.slots EXCEPT ![h] = v]
  BY <1>1, AddedFields
<1> HIDE DEF r
<1>3. /\ b.max_index \in Nat \ {0}
      /\ b.head \in Nat /\ b.head < b.max_index
      /\ b.tail \in Nat /\ b.tail < b.max_index
      /\ Capacity(b) = b.max_index - 1
      /\ b.slots \in [0 .. b.max_index - 1 -> V \cup {Blank}]
  BY Fields
<1>4. Count(b) \in Nat /\ Count(r) = Count(b) + 1
  BY <1>1, <1>2, <1>3 DEF Count
<1>5. IndexOf(b, Count(b)) = h
  <2>1. IndexOf(b, Count(b)) = IF b.tail + 1 + Count(b) >= b.max_index
                               THEN b.tail + 1 + Count(b) - b.max_index
                               ELSE b.tail + 1 + Count(b)
    <3>1. Count(b) <= Capacity(b)
      BY <1>3, <1>4
    <3> QED BY <1>4, <3>1, IndexValue
  <2>2. CASE b.head >= b.tail
    BY <1>1, <1>3, <2>1, <2>2 DEF Count
  <2>3. CASE ~(b.head >= b.tail)
    BY <1>1, <1>3, <2>1, <2>3 DEF Count
  <2> QED BY <2>2, <2>3
<1>6. ASSUME NEW i \in 0 .. Count(b)
      PROVE  /\ IndexOf(r, i) = IndexOf(b, i)
             /\ IndexOf(b, i) \in 0 .. b.max_index - 1
             /\ i < Count(b) => IndexOf(b, i) # h
  <2>1. i \in Nat /\ i <= Capacity(b) /\ Count(b) <= Capacity(b)
    BY <1>3, <1>4
  <2>2. IndexOf(b, i) = IF b.tail + 1 + i >= b.max_index
                        THEN b.tail + 1 + i - b.max_index
                        ELSE b.tail + 1 + i
    BY <2>1, IndexValue
  <2>3. IndexOf(b, Count(b)) = IF b.tail + 1 + Count(b) >= b.max_index
                               THEN b.tail + 1 + Count(b) - b.max_index
                               ELSE b.tail + 1 + Count(b)
    BY <1>4, <2>1, IndexValue
  <2>4. i < Count(b) => IndexOf(b, i) # IndexOf(b, Count(b))
    BY <1>3, <1>4, <2>1, <2>2, <2>3
  <2>5. IndexOf(r, i) = IndexOf(b, i)
    BY <1>2 DEF IndexOf
  <2>6. IndexOf(b, i) \in 0 .. b.max_index - 1
    BY <2>1, IndexValue
  <2> QED BY <1>5, <2>4, <2>5, <2>6
<1>7. Contents(r) = Append(Contents(b), v)
  <2>1. /\ Contents(b) \in Seq(V \cup {Blank}) /\ Len(Contents(b)) = Count(b)
        /\ \A i \in 1 .. Count(b) : Contents(b)[i] = RawValue(b, i - 1)
    BY ContentsType
  <2>2. /\ Contents(r) \in Seq(V \cup {Blank}) /\ Len(Contents(r)) = Count(r)
        /\ \A i \in 1 .. Count(r) : Contents(r)[i] = RawValue(r, i - 1)
    BY <1>2, ContentsType
  <2>3. /\ Append(Contents(b), v) \in Seq(V \cup {Blank})
        /\ Len(Append(Contents(b), v)) = Count(r)
    BY <1>4, <2>1
  <2>4. ASSUME NEW i \in 1 .. Count(r)
        PROVE  Contents(r)[i] = Append(Contents(b), v)[i]
    <3>1. i - 1 \in 0 .. Count(b)
      BY <1>4
    <3>2. RawValue(r, i - 1) = [b.slots EXCEPT ![h] = v][IndexOf(b, i - 1)]
      BY <1>2, <1>6, <3>1 DEF RawValue
    <3>3. CASE i = Count(r)
      <4>1. i - 1 = Count(b)
        BY <1>4, <3>3
      <4>2. IndexOf(b, i - 1) = h /\ h \in 0 .. b.max_index - 1
        BY <1>5, <1>6, <3>1, <4>1
      <4>3. RawValue(r, i - 1) = v
        BY <1>3, <3>2, <4>2
      <4>4. Append(Contents(b), v)[i] = v
        BY <1>4, <2>1, <3>3
      <4> QED BY <2>2, <4>3, <4>4
    <3>4. CASE i # Count(r)
      <4>1. i - 1 < Count(b) /\ i \in 1 .. Count(b)
        BY <1>4, <3>4
      <4>2. IndexOf(b, i - 1) # h /\ IndexOf(b, i - 1) \in 0 .. b.max_index - 1
        BY <1>6, <3>1, <4>1
      <4>3. RawValue(r, i - 1) = RawValue(b, i - 1)
        BY <1>3, <3>2, <4>2 DEF RawValue
      <4>4. Append(Contents(b), v)[i] = Contents(b)[i]
        BY <1>4, <2>1, <4>1
      <4> QED BY <2>1, <2>2, <4>1, <4>3, <4>4
    <3> QED BY <3>3, <3>4
  <2> HIDE DEF h
  <2> QED BY <2>2, <2>3, <2>4, SeqEqual
<1> QED BY <1>2, <1>7, <1>3 DEF Capacity, r

\* Two rings that differ in the overwrite counter only have the same entries.
LEMMA SameEntries ==
    ASSUME NEW b, NEW c,
           b.max_index = c.max_index, b.head = c.head, b.tail = c.tail,
           b.slots = c.slots
    PROVE  Contents(b) = Contents(c) /\ Capacity(b) = Capacity(c)
<1>1. Count(b) = Count(c) /\ Capacity(b) = Capacity(c)
  BY DEF Count, Capacity
<1>2. \A i : RawValue(b, i - 1) = RawValue(c, i - 1)
  BY DEF RawValue, IndexOf
<1> QED BY <1>1, <1>2 DEF Contents

\* Adding to a full ring gives up the oldest entry, and only that one, and
\* counts it: it is a removal whose result nobody sees, and then an append.
LEMMA AddedOverwrites ==
    ASSUME NEW V, NEW b, IsBuffer(b, V), NEW v \in V,
           Count(b) = Capacity(b), Capacity(b) >= 1
    PROVE  /\ IsBuffer(Added(b, v), V)
           /\ Capacity(Added(b, v)) = Capacity(b)
           /\ Added(b, v).overwrites = b.overwrites + 1
           /\ Contents(b) # <<>>
           /\ Contents(Added(b, v)) = Append(Tail(Contents(b)), v)
<1> DEFINE r == Removed(b)
           h == IF b.head + 1 >= b.max_index THEN 0 ELSE b.head + 1
           t == IF b.tail + 1 >= b.max_index THEN 0 ELSE b.tail + 1
<1>1. h = b.tail
  BY FullRing
<1>2. ~IsEmpty(b)
  BY CountRange, Fields
<1>3. /\ IsBuffer(r, V)
      /\ Capacity(r) = Capacity(b)
      /\ Contents(b) # <<>>
      /\ Contents(r) = Tail(Contents(b))
  BY <1>2, RemovedTakesHead
<1>4. /\ r.max_index = b.max_index
      /\ r.slots = b.slots
      /\ r.head = b.head
      /\ r.tail = t
  BY DEF IsBuffer, Removed, OldestIndex, Advance
<1> HIDE DEF r
<1>5. Count(r) < Capacity(r)
  <2>1. /\ b.max_index \in Nat /\ b.max_index >= 2
        /\ b.head \in Nat /\ b.head < b.max_index
        /\ b.tail \in Nat /\ b.tail < b.max_index
        /\ Capacity(b) = b.max_index - 1
    BY Fields
  <2>2. Count(r) # Capacity(r)
    <3>1. h # t
      BY <1>1, <2>1
    <3>2. h = IF r.head + 1 >= r.max_index THEN 0 ELSE r.head + 1
      BY <1>4
    <3> HIDE DEF h
    <3> QED BY <1>3, <1>4, <3>1, <3>2, FullRing
  <2> QED BY <1>3, <2>1, <2>2, CountRange, Fields
<1>6. Contents(Added(r, v)) = Append(Contents(r), v)
  BY <1>3, <1>5, AddedAppends
<1>7. /\ IsBuffer(Added(b, v), V)
      /\ Added(b, v).max_index = b.max_index
      /\ Added(b, v).head = h
      /\ Added(b, v).tail = t
      /\ Added(b, v).overwrites = b.overwrites + 1
      /\ Added(b, v).slots = [b.slots EXCEPT ![h] = v]
  BY <1>1, AddedFields
<1>8. /\ Added(r, v).max_index = b.max_index
      /\ Added(r, v).head = h
      /\ Added(r, v).tail = t
      /\ Added(r, v).slots = [b.slots EXCEPT ![h] = v]
  <2>1. h # t
    <3>1. h = IF r.head + 1 >= r.max_index THEN 0 ELSE r.head + 1
      BY <1>4
    <3>2. h = r.tail <=> Count(r) = Capacity(r)
      BY <1>3, <3>1, FullRing
    <3> QED BY <1>3, <1>4, <1>5, <3>2, CountRange, Fields
  <2> QED BY <1>3, <1>4, <2>1, AddedFields
<1>9. /\ Contents(Added(b, v)) = Contents(Added(r, v))
      /\ Capacity(Added(b, v)) = Capacity(b)
  BY <1>7, <1>8, SameEntries DEF Capacity
<1> QED BY <1>3, <1>6, <1>7, <1>9

-----------------------------------------------------------------------------
\* Every call leaves a well-formed ring.
LEMMA RingNextType == RingTypeOK /\ [RingNext]_ringVars => RingTypeOK'
<1> SUFFICES ASSUME RingTypeOK, [RingNext]_ringVars
             PROVE  RingTypeOK'
  OBVIOUS
<1>1. ASSUME NEW num \in Sizes, Allocate(num)
      PROVE  RingTypeOK'
  <2>1. IsBuffer(Allocated(num), Values)
    BY AllocatedIsEmpty, SizesArePositive
  <2> QED BY <1>1, <2>1 DEF RingTypeOK, Allocate
<1>2. ASSUME NEW v \in Values, AddRawValue(v)
      PROVE  RingTypeOK'
  <2>1. IsBuffer(Added(ring, v), Values)
    BY AddedFields DEF RingTypeOK
  <2> QED BY <1>2, <2>1 DEF RingTypeOK, AddRawValue
<1>3. ASSUME RemoveRawValue
      PROVE  RingTypeOK'
  <2>1. CASE IsEmpty(ring)
    BY <1>3, <2>1 DEF RingTypeOK, RemoveRawValue
  <2>2. CASE ~IsEmpty(ring)
    <3>1. /\ IsBuffer(Removed(ring), Values)
          /\ Contents(ring) # <<>>
          /\ ring.slots[OldestIndex(ring)] = Head(Contents(ring))
      BY <2>2, RemovedTakesHead DEF RingTypeOK
    <3>2. Head(Contents(ring)) \in Values \cup {Blank}
      <4>1. Contents(ring) \in Seq(Values \cup {Blank})
        BY ContentsType DEF RingTypeOK
      <4> QED BY <3>1, <4>1
    <3> QED BY <1>3, <2>2, <3>1, <3>2 DEF RingTypeOK, RemoveRawValue
  <2> QED BY <2>1, <2>2
<1>4. ASSUME Reset
      PROVE  RingTypeOK'
  <2>1. IsBuffer(Cleared(ring), Values)
    BY ClearedIsEmpty DEF RingTypeOK
  <2> QED BY <1>4, <2>1 DEF RingTypeOK, Reset
<1>5. CASE UNCHANGED ringVars
  BY <1>5 DEF RingTypeOK, ringVars
<1> QED BY <1>1, <1>2, <1>3, <1>4, <1>5 DEF RingNext

LEMMA RingInitType == RingInit => RingTypeOK
  BY UnallocatedIsEmpty DEF RingInit, RingTypeOK

\* head and tail never leave the allocated memory, and what a caller removes
\* is a value or nothing (CircularBuffer.cpp).
THEOREM RingShape == RingSpec => []RingTypeOK
  BY RingInitType, RingNextType, PTL DEF RingSpec
-----------------------------------------------------------------------------
\* One call on the ring is the same call on the queue of its entries.
LEMMA RingStepSimulation ==
    RingTypeOK /\ [RingNext]_ringVars => [Queue!Next]_(Queue!qvars)
<1> SUFFICES ASSUME RingTypeOK, [RingNext]_ringVars
             PROVE  Queue!Next \/ UNCHANGED Queue!qvars
  OBVIOUS
<1> USE DEF RingTypeOK
<1>1. ASSUME NEW num \in Sizes, Allocate(num)
      PROVE  Queue!Allocate(num)
  <2>1. /\ Contents(Allocated(num)) = <<>>
        /\ Capacity(Allocated(num)) = num
        /\ Allocated(num).overwrites = 0
    BY AllocatedIsEmpty, SizesArePositive DEF Allocated
  <2> QED BY <1>1, <2>1 DEF Allocate, Queue!Allocate
<1>2. ASSUME NEW v \in Values, AddRawValue(v)
      PROVE  Queue!Add(v)
  <2> DEFINE q == Contents(ring)
  <2>1. q \in Seq(Values \cup {Blank}) /\ Len(q) = Count(ring)
    BY ContentsType
  <2>2. Count(ring) \in 0 .. Capacity(ring) /\ Capacity(ring) \in Nat
    BY CountRange, Fields
  <2>3. ring' = Added(ring, v) /\ removed' = removed /\ Capacity(ring) >= 1
    BY <1>2 DEF AddRawValue
  <2>4. CASE Count(ring) < Capacity(ring)
    <3>1. /\ Contents(ring') = Append(q, v)
          /\ Capacity(ring') = Capacity(ring)
          /\ ring'.overwrites = ring.overwrites
      BY <2>3, <2>4, AddedAppends
    <3> QED BY <2>1, <2>3, <2>4, <3>1 DEF Queue!Add
  <2>5. CASE Count(ring) = Capacity(ring)
    <3>1. /\ Contents(ring') = Append(Tail(q), v)
          /\ q # <<>>
          /\ Capacity(ring') = Capacity(ring)
          /\ ring'.overwrites = ring.overwrites + 1
      BY <2>3, <2>5, AddedOverwrites
    <3>2. Append(Tail(q), v) = Tail(Append(q, v))
      <4> HIDE DEF q
      <4>1. q \in Seq(Values \cup {Blank}) /\ v \in Values \cup {Blank}
        BY <2>1
      <4> QED BY <3>1, <4>1
    <3>3. ~(Len(q) < Capacity(ring))
      BY <2>1, <2>2, <2>5
    <3> QED BY <2>3, <3>1, <3>2, <3>3 DEF Queue!Add
  <2> QED BY <2>2, <2>4, <2>5
<1>3. ASSUME RemoveRawValue
      PROVE  Queue!Remove
  <2>1. CASE IsEmpty(ring)
    <3>1. Contents(ring) \in Seq(Values \cup {Blank}) /\ Len(Contents(ring)) = 0
      BY <2>1, ContentsType, CountRange
    <3>2. Contents(ring) = <<>>
      BY <3>1, EmptySeq
    <3> QED BY <1>3, <2>1, <3>2 DEF RemoveRawValue, Queue!Remove
  <2>2. CASE ~IsEmpty(ring)
    <3>1. /\ Contents(ring) # <<>>
          /\ ring.slots[OldestIndex(ring)] = Head(Contents(ring))
          /\ Contents(Removed(ring)) = Tail(Contents(ring))
          /\ Capacity(Removed(ring)) = Capacity(ring)
      BY <2>2, RemovedTakesHead
    <3>2. Removed(ring).overwrites = ring.overwrites
      BY DEF Removed, IsBuffer
    <3> QED BY <1>3, <2>2, <3>1, <3>2 DEF RemoveRawValue, Queue!Remove
  <2> QED BY <2>1, <2>2
<1>4. ASSUME Reset
      PROVE  Queue!Reset
  <2>1. /\ Contents(Cleared(ring)) = <<>>
        /\ Capacity(Cleared(ring)) = Capacity(ring)
    BY ClearedIsEmpty
  <2>2. Cleared(ring).overwrites = 0
    BY DEF Cleared, IsBuffer
  <2> QED BY <1>4, <2>1, <2>2 DEF Reset, Queue!Reset
<1>5. CASE UNCHANGED ringVars
  BY <1>5 DEF ringVars, Queue!qvars
<1> QED BY <1>1, <1>2, <1>3, <1>4, <1>5 DEF RingNext, Queue!Next

LEMMA RingInitSimulation == RingInit => Queue!Init
  BY UnallocatedIsEmpty DEF RingInit, Queue!Init, Unallocated

\* The ring with its head, tail and spare slot behaves, call by call, as the
\* queue that drops its oldest element when full: entries come out in the
\* order they went in, none is lost unless it was overwritten, and
\* getOverwrites() counts exactly those (CircularBuffer.cpp).
THEOREM RingImplementsQueue == RingSpec => RingIsQueue
  BY RingInitType, RingNextType, RingInitSimulation, RingStepSimulation, PTL
  DEF RingSpec, RingIsQueue, Queue!Spec

-----------------------------------------------------------------------------
(***************************************************************************)
(* The sample mechanism.                                                   *)
(***************************************************************************)
\* The entries of a ring are in order, and none is newer than last.
Sorted(c, last) ==
    /\ \A i, j \in DOMAIN c : i <= j => c[i].stamp <= c[j].stamp
    /\ \A i \in DOMAIN c : c[i].stamp <= last

Ring(b, last) ==
    /\ IsBuffer(b, Samples)
    /\ Contents(b) \in Seq(Samples)
    /\ Sorted(Contents(b), last)

\* Only slots that were filled are ever read.
EntriesAreSamples == Contents(buffer) \in Seq(Samples)

\* Values arrive only after pvConnected allocated a ring for them.
ConnectedHasRing == connected => Capacity(buffer) = BufferSpace

\* The address that write() holds is that of a slot with a sample in it,
\* unless the ring it belonged to was replaced.
WriterSlotHolds ==
    writer.pc = "add" =>
        \/ writer.slot = Dangling
        \/ /\ Capacity(buffer) = BufferSpace
           /\ writer.slot \in 0 .. BufferSpace
           /\ buffer.slots[writer.slot] \in Samples

\* What every step preserves.
IInv ==
    /\ TypeOK
    /\ BufferSorted
    /\ EntriesAreSamples
    /\ ConnectedHasRing
    /\ WriterSlotHolds
-----------------------------------------------------------------------------
\* The fields of a sample.
LEMMA SampleFields ==
    ASSUME NEW s \in Samples
    PROVE  s.id \in Nat /\ s.stamp \in Nat /\ s.type \in Types \cup Foreign
           /\ s.sevr \in Severities
  BY DEF Samples

\* Each entry of a sequence of samples is one.
LEMMA EntryFields ==
    ASSUME NEW q \in Seq(Samples), NEW i \in DOMAIN q
    PROVE  q[i] \in Samples /\ q[i].id \in Nat /\ q[i].stamp \in Nat
<1>1. q[i] \in Samples
  OBVIOUS
<1> QED BY <1>1, SampleFields

\* A newer sample at the end keeps the order.
LEMMA SortedAppend ==
    ASSUME NEW q \in Seq(Samples), NEW last \in Nat, Sorted(q, last),
           NEW v \in Samples, last <= v.stamp
    PROVE  /\ Append(q, v) \in Seq(Samples)
           /\ Sorted(Append(q, v), v.stamp)
<1> DEFINE r == Append(q, v)
<1>1. /\ r \in Seq(Samples)
      /\ Len(r) = Len(q) + 1
      /\ \A i \in 1 .. Len(q) : r[i] = q[i]
      /\ r[Len(q) + 1] = v
      /\ Len(q) \in Nat
  OBVIOUS
<1> HIDE DEF r
<1>2. \A i \in DOMAIN r : i \in Nat /\ (i \in DOMAIN q \/ i = Len(q) + 1)
  BY <1>1
<1>3. \A i \in DOMAIN q : q[i].stamp <= last /\ q[i].stamp \in Nat /\ r[i] = q[i]
                          /\ i \in Nat /\ i <= Len(q)
  BY <1>1, EntryFields DEF Sorted
<1>4. v.stamp \in Nat
  BY SampleFields
<1>5. \A i \in DOMAIN r : r[i].stamp <= v.stamp
  BY <1>1, <1>2, <1>3, <1>4
<1>6. ASSUME NEW i \in DOMAIN r, NEW j \in DOMAIN r, i <= j
      PROVE  r[i].stamp <= r[j].stamp
  <2>1. CASE j = Len(q) + 1
    BY <2>1, <1>1, <1>5
  <2>2. CASE j \in DOMAIN q
    BY <2>2, <1>1, <1>2, <1>3, <1>6 DEF Sorted
  <2> QED BY <2>1, <2>2, <1>2
<1>7. Sorted(r, v.stamp)
  BY <1>5, <1>6 DEF Sorted
<1> QED BY <1>1, <1>7 DEF r

\* So does the loss of the oldest sample.
LEMMA SortedTail ==
    ASSUME NEW q \in Seq(Samples), q # <<>>, NEW last, Sorted(q, last)
    PROVE  /\ Tail(q) \in Seq(Samples)
           /\ Sorted(Tail(q), last)
<1> DEFINE t == Tail(q)
<1>1. /\ t \in Seq(Samples)
      /\ \A i \in DOMAIN t : t[i] = q[i + 1] /\ i + 1 \in DOMAIN q /\ i \in Nat
  OBVIOUS
<1> HIDE DEF t
<1>2. Sorted(t, last)
  BY <1>1 DEF Sorted
<1> QED BY <1>1, <1>2 DEF t

\* Nothing at all is sorted.
LEMMA SortedEmpty ==
    ASSUME NEW last
    PROVE  <<>> \in Seq(Samples) /\ Sorted(<<>>, last)
  BY DEF Sorted

\* A bound on the stamps may grow.
LEMMA SortedLater ==
    ASSUME NEW q \in Seq(Samples), NEW last \in Nat, NEW later \in Nat, last <= later,
           Sorted(q, last)
    PROVE  Sorted(q, later)
<1>1. \A i \in DOMAIN q : q[i].stamp \in Nat
  BY EntryFields
<1> QED BY <1>1 DEF Sorted
-----------------------------------------------------------------------------
\* Adding a newer sample to a ring, full or not, leaves a sorted ring in
\* which every slot that held a sample still does.
LEMMA AddKeepsRing ==
    ASSUME NEW b, NEW last \in Nat, Ring(b, last), Capacity(b) >= 1,
           NEW v \in Samples, last <= v.stamp
    PROVE  /\ Ring(Added(b, v), v.stamp)
           /\ Capacity(Added(b, v)) = Capacity(b)
           /\ \A x \in 0 .. Capacity(b) :
                b.slots[x] \in Samples => Added(b, v).slots[x] \in Samples
<1>1. /\ IsBuffer(b, Samples)
      /\ Contents(b) \in Seq(Samples)
      /\ Sorted(Contents(b), last)
  BY DEF Ring
<1>2. Count(b) \in 0 .. Capacity(b) /\ Capacity(b) \in Nat
  BY <1>1, CountRange, Fields
<1>3. /\ Ring(Added(b, v), v.stamp)
      /\ Capacity(Added(b, v)) = Capacity(b)
  <2>1. CASE Count(b) < Capacity(b)
    <3>1. /\ IsBuffer(Added(b, v), Samples)
          /\ Capacity(Added(b, v)) = Capacity(b)
          /\ Contents(Added(b, v)) = Append(Contents(b), v)
      BY <1>1, <2>1, AddedAppends
    <3>2. /\ Append(Contents(b), v) \in Seq(Samples)
          /\ Sorted(Append(Contents(b), v), v.stamp)
      BY <1>1, SortedAppend
    <3> QED BY <3>1, <3>2 DEF Ring
  <2>2. CASE Count(b) = Capacity(b)
    <3>1. /\ IsBuffer(Added(b, v), Samples)
          /\ Capacity(Added(b, v)) = Capacity(b)
          /\ Contents(b) # <<>>
          /\ Contents(Added(b, v)) = Append(Tail(Contents(b)), v)
      BY <1>1, <2>2, AddedOverwrites
    <3>2. /\ Tail(Contents(b)) \in Seq(Samples)
          /\ Sorted(Tail(Contents(b)), last)
      BY <1>1, <3>1, SortedTail
    <3>3. /\ Append(Tail(Contents(b)), v) \in Seq(Samples)
          /\ Sorted(Append(Tail(Contents(b)), v), v.stamp)
      BY <3>2, SortedAppend
    <3> QED BY <3>1, <3>3 DEF Ring
  <2> QED BY <1>2, <2>1, <2>2
<1>4. \A x \in 0 .. Capacity(b) :
        b.slots[x] \in Samples => Added(b, v).slots[x] \in Samples
  <2> DEFINE h == IF b.head + 1 >= b.max_index THEN 0 ELSE b.head + 1
  <2>1. Added(b, v).slots = [b.slots EXCEPT ![h] = v]
    BY <1>1, AddedFields
  <2>2. b.slots \in [0 .. Capacity(b) -> Samples \cup {Blank}]
    BY <1>1, Fields
  <2> QED BY <2>1, <2>2
<1> QED BY <1>3, <1>4

\* What is pushed out of a ring are numbers of samples.
LEMMA PushedOutType ==
    ASSUME NEW b, NEW last, Ring(b, last), NEW n \in Nat
    PROVE  PushedOut(b, n) \subseteq Nat
<1>1. Contents(b) \in Seq(Samples) /\ Len(Contents(b)) = Count(b)
  BY ContentsType DEF Ring
<1>2. Count(b) \in Nat /\ Capacity(b) \in Nat
  BY CountRange, Fields DEF Ring
<1>3. ASSUME NEW i \in 1 .. Count(b)
      PROVE  Contents(b)[i].id \in Nat
  BY <1>1, EntryFields
<1>4. ASSUME NEW i \in 1 .. (IF Count(b) + n - Capacity(b) > Count(b) THEN Count(b)
                               ELSE Count(b) + n - Capacity(b))
      PROVE  i \in 1 .. Count(b)
  BY <1>2
<1> QED BY <1>3, <1>4 DEF PushedOut

\* What a new ring does not get are numbers of samples as well.
LEMMA ValuesType ==
    ASSUME NEW b, NEW last, Ring(b, last)
    PROVE  ValueIds(b) \subseteq Nat
<1>1. Contents(b) \in Seq(Samples) /\ DOMAIN Contents(b) = 1 .. Count(b)
  BY DEF Ring, Contents
<1>2. \A i \in 1 .. Count(b) : Contents(b)[i].id \in Nat
  BY <1>1, EntryFields
<1> QED BY <1>2 DEF ValueIds

\* A new type for a sample changes nothing else of it.
LEMMA RetypedFields ==
    ASSUME NEW s \in Samples, NEW type \in Types
    PROVE  /\ Retyped(s, type) \in Samples
           /\ Retyped(s, type).stamp = s.stamp
  BY DEF Samples, Retyped

\* The events of a ring fit into a ring of the same size.
LEMMA EventsFit ==
    ASSUME NEW b, NEW last, Ring(b, last), Capacity(b) \in {0, BufferSpace}
    PROVE  /\ Cardinality(EventPositions(b)) \in 0 .. BufferSpace
           /\ EventPositions(b) \subseteq 1 .. Count(b)
           /\ Cardinality(1 .. Cardinality(EventPositions(b))) = Cardinality(EventPositions(b))
<1> DEFINE E == EventPositions(b)
<1>1. Count(b) \in Nat /\ Count(b) <= BufferSpace
  BY CountRange, Fields, SpaceAssumption DEF Ring
<1>2. E \subseteq 1 .. Count(b)
  BY DEF EventPositions
<1>3. IsFiniteSet(1 .. Count(b)) /\ Cardinality(1 .. Count(b)) = Count(b)
  BY <1>1, FS_Interval
<1>4. IsFiniteSet(E) /\ Cardinality(E) <= Count(b)
  BY <1>2, <1>3, FS_Subset
<1>5. Cardinality(E) \in Nat
  BY <1>4, FS_CardinalityType
<1>6. Cardinality(1 .. Cardinality(E)) = Cardinality(E)
  BY <1>5, FS_Interval
<1>7. Cardinality(E) \in 0 .. BufferSpace
  BY <1>1, <1>4, <1>5, SpaceAssumption
<1> QED BY <1>2, <1>6, <1>7

\* Entry number i of a ring that was filled from its first slot on.
LEMMA FreshIndex ==
    ASSUME NEW m \in Nat, NEW n \in 0 .. m, NEW i \in 1 .. n
    PROVE  (0 + 1 + (i - 1)) % (m + 1) = i
<1>1. i \in Nat /\ i < m + 1 /\ 0 + 1 + (i - 1) = i
  OBVIOUS
<1>2. i % (m + 1) = i
  BY <1>1
<1> QED BY <1>1, <1>2

\* A ring with n entries in the first slots of memory sl.
Fresh(n, sl) ==
    [max_index |-> BufferSpace + 1, head |-> n, tail |-> 0, overwrites |-> 0,
     slots |-> sl]

LEMMA FreshRing ==
    ASSUME NEW n \in 0 .. BufferSpace,
           NEW sl \in [0 .. BufferSpace -> Samples \cup {Blank}]
    PROVE  /\ IsBuffer(Fresh(n, sl), Samples)
           /\ Capacity(Fresh(n, sl)) = BufferSpace
           /\ Count(Fresh(n, sl)) = n
           /\ \A i \in 1 .. n : RawValue(Fresh(n, sl), i - 1) = sl[i]
<1> DEFINE r == Fresh(n, sl)
<1>1. BufferSpace \in Nat
  BY SpaceAssumption
<1>2. /\ DOMAIN r = {"max_index", "head", "tail", "overwrites", "slots"}
      /\ r.max_index = BufferSpace + 1 /\ r.head = n /\ r.tail = 0
      /\ r.overwrites = 0 /\ r.slots = sl
  BY DEF Fresh
<1> HIDE DEF r
<1>3. 0 .. r.max_index - 1 = 0 .. BufferSpace
  BY <1>1, <1>2
<1>4. IsBuffer(r, Samples)
  BY <1>1, <1>2, <1>3 DEF IsBuffer
<1>5. Capacity(r) = BufferSpace /\ Count(r) = n
  BY <1>1, <1>2 DEF Capacity, Count
<1>6. ASSUME NEW i \in 1 .. n
      PROVE  RawValue(r, i - 1) = sl[i]
  BY <1>1, <1>2, FreshIndex DEF RawValue, IndexOf
<1> QED BY <1>4, <1>5, <1>6 DEF r

\* The ring that pvConnected fills with the events of the old one.
LEMMA RefilledFields ==
    ASSUME NEW b, NEW last, Ring(b, last), Capacity(b) \in {0, BufferSpace},
           NEW keep \in [1 .. Cardinality(EventPositions(b)) -> EventPositions(b)],
           NEW type \in Types
    PROVE  LET r == Refilled(b, keep, type)
               n == Cardinality(EventPositions(b))
           IN  /\ IsBuffer(r, Samples)
               /\ Capacity(r) = BufferSpace
               /\ Count(r) = n
               /\ \A i \in 1 .. n :
                    /\ keep[i] \in DOMAIN Contents(b)
                    /\ RawValue(r, i - 1) = Retyped(Contents(b)[keep[i]], type)
<1> DEFINE n == Cardinality(EventPositions(b))
           r == Refilled(b, keep, type)
<1>1. n \in 0 .. BufferSpace /\ EventPositions(b) \subseteq 1 .. Count(b)
      /\ Cardinality(1 .. n) = n
  BY EventsFit
<1>2. Contents(b) \in Seq(Samples) /\ DOMAIN Contents(b) = 1 .. Count(b)
  BY DEF Ring, Contents
<1>3. \A i \in 1 .. n : keep[i] \in DOMAIN Contents(b)
  BY <1>1, <1>2
<1>4. \A i \in 1 .. n : Retyped(Contents(b)[keep[i]], type) \in Samples
  BY <1>2, <1>3, EntryFields, RetypedFields
<1> DEFINE sl == [i \in 0 .. BufferSpace |->
                    IF i \in 1 .. n THEN Retyped(Contents(b)[keep[i]], type)
                    ELSE Blank]
<1>5. sl \in [0 .. BufferSpace -> Samples \cup {Blank}]
  BY <1>4
<1>6. DOMAIN keep = 1 .. n
  OBVIOUS
<1>7. r = [Allocated(BufferSpace) EXCEPT !.head = n, !.slots = sl]
  BY <1>1, <1>6 DEF Refilled
<1> HIDE DEF sl, r, n
<1>8. r = Fresh(n, sl)
  BY <1>7 DEF Allocated, Fresh
<1>9. /\ IsBuffer(r, Samples) /\ Capacity(r) = BufferSpace /\ Count(r) = n
      /\ \A i \in 1 .. n : RawValue(r, i - 1) = sl[i]
  <2>1. n \in 0 .. BufferSpace
    BY <1>1
  <2> QED BY <1>5, <1>8, <2>1, FreshRing
<1>10. \A i \in 1 .. n : sl[i] = Retyped(Contents(b)[keep[i]], type)
  <2>1. \A i \in 1 .. n : i \in 0 .. BufferSpace
    BY <1>1, SpaceAssumption
  <2> QED BY <2>1 DEF sl
<1> QED BY <1>3, <1>9, <1>10 DEF r, n

\* It is sorted, because the events were.
LEMMA RefilledRing ==
    ASSUME NEW b, NEW last \in Nat, Ring(b, last), Capacity(b) \in {0, BufferSpace},
           NEW keep \in [1 .. Cardinality(EventPositions(b)) -> EventPositions(b)],
           InOrder(keep), NEW type \in Types
    PROVE  /\ Ring(Refilled(b, keep, type), last)
           /\ Capacity(Refilled(b, keep, type)) = BufferSpace
<1> DEFINE n == Cardinality(EventPositions(b))
           r == Refilled(b, keep, type)
           c == Contents(r)
           q == Contents(b)
<1>1. /\ IsBuffer(r, Samples)
      /\ Capacity(r) = BufferSpace
      /\ Count(r) = n
      /\ \A i \in 1 .. n :
           /\ keep[i] \in DOMAIN q
           /\ RawValue(r, i - 1) = Retyped(q[keep[i]], type)
  BY RefilledFields
<1>2. q \in Seq(Samples) /\ Sorted(q, last)
  BY DEF Ring
<1>3. n \in Nat
  BY <1>1, CountRange, Fields
<1> HIDE DEF r, n, q
<1>4. c = [i \in 1 .. n |-> RawValue(r, i - 1)]
  BY <1>1 DEF Contents
<1> HIDE DEF c
<1>5. ASSUME NEW i \in 1 .. n
      PROVE  /\ c[i] \in Samples
             /\ c[i].stamp = q[keep[i]].stamp
             /\ keep[i] \in DOMAIN q
  <2>1. c[i] = Retyped(q[keep[i]], type) /\ keep[i] \in DOMAIN q
    BY <1>1, <1>4
  <2>2. q[keep[i]] \in Samples
    BY <1>2, <2>1, EntryFields
  <2> QED BY <2>1, <2>2, RetypedFields
<1>6. c \in Seq(Samples) /\ DOMAIN c = 1 .. n
  <2>1. DOMAIN c = 1 .. n
    BY <1>4
  <2>2. c \in [1 .. n -> Samples]
    BY <1>4, <1>5
  <2> QED BY <1>3, <2>1, <2>2, SeqDef
<1>7. ASSUME NEW i \in 1 .. n, NEW j \in 1 .. n, i <= j
      PROVE  c[i].stamp <= c[j].stamp
  <2>1. keep[i] <= keep[j] /\ keep[i] \in DOMAIN q /\ keep[j] \in DOMAIN q
    <3>1. i \in DOMAIN keep /\ j \in DOMAIN keep
      BY DEF n
    <3>2. keep[i] \in Nat /\ keep[j] \in Nat
      BY <1>2, <1>5
    <3>3. i = j \/ i < j
      BY <1>3, <1>7
    <3> QED BY <1>5, <3>1, <3>2, <3>3 DEF InOrder
  <2> QED BY <1>2, <1>5, <2>1 DEF Sorted
<1>8. \A i \in 1 .. n : c[i].stamp <= last
  BY <1>2, <1>5 DEF Sorted
<1>9. Sorted(c, last)
  BY <1>6, <1>7, <1>8 DEF Sorted
<1> QED BY <1>1, <1>6, <1>9 DEF c, r, Ring
-----------------------------------------------------------------------------
\* The conjuncts of the invariant that speak of the ring, in one.
LEMMA RingOfInv ==
    /\ IInv => Ring(buffer, lastStamp)
    /\ Ring(buffer', lastStamp') =>
         IsBuffer(buffer', Samples) /\ EntriesAreSamples' /\ BufferSorted'
  BY DEF IInv, TypeOK, Ring, Sorted, EntriesAreSamples, BufferSorted

\* An event is stamped no earlier than what is in the ring.
LEMMA EventStampLater ==
    ASSUME IInv, NEW when \in Nat
    PROVE  EventStamp(when) \in Nat /\ lastStamp <= EventStamp(when)
  BY DEF IInv, TypeOK, EventStamp

\* Adding an event, with or without allocating the ring first.
LEMMA AddEventKeeps ==
    ASSUME IInv, NEW sevr \in Severities, NEW when \in Nat, AddEvent(sevr, when),
           writer' = writer
    PROVE  /\ Ring(buffer', lastStamp')
           /\ Capacity(buffer') = BufferSpace
           /\ bufType' \in Types
           /\ lastStamp' \in Nat
           /\ haveSample' \in BOOLEAN
           /\ added' \in Nat
           /\ overwritten' \subseteq Nat
           /\ discarded' \subseteq Nat
           /\ WriterSlotHolds'
<1> DEFINE none == Capacity(buffer) < 1
           b    == IF none THEN Allocated(BufferSpace) ELSE buffer
           type == IF none THEN pvType ELSE bufType
           s    == [id |-> added + 1, sevr |-> sevr, stamp |-> EventStamp(when), type |-> type]
<1>1. /\ added' = added + 1
      /\ buffer' = Added(b, s)
      /\ bufType' = type
      /\ lastStamp' = EventStamp(when)
      /\ overwritten' = overwritten \cup PushedOut(b, 1)
      /\ haveSample' = haveSample
      /\ discarded' = discarded
  BY DEF AddEvent
<1>2. /\ Ring(buffer, lastStamp) /\ Capacity(buffer) \in {0, BufferSpace}
      /\ lastStamp \in Nat /\ added \in Nat /\ pvType \in Types /\ bufType \in Types
      /\ overwritten \subseteq Nat /\ discarded \subseteq Nat
      /\ haveSample \in BOOLEAN
  BY RingOfInv DEF IInv, TypeOK
<1>3. EventStamp(when) \in Nat /\ lastStamp <= EventStamp(when)
  BY EventStampLater
<1>4. type \in Types
  BY <1>2
<1>5. s \in Samples /\ s.stamp = EventStamp(when)
  BY <1>2, <1>3, <1>4 DEF Samples
<1>6. Ring(b, lastStamp) /\ Capacity(b) = BufferSpace
  <2>1. CASE none
    <3>1. /\ IsBuffer(Allocated(BufferSpace), Samples)
          /\ Contents(Allocated(BufferSpace)) = <<>>
          /\ Capacity(Allocated(BufferSpace)) = BufferSpace
      BY AllocatedIsEmpty, SpaceAssumption
    <3>2. Ring(Allocated(BufferSpace), lastStamp)
      BY <3>1, SortedEmpty DEF Ring
    <3> QED BY <2>1, <3>1, <3>2
  <2>2. CASE ~none
    <3>1. Capacity(buffer) = BufferSpace
      BY <1>2, <2>2
    <3> QED BY <1>2, <2>2, <3>1
  <2> QED BY <2>1, <2>2
<1>7. BufferSpace \in Nat /\ BufferSpace >= 1
  BY SpaceAssumption
<1> HIDE DEF b, s, type
<1>8. /\ Ring(buffer', lastStamp') /\ Capacity(buffer') = BufferSpace
      /\ \A x \in 0 .. BufferSpace : b.slots[x] \in Samples => buffer'.slots[x] \in Samples
  BY <1>1, <1>2, <1>3, <1>5, <1>6, <1>7, AddKeepsRing
<1>9. PushedOut(b, 1) \subseteq Nat
  BY <1>6, PushedOutType
<1>10. WriterSlotHolds'
  <2> SUFFICES ASSUME writer.pc = "add", writer.slot # Dangling
               PROVE  /\ writer.slot \in 0 .. BufferSpace
                      /\ buffer'.slots[writer.slot] \in Samples
    BY <1>8 DEF WriterSlotHolds
  <2>1. /\ Capacity(buffer) = BufferSpace
        /\ writer.slot \in 0 .. BufferSpace
        /\ buffer.slots[writer.slot] \in Samples
    BY DEF IInv, WriterSlotHolds
  <2>2. b = buffer
    BY <1>7, <2>1 DEF b
  <2> QED BY <1>8, <2>1, <2>2
<1>13. added' \in Nat /\ overwritten' \subseteq Nat
  <2>1. added' = added + 1 /\ added \in Nat
    BY <1>1, <1>2
  <2>2. overwritten' = overwritten \cup PushedOut(b, 1) /\ overwritten \subseteq Nat
    BY <1>1, <1>2
  <2>3. added' \in Nat
    BY <2>1
  <2>4. overwritten' \subseteq Nat
    BY <1>9, <2>2, Zenon
  <2> QED BY <2>3, <2>4
<1>14. bufType' \in Types /\ lastStamp' \in Nat
  BY <1>1, <1>3, <1>4
<1>15. haveSample' \in BOOLEAN /\ discarded' \subseteq Nat
  BY <1>1, <1>2, Zenon
<1> QED BY <1>8, <1>10, <1>13, <1>14, <1>15

\* A step that leaves ring, connection and writer's address alone keeps what
\* the invariant says of them.
LEMMA RingUntouched ==
    ASSUME IInv, buffer' = buffer, lastStamp' = lastStamp,
           connected' = connected,
           writer'.pc = "add" => writer' = writer
    PROVE  /\ BufferSorted' /\ EntriesAreSamples'
           /\ ConnectedHasRing' /\ WriterSlotHolds'
<1>1. BufferSorted'
  BY DEF IInv, BufferSorted
<1>2. EntriesAreSamples' /\ ConnectedHasRing'
  BY DEF IInv, EntriesAreSamples, ConnectedHasRing
<1>3. WriterSlotHolds'
  BY DEF IInv, WriterSlotHolds
<1> QED BY <1>1, <1>2, <1>3

\* Steps of the clock and of the engine.
LEMMA EngineKeeps ==
    ASSUME IInv, Tick \/ Start \/ StopBegin
    PROVE  IInv'
<1>1. BufferSorted' /\ EntriesAreSamples' /\ ConnectedHasRing' /\ WriterSlotHolds'
  BY RingUntouched DEF Tick, Start, StopBegin, bvars, wvars
<1>2. UNCHANGED <<connected, pvType, bvars, gvars, wvars>>
  BY DEF Tick, Start, StopBegin
<1>3. phase' \in {"stopped", "running", "stopping"}
  BY DEF IInv, TypeOK, Tick, Start, StopBegin
<1>4. clock' \in Nat
  BY DEF IInv, TypeOK, Tick, Start, StopBegin
<1>5. TypeOK'
  BY <1>2, <1>3, <1>4 DEF IInv, TypeOK, bvars, gvars, wvars
<1> QED BY <1>1, <1>5 DEF IInv

\* Steps that add an event.
LEMMA EventsKeep ==
    ASSUME IInv,
           \/ StopDisconnect
           \/ StopEnd
           \/ \E when \in Stamps : Disable(when)
           \/ \E when \in Stamps : PvDisconnected(when)
    PROVE  IInv'
<1>1. PICK sevr \in Severities, when \in Nat :
        /\ AddEvent(sevr, when)
        /\ UNCHANGED <<pvType, clock, wvars>>
        /\ phase' = phase \/ phase' = "stopped"
        /\ connected' = connected \/ connected' = FALSE
  <2>1. CASE StopDisconnect
    BY <2>1 DEF StopDisconnect, IInv, TypeOK, Severities
  <2>2. CASE StopEnd
    BY <2>2 DEF StopEnd, IInv, TypeOK, Severities
  <2>3. CASE \E when \in Stamps : Disable(when)
    BY <2>3 DEF Disable, pvars, Stamps, Severities
  <2>4. CASE \E when \in Stamps : PvDisconnected(when)
    BY <2>4 DEF PvDisconnected, Stamps, Severities
  <2> QED BY <2>1, <2>2, <2>3, <2>4
<1>2. writer' = writer /\ archive' = archive /\ header' = header /\ refused' = refused /\ failures' = failures
      /\ pvType' = pvType /\ clock' = clock
  BY <1>1 DEF wvars
<1>3. /\ Ring(buffer', lastStamp')
      /\ Capacity(buffer') = BufferSpace
      /\ bufType' \in Types
      /\ lastStamp' \in Nat
      /\ haveSample' \in BOOLEAN
      /\ added' \in Nat
      /\ overwritten' \subseteq Nat
      /\ discarded' \subseteq Nat
      /\ WriterSlotHolds'
  BY <1>1, <1>2, AddEventKeeps
<1>4. IsBuffer(buffer', Samples) /\ EntriesAreSamples' /\ BufferSorted'
  BY <1>3, RingOfInv
<1>5. ConnectedHasRing'
  BY <1>3 DEF ConnectedHasRing
<1>6. phase' \in {"stopped", "running", "stopping"} /\ connected' \in BOOLEAN
  BY <1>1 DEF IInv, TypeOK
<1>7. TypeOK'
  BY <1>2, <1>3, <1>4, <1>6 DEF IInv, TypeOK
<1> QED BY <1>3, <1>4, <1>5, <1>7 DEF IInv

\* pvConnected, with and without a new ring.
LEMMA PvConnectedKeeps ==
    ASSUME IInv, NEW type \in Types, PvConnected(type)
    PROVE  IInv'
<1>1. /\ connected' = TRUE /\ pvType' = type /\ haveSample' = FALSE
      /\ UNCHANGED <<phase, clock, lastStamp, added, overwritten, archive, header, refused, failures>>
  BY DEF PvConnected
<1>2. CASE Capacity(buffer) >= 1 /\ type = bufType
  <2>1. UNCHANGED <<buffer, bufType, discarded, writer>>
    BY <1>2 DEF PvConnected
  <2>2. Capacity(buffer) = BufferSpace
    BY <1>2 DEF IInv, TypeOK
  <2>3. ConnectedHasRing'
    BY <2>1, <2>2 DEF ConnectedHasRing
  <2>4. BufferSorted' /\ EntriesAreSamples' /\ WriterSlotHolds'
    BY <1>1, <2>1 DEF IInv, BufferSorted, EntriesAreSamples, WriterSlotHolds
  <2>5. TypeOK'
    BY <1>1, <2>1 DEF IInv, TypeOK
  <2> QED BY <2>3, <2>4, <2>5 DEF IInv
<1>3. CASE ~(Capacity(buffer) >= 1 /\ type = bufType)
  <2> DEFINE events == EventPositions(buffer)
  <2>1. PICK keep \in [1 .. Cardinality(events) -> events] :
          InOrder(keep) /\ buffer' = Refilled(buffer, keep, type)
    BY <1>3 DEF PvConnected
  <2>2. /\ bufType' = type
        /\ discarded' = discarded \cup ValueIds(buffer)
        /\ \/ writer.pc = "idle" /\ writer' = writer
           \/ /\ writer.pc = "add"
              /\ writer' = [writer EXCEPT !.slot = Dangling, !.replaced = TRUE]
           \/ /\ writer.pc \notin {"idle", "add"}
              /\ writer' = [writer EXCEPT !.replaced = TRUE]
    BY <1>3 DEF PvConnected
  <2>3. /\ Ring(buffer, lastStamp) /\ lastStamp \in Nat
        /\ Capacity(buffer) \in {0, BufferSpace}
    BY RingOfInv DEF IInv, TypeOK
  <2>4. Ring(buffer', lastStamp') /\ Capacity(buffer') = BufferSpace
    BY <1>1, <2>1, <2>3, RefilledRing
  <2>5. IsBuffer(buffer', Samples) /\ EntriesAreSamples' /\ BufferSorted'
    BY <2>4, RingOfInv
  <2>6. writer' \in WriterStates
        /\ (writer'.pc = "add" => writer'.slot = Dangling)
    <3>1. writer \in WriterStates /\ Dangling \in 0 .. Dangling
      BY SpaceAssumption DEF IInv, TypeOK, Dangling
    <3>2. CASE writer.pc = "idle" /\ writer' = writer
      BY <3>1, <3>2
    <3>3. CASE writer.pc = "add"
               /\ writer' = [writer EXCEPT !.slot = Dangling, !.replaced = TRUE]
      BY <3>1, <3>3 DEF WriterStates
    <3>4. CASE writer.pc \notin {"idle", "add"} /\ writer' = [writer EXCEPT !.replaced = TRUE]
      BY <3>1, <3>4 DEF WriterStates
    <3> QED BY <2>2, <3>2, <3>3, <3>4
  <2>7. ConnectedHasRing' /\ WriterSlotHolds'
    BY <2>4, <2>6 DEF ConnectedHasRing, WriterSlotHolds
  <2>8. discarded' \subseteq Nat
    <3>1. ValueIds(buffer) \subseteq Nat
      BY <2>3, ValuesType
    <3> QED BY <2>2, <3>1 DEF IInv, TypeOK
  <2>10. TypeOK'
    BY <1>1, <2>2, <2>4, <2>5, <2>6, <2>8 DEF IInv, TypeOK
  <2> QED BY <2>5, <2>7, <2>10 DEF IInv
<1> QED BY <1>2, <1>3

\* pvValue: nothing, one or two entries.
LEMMA PvValueKeeps ==
    ASSUME IInv, NEW stamp \in Stamps, NEW type \in Types \cup Foreign, PvValue(stamp, type)
    PROVE  IInv'
<1> DEFINE back  == lastStamp > stamp
           s     == [id |-> added + 1, sevr |-> "value", stamp |-> stamp, type |-> type]
           last  == IF back THEN lastStamp ELSE stamp
           again == ~haveSample /\ clock > stamp /\ clock >= last
           n     == (IF back THEN 0 ELSE 1) + (IF again THEN 1 ELSE 0)
           c     == [s EXCEPT !.id = added + n, !.stamp = clock]
           b     == IF back THEN buffer ELSE Added(buffer, s)
<1>1. connected /\ UNCHANGED <<pvars, bufType, discarded, wvars>>
  BY DEF PvValue
<1>2. /\ buffer' = IF again THEN Added(b, c) ELSE b
      /\ lastStamp' = IF again THEN clock ELSE last
  BY DEF PvValue
<1>3. added' = added + n
  BY DEF PvValue
<1>4. overwritten' = overwritten \cup PushedOut(buffer, n)
                       \cup (IF n > Capacity(buffer) THEN {added + 1} ELSE {})
  BY DEF PvValue
<1>5. haveSample' \in BOOLEAN
  BY DEF PvValue, IInv, TypeOK
<1>6. /\ Ring(buffer, lastStamp) /\ Capacity(buffer) = BufferSpace
      /\ lastStamp \in Nat /\ added \in Nat /\ bufType \in Types /\ clock \in Nat
      /\ overwritten \subseteq Nat /\ discarded \subseteq Nat
  BY <1>1, RingOfInv DEF IInv, TypeOK, ConnectedHasRing
<1>7. BufferSpace \in Nat /\ BufferSpace >= 1 /\ stamp \in Nat /\ n \in Nat
  BY SpaceAssumption, BoundsAssumption DEF Stamps
<1>8. last \in Nat /\ lastStamp <= last /\ (~back => last = stamp /\ lastStamp <= stamp)
  BY <1>6, <1>7
<1>9. s \in Samples /\ s.stamp = stamp
  BY <1>6, <1>7 DEF Samples, Severities
<1>10. c \in Samples /\ c.stamp = clock
  <2>1. added + n \in Nat
    BY <1>6, <1>7
  <2> HIDE DEF s, n
  <2> QED BY <1>6, <1>9, <2>1 DEF Samples
<1> HIDE DEF s, c
<1>11. /\ Ring(b, last) /\ Capacity(b) = BufferSpace
       /\ \A x \in 0 .. BufferSpace : buffer.slots[x] \in Samples => b.slots[x] \in Samples
  <2>1. CASE back
    BY <1>6, <2>1
  <2>2. CASE ~back
    BY <1>6, <1>7, <1>8, <1>9, <2>2, AddKeepsRing
  <2> QED BY <2>1, <2>2
<1> HIDE DEF b, last, back
<1>12. /\ Ring(buffer', lastStamp') /\ Capacity(buffer') = BufferSpace /\ lastStamp' \in Nat
       /\ \A x \in 0 .. BufferSpace : buffer.slots[x] \in Samples => buffer'.slots[x] \in Samples
  <2>1. CASE again
    <3>1. clock >= last
      BY <2>1
    <3>2. /\ Ring(Added(b, c), c.stamp) /\ Capacity(Added(b, c)) = BufferSpace
          /\ \A x \in 0 .. BufferSpace : b.slots[x] \in Samples => Added(b, c).slots[x] \in Samples
      BY <1>6, <1>7, <1>8, <1>10, <1>11, <3>1, AddKeepsRing
    <3>3. buffer' = Added(b, c) /\ lastStamp' = clock
      BY <1>2, <2>1
    <3> QED BY <1>6, <1>10, <1>11, <3>2, <3>3
  <2>2. CASE ~again
    BY <1>2, <1>8, <1>11, <2>2
  <2> QED BY <2>1, <2>2
<1> HIDE DEF again, n
<1>13. IsBuffer(buffer', Samples) /\ EntriesAreSamples' /\ BufferSorted'
  BY <1>12, RingOfInv
<1>14. ConnectedHasRing'
  BY <1>12 DEF ConnectedHasRing
<1>15. writer' = writer
  BY <1>1 DEF wvars
<1>16. WriterSlotHolds'
  BY <1>12, <1>15 DEF IInv, WriterSlotHolds
<1>17. added' \in Nat
  BY <1>3, <1>6, <1>7
<1>18. overwritten' \subseteq Nat
  <2>1. PushedOut(buffer, n) \subseteq Nat
    BY <1>6, <1>7, PushedOutType
  <2>2. added + 1 \in Nat
    BY <1>6
  <2> QED BY <1>4, <1>6, <2>1, <2>2
<1>19. TypeOK'
  BY <1>1, <1>5, <1>12, <1>13, <1>17, <1>18 DEF IInv, TypeOK, pvars, wvars
<1> QED BY <1>13, <1>14, <1>16, <1>19 DEF IInv

\* The locked steps of write() that change the ring.
LEMMA TakeOldestKeeps ==
    ASSUME IInv, TakeOldest
    PROVE  IInv'
<1> DEFINE x == OldestIndex(buffer)
<1>1. /\ ~IsEmpty(buffer)
      /\ writer' = [writer EXCEPT !.pc = "add", !.slot = x, !.id = buffer.slots[x].id]
      /\ buffer' = Removed(buffer)
      /\ UNCHANGED <<pvars, bufType, lastStamp, haveSample, gvars, archive, header, refused, failures>>
  BY DEF TakeOldest
<1>2. Ring(buffer, lastStamp) /\ Capacity(buffer) \in {0, BufferSpace}
  BY RingOfInv DEF IInv, TypeOK
<1>3. /\ IsBuffer(buffer', Samples)
      /\ Capacity(buffer') = Capacity(buffer)
      /\ Contents(buffer) # <<>>
      /\ buffer.slots[x] = Head(Contents(buffer))
      /\ Contents(buffer') = Tail(Contents(buffer))
  BY <1>1, <1>2, RemovedTakesHead DEF Ring
<1>4. Ring(buffer', lastStamp')
  BY <1>1, <1>2, <1>3, SortedTail DEF Ring
<1>5. EntriesAreSamples' /\ BufferSorted'
  BY <1>4, RingOfInv
<1>6. ConnectedHasRing'
  BY <1>1, <1>3 DEF IInv, ConnectedHasRing, pvars
<1>7. Head(Contents(buffer)) \in Samples
  BY <1>2, <1>3 DEF Ring
<1>8. buffer.slots[x] \in Samples /\ buffer.slots[x].id \in Nat
  BY <1>3, <1>7, SampleFields
<1>9. Capacity(buffer) = BufferSpace
  <2>1. Count(buffer) \in 0 .. Capacity(buffer) /\ Count(buffer) # 0
    BY <1>1, <1>2, CountRange DEF Ring
  <2> QED BY <1>2, <2>1
<1>10. x \in 0 .. BufferSpace
  <2>1. /\ buffer.max_index = BufferSpace + 1 /\ BufferSpace \in Nat
        /\ buffer.tail \in Nat /\ buffer.tail < buffer.max_index
    BY <1>2, <1>9, Fields, SpaceAssumption DEF Ring
  <2> QED BY <2>1 DEF OldestIndex, Advance
<1>11. buffer'.slots = buffer.slots
  BY <1>1, <1>2 DEF Removed, Ring, IsBuffer
<1> HIDE DEF x
<1>12. writer' \in WriterStates /\ writer'.slot = x
  <2>1. writer \in WriterStates /\ x \in 0 .. Dangling
    BY <1>10, SpaceAssumption DEF IInv, TypeOK, Dangling
  <2> QED BY <1>1, <1>8, <2>1 DEF WriterStates
<1>13. WriterSlotHolds'
  BY <1>3, <1>8, <1>9, <1>10, <1>11, <1>12 DEF WriterSlotHolds
<1>14. TypeOK'
  BY <1>1, <1>2, <1>3, <1>12 DEF IInv, TypeOK, pvars, gvars
<1> QED BY <1>5, <1>6, <1>13, <1>14 DEF IInv

LEMMA WriteEndKeeps ==
    ASSUME IInv, WriteEnd
    PROVE  IInv'
<1>1. /\ writer' = Idle
      /\ buffer' = Cleared(buffer)
      /\ UNCHANGED <<pvars, bufType, lastStamp, haveSample, gvars, archive, header, refused, failures>>
  BY DEF WriteEnd
<1>2. /\ IsBuffer(buffer', Samples)
      /\ Capacity(buffer') = Capacity(buffer)
      /\ Contents(buffer') = <<>>
  BY <1>1, ClearedIsEmpty DEF IInv, TypeOK
<1>3. Ring(buffer', lastStamp')
  BY <1>2, SortedEmpty DEF Ring
<1>4. EntriesAreSamples' /\ BufferSorted'
  BY <1>3, RingOfInv
<1>5. ConnectedHasRing'
  BY <1>1, <1>2 DEF IInv, ConnectedHasRing, pvars
<1>6. writer' \in WriterStates /\ writer'.pc = "idle"
  BY <1>1, TypesAssumption, SpaceAssumption DEF Idle, WriterStates, Dangling
<1>7. WriterSlotHolds'
  BY <1>6 DEF WriterSlotHolds
<1>8. TypeOK'
  BY <1>1, <1>2, <1>6 DEF IInv, TypeOK, pvars, gvars
<1> QED BY <1>4, <1>5, <1>7, <1>8 DEF IInv

\* The steps of write() that leave the ring alone.
LEMMA WriterStepsKeep ==
    ASSUME IInv, WriteBegin \/ WriterCreated \/ WriterFailed \/ AddFailed
    PROVE  IInv'
<1>1. /\ UNCHANGED <<pvars, bvars, gvars, archive>>
      /\ header' \in [type : Types, last : Nat]
      /\ writer' \in WriterStates /\ writer'.pc # "add"
      /\ refused' \subseteq Nat /\ failures' \in Nat
  <2>1. /\ Idle \in WriterStates /\ Idle.pc = "idle"
        /\ writer \in WriterStates /\ bufType \in Types
        /\ refused \subseteq Nat /\ failures \in Nat
        /\ header \in [type : Types, last : Nat]
    BY TypesAssumption, SpaceAssumption DEF Idle, WriterStates, Dangling, IInv, TypeOK
  <2>2. CASE WriteBegin
    <3>1. [Idle EXCEPT !.pc = "create", !.type = bufType] \in WriterStates
      BY <2>1 DEF WriterStates
    <3>2. [Idle EXCEPT !.pc = "create", !.type = bufType].pc = "create"
      BY DEF Idle
    <3> QED BY <2>1, <2>2, <3>1, <3>2 DEF WriteBegin
  <2>3. CASE WriterCreated
    <3>1. [writer EXCEPT !.pc = "take"] \in WriterStates
          /\ [writer EXCEPT !.pc = "take"].pc = "take"
      BY <2>1 DEF WriterStates
    <3>2. writer.type \in Types /\ 0 \in Nat
      BY <2>1 DEF WriterStates
    <3>3. header' = header \/ header' = [type |-> writer.type, last |-> 0]
      BY <2>3 DEF WriterCreated
    <3>4. header' \in [type : Types, last : Nat]
      BY <2>1, <3>2, <3>3
    <3> QED BY <2>1, <2>3, <3>1, <3>4 DEF WriterCreated
  <2>4. CASE WriterFailed
    BY <2>1, <2>4 DEF WriterFailed
  <2>5. CASE AddFailed
    <3>1. writer.id \in Nat
      BY <2>1 DEF WriterStates
    <3>2. refused' = refused \cup {writer.id} /\ failures' = failures + 1
      BY <2>5 DEF AddFailed
    <3>3. failures' \in Nat
      BY <2>1, <3>2
    <3>4. refused' \subseteq Nat
      BY <2>1, <3>1, <3>2
    <3> QED BY <2>1, <2>5, <3>3, <3>4 DEF AddFailed
  <2> QED BY <2>2, <2>3, <2>4, <2>5
<1>2. BufferSorted' /\ EntriesAreSamples' /\ ConnectedHasRing' /\ WriterSlotHolds'
  BY <1>1, RingUntouched DEF pvars, bvars
<1>3. TypeOK'
  BY <1>1 DEF IInv, TypeOK, pvars, bvars, gvars
<1> QED BY <1>2, <1>3 DEF IInv

\* DataWriter::add gets a sample, be it one that was never added.
LEMMA AddToArchiveKeeps ==
    ASSUME IInv, AddToArchive
    PROVE  IInv'
<1>1. /\ writer.pc = "add"
      /\ writer' = [writer EXCEPT !.pc = "take"]
      /\ UNCHANGED <<pvars, bvars, gvars, failures>>
  BY DEF AddToArchive
<1>2. PICK s \in AtAddress :
        \/ refused' = refused \cup {writer.id} /\ archive' = archive /\ header' = header
        \/ /\ archive' = Append(archive, [id |-> writer.id, sample |-> s,
                                         as |-> writer.type, replaced |-> writer.replaced])
           /\ header' = [header EXCEPT !.last = s.stamp]
           /\ refused' = refused
  BY DEF AddToArchive
<1>3. /\ writer \in WriterStates /\ bufType \in Types
      /\ refused \subseteq Nat /\ archive \in Seq(Entries)
      /\ header \in [type : Types, last : Nat]
  BY DEF IInv, TypeOK
<1>4. s \in Samples
  <2>1. Scrambled \subseteq Samples
    BY <1>3, BoundsAssumption DEF Scrambled, Samples, Severities
  <2>2. s \in Scrambled \/ (writer.slot # Dangling /\ s = buffer.slots[writer.slot])
    BY DEF AtAddress
  <2>3. CASE writer.slot # Dangling /\ s = buffer.slots[writer.slot]
    BY <1>1, <2>3 DEF IInv, WriterSlotHolds
  <2> QED BY <2>1, <2>2, <2>3
<1>5. writer' \in WriterStates /\ writer'.pc # "add"
      /\ writer.id \in Nat /\ writer.type \in Types /\ writer.replaced \in BOOLEAN
  BY <1>1, <1>3 DEF WriterStates
<1>6. archive' \in Seq(Entries) /\ refused' \subseteq Nat
      /\ header' \in [type : Types, last : Nat]
  <2> DEFINE e == [id |-> writer.id, sample |-> s, as |-> writer.type,
                   replaced |-> writer.replaced]
  <2>1. e \in Entries
    BY <1>4, <1>5 DEF Entries
  <2> HIDE DEF e
  <2>2. Append(archive, e) \in Seq(Entries)
    BY <1>3, <2>1
  <2>3. refused \cup {writer.id} \subseteq Nat
    BY <1>3, <1>5
  <2>4. [header EXCEPT !.last = s.stamp] \in [type : Types, last : Nat]
    BY <1>3, <1>4, SampleFields
  <2> QED BY <1>2, <1>3, <2>2, <2>3, <2>4, Zenon DEF e
<1>7. BufferSorted' /\ EntriesAreSamples' /\ ConnectedHasRing' /\ WriterSlotHolds'
  BY <1>1, <1>5, RingUntouched DEF pvars, bvars
<1>8. TypeOK'
  BY <1>1, <1>5, <1>6 DEF IInv, TypeOK, pvars, bvars, gvars
<1> QED BY <1>7, <1>8 DEF IInv
-----------------------------------------------------------------------------
LEMMA InitInv == Init => IInv
<1> SUFFICES ASSUME Init
             PROVE  IInv
  OBVIOUS
<1>1. IsBuffer(buffer, Samples) /\ Contents(buffer) = <<>> /\ Capacity(buffer) = 0
  BY UnallocatedIsEmpty DEF Init
<1>2. BufferSorted /\ EntriesAreSamples
  BY <1>1 DEF BufferSorted, EntriesAreSamples
<1>3. writer \in WriterStates /\ writer.pc = "idle"
  BY TypesAssumption, SpaceAssumption DEF Init, Idle, WriterStates, Dangling
<1>4. ConnectedHasRing /\ WriterSlotHolds
  BY <1>3 DEF Init, ConnectedHasRing, WriterSlotHolds
<1>5. /\ overwritten \subseteq Nat /\ discarded \subseteq Nat /\ refused \subseteq Nat
      /\ archive \in Seq(Entries)
  BY DEF Init
<1>6. lastStamp \in Nat /\ clock \in Nat /\ added \in Nat /\ failures \in Nat
  BY DEF Init
<1>7. /\ phase \in {"stopped", "running", "stopping"}
      /\ connected \in BOOLEAN /\ haveSample \in BOOLEAN
      /\ pvType \in Types /\ bufType \in Types /\ header \in [type : Types, last : Nat]
  BY TypesAssumption DEF Init
<1>8. TypeOK
  BY <1>1, <1>3, <1>5, <1>6, <1>7 DEF TypeOK
<1> QED BY <1>2, <1>4, <1>8 DEF IInv

LEMMA NextInv == IInv /\ [Next]_vars => IInv'
<1> SUFFICES ASSUME IInv, [Next]_vars
             PROVE  IInv'
  OBVIOUS
<1>1. CASE Tick
  BY <1>1, EngineKeeps
<1>2. CASE Callbacks
  <2>1. CASE \E stamp \in Stamps, type \in {pvType} \cup Foreign : PvValue(stamp, type)
    <3>1. pvType \in Types
      BY DEF IInv, TypeOK
    <3> QED BY <2>1, <3>1, PvValueKeeps
  <2> QED BY <1>2, <2>1, PvConnectedKeeps, EventsKeep DEF Callbacks
<1>3. CASE Engine
  BY <1>3, EngineKeeps, EventsKeep DEF Engine
<1>4. CASE Write
  BY <1>4, WriterStepsKeep, TakeOldestKeeps, WriteEndKeeps, AddToArchiveKeeps DEF Write
<1>5. CASE UNCHANGED vars
  <2>1. UNCHANGED <<pvars, bvars, gvars, wvars>>
    BY <1>5 DEF vars
  <2>2. BufferSorted' /\ EntriesAreSamples' /\ ConnectedHasRing' /\ WriterSlotHolds'
    BY <2>1, RingUntouched DEF pvars, bvars, wvars
  <2>3. TypeOK'
    BY <2>1 DEF IInv, TypeOK, pvars, bvars, gvars, wvars
  <2> QED BY <2>2, <2>3 DEF IInv
<1> QED BY <1>1, <1>2, <1>3, <1>4, <1>5 DEF Next

\* Whatever the callbacks, the engine and the writer do, every variable keeps
\* its type: the ring has the suggested space or none, and what DataWriter is
\* handed is a sample (SampleMechanism.cpp).
THEOREM MechanismTypeOK == Spec => []TypeOK
<1>1. IInv => TypeOK
  BY DEF IInv
<1> QED BY <1>1, InitInv, NextInv, PTL DEF Spec

\* The entries of the ring are always in the order of their time stamps, none
\* newer than last_stamp: pvValue drops what comes late, addEvent adjusts it,
\* and pvConnected preserves the order (SampleMechanism.cpp).
THEOREM MechanismSorted == Spec => []BufferSorted
<1>1. IInv => BufferSorted
  BY DEF IInv
<1> QED BY <1>1, InitInv, NextInv, PTL DEF Spec

-----------------------------------------------------------------------------
(* Where the samples go.                                                   *)

\* The entries of a ring have the numbers 1 to n at most, in the order in
\* which they were added.
Numbered(c, n) ==
    /\ \A i \in DOMAIN c : c[i].id \in 1 .. n
    /\ \A i, j \in DOMAIN c : i < j => c[i].id < c[j].id

EntriesNumbered == Numbered(Contents(buffer), added)

\* The numbers 1 to n, each in one of six sets.
Partition(n, R, F, A, X, D, O) ==
    /\ R \cup F \cup A \cup X \cup D \cup O = 1 .. n
    /\ R \cap (F \cup A \cup X \cup D \cup O) = {}
    /\ F \cap (A \cup X \cup D \cup O) = {}
    /\ A \cap (X \cup D \cup O) = {}
    /\ X \cap (D \cup O) = {}
    /\ D \cap O = {}

\* ... and those of the archive came before the one that the writer holds,
\* and that one before those of the ring.
Ledger(n, R, F, A, X, D, O) ==
    /\ Partition(n, R, F, A, X, D, O)
    /\ \A a \in A : \A x \in F \cup R : a < x
    /\ \A f \in F : \A r \in R : f < r

InRing == Ids(Contents(buffer))

OnePlace == Ledger(added, InRing, InFlight, Archived, refused, discarded, overwritten)

ArchiveInOrder ==
    \A i, j \in DOMAIN archive : i < j => archive[i].id < archive[j].id

Account ==
    /\ EntriesNumbered
    /\ OnePlace
    /\ ArchiveInOrder
-----------------------------------------------------------------------------
\* A new number goes to the first set, while P moves from it to the last.
LEMMA PartitionAdd ==
    ASSUME NEW n \in Nat, NEW R, NEW F, NEW A, NEW X, NEW D, NEW O,
           Partition(n, R, F, A, X, D, O), NEW P, P \subseteq R
    PROVE  Partition(n + 1, (R \ P) \cup {n + 1}, F, A, X, D, O \cup P)
<1>1. 1 .. n + 1 = (1 .. n) \cup {n + 1} /\ n + 1 \notin 1 .. n
  OBVIOUS
<1> DEFINE R1 == (R \ P) \cup {n + 1}
           O1 == O \cup P
<1>2. R1 \cup F \cup A \cup X \cup D \cup O1 = 1 .. n + 1
  BY <1>1, Zenon DEF Partition
<1>3. n + 1 \notin F \cup A \cup X \cup D \cup O1
  BY <1>1, Zenon DEF Partition
<1>4. R1 \cap (F \cup A \cup X \cup D \cup O1) = {}
  BY <1>3, Zenon DEF Partition
<1>5. /\ F \cap (A \cup X \cup D \cup O1) = {}
      /\ A \cap (X \cup D \cup O1) = {}
      /\ X \cap (D \cup O1) = {}
      /\ D \cap O1 = {}
  BY Zenon DEF Partition
<1> QED BY <1>2, <1>4, <1>5, Zenon DEF Partition

\* One element moves from the first set to the second, which was empty.
LEMMA PartitionTake ==
    ASSUME NEW n, NEW R, NEW A, NEW X, NEW D, NEW O,
           Partition(n, R, {}, A, X, D, O), NEW x \in R
    PROVE  Partition(n, R \ {x}, {x}, A, X, D, O)
BY Zenon DEF Partition

\* The second set moves to the third, or to the fourth.
LEMMA PartitionStore ==
    ASSUME NEW n, NEW R, NEW F, NEW A, NEW X, NEW D, NEW O,
           Partition(n, R, F, A, X, D, O)
    PROVE  Partition(n, R, {}, A \cup F, X, D, O)
BY Zenon DEF Partition

LEMMA PartitionRefuse ==
    ASSUME NEW n, NEW R, NEW F, NEW A, NEW X, NEW D, NEW O,
           Partition(n, R, F, A, X, D, O)
    PROVE  Partition(n, R, {}, A, X \cup F, D, O)
BY Zenon DEF Partition

\* A part of the first set moves to the fifth.
LEMMA PartitionDiscard ==
    ASSUME NEW n, NEW R, NEW F, NEW A, NEW X, NEW D, NEW O,
           Partition(n, R, F, A, X, D, O), NEW P, P \subseteq R
    PROVE  Partition(n, R \ P, F, A, X, D \cup P, O)
BY Zenon DEF Partition

\* The same steps keep the order as well.
LEMMA LedgerAdd ==
    ASSUME NEW n \in Nat, NEW R, NEW F, NEW A, NEW X, NEW D, NEW O,
           Ledger(n, R, F, A, X, D, O), NEW P, P \subseteq R
    PROVE  Ledger(n + 1, (R \ P) \cup {n + 1}, F, A, X, D, O \cup P)
<1>1. Partition(n + 1, (R \ P) \cup {n + 1}, F, A, X, D, O \cup P)
  BY PartitionAdd DEF Ledger
<1>2. \A x \in 1 .. n : x < n + 1
  OBVIOUS
<1>3. A \subseteq 1 .. n /\ F \subseteq 1 .. n
  BY DEF Ledger, Partition
<1> QED BY <1>1, <1>2, <1>3, Zenon DEF Ledger

LEMMA LedgerTake ==
    ASSUME NEW n, NEW R, NEW A, NEW X, NEW D, NEW O,
           Ledger(n, R, {}, A, X, D, O), NEW x \in R, \A y \in R \ {x} : x < y
    PROVE  Ledger(n, R \ {x}, {x}, A, X, D, O)
<1>1. Partition(n, R \ {x}, {x}, A, X, D, O)
  BY PartitionTake DEF Ledger
<1> QED BY <1>1, Zenon DEF Ledger

LEMMA LedgerStore ==
    ASSUME NEW n, NEW R, NEW F, NEW A, NEW X, NEW D, NEW O,
           Ledger(n, R, F, A, X, D, O)
    PROVE  Ledger(n, R, {}, A \cup F, X, D, O)
<1>1. Partition(n, R, {}, A \cup F, X, D, O)
  BY PartitionStore DEF Ledger
<1> QED BY <1>1, Zenon DEF Ledger

LEMMA LedgerRefuse ==
    ASSUME NEW n, NEW R, NEW F, NEW A, NEW X, NEW D, NEW O,
           Ledger(n, R, F, A, X, D, O)
    PROVE  Ledger(n, R, {}, A, X \cup F, D, O)
<1>1. Partition(n, R, {}, A, X \cup F, D, O)
  BY PartitionRefuse DEF Ledger
<1> QED BY <1>1, Zenon DEF Ledger

LEMMA LedgerDiscard ==
    ASSUME NEW n, NEW R, NEW F, NEW A, NEW X, NEW D, NEW O,
           Ledger(n, R, F, A, X, D, O), NEW P, P \subseteq R
    PROVE  Ledger(n, R \ P, F, A, X, D \cup P, O)
<1>1. Partition(n, R \ P, F, A, X, D \cup P, O)
  BY PartitionDiscard DEF Ledger
<1> QED BY <1>1, Zenon DEF Ledger

\* A sixfold partition as a sequence of sets, which is how the property
\* states it.
LEMMA PartitionPlaces ==
    ASSUME NEW n, NEW R, NEW F, NEW A, NEW X, NEW D, NEW O,
           Partition(n, R, F, A, X, D, O)
    PROVE  LET places == <<R, F, A, X, D, O>>
           IN  /\ UNION { places[i] : i \in DOMAIN places } = 1 .. n
               /\ \A i, j \in DOMAIN places : i # j => places[i] \cap places[j] = {}
<1> DEFINE places == <<R, F, A, X, D, O>>
<1>1. /\ DOMAIN places = {1, 2, 3, 4, 5, 6}
      /\ places[1] = R /\ places[2] = F /\ places[3] = A
      /\ places[4] = X /\ places[5] = D /\ places[6] = O
  OBVIOUS
<1> HIDE DEF places
<1>2. { places[i] : i \in DOMAIN places } = {R, F, A, X, D, O}
  BY <1>1
<1>3. UNION {R, F, A, X, D, O} = R \cup F \cup A \cup X \cup D \cup O
  BY Zenon
<1>4. ASSUME NEW i \in DOMAIN places, NEW j \in DOMAIN places, i # j
      PROVE  places[i] \cap places[j] = {}
  <2>1. /\ R \cap F = {} /\ R \cap A = {} /\ R \cap X = {} /\ R \cap D = {} /\ R \cap O = {}
        /\ F \cap A = {} /\ F \cap X = {} /\ F \cap D = {} /\ F \cap O = {}
        /\ A \cap X = {} /\ A \cap D = {} /\ A \cap O = {}
        /\ X \cap D = {} /\ X \cap O = {} /\ D \cap O = {}
    BY DEF Partition
  <2>2. \A S, T : S \cap T = T \cap S
    OBVIOUS
  <2> QED BY <1>1, <1>4, <2>1, <2>2
<1> QED BY <1>2, <1>3, <1>4 DEF Partition, places
-----------------------------------------------------------------------------
\* The fields of a numbered entry.
LEMMA NumberedEntry ==
    ASSUME NEW q \in Seq(Samples), NEW n, Numbered(q, n),
           NEW i \in DOMAIN q
    PROVE  /\ i \in Nat /\ i >= 1 /\ i <= Len(q)
           /\ q[i] \in Samples /\ q[i].id \in Nat
           /\ q[i].id \in 1 .. n
<1>1. i \in Nat /\ i >= 1 /\ i <= Len(q)
  OBVIOUS
<1> QED BY <1>1, EntryFields DEF Numbered

\* One more sample, with the next number.
LEMMA NumberedAppend ==
    ASSUME NEW q \in Seq(Samples), NEW n \in Nat, Numbered(q, n),
           NEW v \in Samples, v.id = n + 1
    PROVE  /\ Numbered(Append(q, v), n + 1)
           /\ Ids(Append(q, v)) = Ids(q) \cup {n + 1}
<1> DEFINE r == Append(q, v)
<1>1. /\ Len(q) \in Nat /\ DOMAIN q = 1 .. Len(q)
      /\ DOMAIN r = 1 .. Len(q) + 1
      /\ \A i \in 1 .. Len(q) : r[i] = q[i]
      /\ r[Len(q) + 1] = v
  OBVIOUS
<1> HIDE DEF r
<1>2. \A i \in DOMAIN r : i \in DOMAIN q \/ i = Len(q) + 1
  BY <1>1
<1>3. \A i \in DOMAIN q : r[i] = q[i] /\ q[i].id \in 1 .. n
  BY <1>1 DEF Numbered
<1>4. \A i \in DOMAIN r : r[i].id \in 1 .. n + 1
  BY <1>1, <1>2, <1>3
<1>5. ASSUME NEW i \in DOMAIN r, NEW j \in DOMAIN r, i < j
      PROVE  r[i].id < r[j].id
  <2>1. i \in DOMAIN q
    BY <1>1, <1>5
  <2>2. CASE j \in DOMAIN q
    BY <1>3, <1>5, <2>1, <2>2 DEF Numbered
  <2>3. CASE j = Len(q) + 1
    BY <1>1, <1>3, <2>1, <2>3
  <2> QED BY <1>2, <2>2, <2>3
<1>6. Numbered(r, n + 1)
  BY <1>4, <1>5 DEF Numbered
<1>7. Ids(r) = Ids(q) \cup {n + 1}
  <2>1. DOMAIN r = DOMAIN q \cup {Len(q) + 1}
    BY <1>1
  <2>2. Ids(r) = { r[i].id : i \in DOMAIN q } \cup { r[Len(q) + 1].id }
    BY <2>1 DEF Ids
  <2>3. { r[i].id : i \in DOMAIN q } = Ids(q)
    BY <1>3 DEF Ids
  <2> QED BY <1>1, <2>2, <2>3
<1> QED BY <1>6, <1>7 DEF r

\* The oldest sample gone: its number was the lowest.
LEMMA NumberedTail ==
    ASSUME NEW q \in Seq(Samples), q # <<>>, NEW n, Numbered(q, n)
    PROVE  /\ Numbered(Tail(q), n)
           /\ Head(q) = q[1] /\ 1 \in DOMAIN q
           /\ q[1].id \in Ids(q)
           /\ Ids(Tail(q)) = Ids(q) \ {q[1].id}
           /\ \A x \in Ids(Tail(q)) : q[1].id < x
<1> DEFINE t == Tail(q)
<1>1. /\ Len(q) \in Nat /\ Len(q) >= 1 /\ DOMAIN q = 1 .. Len(q)
      /\ DOMAIN t = 1 .. Len(q) - 1
      /\ \A i \in 1 .. Len(q) - 1 : t[i] = q[i + 1]
      /\ Head(q) = q[1]
  OBVIOUS
<1> HIDE DEF t
<1>2. 1 \in DOMAIN q
  BY <1>1
<1>3. \A i \in DOMAIN t : i \in Nat /\ i + 1 \in DOMAIN q /\ t[i] = q[i + 1] /\ 1 < i + 1
  BY <1>1
<1>4. Numbered(t, n)
  <2>1. \A i \in DOMAIN t : t[i].id \in 1 .. n
    BY <1>3 DEF Numbered
  <2>2. ASSUME NEW i \in DOMAIN t, NEW j \in DOMAIN t, i < j
        PROVE  t[i].id < t[j].id
    <3>1. i + 1 < j + 1
      BY <1>3, <2>2
    <3> QED BY <1>3, <3>1 DEF Numbered
  <2> QED BY <2>1, <2>2 DEF Numbered
<1>5. \A i \in DOMAIN t : q[1].id < t[i].id
  BY <1>2, <1>3 DEF Numbered
<1>6. \A x \in Ids(t) : q[1].id < x
  BY <1>5 DEF Ids
<1>7. q[1].id \in Ids(q)
  BY <1>2 DEF Ids
<1>8. Ids(t) = Ids(q) \ {q[1].id}
  <2>1. \A i \in DOMAIN q : i = 1 \/ (i - 1 \in DOMAIN t /\ t[i - 1] = q[i])
    BY <1>1
  <2>2. \A i \in DOMAIN t : t[i].id \in Ids(q)
    BY <1>3 DEF Ids
  <2>3. \A x \in Ids(q) : x = q[1].id \/ x \in Ids(t)
    BY <2>1 DEF Ids
  <2>4. q[1].id \notin Ids(t)
    <3>1. q[1].id \in Nat
      BY <1>2, EntryFields
    <3>2. ~(q[1].id < q[1].id)
      BY <3>1
    <3> QED BY <1>6, <3>2
  <2>5. Ids(t) \subseteq Ids(q)
    BY <2>2 DEF Ids
  <2> QED BY <2>3, <2>4, <2>5
<1> QED BY <1>1, <1>2, <1>4, <1>6, <1>7, <1>8 DEF t

\* What one more sample pushes out: nothing, or the oldest one.
LEMMA PushedOutByOne ==
    ASSUME NEW b, NEW last, Ring(b, last), Capacity(b) >= 1
    PROVE  /\ Count(b) < Capacity(b) => PushedOut(b, 1) = {}
           /\ Count(b) = Capacity(b) => PushedOut(b, 1) = { Contents(b)[1].id }
<1>1. Count(b) \in Nat /\ Capacity(b) \in Nat
  BY CountRange, Fields DEF Ring
<1> DEFINE over == Count(b) + 1 - Capacity(b)
           S == 1 .. (IF over > Count(b) THEN Count(b) ELSE over)
<1>2. Count(b) < Capacity(b) => S = {}
  BY <1>1
<1>3. Count(b) = Capacity(b) => S = {1}
  BY <1>1
<1>4. PushedOut(b, 1) = { Contents(b)[i].id : i \in S }
  BY DEF PushedOut
<1> HIDE DEF S
<1> QED BY <1>2, <1>3, <1>4

\* Adding the next sample to a ring: what leaves it was pushed out.
LEMMA AddedAccount ==
    ASSUME NEW b, NEW last \in Nat, Ring(b, last), Capacity(b) >= 1,
           NEW n \in Nat, NEW v \in Samples, last <= v.stamp,
           v.id = n + 1, Numbered(Contents(b), n)
    PROVE  /\ Numbered(Contents(Added(b, v)), n + 1)
           /\ PushedOut(b, 1) \subseteq Ids(Contents(b))
           /\ Ids(Contents(Added(b, v))) = (Ids(Contents(b)) \ PushedOut(b, 1)) \cup {n + 1}
<1> DEFINE q == Contents(b)
<1>1. IsBuffer(b, Samples) /\ q \in Seq(Samples) /\ Numbered(q, n)
  BY DEF Ring
<1>2. Count(b) \in Nat /\ Capacity(b) \in Nat /\ Count(b) <= Capacity(b)
  BY <1>1, CountRange, Fields
<1>3. /\ Numbered(Contents(Added(b, v)), n + 1)
      /\ PushedOut(b, 1) \subseteq Ids(q)
      /\ Ids(Contents(Added(b, v))) = (Ids(q) \ PushedOut(b, 1)) \cup {n + 1}
  <2>1. CASE Count(b) < Capacity(b)
    <3>1. Contents(Added(b, v)) = Append(q, v)
      BY <1>1, <2>1, AddedAppends
    <3>2. PushedOut(b, 1) = {}
      BY <2>1, PushedOutByOne
    <3> HIDE DEF q
    <3> QED BY <1>1, <3>1, <3>2, NumberedAppend
  <2>2. CASE Count(b) = Capacity(b)
    <3>1. q # <<>> /\ Contents(Added(b, v)) = Append(Tail(q), v)
      BY <1>1, <2>2, AddedOverwrites
    <3>2. PushedOut(b, 1) = { q[1].id }
      BY <2>2, PushedOutByOne
    <3> HIDE DEF q
    <3>3. /\ Tail(q) \in Seq(Samples) /\ Numbered(Tail(q), n)
          /\ q[1].id \in Ids(q) /\ Ids(Tail(q)) = Ids(q) \ {q[1].id}
      BY <1>1, <3>1, NumberedTail
    <3>4. /\ Numbered(Append(Tail(q), v), n + 1)
          /\ Ids(Append(Tail(q), v)) = Ids(Tail(q)) \cup {n + 1}
      BY <3>3, NumberedAppend
    <3> QED BY <3>1, <3>2, <3>3, <3>4
  <2> QED BY <1>2, <2>1, <2>2
<1> QED BY <1>3

\* pvValue adds no sample, one, or two at once: what a pair pushes out
\* is what its members do, one after the other.
LEMMA PushedOutByNone ==
    ASSUME NEW b, NEW last, Ring(b, last)
    PROVE  PushedOut(b, 0) = {}
<1>1. Count(b) \in Nat /\ Capacity(b) \in Nat /\ Count(b) <= Capacity(b)
  BY CountRange, Fields DEF Ring
<1>2. 1 .. (IF Count(b) + 0 - Capacity(b) > Count(b) THEN Count(b)
            ELSE Count(b) + 0 - Capacity(b)) = {}
  BY <1>1
<1> QED BY <1>2 DEF PushedOut

LEMMA AppendedAlone ==
    ASSUME NEW q \in Seq(Samples), Len(q) = 0, NEW v \in Samples
    PROVE  Append(q, v)[1] = v
  OBVIOUS

LEMMA PushedOutByTwo ==
    ASSUME NEW b, NEW last \in Nat, Ring(b, last), Capacity(b) >= 1,
           NEW v \in Samples, last <= v.stamp
    PROVE  PushedOut(b, 2) \cup (IF 2 > Capacity(b) THEN {v.id} ELSE {})
             = PushedOut(b, 1) \cup PushedOut(Added(b, v), 1)
<1> DEFINE a == Added(b, v)
           low == IF 2 > Capacity(b) THEN {v.id} ELSE {}
           q == Contents(b)
           over == Count(b) + 2 - Capacity(b)
           S == 1 .. (IF over > Count(b) THEN Count(b) ELSE over)
<1> SUFFICES PushedOut(b, 2) \cup low = PushedOut(b, 1) \cup PushedOut(a, 1)
  OBVIOUS
<1>1. IsBuffer(b, Samples) /\ q \in Seq(Samples) /\ Len(q) = Count(b)
  BY ContentsType DEF Ring
<1>2. Count(b) \in Nat /\ Capacity(b) \in Nat /\ Count(b) <= Capacity(b)
  BY <1>1, CountRange, Fields
<1>3. Ring(a, v.stamp) /\ Capacity(a) = Capacity(b)
  BY AddKeepsRing
<1>4. PushedOut(b, 2) = { q[i].id : i \in S }
  BY DEF PushedOut
<1>5. Len(Contents(a)) = Count(a)
  BY <1>3, ContentsType DEF Ring
<1>6. /\ Count(a) < Capacity(b) => PushedOut(a, 1) = {}
      /\ Count(a) = Capacity(b) => PushedOut(a, 1) = { Contents(a)[1].id }
  BY <1>3, PushedOutByOne
<1>7. CASE Count(b) < Capacity(b)
  <2>1. Contents(a) = Append(q, v)
    BY <1>1, <1>7, AddedAppends
  <2>2. PushedOut(b, 1) = {}
    BY <1>7, PushedOutByOne
  <2> HIDE DEF a, q, S, low
  <2>3. Count(a) = Count(b) + 1
    BY <1>1, <1>5, <2>1
  <2>4. CASE Count(b) + 1 < Capacity(b)
    <3>1. S = {}
      BY <1>2, <2>4 DEF S
    <3>2. low = {}
      BY <1>2, <2>4 DEF low
    <3> QED BY <1>4, <1>6, <2>2, <2>3, <2>4, <3>1, <3>2
  <2>5. CASE Count(b) + 1 = Capacity(b) /\ Count(b) > 0
    <3>1. S = {1}
      BY <1>2, <2>5 DEF S
    <3>2. low = {}
      BY <1>2, <2>5 DEF low
    <3>3. Contents(a)[1] = q[1]
      BY <1>1, <1>2, <2>1, <2>5
    <3> QED BY <1>4, <1>6, <2>2, <2>3, <2>5, <3>1, <3>2, <3>3
  <2>6. CASE Count(b) + 1 = Capacity(b) /\ Count(b) = 0
    <3>1. S = {}
      BY <1>2, <2>6 DEF S
    <3>2. low = {v.id}
      BY <1>2, <2>6 DEF low
    <3>3. Contents(a)[1] = v
      BY <1>1, <1>2, <2>1, <2>6
    <3> QED BY <1>4, <1>6, <2>2, <2>3, <2>6, <3>1, <3>2, <3>3
  <2> QED BY <1>2, <1>7, <2>4, <2>5, <2>6
<1>8. CASE Count(b) = Capacity(b)
  <2>1. q # <<>> /\ Contents(a) = Append(Tail(q), v)
    BY <1>1, <1>8, AddedOverwrites
  <2>2. PushedOut(b, 1) = { q[1].id }
    BY <1>8, PushedOutByOne
  <2> HIDE DEF a, q, S, low
  <2>3. Count(a) = Count(b) /\ Count(b) >= 1
    BY <1>1, <1>5, <2>1
  <2>4. PushedOut(a, 1) = { Contents(a)[1].id }
    BY <1>6, <1>8, <2>3
  <2>5. CASE Count(b) >= 2
    <3>1. S = {1, 2}
      BY <1>2, <1>8, <2>5 DEF S
    <3>2. low = {}
      BY <1>2, <1>8, <2>5 DEF low
    <3>3. Contents(a)[1] = q[2]
      BY <1>1, <1>2, <2>1, <2>5
    <3> QED BY <1>4, <2>2, <2>4, <3>1, <3>2, <3>3
  <2>6. CASE Count(b) = 1
    <3>1. S = {1}
      BY <1>2, <1>8, <2>6 DEF S
    <3>2. low = {v.id}
      BY <1>2, <1>8, <2>6 DEF low
    <3>3. Contents(a)[1] = v
      <4>1. Tail(q) \in Seq(Samples) /\ Len(Tail(q)) = 0
        BY <1>1, <2>1, <2>6
      <4> QED BY <2>1, <4>1, AppendedAlone
    <3> QED BY <1>4, <2>2, <2>4, <3>1, <3>2, <3>3
  <2> QED BY <1>2, <2>3, <2>5, <2>6
<1> QED BY <1>2, <1>7, <1>8

-----------------------------------------------------------------------------
\* Without a ring there are no entries, and allocating one adds none.
LEMMA NoRingNoEntries ==
    ASSUME IInv, Capacity(buffer) < 1
    PROVE  /\ Contents(buffer) = <<>>
           /\ Contents(Allocated(BufferSpace)) = <<>>
           /\ Numbered(Contents(Allocated(BufferSpace)), added)
<1>1. /\ IsBuffer(buffer, Samples) /\ Capacity(buffer) \in Nat
      /\ BufferSpace \in Nat /\ BufferSpace >= 1
  BY Fields, SpaceAssumption DEF IInv, TypeOK
<1>2. Count(buffer) = 0
  BY <1>1, CountRange
<1>3. Contents(buffer) = <<>>
  BY <1>1, <1>2, ContentsType, EmptySeq
<1>4. Contents(Allocated(BufferSpace)) = <<>>
  BY <1>1, AllocatedIsEmpty
<1>5. Numbered(<<>>, added)
  BY DEF Numbered
<1> QED BY <1>3, <1>4, <1>5

\* One sample is added to ring b, which is the ring there is or a new one.
LEMMA AddOneAccount ==
    ASSUME IInv, Account, NEW b, NEW v \in Samples,
           /\ Ring(b, lastStamp) /\ Capacity(b) = BufferSpace
           /\ Numbered(Contents(b), added)
           /\ Ids(Contents(b)) = InRing,
           v.id = added + 1, lastStamp <= v.stamp,
           /\ added' = added + 1
           /\ buffer' = Added(b, v)
           /\ overwritten' = overwritten \cup PushedOut(b, 1),
           UNCHANGED <<discarded, writer, archive, refused>>
    PROVE  Account'
<1>1. lastStamp \in Nat /\ added \in Nat /\ BufferSpace \in Nat /\ BufferSpace >= 1
  BY SpaceAssumption DEF IInv, TypeOK
<1>2. /\ Numbered(Contents(buffer'), added + 1)
      /\ PushedOut(b, 1) \subseteq InRing
      /\ Ids(Contents(buffer')) = (InRing \ PushedOut(b, 1)) \cup {added + 1}
  BY <1>1, AddedAccount
<1>3. EntriesNumbered'
  BY <1>2 DEF EntriesNumbered
<1>4. OnePlace'
  <2>1. Ledger(added, InRing, InFlight, Archived, refused, discarded, overwritten)
    BY DEF Account, OnePlace
  <2>2. Ledger(added + 1, (InRing \ PushedOut(b, 1)) \cup {added + 1}, InFlight, Archived,
               refused, discarded, overwritten \cup PushedOut(b, 1))
    BY <1>1, <1>2, <2>1, LedgerAdd
  <2>3. InRing' = (InRing \ PushedOut(b, 1)) \cup {added + 1}
    BY <1>2 DEF InRing
  <2>4. InFlight' = InFlight /\ Archived' = Archived
    BY DEF InFlight, Archived
  <2> QED BY <2>2, <2>3, <2>4 DEF OnePlace
<1>5. ArchiveInOrder'
  BY DEF Account, ArchiveInOrder
<1> QED BY <1>3, <1>4, <1>5 DEF Account

\* An event is added to the ring, or to a new one if there was none.
LEMMA AddEventAccount ==
    ASSUME IInv, Account, NEW sevr \in Severities, NEW when \in Nat,
           AddEvent(sevr, when), UNCHANGED <<writer, archive, refused>>
    PROVE  Account'
<1> DEFINE none == Capacity(buffer) < 1
           b    == IF none THEN Allocated(BufferSpace) ELSE buffer
           type == IF none THEN pvType ELSE bufType
           s    == [id |-> added + 1, sevr |-> sevr, stamp |-> EventStamp(when), type |-> type]
<1>1. /\ added' = added + 1
      /\ buffer' = Added(b, s)
      /\ overwritten' = overwritten \cup PushedOut(b, 1)
      /\ discarded' = discarded
  BY DEF AddEvent
<1>2. /\ Ring(buffer, lastStamp) /\ Capacity(buffer) \in {0, BufferSpace}
      /\ lastStamp \in Nat /\ added \in Nat /\ pvType \in Types /\ bufType \in Types
      /\ BufferSpace \in Nat /\ BufferSpace >= 1
  BY RingOfInv, SpaceAssumption DEF IInv, TypeOK
<1>3. s \in Samples /\ s.stamp = EventStamp(when) /\ s.id = added + 1
      /\ lastStamp <= s.stamp
  <2>1. type \in Types
    BY <1>2
  <2>2. EventStamp(when) \in Nat /\ lastStamp <= EventStamp(when)
    BY EventStampLater
  <2> QED BY <1>2, <2>1, <2>2 DEF Samples
<1>4. /\ Ring(b, lastStamp) /\ Capacity(b) = BufferSpace
      /\ Numbered(Contents(b), added)
      /\ Ids(Contents(b)) = InRing
  <2>1. CASE none
    <3>1. /\ IsBuffer(Allocated(BufferSpace), Samples)
          /\ Capacity(Allocated(BufferSpace)) = BufferSpace
      BY <1>2, AllocatedIsEmpty
    <3>2. Contents(buffer) = <<>> /\ Contents(Allocated(BufferSpace)) = <<>>
          /\ Numbered(Contents(Allocated(BufferSpace)), added)
      BY <2>1, NoRingNoEntries
    <3>3. Ring(Allocated(BufferSpace), lastStamp)
      BY <3>1, <3>2, SortedEmpty DEF Ring
    <3> QED BY <2>1, <3>1, <3>2, <3>3 DEF InRing
  <2>2. CASE ~none
    BY <1>2, <2>2 DEF Account, EntriesNumbered, InRing
  <2> QED BY <2>1, <2>2
<1> HIDE DEF b, type, s
<1>5. UNCHANGED <<discarded, writer, archive, refused>>
  BY <1>1
<1> QED BY <1>1, <1>2, <1>3, <1>4, <1>5, AddOneAccount

\* A step that moves no sample.
LEMMA NothingMoves ==
    ASSUME Account,
           UNCHANGED <<buffer, added, overwritten, discarded, archive, refused>>,
           InFlight' = InFlight
    PROVE  Account'
<1>1. EntriesNumbered'
  BY DEF Account, EntriesNumbered
<1>2. InRing' = InRing /\ Archived' = Archived
  BY DEF InRing, Archived
<1>3. OnePlace'
  BY <1>2 DEF Account, OnePlace
<1>4. ArchiveInOrder'
  BY DEF Account, ArchiveInOrder
<1> QED BY <1>1, <1>3, <1>4 DEF Account

\* Two samples at once.
LEMMA AddTwoAccount ==
    ASSUME IInv, Account, Capacity(buffer) = BufferSpace,
           NEW v \in Samples, v.id = added + 1, lastStamp <= v.stamp,
           NEW w \in Samples, w.id = added + 2, v.stamp <= w.stamp,
           /\ added' = added + 2
           /\ buffer' = Added(Added(buffer, v), w)
           /\ overwritten' = overwritten \cup PushedOut(buffer, 2)
                                \cup (IF 2 > Capacity(buffer) THEN {v.id} ELSE {}),
           UNCHANGED <<discarded, writer, archive, refused>>
    PROVE  Account'
<1> DEFINE a == Added(buffer, v)
           P == PushedOut(buffer, 1)
           Q == PushedOut(a, 1)
           R == (InRing \ P) \cup {added + 1}
<1>1. /\ Ring(buffer, lastStamp) /\ IsBuffer(buffer, Samples)
      /\ lastStamp \in Nat /\ added \in Nat /\ BufferSpace \in Nat /\ BufferSpace >= 1
      /\ v.stamp \in Nat
  BY RingOfInv, SpaceAssumption, SampleFields DEF IInv, TypeOK
<1>2. /\ Numbered(Contents(buffer), added) /\ Ids(Contents(buffer)) = InRing
  BY DEF Account, EntriesNumbered, InRing
<1>3. Ring(a, v.stamp) /\ Capacity(a) = BufferSpace
  BY <1>1, AddKeepsRing
<1>4. /\ Numbered(Contents(a), added + 1)
      /\ P \subseteq InRing
      /\ Ids(Contents(a)) = R
  BY <1>1, <1>2, AddedAccount
<1>5. overwritten' = overwritten \cup P \cup Q
  BY <1>1, PushedOutByTwo
<1> HIDE DEF a, P, Q, R
<1>6. buffer' = Added(a, w) /\ added + 1 \in Nat /\ w.id = (added + 1) + 1
      /\ (added + 1) + 1 = added + 2
  BY <1>1 DEF a
<1>7. /\ Numbered(Contents(buffer'), added + 2)
      /\ Q \subseteq R
      /\ Ids(Contents(buffer')) = (R \ Q) \cup {added + 2}
  <2>1. /\ Numbered(Contents(Added(a, w)), (added + 1) + 1)
        /\ PushedOut(a, 1) \subseteq Ids(Contents(a))
        /\ Ids(Contents(Added(a, w))) =
             (Ids(Contents(a)) \ PushedOut(a, 1)) \cup {(added + 1) + 1}
    BY <1>1, <1>3, <1>4, <1>6, AddedAccount
  <2> QED BY <1>4, <1>6, <2>1 DEF Q
<1>8. EntriesNumbered'
  BY <1>7 DEF EntriesNumbered
<1>9. OnePlace'
  <2>1. Ledger(added, InRing, InFlight, Archived, refused, discarded, overwritten)
    BY DEF Account, OnePlace
  <2>2. Ledger(added + 1, R, InFlight, Archived, refused, discarded, overwritten \cup P)
    BY <1>1, <1>4, <2>1, LedgerAdd DEF R
  <2>3. Ledger((added + 1) + 1, (R \ Q) \cup {(added + 1) + 1}, InFlight, Archived, refused,
               discarded, (overwritten \cup P) \cup Q)
    BY <1>6, <1>7, <2>2, LedgerAdd
  <2>4. InRing' = (R \ Q) \cup {added + 2}
    BY <1>7 DEF InRing
  <2>5. InFlight' = InFlight /\ Archived' = Archived
    BY DEF InFlight, Archived
  <2> QED BY <1>5, <1>6, <2>3, <2>4, <2>5 DEF OnePlace
<1>10. ArchiveInOrder'
  BY DEF Account, ArchiveInOrder
<1> QED BY <1>8, <1>9, <1>10 DEF Account

\* pvValue adds up to two samples.
LEMMA PvValueAccount ==
    ASSUME IInv, Account, NEW stamp \in Stamps, NEW type \in Types \cup Foreign, PvValue(stamp, type)
    PROVE  Account'
<1> DEFINE back  == lastStamp > stamp
           s     == [id |-> added + 1, sevr |-> "value", stamp |-> stamp, type |-> type]
           last  == IF back THEN lastStamp ELSE stamp
           again == ~haveSample /\ clock > stamp /\ clock >= last
           n     == (IF back THEN 0 ELSE 1) + (IF again THEN 1 ELSE 0)
           c     == [s EXCEPT !.id = added + n, !.stamp = clock]
           b     == IF back THEN buffer ELSE Added(buffer, s)
           lost  == IF n > Capacity(buffer) THEN {added + 1} ELSE {}
<1>1. /\ connected
      /\ buffer' = IF again THEN Added(b, c) ELSE b
      /\ added' = added + n
      /\ overwritten' = overwritten \cup PushedOut(buffer, n) \cup lost
      /\ UNCHANGED <<discarded, writer, archive, refused>>
  BY DEF PvValue, wvars
<1>2. /\ Ring(buffer, lastStamp) /\ Capacity(buffer) = BufferSpace
      /\ lastStamp \in Nat /\ added \in Nat /\ bufType \in Types /\ clock \in Nat
      /\ BufferSpace \in Nat /\ BufferSpace >= 1 /\ stamp \in Nat
  BY <1>1, RingOfInv, SpaceAssumption, BoundsAssumption
     DEF IInv, TypeOK, ConnectedHasRing, Stamps
<1>3. Numbered(Contents(buffer), added) /\ Ids(Contents(buffer)) = InRing
  BY DEF Account, EntriesNumbered, InRing
<1>4. s \in Samples /\ s.id = added + 1 /\ s.stamp = stamp
  BY <1>2 DEF Samples, Severities
<1>5. n \in Nat => c \in Samples /\ c.id = added + n /\ c.stamp = clock
  <2> SUFFICES ASSUME n \in Nat
               PROVE  c \in Samples /\ c.id = added + n /\ c.stamp = clock
    OBVIOUS
  <2>1. added + n \in Nat
    BY <1>2
  <2> HIDE DEF s, n
  <2> QED BY <1>2, <1>4, <2>1 DEF Samples
<1> HIDE DEF s, c, lost
<1>6. CASE back /\ ~again
  <2>1. n = 0 /\ b = buffer
    BY <1>6
  <2>2. PushedOut(buffer, 0) = {} /\ lost = {}
    BY <1>2, <2>1, PushedOutByNone DEF lost
  <2>3. UNCHANGED <<buffer, added, overwritten, discarded, writer, archive, refused>>
    BY <1>1, <1>2, <1>6, <2>1, <2>2
  <2>4. InFlight' = InFlight
    BY <2>3 DEF InFlight
  <2> QED BY <2>3, <2>4, NothingMoves
<1>7. CASE ~back /\ ~again
  <2>1. n = 1 /\ b = Added(buffer, s) /\ lastStamp <= stamp
    BY <1>2, <1>7
  <2>2. lost = {}
    BY <1>2, <2>1 DEF lost
  <2>3. /\ added' = added + 1
        /\ buffer' = Added(buffer, s)
        /\ overwritten' = overwritten \cup PushedOut(buffer, 1)
    BY <1>1, <1>7, <2>1, <2>2
  <2> QED BY <1>1, <1>2, <1>3, <1>4, <2>1, <2>3, AddOneAccount
<1>8. CASE back /\ again
  <2>1. n = 1 /\ b = buffer /\ lastStamp <= clock
    BY <1>2, <1>8
  <2>2. lost = {}
    BY <1>2, <2>1 DEF lost
  <2>3. /\ added' = added + 1
        /\ buffer' = Added(buffer, c)
        /\ overwritten' = overwritten \cup PushedOut(buffer, 1)
    BY <1>1, <1>8, <2>1, <2>2
  <2>4. c \in Samples /\ c.id = added + 1 /\ c.stamp = clock
    BY <1>5, <2>1
  <2> QED BY <1>1, <1>2, <1>3, <2>1, <2>3, <2>4, AddOneAccount
<1>9. CASE ~back /\ again
  <2>1. n = 2 /\ b = Added(buffer, s) /\ lastStamp <= stamp /\ stamp <= clock
    BY <1>2, <1>9
  <2>2. /\ added' = added + 2
        /\ buffer' = Added(Added(buffer, s), c)
        /\ overwritten' = overwritten \cup PushedOut(buffer, 2)
                             \cup (IF 2 > Capacity(buffer) THEN {s.id} ELSE {})
    BY <1>1, <1>4, <1>9, <2>1 DEF lost
  <2>3. c \in Samples /\ c.id = added + 2 /\ c.stamp = clock
    BY <1>5, <2>1
  <2> QED BY <1>1, <1>2, <1>3, <1>4, <2>1, <2>2, <2>3, AddTwoAccount
<1> QED BY <1>6, <1>7, <1>8, <1>9
-----------------------------------------------------------------------------
\* Retyped copies are the same samples.
LEMMA RetypedSame ==
    ASSUME NEW s \in Samples, NEW type \in Types
    PROVE  Retyped(s, type).id = s.id
  BY DEF Samples, Retyped

\* The loop of pvConnected that copies the events copies all of them.
LEMMA AllEventsKept ==
    ASSUME NEW b, NEW last, Ring(b, last), Capacity(b) \in {0, BufferSpace},
           NEW keep \in [1 .. Cardinality(EventPositions(b)) -> EventPositions(b)],
           InOrder(keep)
    PROVE  { keep[k] : k \in DOMAIN keep } = EventPositions(b)
<1> DEFINE E == EventPositions(b)
           n == Cardinality(E)
<1>1. n \in 0 .. BufferSpace /\ E \subseteq 1 .. Count(b) /\ Cardinality(1 .. n) = n
      /\ BufferSpace \in Nat
  BY EventsFit, SpaceAssumption
<1>2. IsFiniteSet(E)
  <2>1. Count(b) \in Nat
    BY CountRange, Fields DEF Ring
  <2>2. IsFiniteSet(1 .. Count(b))
    BY <2>1, FS_Interval
  <2> QED BY <1>1, <2>2, FS_Subset
<1>3. keep \in [1 .. n -> E] /\ DOMAIN keep = 1 .. n
  OBVIOUS
<1> HIDE DEF E, n
<1>4. ASSUME NEW i \in 1 .. n, NEW j \in 1 .. n, keep[i] = keep[j]
      PROVE  i = j
  <2>1. keep[i] \in Nat /\ keep[j] \in Nat
    <3>1. keep[i] \in E /\ keep[j] \in E
      BY <1>3
    <3>2. Count(b) \in Nat
      BY CountRange, Fields DEF Ring
    <3>3. keep[i] \in 1 .. Count(b) /\ keep[j] \in 1 .. Count(b)
      BY <1>1, <3>1
    <3> QED BY <3>2, <3>3
  <2>2. i < j => keep[i] < keep[j]
    BY <1>3 DEF InOrder
  <2>3. j < i => keep[j] < keep[i]
    BY <1>3 DEF InOrder
  <2> QED BY <1>1, <1>4, <2>1, <2>2, <2>3
<1>5. keep \in Injection(1 .. n, E)
  BY <1>3, <1>4 DEF Injection, IsInjective
<1>6. keep \in Surjection(1 .. n, E)
  <2>1. Cardinality(1 .. n) = Cardinality(E)
    BY <1>1 DEF n
  <2> QED BY <1>2, <1>5, <2>1, FS_Injection
<1>7. \A e \in E : \E k \in 1 .. n : keep[k] = e
  BY <1>6 DEF Surjection
<1> QED BY <1>3, <1>7 DEF E

\* The new ring of pvConnected: the entries that are not copied are values.
LEMMA RefilledAccount ==
    ASSUME NEW b, NEW last, Ring(b, last), Capacity(b) \in {0, BufferSpace},
           NEW keep \in [1 .. Cardinality(EventPositions(b)) -> EventPositions(b)],
           InOrder(keep), NEW type \in Types,
           NEW n, Numbered(Contents(b), n)
    PROVE  LET q   == Contents(b)
               new == Contents(Refilled(b, keep, type))
           IN  /\ Numbered(new, n)
               /\ ValueIds(b) \subseteq Ids(q)
               /\ Ids(new) = Ids(q) \ ValueIds(b)
<1> DEFINE m == Cardinality(EventPositions(b))
           r == Refilled(b, keep, type)
           q == Contents(b)
           kept == { keep[k] : k \in DOMAIN keep }
           gone == (1 .. Count(b)) \ kept
           new == Contents(r)
<1>1. /\ Count(r) = m
      /\ \A i \in 1 .. m :
           /\ keep[i] \in DOMAIN q
           /\ RawValue(r, i - 1) = Retyped(q[keep[i]], type)
  BY RefilledFields
<1>2. q \in Seq(Samples) /\ DOMAIN q = 1 .. Count(b) /\ Numbered(q, n)
  BY DEF Ring, Contents
<1>3. DOMAIN keep = 1 .. m /\ kept = EventPositions(b)
  BY AllEventsKept
<1>4. m \in 0 .. BufferSpace /\ EventPositions(b) \subseteq DOMAIN q /\ BufferSpace \in Nat
  BY <1>2, EventsFit, SpaceAssumption
<1>5. ValueIds(b) = { q[i].id : i \in gone }
  <2>1. gone = { k \in 1 .. Count(b) : q[k].sevr = "value" }
    BY <1>3 DEF EventPositions, IsInfo
  <2> QED BY <2>1 DEF ValueIds
<1>6. DOMAIN new = 1 .. m /\ \A i \in 1 .. m : new[i] = RawValue(r, i - 1)
  BY <1>1 DEF Contents
<1> HIDE DEF m, r, q, new
<1>7. ASSUME NEW i \in 1 .. m
      PROVE  /\ keep[i] \in DOMAIN q /\ keep[i] \in Nat
             /\ new[i].id = q[keep[i]].id
  <2>1. keep[i] \in DOMAIN q /\ new[i] = Retyped(q[keep[i]], type)
    BY <1>1, <1>6
  <2>2. q[keep[i]] \in Samples
    BY <1>2, <2>1, EntryFields
  <2>3. keep[i] \in Nat
    BY <1>2, <2>1
  <2> QED BY <2>1, <2>2, <2>3, RetypedSame
<1>8. Numbered(new, n)
  <2>1. \A i \in DOMAIN new : new[i].id \in 1 .. n
    BY <1>2, <1>6, <1>7 DEF Numbered
  <2>2. ASSUME NEW i \in DOMAIN new, NEW j \in DOMAIN new, i < j
        PROVE  new[i].id < new[j].id
    <3>1. keep[i] < keep[j]
      BY <1>3, <1>6, <2>2 DEF InOrder
    <3> QED BY <1>2, <1>6, <1>7, <3>1 DEF Numbered
  <2> QED BY <2>1, <2>2 DEF Numbered
<1>9. Ids(new) = { q[e].id : e \in kept }
  <2>1. Ids(new) = { q[keep[i]].id : i \in 1 .. m }
    BY <1>6, <1>7 DEF Ids
  <2>2. { q[keep[i]].id : i \in 1 .. m } = { q[e].id : e \in kept }
    BY <1>3
  <2> QED BY <2>1, <2>2
<1>10. kept \subseteq DOMAIN q /\ gone = DOMAIN q \ kept
  BY <1>2, <1>3, <1>4
<1> HIDE DEF kept, gone
<1>11. \A i, j \in DOMAIN q : q[i].id = q[j].id => i = j
  <2> TAKE i, j \in DOMAIN q
  <2>1. i \in Nat /\ j \in Nat /\ q[i].id \in Nat /\ q[j].id \in Nat
    BY <1>2, NumberedEntry
  <2>2. i < j => q[i].id < q[j].id
    BY <1>2 DEF Numbered
  <2>3. j < i => q[j].id < q[i].id
    BY <1>2 DEF Numbered
  <2> QED BY <2>1, <2>2, <2>3
<1>12. Ids(q) = { q[i].id : i \in DOMAIN q }
  BY DEF Ids
<1>13. { q[i].id : i \in gone } \subseteq Ids(q)
  BY <1>10, <1>12
<1>14. Ids(new) = Ids(q) \ { q[i].id : i \in gone }
  BY <1>9, <1>10, <1>11, <1>12
<1> QED BY <1>5, <1>8, <1>13, <1>14 DEF r, q, new, kept, gone

\* pvConnected: the values, which it does not copy to the new ring, are given
\* up; the writer goes on with what it holds.
LEMMA PvConnectedAccount ==
    ASSUME IInv, Account, NEW type \in Types, PvConnected(type)
    PROVE  Account'
<1>1. UNCHANGED <<added, overwritten, archive, refused>>
  BY DEF PvConnected
<1>2. CASE Capacity(buffer) >= 1 /\ type = bufType
  <2>1. UNCHANGED <<buffer, discarded, writer>>
    BY <1>2 DEF PvConnected
  <2>2. InFlight' = InFlight
    BY <2>1 DEF InFlight
  <2> QED BY <1>1, <2>1, <2>2, NothingMoves
<1>3. CASE ~(Capacity(buffer) >= 1 /\ type = bufType)
  <2> DEFINE events == EventPositions(buffer)
             q == Contents(buffer)
             P == ValueIds(buffer)
  <2>1. PICK keep \in [1 .. Cardinality(events) -> events] :
          InOrder(keep) /\ buffer' = Refilled(buffer, keep, type)
    BY <1>3 DEF PvConnected
  <2>2. /\ discarded' = discarded \cup P
        /\ \/ writer.pc = "idle" /\ writer' = writer
           \/ /\ writer.pc = "add"
              /\ writer' = [writer EXCEPT !.slot = Dangling, !.replaced = TRUE]
           \/ /\ writer.pc \notin {"idle", "add"}
              /\ writer' = [writer EXCEPT !.replaced = TRUE]
    BY <1>3 DEF PvConnected
  <2>3. /\ Ring(buffer, lastStamp) /\ lastStamp \in Nat
        /\ Capacity(buffer) \in {0, BufferSpace}
        /\ Numbered(q, added)
    BY RingOfInv DEF IInv, TypeOK, Account, EntriesNumbered
  <2>4. /\ Numbered(Contents(buffer'), added)
        /\ P \subseteq Ids(q)
        /\ Ids(Contents(buffer')) = Ids(q) \ P
    BY <2>1, <2>3, RefilledAccount
  <2> HIDE DEF q, P
  <2>5. EntriesNumbered'
    BY <1>1, <2>4 DEF EntriesNumbered
  <2>6. writer'.pc = writer.pc /\ writer'.id = writer.id
    <3>1. writer \in WriterStates
      BY DEF IInv, TypeOK
    <3>2. CASE writer' = writer
      BY <3>2
    <3>3. CASE writer' = [writer EXCEPT !.slot = Dangling, !.replaced = TRUE]
      BY <3>1, <3>3 DEF WriterStates
    <3>4. CASE writer' = [writer EXCEPT !.replaced = TRUE]
      BY <3>1, <3>4 DEF WriterStates
    <3> QED BY <2>2, <3>2, <3>3, <3>4
  <2>7. InFlight' = InFlight /\ Archived' = Archived
    BY <1>1, <2>6 DEF InFlight, Archived
  <2>8. OnePlace'
    <3>1. Ledger(added, InRing, InFlight, Archived, refused, discarded, overwritten)
      BY DEF Account, OnePlace
    <3>2. P \subseteq InRing /\ InRing' = InRing \ P
      BY <2>4 DEF InRing, q
    <3>3. Ledger(added, InRing \ P, InFlight, Archived, refused, discarded \cup P, overwritten)
      BY <3>1, <3>2, LedgerDiscard
    <3> QED BY <1>1, <2>2, <2>7, <3>2, <3>3 DEF OnePlace
  <2>9. ArchiveInOrder'
    BY <1>1 DEF Account, ArchiveInOrder
  <2> QED BY <2>5, <2>8, <2>9 DEF Account
<1> QED BY <1>2, <1>3
-----------------------------------------------------------------------------
\* The writer takes the oldest sample.
LEMMA TakeOldestAccount ==
    ASSUME IInv, Account, TakeOldest
    PROVE  Account'
<1> DEFINE x == OldestIndex(buffer)
           q == Contents(buffer)
<1>1. /\ writer.pc = "take" /\ ~IsEmpty(buffer)
      /\ writer' = [writer EXCEPT !.pc = "add", !.slot = x, !.id = buffer.slots[x].id]
      /\ buffer' = Removed(buffer)
      /\ UNCHANGED <<gvars, archive, refused>>
  BY DEF TakeOldest
<1>2. /\ IsBuffer(buffer, Samples) /\ q \in Seq(Samples) /\ writer \in WriterStates
      /\ Numbered(q, added)
  BY DEF IInv, TypeOK, EntriesAreSamples, Account, EntriesNumbered
<1>3. /\ q # <<>>
      /\ buffer.slots[x] = Head(q)
      /\ Contents(buffer') = Tail(q)
  BY <1>1, <1>2, RemovedTakesHead
<1> HIDE DEF x, q
<1>4. /\ Numbered(Tail(q), added)
      /\ Head(q) = q[1]
      /\ q[1].id \in Ids(q)
      /\ Ids(Tail(q)) = Ids(q) \ {q[1].id}
      /\ \A y \in Ids(Tail(q)) : q[1].id < y
  BY <1>2, <1>3, NumberedTail
<1>5. writer'.pc = "add" /\ writer'.id = q[1].id
  BY <1>1, <1>2, <1>3, <1>4 DEF WriterStates
<1>6. EntriesNumbered'
  BY <1>1, <1>3, <1>4 DEF EntriesNumbered, gvars
<1>7. OnePlace'
  <2>1. InFlight = {} /\ InFlight' = {q[1].id}
    BY <1>1, <1>5 DEF InFlight
  <2>2. Ledger(added, InRing, {}, Archived, refused, discarded, overwritten)
    BY <1>1, <2>1 DEF Account, OnePlace
  <2>3. q[1].id \in InRing /\ InRing' = InRing \ {q[1].id}
        /\ \A y \in InRing \ {q[1].id} : q[1].id < y
    BY <1>3, <1>4 DEF InRing, q
  <2>4. Ledger(added, InRing \ {q[1].id}, {q[1].id}, Archived, refused, discarded, overwritten)
    BY <2>2, <2>3, LedgerTake
  <2>5. /\ added' = added /\ Archived' = Archived /\ refused' = refused
        /\ discarded' = discarded /\ overwritten' = overwritten
    BY <1>1 DEF Archived, gvars
  <2> QED BY <2>1, <2>3, <2>4, <2>5 DEF OnePlace
<1>8. ArchiveInOrder'
  BY <1>1 DEF Account, ArchiveInOrder
<1> QED BY <1>6, <1>7, <1>8 DEF Account

\* At the end of a write there is nothing to be lost by the reset.
LEMMA WriteEndAccount ==
    ASSUME IInv, Account, WriteEnd
    PROVE  Account'
<1>1. /\ writer.pc = "take" /\ IsEmpty(buffer)
      /\ writer' = Idle /\ Idle.pc = "idle"
      /\ buffer' = Cleared(buffer)
      /\ UNCHANGED <<gvars, archive, refused>>
  BY DEF WriteEnd, Idle
<1>2. Contents(buffer') = <<>>
  BY <1>1, ClearedIsEmpty DEF IInv, TypeOK
<1>3. Contents(buffer) = <<>>
  <2>1. Count(buffer) = 0
    BY <1>1, CountRange DEF IInv, TypeOK
  <2> QED BY <2>1, ContentsType, EmptySeq DEF IInv, TypeOK
<1>4. EntriesNumbered'
  BY <1>1, <1>2, <1>3 DEF Account, EntriesNumbered, gvars
<1>5. /\ InRing' = InRing /\ InFlight' = InFlight /\ Archived' = Archived
      /\ discarded' = discarded /\ added' = added /\ overwritten' = overwritten
  BY <1>1, <1>2, <1>3 DEF InRing, InFlight, Archived, gvars
<1>6. OnePlace'
  BY <1>1, <1>5 DEF Account, OnePlace
<1>7. ArchiveInOrder'
  BY <1>1 DEF Account, ArchiveInOrder
<1> QED BY <1>4, <1>6, <1>7 DEF Account

\* The steps before the first sample is taken move none.
LEMMA WriterReadyAccount ==
    ASSUME IInv, Account, WriteBegin \/ WriterCreated \/ WriterFailed
    PROVE  Account'
<1>1. UNCHANGED <<bvars, gvars, archive, refused>>
  BY DEF WriteBegin, WriterCreated, WriterFailed
<1>2. writer.pc # "add" /\ writer'.pc # "add"
  <2>1. CASE WriteBegin
    BY <2>1 DEF WriteBegin, Idle
  <2>2. CASE WriterCreated
    BY <2>2 DEF WriterCreated, IInv, TypeOK, WriterStates
  <2>3. CASE WriterFailed
    BY <2>3 DEF WriterFailed, Idle
  <2> QED BY <2>1, <2>2, <2>3
<1>3. InFlight' = InFlight
  BY <1>2 DEF InFlight
<1> QED BY <1>1, <1>3, NothingMoves DEF bvars, gvars

\* The writer lets go of its sample: it is refused, or in the archive.
LEMMA LetGo ==
    ASSUME Account, writer.pc = "add", writer'.pc # "add",
           UNCHANGED <<bvars, gvars>>,
           \/ refused' = refused \cup {writer.id} /\ archive' = archive
           \/ /\ refused' = refused
              /\ Archived' = Archived \cup {writer.id} /\ ArchiveInOrder'
    PROVE  Account'
<1>1. EntriesNumbered'
  BY DEF Account, EntriesNumbered, bvars, gvars
<1>2. OnePlace'
  <2>1. InFlight = {writer.id} /\ InFlight' = {}
    BY DEF InFlight
  <2>2. Ledger(added, InRing, {writer.id}, Archived, refused, discarded, overwritten)
    BY <2>1 DEF Account, OnePlace
  <2>3. /\ InRing' = InRing /\ discarded' = discarded
        /\ added' = added /\ overwritten' = overwritten
    BY DEF InRing, bvars, gvars
  <2>4. CASE refused' = refused \cup {writer.id} /\ archive' = archive
    <3>1. Archived' = Archived
      BY <2>4 DEF Archived
    <3>2. Ledger(added, InRing, {}, Archived, refused \cup {writer.id}, discarded, overwritten)
      BY <2>2, LedgerRefuse
    <3> QED BY <2>1, <2>3, <2>4, <3>1, <3>2 DEF OnePlace
  <2>5. CASE refused' = refused /\ Archived' = Archived \cup {writer.id}
    <3>1. Ledger(added, InRing, {}, Archived \cup {writer.id}, refused, discarded, overwritten)
      BY <2>2, LedgerStore
    <3> QED BY <2>1, <2>3, <2>5, <3>1 DEF OnePlace
  <2> QED BY <2>4, <2>5
<1>3. ArchiveInOrder'
  <2>1. CASE archive' = archive
    BY <2>1 DEF Account, ArchiveInOrder
  <2> QED BY <2>1
<1> QED BY <1>1, <1>2, <1>3 DEF Account

\* One more sample in the archive, newer than those in it.
LEMMA ArchiveAppend ==
    ASSUME NEW S, archive \in Seq(S), NEW e \in S,
           archive' = Append(archive, e), ArchiveInOrder,
           \A a \in Archived : a < e.id
    PROVE  Archived' = Archived \cup {e.id} /\ ArchiveInOrder'
<1>1. /\ Len(archive) \in Nat /\ DOMAIN archive = 1 .. Len(archive)
      /\ DOMAIN archive' = 1 .. Len(archive) + 1
      /\ \A i \in 1 .. Len(archive) : archive'[i] = archive[i]
      /\ archive'[Len(archive) + 1] = e
  OBVIOUS
<1>2. DOMAIN archive' = DOMAIN archive \cup {Len(archive) + 1}
  BY <1>1
<1>3. \A i \in DOMAIN archive : archive'[i] = archive[i] /\ archive[i].id \in Archived
  BY <1>1 DEF Archived
<1>4. Archived' = Archived \cup {e.id}
  <2>1. Archived' = { archive'[i].id : i \in DOMAIN archive }
                      \cup { archive'[Len(archive) + 1].id }
    BY <1>2 DEF Archived
  <2>2. { archive'[i].id : i \in DOMAIN archive } = Archived
    BY <1>3 DEF Archived
  <2> QED BY <1>1, <2>1, <2>2
<1>5. ASSUME NEW i \in DOMAIN archive', NEW j \in DOMAIN archive', i < j
      PROVE  archive'[i].id < archive'[j].id
  <2>1. i \in DOMAIN archive
    BY <1>1, <1>5
  <2>2. CASE j \in DOMAIN archive
    BY <1>3, <1>5, <2>1, <2>2 DEF ArchiveInOrder
  <2>3. CASE j = Len(archive) + 1
    BY <1>1, <1>3, <2>1, <2>3
  <2> QED BY <1>2, <2>2, <2>3
<1> QED BY <1>4, <1>5 DEF ArchiveInOrder

LEMMA AddToArchiveAccount ==
    ASSUME IInv, Account, AddToArchive
    PROVE  Account'
<1>1. /\ writer.pc = "add"
      /\ writer' = [writer EXCEPT !.pc = "take"]
      /\ UNCHANGED <<bvars, gvars>>
  BY DEF AddToArchive
<1>2. writer'.pc = "take" /\ writer \in WriterStates
  BY <1>1 DEF IInv, TypeOK, WriterStates
<1>3. PICK s \in AtAddress :
        \/ refused' = refused \cup {writer.id} /\ archive' = archive
        \/ /\ archive' = Append(archive, [id |-> writer.id, sample |-> s,
                                         as |-> writer.type, replaced |-> writer.replaced])
           /\ refused' = refused
  BY DEF AddToArchive
<1> DEFINE e == [id |-> writer.id, sample |-> s, as |-> writer.type,
                 replaced |-> writer.replaced]
<1>4. CASE refused' = refused \cup {writer.id} /\ archive' = archive
  BY <1>1, <1>2, <1>4, LetGo
<1>5. CASE archive' = Append(archive, e) /\ refused' = refused
  <2>1. \A a \in Archived : a < writer.id
    <3>1. InFlight = {writer.id}
      BY <1>1 DEF InFlight
    <3> QED BY <3>1 DEF Account, OnePlace, Ledger
  <2>2. e.id = writer.id
    OBVIOUS
  <2>3. archive \in Seq(Entries \cup {e}) /\ e \in Entries \cup {e}
    <3>1. archive \in Seq(Entries)
      BY DEF IInv, TypeOK
    <3> HIDE DEF e
    <3> QED BY <3>1
  <2> HIDE DEF e
  <2>4. Archived' = Archived \cup {writer.id} /\ ArchiveInOrder'
    BY <1>5, <2>1, <2>2, <2>3, ArchiveAppend DEF Account
  <2> QED BY <1>1, <1>2, <1>5, <2>4, LetGo
<1> QED BY <1>3, <1>4, <1>5

LEMMA AddFailedAccount ==
    ASSUME IInv, Account, AddFailed
    PROVE  Account'
<1>1. /\ writer.pc = "add" /\ writer' = Idle /\ Idle.pc = "idle"
      /\ refused' = refused \cup {writer.id}
      /\ UNCHANGED <<bvars, gvars, archive>>
  BY DEF AddFailed, Idle
<1> QED BY <1>1, LetGo
-----------------------------------------------------------------------------
LEMMA InitAccount == Init => Account
<1> SUFFICES ASSUME Init
             PROVE  Account
  OBVIOUS
<1>1. Contents(buffer) = <<>>
  BY UnallocatedIsEmpty DEF Init
<1>2. EntriesNumbered
  BY <1>1 DEF EntriesNumbered, Numbered
<1>3. writer.pc = "idle" /\ archive = <<>> /\ added = 0
      /\ refused = {} /\ discarded = {} /\ overwritten = {}
  BY DEF Init, Idle
<1>4. ArchiveInOrder
  BY <1>3 DEF ArchiveInOrder
<1>5. InRing = {} /\ InFlight = {} /\ Archived = {}
  BY <1>1, <1>3 DEF InRing, Ids, InFlight, Archived
<1>6. 1 .. 0 = {}
  OBVIOUS
<1>7. OnePlace
  BY <1>3, <1>5, <1>6, Zenon DEF OnePlace, Ledger, Partition
<1> QED BY <1>2, <1>4, <1>7 DEF Account

LEMMA EventsAccount ==
    ASSUME IInv, Account,
           \/ StopDisconnect
           \/ StopEnd
           \/ \E when \in Stamps : Disable(when)
           \/ \E when \in Stamps : PvDisconnected(when)
    PROVE  Account'
<1>1. PICK sevr \in Severities, when \in Nat :
        AddEvent(sevr, when) /\ UNCHANGED wvars
  <2>1. CASE StopDisconnect
    BY <2>1 DEF StopDisconnect, IInv, TypeOK, Severities
  <2>2. CASE StopEnd
    BY <2>2 DEF StopEnd, IInv, TypeOK, Severities
  <2>3. CASE \E when \in Stamps : Disable(when)
    BY <2>3 DEF Disable, Stamps, Severities
  <2>4. CASE \E when \in Stamps : PvDisconnected(when)
    BY <2>4 DEF PvDisconnected, Stamps, Severities
  <2> QED BY <2>1, <2>2, <2>3, <2>4
<1>2. UNCHANGED <<writer, archive, refused>>
  BY <1>1 DEF wvars
<1> QED BY <1>1, <1>2, AddEventAccount

LEMMA NextAccount ==
    ASSUME IInv, Account, [Next]_vars
    PROVE  Account'
<1>1. CASE Tick \/ Start \/ StopBegin \/ UNCHANGED vars
  <2>1. UNCHANGED <<bvars, gvars, wvars>>
    BY <1>1 DEF Tick, Start, StopBegin, vars
  <2>2. UNCHANGED <<buffer, added, overwritten, discarded, writer, archive, refused>>
    BY <2>1 DEF bvars, gvars, wvars
  <2>3. InFlight' = InFlight
    BY <2>2 DEF InFlight
  <2> QED BY <2>2, <2>3, NothingMoves
<1>2. CASE \E type \in Types : PvConnected(type)
  BY <1>2, PvConnectedAccount
<1>3. CASE \E stamp \in Stamps, type \in {pvType} \cup Foreign : PvValue(stamp, type)
  <2>1. pvType \in Types
    BY DEF IInv, TypeOK
  <2> QED BY <1>3, <2>1, PvValueAccount
<1>4. CASE \/ StopDisconnect
           \/ StopEnd
           \/ \E when \in Stamps : Disable(when)
           \/ \E when \in Stamps : PvDisconnected(when)
  BY <1>4, EventsAccount
<1>5. CASE Write
  BY <1>5, WriterReadyAccount, TakeOldestAccount, WriteEndAccount,
     AddToArchiveAccount, AddFailedAccount DEF Write
<1> QED BY <1>1, <1>2, <1>3, <1>4, <1>5 DEF Next, Callbacks, Engine

\* What the invariant says of the places of a sample is what the property says.
LEMMA AccountIsProperty == Account => EverySampleAccounted
<1> SUFFICES ASSUME Account
             PROVE  LET places == <<Ids(Contents(buffer)), InFlight, Archived, refused,
                                    discarded, overwritten>>
                    IN  /\ UNION { places[i] : i \in DOMAIN places } = 1 .. added
                        /\ \A i, j \in DOMAIN places :
                             i # j => places[i] \cap places[j] = {}
                        /\ \A i, j \in DOMAIN archive : i < j => archive[i].id < archive[j].id
  BY DEF EverySampleAccounted
<1>1. Partition(added, Ids(Contents(buffer)), InFlight, Archived, refused, discarded,
                overwritten)
  BY DEF Account, OnePlace, Ledger, InRing
<1>2. \A i, j \in DOMAIN archive : i < j => archive[i].id < archive[j].id
  BY DEF Account, ArchiveInOrder
<1> QED BY <1>1, <1>2, PartitionPlaces

\* Whatever overtakes a write - callbacks that overwrite the slot being read, a
\* reconnect that replaces the ring, an exception - every sample that was added
\* is in exactly one place, no event is among those discarded, and the archive
\* has its samples in the order in which they arrived, once each
\* (SampleMechanism.cpp).
THEOREM SamplesAccounted == Spec => []EverySampleAccounted
<1>1. Init => IInv /\ Account
  BY InitInv, InitAccount
<1>2. IInv /\ Account /\ [Next]_vars => IInv' /\ Account'
  BY NextInv, NextAccount
<1> QED BY <1>1, <1>2, AccountIsProperty, PTL DEF Spec
=============================================================================
