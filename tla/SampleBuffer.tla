---------------------------- MODULE SampleBuffer ----------------------------
(***************************************************************************)
(* A CircularBuffer under every sequence of calls its users make, and the  *)
(* proof obligation that it is a BoundedQueue: what getRawValue(0),        *)
(* getRawValue(1), ... show is the queue, whatever the position of head    *)
(* and tail in the ring.                                                   *)
(***************************************************************************)
EXTENDS CircularBuffer

CONSTANTS
    Values,          \* the raw values
    Sizes,           \* arguments of allocate()
    MaxOverwrites    \* bound of the model on the overwrite counter

ASSUME SizesArePositive == Sizes \subseteq Nat \ {0}
ASSUME BlankIsNoValue == Blank \notin Values

VARIABLES
    ring,            \* the CircularBuffer object
    removed          \* what the last removeRawValue() returned

ringVars == <<ring, removed>>

RingInit ==
    /\ ring = Unallocated
    /\ removed = Blank

Allocate(num) ==
    /\ ring' = Allocated(num)
    /\ UNCHANGED removed

\* Every caller allocates the ring before it adds the first element.
AddRawValue(v) ==
    /\ Capacity(ring) >= 1
    /\ ring.overwrites < MaxOverwrites
    /\ ring' = Added(ring, v)
    /\ UNCHANGED removed

RemoveRawValue ==
    IF IsEmpty(ring)
    THEN /\ removed' = Blank
         /\ UNCHANGED ring
    ELSE /\ removed' = ring.slots[OldestIndex(ring)]
         /\ ring' = Removed(ring)

Reset ==
    /\ ring' = Cleared(ring)
    /\ UNCHANGED removed

RingNext ==
    \/ \E num \in Sizes : Allocate(num)
    \/ \E v \in Values : AddRawValue(v)
    \/ RemoveRawValue
    \/ Reset

RingSpec == RingInit /\ [][RingNext]_ringVars
-----------------------------------------------------------------------------
\* The ring keeps its shape: both indices stay inside the allocated memory.
RingTypeOK ==
    /\ IsBuffer(ring, Values)
    /\ removed \in Values \cup {Blank}

\* The ring, read from the oldest entry to the newest, is a drop-oldest
\* queue, and getOverwrites() is the number of elements that queue dropped.
Queue == INSTANCE BoundedQueue WITH
    Nothing <- Blank,
    queue <- Contents(ring),
    capacity <- Capacity(ring),
    dropped <- ring.overwrites

RingIsQueue == Queue!Spec
=============================================================================
