--------------------------- MODULE CircularBuffer ---------------------------
(***************************************************************************)
(* The methods of class CircularBuffer, the in-memory ring in which every  *)
(* channel of the archive engine keeps its samples until the next write.   *)
(* A buffer is a record with the fields of the class; `slots' is its       *)
(* memory, one element per index.  Entries are valid from tail+1 to head   *)
(* (modulo max_index), and tail = head means empty, so that one slot is    *)
(* always unused.                                                          *)
(***************************************************************************)
EXTENDS Integers, Sequences

CONSTANT Blank           \* the content of memory that was never written

\* The object as its constructor leaves it: no room for any element.
Unallocated ==
    [max_index |-> 1, head |-> 0, tail |-> 0, overwrites |-> 0,
     slots |-> [i \in {0} |-> Blank]]

\* allocate(): room for num elements, plus the unused slot.
Allocated(num) ==
    [max_index |-> num + 1, head |-> 0, tail |-> 0, overwrites |-> 0,
     slots |-> [i \in 0 .. num |-> Blank]]

Capacity(b) == b.max_index - 1

\* Mutant of Advance: wraps one slot too late.
AdvancePastEnd(b, i) == IF i + 1 > b.max_index THEN 0 ELSE i + 1

Advance(b, i) == IF i + 1 >= b.max_index THEN 0 ELSE i + 1

Count(b) ==
    IF b.head >= b.tail
    THEN b.head - b.tail
    ELSE (b.max_index - b.tail - 1) + (b.head + 1)

Cleared(b) == [b EXCEPT !.head = 0, !.tail = 0, !.overwrites = 0]

\* Mutant of Added: a full ring does not give up its oldest element.
AddedTailStays(b, v) ==
    LET h == Advance(b, b.head)
    IN  [b EXCEPT !.head = h,
                  !.slots = [@ EXCEPT ![h] = v],
                  !.overwrites = IF h = b.tail THEN @ + 1 ELSE @]

\* getNextElement(), and the caller that fills the element with v.
Added(b, v) ==
    LET h == Advance(b, b.head)
        full == h = b.tail
    IN  [b EXCEPT !.head = h,
                  !.slots = [@ EXCEPT ![h] = v],
                  !.overwrites = IF full THEN @ + 1 ELSE @,
                  !.tail = IF full THEN Advance(b, @) ELSE @]

\* Where getRawValue(i) finds entry number i, 0 being the oldest.
IndexOf(b, i) == (b.tail + 1 + i) % b.max_index

RawValue(b, i) == b.slots[IndexOf(b, i)]

IsEmpty(b) == b.tail = b.head

\* removeRawValue() on a buffer that is not empty: the slot whose address is
\* returned, and the buffer afterwards.
OldestIndex(b) == Advance(b, b.tail)

Removed(b) == [b EXCEPT !.tail = OldestIndex(b)]

\* All entries, oldest first.
Contents(b) == [i \in 1 .. Count(b) |-> RawValue(b, i - 1)]

\* The shape of a buffer that holds elements of V.
IsBuffer(b, V) ==
    /\ DOMAIN b = {"max_index", "head", "tail", "overwrites", "slots"}
    /\ b.max_index \in Nat \ {0}
    /\ b.head \in 0 .. b.max_index - 1
    /\ b.tail \in 0 .. b.max_index - 1
    /\ b.overwrites \in Nat
    /\ b.slots \in [0 .. b.max_index - 1 -> V \cup {Blank}]
=============================================================================
