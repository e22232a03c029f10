--------------------------- MODULE SampleMechanism ---------------------------
(***************************************************************************)
(* The end of the sampling pipeline of one channel of the archive engine,  *)
(* and the writer that empties it.  Channel Access callbacks (connection,  *)
(* disconnection, values), the group logic (disable) and the engine (start *)
(* and stop) add samples to the ring `buffer'; the engine's write cycle    *)
(* moves them to the archive.                                              *)
(*                                                                         *)
(* Every method holds the mechanism's mutex, so one locked stretch of code *)
(* is one action.  write() gives the mutex up twice, while it creates the  *)
(* DataWriter and, for each sample, while DataWriter::add() copies the     *)
(* sample from the address removeRawValue() returned: between the actions  *)
(* of the writer, every other action may happen.                           *)
(***************************************************************************)
EXTENDS CircularBuffer, FiniteSets

CONSTANTS
    Types,         \* the (type, count) combinations of the control system
    DefaultType,   \* what a PV that never connected reports: one double
    Foreign,       \* layouts that an old subscription delivers, of no type in Types
    BufferSpace,   \* getSuggestedBufferSpace() for the period of the channel
    MaxTime,       \* bound of the model on the clock and on time stamps
    MaxSamples,    \* bound of the model on the samples added to the buffer
    MaxFailures    \* bound of the model on exceptions in the writer

ASSUME TypesAssumption == DefaultType \in Types /\ Foreign \cap Types = {}
ASSUME SpaceAssumption == BufferSpace \in Nat /\ (BufferSpace = 1 \/ BufferSpace >= 3)
ASSUME BoundsAssumption == MaxTime \in Nat /\ MaxSamples \in Nat /\ MaxFailures \in Nat

VARIABLES
    phase,         \* "stopped", "running" or "stopping" (inside stop())
    connected,     \* the listeners have seen pvConnected last
    pvType,        \* the type and count that the PV reports
    buffer,        \* the ring of samples
    bufType,       \* type and count the ring was allocated for
    lastStamp,     \* last_stamp, or 0 while last_stamp_set is false
    haveSample,    \* have_sample_after_connection
    clock,         \* time of the host
    writer,        \* where write() is, and what it holds
    archive,       \* the samples on disk, in the order they were added
    header,        \* the last data header of the channel: its type and end_time
    \* What became of the samples that are not in the archive.
    added,         \* how many samples were added to the ring: their numbers
    overwritten,   \* samples pushed out of a full ring
    discarded,     \* samples given up by pvConnected
    refused,       \* samples DataWriter::add refused or failed to store
    failures       \* exceptions so far

pvars == <<phase, connected, pvType, clock>>
bvars == <<buffer, bufType, lastStamp, haveSample>>
gvars == <<added, overwritten, discarded>>
wvars == <<writer, archive, header, refused, failures>>
vars == <<pvars, bvars, gvars, wvars>>

Severities == {"value", "disconnect", "stopped", "disabled"}

\* A raw value: its number tells apart samples that are equal otherwise.  Its
\* type is the layout of its bytes.
Samples == [id : Nat, sevr : Severities, stamp : Nat, type : Types \cup Foreign]

\* Mutant of IsInfo: forgets one of the three events.
IsInfoButDisabled(s) == s.sevr \notin {"value", "disabled"}

IsInfo(s) == s.sevr # "value"

\* The address of a slot in a ring that is no more.
Dangling == BufferSpace + 1

Idle == [pc |-> "idle", type |-> DefaultType, slot |-> 0, id |-> 0, replaced |-> FALSE]

Init ==
    /\ phase = "stopped"
    /\ connected = FALSE
    /\ pvType = DefaultType
    /\ clock = 1
    /\ buffer = Unallocated
    /\ bufType = DefaultType
    /\ lastStamp = 0
    /\ haveSample = FALSE
    /\ writer = Idle
    /\ archive = <<>>
    /\ header = [type |-> DefaultType, last |-> 0]
    /\ added = 0
    /\ overwritten = {}
    /\ discarded = {}
    /\ refused = {}
    /\ failures = 0
-----------------------------------------------------------------------------
\* The n oldest entries, pushed out when the ring is short of room.
PushedOut(b, n) ==
    LET over == Count(b) + n - Capacity(b)
    IN  { Contents(b)[i].id : i \in 1 .. (IF over > Count(b) THEN Count(b) ELSE over) }

\* Mutant of EventStamp: the event keeps the time it was given.
EventStampAsGiven(when) == when

\* A severity without a value, stamped so that time never goes back.
EventStamp(when) == IF when < lastStamp THEN lastStamp ELSE when

\* The bound on samples leaves room for the one or two events that a stop()
\* in progress still has to add: the bound must not keep it from returning.
WithinBound(n) ==
    LET reserved == IF phase # "stopping" THEN 0 ELSE IF connected THEN 2 ELSE 1
    IN  added + n + reserved <= MaxSamples

\* addEvent(): allocates a ring for the type the PV reports if there is none.
AddEvent(sevr, when) ==
    LET none == Capacity(buffer) < 1
        b    == IF none THEN Allocated(BufferSpace) ELSE buffer
        type == IF none THEN pvType ELSE bufType
        s    == [id |-> added + 1, sevr |-> sevr, stamp |-> EventStamp(when), type |-> type]
    IN  /\ added' = added + 1
        /\ buffer' = Added(b, s)
        /\ bufType' = type
        /\ lastStamp' = EventStamp(when)
        /\ overwritten' = overwritten \cup PushedOut(b, 1)
        /\ UNCHANGED <<haveSample, discarded>>
-----------------------------------------------------------------------------
\* The clock of the host.
Tick ==
    /\ clock < MaxTime
    /\ clock' = clock + 1
    /\ UNCHANGED <<phase, connected, pvType, bvars, gvars, wvars>>

\* ArchiveChannel may call start() while stop() has unlocked, with the option
\* `disconnect': that is left to the module ArchiveChannel.
Start ==
    /\ phase = "stopped"
    /\ phase' = "running"
    /\ UNCHANGED <<connected, pvType, clock, bvars, gvars, wvars>>

\* stop() and write() exclude each other: ArchiveChannel marks the mechanism
\* busy around either.
StopBegin ==
    /\ phase = "running"
    /\ writer.pc = "idle"
    /\ WithinBound(IF connected THEN 2 ELSE 1)
    /\ phase' = "stopping"
    /\ UNCHANGED <<connected, pvType, clock, bvars, gvars, wvars>>

\* The PV announces the disconnect that it was asked for.
StopDisconnect ==
    /\ phase = "stopping"
    /\ connected
    /\ connected' = FALSE
    /\ AddEvent("disconnect", clock)
    /\ UNCHANGED <<phase, pvType, clock, wvars>>

StopEnd ==
    /\ phase = "stopping"
    /\ ~connected
    /\ phase' = "stopped"
    /\ AddEvent("stopped", clock)
    /\ UNCHANGED <<connected, pvType, clock, wvars>>

\* disable(): the time may be the stamp of the value that disabled the group.
Disable(when) ==
    /\ WithinBound(1)
    /\ AddEvent("disabled", when)
    /\ UNCHANGED <<pvars, wvars>>

\* pvDisconnected(): also fired for a PV that had not connected completely.
PvDisconnected(when) ==
    /\ phase # "stopped"
    /\ when <= clock
    /\ WithinBound(IF phase = "stopping" /\ connected THEN 0 ELSE 1)
    /\ connected' = FALSE
    /\ AddEvent("disconnect", when)
    /\ UNCHANGED <<phase, pvType, clock, wvars>>
-----------------------------------------------------------------------------
\* A preserved event gets the memory layout of the new type.
Retyped(s, type) == [s EXCEPT !.type = type]

\* The entries of ring b at positions keep[1] < keep[2] < ..., in a new ring.
\* The new ring is as large as the old one, so that none is overwritten.
Refilled(b, keep, type) ==
    LET new == Allocated(BufferSpace)
        n   == Cardinality(DOMAIN keep)
    IN  [new EXCEPT !.head = n,
                    !.slots = [i \in 0 .. BufferSpace |->
                                 IF i \in 1 .. n
                                 THEN Retyped(Contents(b)[keep[i]], type)
                                 ELSE Blank]]

\* The positions of the info events, in increasing order.
EventPositions(b) == { i \in 1 .. Count(b) : IsInfo(Contents(b)[i]) }

\* The values of ring b, which a new ring does not get.
ValueIds(b) == { Contents(b)[i].id : i \in { k \in 1 .. Count(b) : Contents(b)[k].sevr = "value" } }

InOrder(keep) ==
    \A i, j \in DOMAIN keep : i < j => keep[i] < keep[j]

\* Mutant of PvConnected: keeps the ring it has, whatever the type.
PvConnectedKeepsRing(type) ==
    /\ phase # "stopped"
    /\ ~connected
    /\ phase = "stopping" => WithinBound(1)
    /\ Capacity(buffer) >= 1
    /\ connected' = TRUE
    /\ pvType' = type
    /\ haveSample' = FALSE
    /\ UNCHANGED <<phase, clock, buffer, bufType, lastStamp, gvars, wvars>>

\* pvConnected(): a PV of another type gets a new ring; the events gathered
\* so far are copied to it, the values are not.
PvConnected(type) ==
    /\ phase # "stopped"
    /\ ~connected
    /\ phase = "stopping" => WithinBound(1)
    /\ connected' = TRUE
    /\ pvType' = type
    /\ haveSample' = FALSE
    /\ IF Capacity(buffer) >= 1 /\ type = bufType
       THEN UNCHANGED <<buffer, bufType, discarded, writer>>
       ELSE LET events == EventPositions(buffer)
            IN  /\ bufType' = type
                /\ \E keep \in [1 .. Cardinality(events) -> events] :
                     /\ InOrder(keep)
                     /\ buffer' = Refilled(buffer, keep, type)
                /\ discarded' = discarded \cup ValueIds(buffer)
                /\ writer' = CASE writer.pc = "idle" -> writer
                               [] writer.pc = "add" ->
                                    [writer EXCEPT !.slot = Dangling, !.replaced = TRUE]
                               [] OTHER -> [writer EXCEPT !.replaced = TRUE]
    /\ UNCHANGED <<phase, clock, lastStamp, added, overwritten, archive, header,
                   refused, failures>>

\* pvValue(): a value from the past is dropped; the first value after a
\* connection is followed by a copy that bears the time of the host.  The value
\* may have the layout of an old subscription: its bytes are copied as they are.
PvValue(stamp, type) ==
    LET back  == lastStamp > stamp
        s     == [id |-> added + 1, sevr |-> "value", stamp |-> stamp, type |-> type]
        last  == IF back THEN lastStamp ELSE stamp
        again == ~haveSample /\ clock > stamp /\ clock >= last
        n     == (IF back THEN 0 ELSE 1) + (IF again THEN 1 ELSE 0)
        c     == [s EXCEPT !.id = added + n, !.stamp = clock]
        b     == IF back THEN buffer ELSE Added(buffer, s)
    IN  /\ connected
        /\ WithinBound(n)
        /\ buffer' = IF again THEN Added(b, c) ELSE b
        /\ lastStamp' = IF again THEN clock ELSE last
        /\ haveSample' = (haveSample \/ again)
        /\ added' = added + n
        /\ overwritten' = overwritten \cup PushedOut(buffer, n)
                            \cup (IF n > Capacity(buffer) THEN {added + 1} ELSE {})
        /\ UNCHANGED <<pvars, bufType, discarded, wvars>>
-----------------------------------------------------------------------------
\* Mutant of WriteBegin: a lone sample is not worth a write.
WriteBeginSeveral ==
    /\ writer.pc = "idle"
    /\ phase # "stopping"
    /\ Count(buffer) > 1
    /\ writer' = [Idle EXCEPT !.pc = "create", !.type = bufType]
    /\ UNCHANGED <<pvars, bvars, gvars, archive, header, refused, failures>>

\* write(): returns at once when there is nothing to write, else remembers
\* the type of the ring and unlocks to create the DataWriter.
WriteBegin ==
    /\ writer.pc = "idle"
    /\ phase # "stopping"
    /\ Count(buffer) > 0
    /\ writer' = [Idle EXCEPT !.pc = "create", !.type = bufType]
    /\ UNCHANGED <<pvars, bvars, gvars, archive, header, refused, failures>>

\* The DataWriter goes on with the last header of the channel, unless its
\* type differs (or the meta-data, which is left out): a new one has no
\* end_time.
WriterCreated ==
    /\ writer.pc = "create"
    /\ writer' = [writer EXCEPT !.pc = "take"]
    /\ header' = IF header.type = writer.type
                 THEN header
                 ELSE [type |-> writer.type, last |-> 0]
    /\ UNCHANGED <<pvars, bvars, gvars, archive, refused, failures>>

\* An exception while creating the writer: ArchiveChannel::write reports it.
WriterFailed ==
    /\ writer.pc = "create"
    /\ failures < MaxFailures
    /\ failures' = failures + 1
    /\ writer' = Idle
    /\ UNCHANGED <<pvars, bvars, gvars, archive, header, refused>>

\* Locked: take the oldest sample, but keep only its address.
TakeOldest ==
    /\ writer.pc = "take"
    /\ ~IsEmpty(buffer)
    /\ writer' = [writer EXCEPT !.pc = "add", !.slot = OldestIndex(buffer),
                                !.id = buffer.slots[OldestIndex(buffer)].id]
    /\ buffer' = Removed(buffer)
    /\ UNCHANGED <<pvars, bufType, lastStamp, haveSample, gvars, archive, header, refused, failures>>

\* Mutant of WriteEnd: resets the ring after one sample, as if no sample
\* could arrive while the mutex is released.
WriteEndAfterOne ==
    /\ writer.pc = "take"
    /\ IsEmpty(buffer) \/ writer.id # 0
    /\ buffer' = Cleared(buffer)
    /\ writer' = Idle
    /\ UNCHANGED <<pvars, bufType, lastStamp, haveSample, gvars, archive, header, refused, failures>>

\* Locked: nothing left, the ring starts over.
WriteEnd ==
    /\ writer.pc = "take"
    /\ IsEmpty(buffer)
    /\ buffer' = Cleared(buffer)
    /\ writer' = Idle
    /\ UNCHANGED <<pvars, bufType, lastStamp, haveSample, gvars, archive, header, refused, failures>>

\* Bytes of no particular sample.
Scrambled == [id : {0}, sevr : {"value"}, stamp : 0 .. MaxTime, type : {bufType}]

\* What DataWriter::add finds at the address it was given: the sample taken.
\* If the ring wrapped onto the slot since, what was put there, or part of it
\* and part of the old; once the ring was replaced, anything.
AtAddress ==
    IF writer.slot = Dangling
    THEN Scrambled
    ELSE LET s == buffer.slots[writer.slot]
         IN  {s} \cup (IF s.id = writer.id THEN {} ELSE Scrambled)

\* Unlocked: DataWriter::add appends the sample unless its time goes back.
AddToArchive ==
    /\ writer.pc = "add"
    /\ \E s \in AtAddress :
         IF s.stamp < header.last
         THEN /\ refused' = refused \cup {writer.id}
              /\ UNCHANGED <<archive, header>>
         ELSE /\ archive' = Append(archive, [id |-> writer.id, sample |-> s,
                                            as |-> writer.type,
                                            replaced |-> writer.replaced])
              /\ header' = [header EXCEPT !.last = s.stamp]
              /\ UNCHANGED refused
    /\ writer' = [writer EXCEPT !.pc = "take"]
    /\ UNCHANGED <<pvars, bvars, gvars, failures>>

\* An exception in DataWriter::add: the sample is gone, the rest stays.
AddFailed ==
    /\ writer.pc = "add"
    /\ failures < MaxFailures
    /\ failures' = failures + 1
    /\ refused' = refused \cup {writer.id}
    /\ writer' = Idle
    /\ UNCHANGED <<pvars, bvars, gvars, archive, header>>
-----------------------------------------------------------------------------
Stamps == 1 .. MaxTime

Callbacks ==
    \/ \E type \in Types : PvConnected(type)
    \/ \E stamp \in Stamps, type \in {pvType} \cup Foreign : PvValue(stamp, type)
    \/ \E when \in Stamps : PvDisconnected(when)

Engine ==
    \/ Start
    \/ StopBegin
    \/ StopDisconnect
    \/ StopEnd
    \/ \E when \in Stamps : Disable(when)

Write ==
    \/ WriteBegin
    \/ WriterCreated
    \/ WriterFailed
    \/ TakeOldest
    \/ WriteEnd
    \/ AddToArchive
    \/ AddFailed

Next == Tick \/ Callbacks \/ Engine \/ Write

Spec == Init /\ [][Next]_vars

\* The engine writes every write_period, and a method once entered returns.
Fairness ==
    /\ WF_vars(WriteBegin)
    /\ WF_vars(WriterCreated)
    /\ WF_vars(TakeOldest)
    /\ WF_vars(WriteEnd)
    /\ WF_vars(AddToArchive)
    /\ WF_vars(StopDisconnect)
    /\ WF_vars(StopEnd)

FairSpec == Spec /\ Fairness
-----------------------------------------------------------------------------
WriterStates ==
    [pc : {"idle", "create", "take", "add"}, type : Types, slot : 0 .. Dangling,
     id : Nat, replaced : BOOLEAN]

\* A sample on disk: the number of the sample that was taken from the ring,
\* what was stored for it, the type the file says, and whether the ring was
\* replaced since write() read that type.
Entries == [id : Nat, sample : Samples, as : Types, replaced : BOOLEAN]

\* Every variable keeps its type, and the ring is either not allocated yet or
\* has exactly the space that the configuration suggests.
TypeOK ==
    /\ phase \in {"stopped", "running", "stopping"}
    /\ connected \in BOOLEAN
    /\ pvType \in Types
    /\ IsBuffer(buffer, Samples)
    /\ Capacity(buffer) \in {0, BufferSpace}
    /\ bufType \in Types
    /\ lastStamp \in Nat
    /\ haveSample \in BOOLEAN
    /\ clock \in Nat
    /\ writer \in WriterStates
    /\ archive \in Seq(Entries)
    /\ header \in [type : Types, last : Nat]
    /\ added \in Nat
    /\ overwritten \subseteq Nat
    /\ discarded \subseteq Nat
    /\ refused \subseteq Nat
    /\ failures \in Nat

\* Whoever adds to the ring (callbacks of the PV, the group that disables the
\* channel, stop()) and in whatever order, its entries are in the order of
\* their time stamps and none is newer than last_stamp (pvValue and addEvent
\* of SampleMechanism.cpp).
BufferSorted ==
    LET c == Contents(buffer)
    IN  /\ \A i, j \in DOMAIN c : i <= j => c[i].stamp <= c[j].stamp
        /\ \A i \in DOMAIN c : c[i].stamp <= lastStamp

Ids(c) == { c[i].id : i \in DOMAIN c }

Archived == { archive[i].id : i \in DOMAIN archive }

InFlight == IF writer.pc = "add" THEN {writer.id} ELSE {}

\* Whatever happens during a write - the ring wraps onto the slot that is
\* read, is replaced by a reconnect, the writer throws - every sample is in
\* exactly one place: in the ring, with the writer, in the archive, refused,
\* overwritten, or a value discarded by a reconnect, which an event never is;
\* and the archive has them in the order they arrived (write, pvConnected and
\* pvValue of SampleMechanism.cpp).
EverySampleAccounted ==
    LET places == <<Ids(Contents(buffer)), InFlight, Archived, refused, discarded, overwritten>>
    IN  /\ UNION { places[i] : i \in DOMAIN places } = 1 .. added
        /\ \A i, j \in DOMAIN places : i # j => places[i] \cap places[j] = {}
        /\ \A i, j \in DOMAIN archive : i < j => archive[i].id < archive[j].id

\* What is stored for a sample is that sample, unless the ring ran over while
\* it was copied - then one newer than it and older than what was stored in
\* its place is lost as well - or was replaced; and it is stored under the
\* type of its bytes, unless the ring was replaced since write() read the type
\* or an old subscription delivered it (write and pvConnected of
\* SampleMechanism.cpp).
ArchivedIntact ==
    \A i \in DOMAIN archive :
        LET e == archive[i]
        IN  /\ e.sample.id # e.id =>
                 \/ e.replaced /\ e.sample.id = 0
                 \/ \E k \in overwritten :
                      e.id < k /\ (e.sample.id = 0 \/ k < e.sample.id)
            /\ e.sample.type # e.as => e.replaced \/ e.sample.type \in Foreign

\* Samples do not linger: what is in the ring leaves it again, by being
\* written, overwritten or discarded, however often the writer fails.
BufferDrains ==
    \A id \in 1 .. MaxSamples :
        id \in Ids(Contents(buffer)) ~> id \notin Ids(Contents(buffer))
=============================================================================
