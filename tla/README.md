# Verification of the Channel Archiver

TLA+ models of the EPICS Channel Archiver (`src/`), checked with TLC on small instances and,
where it says so, proved with TLAPS for every value of the constants. `PROJECT.json` lists the
runs, the mutants that show each property can fail, and for each definition the lines of the
source it stands for.

## 1. The system

The archiver samples process variables (PVs) of a control system over the network protocol
Channel Access (CA) and keeps their history on disk.

```
CA library --callbacks--> ProcessVariable --> filters --> SampleMechanism
   (CA thread)                                              | CircularBuffer
                                                            v
 Engine (main thread): scan, write_period --write()--> DataWriter --> DataFile
 HTTP server thread: stop, addchannel, parseconfig           \--> IndexFile
                                                 (FileAllocator, NameHash, RTree)
 Readers (export, data server, tools) <------------------------ data and index
```

| Component | State it keeps | Operations | Hard part |
|---|---|---|---|
| **CircularBuffer** | ring memory, head, tail, overwrites | allocate, add, remove, reset | wrap-around, full against empty |
| **SampleMechanism** | running, ring, `last_stamp`, `have_sample_after_connection` | start, stop, enable, disable, pvConnected, pvDisconnected, pvValue, write | `write()` unlocks while it stores each sample |
| **ProcessVariable** | CA id, subscription, state, type, `outstanding_gets` | start, getValue, subscribe, unsubscribe, stop; CA callbacks | callbacks against calls that unlock |
| **SampleMechanismMonitored / Get / MonitoredGet** | their filters, entry in the scan list | start, stop, scan | scans while stopping |
| **Filters** (Disable, Time, TimeSlot, Repeat) | the buffered or previous value, counts | pvValue, enable, disable, update, stop | called by two threads, no or partial locks |
| **ArchiveChannel** | groups, mechanism, `sample_mechanism_busy`, disable count | configure, addToGroup, start, stop, write, enable, disable | busy flag instead of a lock |
| **GroupInfo** | members, `num_connected`, `disable_count` | incConnected, decConnected, enable, disable | counts driven by callbacks of many channels |
| **ScanList** | lists per period, next scan | add, remove, scan | change during the scan |
| **Engine, ProcessVariableContext, main** | channels, groups, next write, flush requests | start, stop, addChannel, process, write | main loop against HTTP commands |
| **EngineConfig, EngineServer, HTTPServer** | configuration; client threads | read the XML; commands | commands run on client threads |
| **DataWriter, DataFile** | current header and its offset, end time, buffer size | add, new header, new file | updates in several places, crash between |
| **FileAllocator** | two linked lists of blocks in a file | allocate, free | splits, merges, file growth |
| **RTree, NameHash, IndexFile** | tree of time intervals, hash table in a file | insertDatablock, updateLastDatablock, search | splits of intervals and nodes |
| **Readers** | position in header, buffer, tree | find, next | merging and binning |
| **ListIndex, AutoIndex** | current sub-archive | findChannel | which archive answers |
| **ConcurrentList, OrderedMutex** | list, locks held by a thread | add, remove, iterate; lock | removal during iteration, lock order |
| Tools, old format, IndexTool, DataTool, Export, Manager, ArchiveDataServer, scripts, LibIO | - | batch and I/O | not concurrent |

What makes each correct:

- *CircularBuffer*: it is a bounded drop-oldest queue.
- *SampleMechanism*: samples are ordered by time, each is stored once or known to be dropped,
  events (off, disabled, disconnected) survive a reconnect, samples do not linger.
- *ProcessVariable*: values only between "connected" and "disconnected", of the announced type;
  a stopped PV is quiet and can start again; a connection in progress completes.
- *Filters*: order is kept, the last value before "enable" is not lost, repeats are accounted
  for.
- *ArchiveChannel, GroupInfo*: a channel is disabled while all of its groups are, a group while
  one of its disabling channels says so; the busy flag excludes stop, write and reconfiguration
  from each other and is always given back; a command or the exit loses no sample.
- *DataWriter and the index*: every sample that a header counts is found again; after a crash
  the archive is a prefix of what was written.
- *FileAllocator*: the blocks tile the file, lists are sorted and disjoint, no two free blocks
  touch.
- *RTree*: leaves are disjoint and sorted, a search finds what was inserted.

## 2. Modules

| Module | Models | Extends / instantiates |
|---|---|---|
| `BoundedQueue` | abstract specification: drop-oldest queue | |
| `CircularBuffer` | the methods of the class, as operators on a record | |
| `SampleBuffer` | one ring under every sequence of calls | `CircularBuffer`; refines `BoundedQueue` |
| `SampleMechanism` | the mechanism and its writer | `CircularBuffer` |
| `SampleMechanismProofs` | proofs about `SampleBuffer` and `SampleMechanism` | |
| `ProcessVariable` | the PV, its listener, and the CA library (external) | |
| `ProcessVariableProofs` | proofs about `ProcessVariable` | |
| `ArchiveChannel` | a channel, its groups, the channels that disable them, and the commands of the engine | |
| `ArchiveChannelProofs` | proofs about `ArchiveChannel` | |
| `Filters` | the filters between a PV and its mechanism, run through by two threads | |
| `FiltersProofs` | proofs about `Filters` | |
| `ScanList` | the lists of what is scanned, and the `ConcurrentList` they are made of | |
| `Intervals` | intervals of time | |
| `TimeIndex` | abstract specification: what the index of a channel promises | `Intervals` |
| `TimeIndexProofs` | proofs about `TimeIndex` | |
| `RTree` | the tree that keeps the index of a channel | refines `TimeIndex` |
| `MCRTree` | the instance for TLC | `RTree` |
| `ArchiveWriter` | data files, writer, crash | uses the operators of `TimeIndex` as its index |
| `ArchiveWriterProofs` | proofs about `ArchiveWriter` | |
| `Archive` | a reader beside that writer | `ArchiveWriter` |
| `MCArchive` | the instance for TLC | `Archive` |
| `FileAllocator` | blocks in a file, as operators on a record | |
| `FileAllocatorProofs` | proofs about these operators | |
| `IndexFile` | the hash table of names and the blocks of the trees, beside a reader | `FileAllocator` |
| `IndexFileProofs` | proofs about `IndexFile` | `FileAllocatorProofs` |
| `MCIndexFile` | the instance for TLC | `IndexFile` |

How they compose: `SampleMechanism` abstracts what `Filters` lets through to samples with any
stamp, and `ArchiveWriter` takes over what `SampleMechanism` hands to `DataWriter::add`.
`ArchiveChannel` keeps of the mechanism only that it runs, is used, and may hold samples.
`ArchiveWriter` uses the index as `TimeIndex` promises it, `RTree` is shown to keep that
promise, and `IndexFile` is about the blocks that the trees live in.

### SampleMechanism

Every method holds the mutex of the mechanism, so one locked stretch is one action. `write()` is
split where it unlocks: `WriteBegin` (reads the type of the ring), `WriterCreated` /
`WriterFailed` (the DataWriter is created unlocked), `TakeOldest` (locked `removeRawValue`),
`AddToArchive` / `AddFailed` (unlocked `DataWriter::add` through the address of the slot),
`WriteEnd` (locked reset). `stop()` is split around the unlocked `pv.stop()`. `ArchiveChannel`
does not let `stop()` and `write()` of a channel overlap (`sample_mechanism_busy`), hence the
guards on `phase` and `writer.pc`.

Samples carry a number (`id`) that the code does not have: it only lets the properties tell
samples apart. `overwritten`, `discarded`, `refused` and `archive` record what became of each.
The type of a sample is the layout of its bytes: `pvValue` copies the value as it was delivered,
which for an old subscription may be a layout that is none of the PV's (`Foreign`). An entry of
`archive` has the number of the sample that was taken from the ring, what was found at its
address (`AtAddress`: the sample itself, the one the ring put there since, or bytes of neither,
`Scrambled`), and the type the file says. `header` is what the check for a stamp that goes back
sees: the end time of the last header, which a change of type sets to 0; that a change of the
meta-data does so as well is left out.

`CONSTANT BufferSpace` is what `EngineConfig::getSuggestedBufferSpace` returns: 1 for a period
of zero, otherwise at least 3.

### ProcessVariable

Three threads: `task` is where the one is that starts and stops the PV (whoever holds the lock
of the engine), `scan` where the main loop is, which calls `getValue()` without that lock, and
`callback` what the CA thread has left to do after unlocking. The part of a callback that holds
the mutex is one action. `getValue()` unlocks between copying the id and calling CA, so that
`stop()` may clear the channel in between: the main loop then uses the id of a channel that is
gone, `misused` is set, and the model ends. So it does when `stop()` clears an id that
`ca_create_channel` never stored.

The CA library is modelled by what the code relies on: events of a connection are delivered in
order and one at a time; a subscription survives a reconnect with the type it was requested
with; requests on a lost circuit are answered with an error (on which the callbacks return at
once); clearing a subscription or a channel waits for the callback in progress, as
`LockTest.cpp` demonstrates. Over a circuit that stays up it may create no channel, refuse a
request or a subscription, and answer with an error or without a time; `failed` remembers that
it did so for the control information or the subscription of the present connection. `CtrlTypes`
are the types that `setup_ctrl_info` handles: for another one the PV becomes CONNECTED and
nobody is told.

### ArchiveChannel

One channel between its two callers. The engine thread is whoever holds the lock of the engine
(the main loop that writes, an HTTP command, the exit); its loops over all channels are the
variables `task` and `next`, the order of the channels is arbitrary. The CA thread runs
`pvValue()` of the disabling channels and, from there, `GroupInfo::disable` and `enable` and
those of the channel, one group per action since the group is locked throughout. `at[t]` is the
position of a thread in `stop()` or `start()`, which are split where they unlock the channel or
the mechanism. A failed assertion is an exception (`Throw`): the command or callback is
abandoned where it stands, and what it has set stays (`abandoned`). `disturbed` are the channels
whose PV was not left in its initial state by `stop()`, which the run `restart_after_stop` shows
possible: their next start asserts. Of the samples only `pending` is kept: whether the ring
holds any, and `noted`: whether it holds only events that the configuration in progress has
added.

The other plain members of a group have no state here. What they can do to this channel, with
the option `disconnect`, is to throw in their own `stop()` or `start()` and so end the loop over
the members of the group before or after its turn (`Loops`; counted in `cuts`). A configuration
is a loop as well: `addChannel` configures the channel once for each entry that names it with a
group (`Configure`, `ConfigureDisabler`, any number of times), and `read_config` may throw
between two of them or `write_config` after the last (`ConfigureFails`). That
`ca_create_channel` fails is left to `ProcessVariable`.

External: callbacks of the CA context come one at a time, and clearing a channel waits for the
callback of that channel in progress (`StopDisabler`). Were it to wait for those of other
channels as well, `stop()` from a callback (option `disconnect`) could deadlock with one from a
command; the model does not claim that.

### Filters

The pipelines of the two mechanisms that sample periodically: Disable, Repeat, Time for a *get*,
Disable, TimeSlot, Repeat, Time for a *monitored get*. The CA thread brings connection,
disconnection, values, and the enable and disable of the groups; the engine thread scans and
stops, one after the other (that the `stop()` of a command overlaps a scan of the main loop is
the subject of `ScanList`). The RepeatFilter is the only one that locks what it keeps, and
passes a sample on after it has unlocked, as a pointer to its memory; so a pass is a step of its
own to the TimeFilter (`TimeCheck`) and one to the mechanism (`Store`), and `After` is what the
RepeatFilter does when the call returns. When the other thread writes to that memory in between,
what is archived is undefined: `raced` is set and the model ends. `SameValue` is about values,
since the status of a repeat sample (`ARCH_REPEAT`) never equals that of a value. `refused`
remembers when the TimeFilter of the mechanism refused a sample: how many had passed before. The
mechanism that stores every monitor has a DisableFilter and a TimeFilter only.

### ScanList

The list per period and the list of those lists are both a `ConcurrentList`: elements are never
unlinked, only cleared and used again, and an iterator keeps the item it will return next. Each
access to a list, under its own lock or, as `getPeriod()`, under none, is one action; that is
where threads interleave. `scanner` is the main loop in `Engine::process`, `at[t]` a thread that
starts or stops mechanisms. A deleted list keeps its place in `memory`; whoever still goes
through a pointer to it sets `dangling`, and the model ends.

### TimeIndex and RTree

`TimeIndex` is what a writer and a reader of an index rely on: a set of records, each with an
interval and the chain of data blocks that have samples of it. To insert a block for a range
cuts the records that overlap it, adds the block to the parts inside, and makes a record of each
gap. `updateLastDatablock` extends the newest record; removing a block takes it out of every
chain within its range.

`RTree` has the nodes, in a file in the code and by their offset here. Each routine is an
operator from tree to tree: `chooseLeaf` descends by least enlargement, `InsertRecord` overfills
a node and splits it, `AdjustTree` passes changes of interval and new nodes up, `GrowRoot` makes
a new root, `CondenseTree` drops empty nodes. `InsertDatablock` inserts the parts of a split
record one by one from the root, as the code does; that the result is nevertheless the cut that
`TimeIndex` describes is `ImplementsIndex`. Ranges of one time stamp are restricted (`UpdateLast`):
such a block may only become the newest one, and may touch the end of a record that has a
length; ranges that would begin where one lies are left out. The observations have the reason.

### ArchiveWriter and Archive

`disk` is the buffers of all data files, as a reader or the next engine finds them. The file of
a DataWriter is buffered by stdio: the last write to a file is `pending` until the file is
accessed again or closed. The index is on the disk after each call. `DataWriter::add` is split
where it writes: `Switched`, `NewHeader`, `EmptyBuffer`, `LinkOld`, `ListOld`, `StoreInNew`; so
is closing: `CloseHeader`, `ListLast`, `CloseFiles`. Between any two the engine may crash.
`crash` tells a crash that lost the write of a header which the index lists already ("torn")
from one that did not ("clean"). The reader is `RawDataReader`: bisection in a buffer
(`Bisect`), from one record to the next, and past the end of the index along the links between
headers (`ReadOn`). It keeps a copy of one leaf of the index, as the code does, and goes to the
next one by way of the index as that now is. `bounds` are the times at which a further leaf
begins; a step that adds records may split a leaf (`Splits`; how many records a leaf takes is
left open). A reader whose leaf may have been split since it was copied is `misled` when it goes
on: the next leaf is then any of them, or none. A writer is announced a number of samples
(`NumSamples`), from which the size of its first buffer is taken. The reader, whose search is
recursive, has a module of its own, so that the writer can be proved about. `CONSTANT
BackInTime` lets the clock go back between two writers. The CtrlInfo that a new buffer points
to, and the names of files, are left out.

### FileAllocator and IndexFile

`FileAllocator` has the two lists in the file with their heads, in memory and on file, and
`Allocate` and `Free` as operators: first fit among the free blocks, split at the tail, appended
when none fits, merged with neighbours when freed. `IndexFile` uses it for the hash table, the
entries (chained per slot), the anchors, roots and further nodes of the trees; a write to a
block overwrites whatever was written inside of it (`Put`), which is how a block that is handed
out twice would show. `addChannel` takes three steps, ending where data becomes reachable: tree,
entry, link. Close and reopen keep what is on file. A reading program, which the code lets open
the file at any time, searches step by step (`Search`, `ReadEntry`, `ReadAnchor`). Bytes are
counted in units; the module starts after the file has been created.

## 3. Runs

| Run | Instance | Shows |
|---|---|---|
| `sample_buffer` | capacities 1 to 3, 2 values | type, refinement of `BoundedQueue` |
| `sample_mechanism` | ring of 3, 2 types, 4 samples, 2 time stamps, no exceptions | type, order, every sample accounted for |
| `sample_mechanism_writer` | ring of 1, 2 types and a foreign one, 3 samples, one exception, fair | accounting, `ArchivedIntact`, `BufferDrains` |
| `process_variable` | 2 types and an unknown one, 3 connections, 3 starts, 2 gets, any request may fail, fair | the safety properties and `ConnectionCompletes` |
| `restart_after_stop` | 1 type and an unknown one, 2 connections, 2 starts | violated: `StartAssertion` |
| `archive_channel` | 2 groups, 1 disabling channel, 2 commands, 1 loop cut short, with and without `disconnect`, fair | counts, filter, busy flag, nothing lost by commands or exit, `CommandsReturn` |
| `busy_given_back` | same, with `disconnect` | violated: `BusyIsGivenBack` |
| `filters` | both pipelines, 2 values, slots of 2, repeats flushed at 2, time to 5, 8 calls | repeats told exactly, the value after a repeat not refused |
| `scan_while_stopping` | 2 mechanisms, 2 periods, one thread that starts and stops them | violated: `SelfProtecting` |
| `rtree` | 3 records per node, 5 blocks, 8 ranges, 5 insertions, 1 removal | structure, search, iteration, `ImplementsIndex` |
| `archive` | buffers of 1 and 2 samples, 2 kinds, 3 writers, 3 samples, crash at any step, a reader beside the first two | headers, order, what was committed is read, `StoredForGood` |
| `index_file` | 3 channels, 2 of them in one slot, file of 30 units | blocks, names, reader |

*Bounds.* Four samples overfill the ring of three, so that overwriting, with and without a write
in progress, occurs; the ring of one slot adds that `pvValue` overwrites the sample it has just
added, and that three samples are enough for the ring to come back to the slot that is being
read. Two time stamps are enough for a sample to be older, equal or newer than another; two
types for a reconnect with the same and with another type. Three connections and three starts
let a reconnect and a restart each be followed by one more; two gets let one answer be lost
while another is pending. Two groups are the fewest of which one can be disabled and the other
not; two commands let the engine be restarted or configured (with any number of entries) and
stopped at the exit, or a command follow one that failed; one loop that an exception ends is
enough for the counts to differ. A second disabling channel would make the liveness check too
long; that the counts, the filter and the busy flag are right for any number of groups and
disabling channels is proved (section 4). Eight calls are enough for a value, two counted
repeats that reach the maximum, a flush, and a new value, with a disconnection or a stop in
between. With three records per node five insertions, which may cut several records each, grow
the tree to a height of three, and the ranges touch, nest and overlap. Three samples and three
writers fill a buffer, need a new one, a new file and a change of kind, with a crash before each
of them and a writer that goes on; a writer is announced none or one sample, so that its first
buffer is of either size. While a third writer is at work there is no reader
(`MaxReadSessions`), which keeps the run short; the two invariants about reading are about the
archive between any two writers. Thirty units hold three channels and some tree blocks, so that
free blocks are split, merged and used up, and the limit of the file is reached in the middle of
`addChannel`.

*Violations* are disagreements between the code and what its comments, assertions or the manual
say; `PROJECT.json` quotes the lines.

*Fairness.* The engine writes every `write_period` (`WriteBegin`), and a method once entered
returns (the steps of `write()`, `stop()`, `getValue()`, the callbacks): weak fairness. A
failing writer is not excluded: `MaxFailures` bounds how often it fails. `ClearSubscription` and
`ClearChannel` wait for a moment without a callback, and the CA library delivers an answer, be
it an error (`InfoArrives` or `InfoFails`), or the loss of a circuit between other callbacks:
these get their turn although others intervene, hence strong fairness; so does `StopDisabler`.
The steps of a command once begun and of a callback once entered are weakly fair; values, write
cycles and commands are not. Nothing is assumed about the network, the group logic, start or
stop. `Filters`, `ScanList`, `RTree`, `ArchiveWriter`, `Archive` and `IndexFile` are about
safety only.

*Deadlock* is not checked where the bounds make the model stop. `IndexFile` never stops, and is
checked.

### Observations

What writing and running the models brought up beside the three violations. No run states these;
most were seen as counterexamples to a stronger property than the code gives, and the inputs or
the property exclude them now, as said above.

*Sampling.* `SampleMechanism::write` keeps only the address of the slot it has taken and unlocks
for `DataWriter::add`: when the ring wraps meanwhile, the sample that is written is a newer one,
and is written again in its turn (the comment at `SampleMechanism.cpp:310-312` sees the danger,
`manual/engine.tex:302-306` does not). The type is read once at `SampleMechanism.cpp:302`: a
reconnect with another type during the write has samples of the new type written as the old one,
which `DataWriter.h:28` forbids. So does a value of an old subscription, at any time.
`ArchivedIntact` says how far this goes. The loop of `write()` ends only when it finds the ring
empty.

*PV.* `subscribe()` takes a PV for subscribed although the subscription was made for the type of
an earlier connection (`ProcessVariable.cpp:235`): after a reconnect with another type,
listeners that allocated for `getDbrType()` (`SampleMechanism.cpp:151-152`) get values of the
old one. A connection lost while the control information is awaited is told to listeners that
never heard of the connection (`ProcessVariable.cpp:395`); `GroupInfo::decConnected`
(`GroupInfo.cpp:107-116`) then throws on the CA thread. Nothing is tried twice over a circuit
that stays up: if CA refuses the request for control information (`ProcessVariable.cpp:425-430`)
or answers it with an error, as for a channel without read access (548-553), the PV waits until
the circuit is lost; if it refuses the subscription (288-293), a connected PV delivers nothing.
When `setup_ctrl_info` does not know the type the state is CONNECTED and nobody is told
(567-570); it knows those that CA has today. `getValue()` may call CA with a channel that
`stop()` has cleared since it unlocked (188-194), which `ProcessVariable.h:29-31` rules out for
callbacks only. When `ca_create_channel` fails, `start()` stores an id that was never set (146,
170).

*ArchiveChannel.* With `disconnect`, `start()` does not look at the busy flag, so that a channel
that is being stopped may be started, and `Engine::stop` may leave a channel that an enabling
value has started again. An exception of one member ends the loops of `GroupInfo::disable` and
`enable` (`GroupInfo.cpp:58-63`, `82-88`): the members behind it are not told, count one group
too few or too many from then on, and may keep their filter closed while the group is enabled.
Reconfiguring a disabled channel in the same group replaces its closed filter by an open one
(`Configure`). A configuration with two entries for a channel replaces its mechanism again after
`addToGroup` has put a "disabled" event into it (`ArchiveChannel.cpp:199`, `Engine.cpp:136`),
and that event is lost. A command that throws after it has stopped the engine - since
`read_config` or `write_config` fails, or `start()` meets the assertion of the run
`restart_after_stop` - leaves `is_running` false, so that every later command throws as well
(`StopAsserts`), and so does the exit, between "Flushing buffers to disk." (`main.cpp:114`) and
the write: what channels that were started have sampled since is lost.

*Scanning.* Besides the violation: two threads that add or remove (with `disconnect`) may meet
in a list that one of them takes for empty: the other deletes it again or adds to a deleted one
(TLC finds it with a second element in `Callers`). `scan()` ends by setting `next_list_scan` to
what it found, so that a list added meanwhile with an earlier time waits. An iterator may hold a
mechanism that `remove()` has taken off: `scan()` is then called on a stopped one, or, after
`ArchiveChannel::configure`, on a deleted one.

*Filters.* The comment of the TimeFilter, "since there is no concurrent access to the TimeFilter
from other threads, there's no mutex" (`TimeFilter.cpp:26-27`), does not hold:
`RepeatFilter::update` and `stop` call it on the engine thread. `flush()` passes
`previous_value` on unlocked (`RepeatFilter.cpp:192-195`), so a repeat may be overwritten before
it is stored, or its memory freed by `pvConnected`. Only the first value after a repeat has its
stamp moved (`RepeatFilter.cpp:122`); a second one with a stamp before the repeat is refused. It
counts as the first even when it does not pass: if the TimeFilter refuses it because its stamp
is too far in the future, the next value is on its own, and one that is older than the repeat is
lost. `NewValueFollowsRepeat` leaves that case out; the attempt to prove the property without
the exception is what brought it up.
`update()` goes on counting while the channel is disabled, since the DisableFilter is upstream.
Of two values in a time slot the second is dropped, and if the PV keeps it, scans count and
archive repeats of the first (`TimeSlotFilter.cpp:32`; `manual/engine.tex:199-201` says "the
most recent value").

*Index tree.* A range of one time stamp (`start = end`) is special: inserted again it makes a
second record; several of them may fill a leaf out of order, so that the self test fails (with
[5,5] as the newest record, [3,6] and [5,9] inserted, one block removed and [1,9] inserted, it
does, which is why the run leaves out ranges that begin where one lies); `removeDatablock` does
not find it. `condense_tree` removes one level of the root only: an inner root without records
may be left, and `chooseLeaf` then reads `record[-1]`. A reader in another process may see a
tree half written.

*Archive.* After a change of kind the new header has no end time, so that the check at
`DataWriter.cpp:134` cannot refuse a sample that goes back in time (`DataWriter.h:62`). After a
clean crash the next writer may go on in an older buffer, whose link leads to one that the index
does not know: a reader that follows it goes back in time. A torn crash leaves a record for
samples that the next writer overwrites. A reader goes on from a copy of its leaf
(`RTree.cpp:617-665`): when the leaf was split meanwhile, the next child of its parent is the
upper half of what it has just read, and when the parent was split, it may find itself at the
first child; either takes it back in time, without a crash. (TLC finds it as a violation of
`ReadInOrder` without `misled`.) A reader between the write of index and header may end in a
read error. `RawDataReader::next` may use a null datablock after `findSample` has moved past the
index.

*Index file.* A reader that opens a new file between the cookie and the anchor of the NameHash
finds a table of size zero and divides by it (`NameHash.cpp:363`). A name of 99 characters or
more is written, and makes every reading of its chain throw (`NameHash.cpp:139`). An
`addChannel` that fails keeps the blocks of the tree, and each retry takes more
(`IndexFile.cpp:145`). With `file_size_increment` above zero, which no one sets, a rest of less
than a node underflows (`FileAllocator.cpp:231`).

## 4. Proofs

`SampleMechanismProofs` has two parts. The first is about the ring alone: `RingShape` (the
indices stay inside the memory) and `RingImplementsQueue` (`RingSpec => Queue!Spec`). Lemmas
give the contents of the ring after each operator (`Contents(Added(b, v))` is the contents with
`v` appended, without its head if the ring was full, and so on); by them every step of the ring
is the step of the queue of the same name.

Every inductive invariant below was first checked by TLC as an invariant of the run it belongs
to. Proofs assume the named assumptions of the modules (numbers where the code has numbers,
finite sets of groups and channels) and nothing else.

The second part, about the mechanism, has three theorems. `MechanismTypeOK` and
`MechanismSorted` are from

    IInv == TypeOK /\ BufferSorted /\ EntriesAreSamples /\ ConnectedHasRing /\ WriterSlotHolds

`EntriesAreSamples`: no entry of the ring is memory that was never written, without which
neither the stamps of the entries nor what `TakeOldest` takes can be known. `ConnectedHasRing`:
a connected mechanism has an allocated ring, without which `pvValue` would add to a ring without
room. `WriterSlotHolds`: the slot that the writer is reading was written, unless the ring was
replaced, without which `archive` could not be typed. `SamplesAccounted` is a ledger of six sets
of numbers: in the ring, in flight with the writer, archived, refused, discarded, overwritten.
`Account` says that each number given out is in exactly one of them, that the sample in flight
is older than what is left in the ring and younger than what is archived (`OnePlace`), and that
ring and archive have their numbers in increasing order (`EntriesNumbered`, `ArchiveInOrder`).
Each step moves one number, or empties one set into another. It holds whatever overtakes the
writer; what is stored for a number then is the subject of `ArchivedIntact`. Since only values
go to `discarded` and nothing may be in two places or in none, it also says that `pvConnected`
keeps every event.

`ProcessVariableProofs`: the four invariants of the run and its action property. They hold
together, in one inductive invariant: `KnownByTask` says what the PV and CA know of each other
by the place of the engine thread, `QuietWithoutChannel` that CA does nothing for a channel that
is gone and that the main loop does not take its id for one in use, `RequestsNeedCircuit` that a
lost circuit takes the requests along, and `NewsOnTheWay` that the listeners are behind the PV
by the callback in progress only, or by what `stop()` has yet to tell them. `StopIsQuiet` and
`NoSubscriptionLeaks` rest on `ClearSubscription` and `ClearChannel` waiting for the callback in
progress. `GetsAreExpected` is about a step: a valid answer that reaches a connected PV is
passed on. Unless the PV is subscribed, when every value is expected, that rests on
`AllExpected`: `outstanding_gets` covers the requests in the CA library and the one that the
main loop has counted and not issued yet. They hold for any number of connections, starts and
gets, and whichever requests fail.

`ArchiveChannelProofs`: six theorems. `ChannelTypeOK` is the type invariant; the disable count
exceeds the number of groups at most by the loops that were cut short. `MechanismExclusive`,
from `IInv`, which adds that a mechanism in use is marked as busy (without which `StopWaited`
could not know) and that the engine thread is not in `stop()` while it writes.
`FilterClosedByAll`, from `CInv`: the channel counts its disabled groups, until an exception of
another member keeps it from its turn (`CutsInv`: only with `disconnect`). Two finite sets of
groups of the same size, one in the other, are equal: that is why comparing two counts is
enough. The first holds with `disconnect` and whatever throws, the second with `disconnect`,
whatever its own channel throws, as long as `cuts` is 0. `CountsAgreeAlways`, from `GInv`: a
group counts a disabling channel exactly when that channel says "disabled" and its callback is
not still on the way to the group, or it says "enabled" and the callback is. This part of the
property is about the engine without `disconnect`, for only there does the CA thread never stop
or start a channel in the middle of a callback (`at["ca"] = "out"`). `NothingLeftAtExit`, about
the same engine, needs to know how far a command has come: `Progress` says that channels are
stopped in the order of the loop, each before it is written, that those behind the loop are
quiet and empty, and that no callback starts one again. Once a command was abandoned nothing of
it can be kept (`Stranded`: the engine is not running, and every later command ends at the
assertion of `Engine::stop`), and the theorem excludes that. `OnlyAWriteEmpties` is the action
property that nothing but a write empties a ring: a write in progress is marked as busy, and
`configure`, which replaces the mechanism, finds the ring already written, but for an event that
the same command has added (`Written`).

`FiltersProofs`: `FiltersTypeOK`, `CountingLosesNothing` and `ValueAfterRepeatPasses`, for both
pipelines, any number of values, slots, repeats and calls. The invariant `Flow` has four parts.
`OnePass`: at most one sample is between the RepeatFilter and the mechanism, and it belongs to
the thread that is in the filter. `Account`: what the archived samples tell, followed by what
the RepeatFilter still counts, is the sequence of values it was given. `Stamped`: the TimeFilter
knows the stamp of the newest sample that passed. `StampKept`: unless a later value has come,
the RepeatFilter knows the stamp of the last repeat. The actions are reduced to what they do to
the filter (a value or a reconnect flushes, a scan counts, a value renews the previous one), and
each of these is proved once. What the samples tell is a concatenation of sequences, one per
sample; that appending a sample appends what it tells (`FlattenAppend`) is proved by taking the
least position at which the two would differ.

`ArchiveWriterProofs`: `ArchiveTypeOK`, `HeadersAreTrue` and `SamplesStoredForGood`, for any
sizes of buffers, numbers of writers and samples, and crashes at any step. The difficulty is the
write that stdio still holds when the engine crashes: what is on disk is either the buffer
before or the buffer after it. So the invariant says of both that they are sound (`FilesOK`:
each pending write leaves a sound buffer), and of the header in memory that it is true of the
buffer after its pending write (`HeaderInMemory`). `NewIsFresh`: between the steps that move to
a new buffer, the new one holds no samples and nothing refers to it. A sample once counted by a
header on disk is never written again, since the writer writes behind what its header counts,
and a torn header counts less than what was stored.

`TimeIndexProofs`: `IndexDisjoint` and `IndexKeepsCoverage`, about the abstract index, for every
set of time stamps and blocks. The invariant is that every record has its start before or at its
end and that two records are apart. An insertion leaves three kinds of records: what lies
outside of the range of the records it cuts, the covered parts, and the gaps. Each of the first
two lies within an old record, and old records are apart; gaps lie between consecutive cuts
where no old record is. So no two of them overlap, and whatever moment an old record covered is
covered by one of the pieces, with the blocks it had. `RTree` implements this index in the run
`rtree`; that step is checked, not proved.

`FileAllocatorProofs`: `AllocateKeeps`, `FreeKeeps` and `FileIsSound`, about the operators, for
any blocks and any sizes. A file is described without its pointers, by the sets of offsets of
its allocated (`A`) and free (`F`) blocks. `FileOK(s, A, F)` says:

- each node of `A` has the nearest smaller and the nearest larger offset of `A` as `prev` and
  `next`, and the head has the smallest and the largest; so has `F` (`Linking`);
- the sum in each head is the sum of the bytes of its blocks (`ListOK`);
- each block of `A \cup F` ends where the next one begins, or the file ends (`Tiles`);
- no free block ends where a free one begins (`Parting`).

That neighbours in a set are the neighbours in a list is what makes this workable: a node that
is inserted or removed changes the neighbours of two others, and which two is a matter of order,
not of the way through the list. The way itself is needed where the code walks: the recursive
function `Followed` is shown to be defined by taking the least rank at which it would not be,
for a rank that falls along the pointers (`WalkExists`), and from that `Blocks(s, l)` is `A` or
`F` sorted (`ListedInOrder`). `insert_node` and `remove_node` then keep `Linking`
(`InsertKeeps`, `RemoveKeeps`), splitting and merging keep `Tiles`, and the sums follow from
adding one term (`TotalDiffers`). `free()` leaves up to two places where free blocks touch, and
each `MergeNext` removes the one it is called for (`MergeSettles`).

`IndexFileProofs`: the five invariants of the run, from one inductive invariant (`IInvHolds`),
for every set of names, hash function, table size, sizes of blocks and maximum size of the file.
`IInv` says that there are sets `A` and `F` with `FileOK`, a chain of entries for each slot, and
an order in which entries were linked, such that

- everything written lies in a block of `A` of its own that is large enough (`Owned`). So a
  write never overlaps another one, and `Put` erases nothing;
- the chains are what the pointers say, each entry is in the chain of its hash, and no name
  comes twice (`ChainsOK`); `next` leads to a later entry (`Ordered`), also for the entry that is
  written and not yet linked, without which `Followed` would not be known to end;
- anchors lead to roots and entries to anchors of their own (`TreesOK`);
- the chains have exactly the names that were added (`AreListed`);
- what a call in progress has made is not reachable yet, and nothing else uses it (`WriterOK`);
- the reader is at an entry of the chain of its name that does not lie behind the entry it
  looks for (`ReaderOK`). Since entries are linked at the end, the place of an entry in its chain
  never changes, and the reader cannot be overtaken.

`Chain` is one of these chains (`ChainIs`), and iteration, which flattens them, visits a name
once: its only hit in the chain of its own slot (`JoinedHits`). Closing forgets the heads; the
invariant is about the file with the heads it has on disk, so that opening needs no argument.

Only model-checked, and why:

- `RTree`: its routines descend and climb by recursive operators, with which the prover loses
  arithmetic; so does the refinement of `TimeIndex`. What a user of the tree relies on is proved
  of `TimeIndex`.
- `ArchivedIntact` of `SampleMechanism`: it would take the numbers of overwritten samples into the
  ledger, slot by slot.
- `CommittedReadable`, `FindIsLatest` and `ReadInOrder` of `Archive`: bisection and the walk
  along headers are recursive. What they rest on, that headers are true and samples stay where
  they are, is proved.
- Liveness: `BufferDrains`, `ConnectionCompletes`, `CommandsReturn`.

## 5. Not modelled

- `SampleMechanismMonitored` has no module of its own: it is `SampleMechanism` behind one
  filter.
- The order of locks. `OrderedMutex` checks it at run time and throws. The models take locks as
  the code does, by what one action contains; waits that no mutex shows are in `ArchiveChannel`.
- The flush requests of `ProcessVariableContext`, the counts of connected channels and other
  statistics: shown on web pages, and no other step depends on them.
- The content of CtrlInfo, the layout and conversion of values, and the names of data files.
- `PlotReader`, `LinearReader`, `AverageReader`, `SpreadsheetReader`, `ListIndex` and
  `AutoIndex`: sequential readers over what `Archive` has; they compute values, or pick an
  index, and keep no state that another part changes.
- A tree of which another process sees a half-written node; creating an index file;
  `file_size_increment`.
- Left out for good: XML and HTTP, message throttling, the batch tools (IndexTool, DataTool,
  Export, Manager), the data server, the scripts, the old archive format and LibIO: they are
  I/O, formatting or sequential code with no state shared between operations.
