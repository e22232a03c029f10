------------------------------- MODULE Filters -------------------------------
(***************************************************************************)
(* The filters between a ProcessVariable and its SampleMechanism, for the  *)
(* two mechanisms that sample periodically:                                *)
(*   get            DisableFilter, RepeatFilter, TimeFilter                *)
(*   monitored get  DisableFilter, TimeSlotFilter, RepeatFilter, TimeFilter*)
(* (SampleMechanismGet.cpp:15-17, SampleMechanismMonitoredGet.cpp:15-18).  *)
(*                                                                         *)
(* Two threads run through them: CA, with connection, disconnection,       *)
(* values and the enable and disable that the values of a disabling        *)
(* channel cause, and the engine, with scan() and stop().  (A stop() on    *)
(* the thread of a command may also overlap a scan() of the main loop:     *)
(* that is left to module ScanList, here the engine does one after the     *)
(* other.) Only the RepeatFilter locks what it keeps, and it passes        *)
(* samples on unlocked, as a pointer to its previous_value: a pass is a    *)
(* step to the TimeFilter and one to SampleMechanism::pvValue(), and the   *)
(* other thread may come between.  When that thread then changes the       *)
(* sample under the pointer or counts repeats, what is archived depends on *)
(* undefined behaviour or on the chance of the moment: `raced' becomes     *)
(* TRUE and the model ends.                                                *)
(***************************************************************************)
EXTENDS Integers, Sequences, SequencesExt

CONSTANTS Values,
          Period,         \* of the time slots
          MaxRepeatCount, \* max_repeat_count of the configuration
          IgnoredFuture,  \* ignored_future
          MaxTime,        \* bound of the model on clock and stamps
          MaxCalls        \* bound of the model on callbacks and scans

ASSUME ConfigAssumption ==
    /\ {Period, MaxRepeatCount, MaxTime} \subseteq Nat \ {0}
    /\ {IgnoredFuture, MaxCalls} \subseteq Nat
ASSUME ValuesAssumption == Values \subseteq Nat \ {0}

VARIABLES
    kind,        \* of mechanism: "get" or "monitored"
    running,     \* the mechanism is on the scan list
    connected,   \* what the listeners were told last
    asked,       \* a get has been issued and not been answered
    pv,          \* the last value that the PV sent, and its stamp
    clock,       \* time of the host
    calls,       \* callbacks and scans so far
    disable,     \* the DisableFilter: is_disabled, last_value
    next_slot,   \* of the TimeSlotFilter
    repeat,      \* the RepeatFilter
    last_stamp,  \* of the TimeFilter
    passed,      \* what has reached the SampleMechanism
    thread,      \* where the CA thread and the engine thread are
    \* For the properties only.
    seen,        \* the values that the RepeatFilter was given or has counted
    refused,     \* how much had passed each time the TimeFilter refused one
    raced        \* see above

source == <<kind, running, connected, asked, pv, clock, calls>>
ghosts == <<seen, refused, raced>>
vars == <<source, disable, next_slot, repeat, last_stamp, passed, thread, ghosts>>

Threads == {"ca", "engine"}
Other(t) == IF t = "ca" THEN "engine" ELSE "ca"

Nothing == [val |-> 0, stamp |-> 0, repeats |-> 0]  \* no sample: 0 is no value
Gap == [val |-> -1, stamp |-> 0, repeats |-> 0]     \* a disconnection
Sample(v, stamp) == [val |-> v, stamp |-> stamp, repeats |-> 0]

\* A thread that is not in a filter, and one that passes previous_value on:
\* to the TimeFilter ("time") or to the mechanism ("store").  Afterwards it
\* returns, renews the previous value with `data', or forgets it.
Idle == [pc |-> "idle", then |-> "return", data |-> Nothing]
Passing(then, data) == [pc |-> "time", then |-> then, data |-> data]

Init ==
    /\ kind \in {"get", "monitored"}
    /\ running = TRUE /\ connected = FALSE /\ asked = FALSE
    /\ pv = Nothing /\ clock = 1 /\ calls = 0
    /\ disable = [on |-> FALSE, last |-> Nothing]
    /\ next_slot = 0
    /\ repeat = [valid |-> FALSE, prev |-> Nothing, count |-> 0,
                 had |-> FALSE, was |-> FALSE, stamp |-> 0]
    /\ last_stamp = 0
    /\ passed = <<>>
    /\ thread = [t \in Threads |-> Idle]
    /\ seen = <<>> /\ refused = {} /\ raced = FALSE

------------------------------------------------------------------------------
\* RepeatFilter::flush(): `when' is the time at which the value became
\* obsolete.
MustFlushSeveral(r) == r.valid /\ r.count > 1  \* mutant
MustFlush(r) == r.valid /\ r.count > 0

Flushed(r, when) ==
    LET stamp == IF when > r.prev.stamp THEN when ELSE r.prev.stamp
    IN  [r EXCEPT !.prev = [@ EXCEPT !.stamp = stamp, !.repeats = r.count],
                  !.was = TRUE, !.stamp = stamp, !.count = 0, !.had = TRUE]

\* RepeatFilter::pvValue(), its end: the new value takes the place of the
\* previous one, not stamped before a repeat that was passed on.
RenewedAsStamped(r, data) ==  \* mutant
    [r EXCEPT !.prev = data, !.valid = TRUE, !.count = 0, !.had = TRUE, !.was = FALSE]
Renewed(r, data) ==
    LET stamp == IF r.was /\ data.stamp < r.stamp THEN r.stamp ELSE data.stamp
    IN  [r EXCEPT !.prev = [data EXCEPT !.stamp = stamp],
                  !.valid = TRUE, !.count = 0, !.had = TRUE, !.was = FALSE]

\* The other thread is passing the sample on that this step changes, or
\* whose repeats it counts.
InPass(t) ==
    \/ thread[t].pc \in {"time", "store"}
    \/ thread[t].pc = "after" /\ thread[t].then # "return"
Races(t) == InPass(Other(t))

\* Thread t goes on unlocked with the sample of `r'.
PassOn(t, r, then, data) ==
    /\ repeat' = r
    /\ thread' = [thread EXCEPT ![t] = Passing(then, data)]
    /\ raced' = Races(t)

Return(t) == thread' = [thread EXCEPT ![t] = Idle]

Renew(t, data) ==
    /\ PassOn(t, Renewed(repeat, data), "return", data)
    /\ seen' = Append(seen, data.val)

\* RepeatFilter::inc(): one more repeat, at time `when'.
ExceedsMaximum(r) == r.count > MaxRepeatCount  \* mutant
ReachesMaximum(r) == r.count >= MaxRepeatCount

Inc(t, when) ==
    LET r == [repeat EXCEPT !.count = @ + 1]
    IN  /\ seen' = IF r.valid THEN Append(seen, r.prev.val) ELSE seen
        /\ IF ReachesMaximum(r) /\ MustFlush(r)
           THEN PassOn(t, Flushed(r, when), "return", Nothing)
           ELSE repeat' = r /\ Return(t) /\ raced' = Races(t)

\* RepeatFilter::hasSameValue(): a sample that was marked as a repeat
\* differs in status and severity from any value of the PV.
SameValue(prev, data) == prev.val = data.val /\ prev.repeats = 0

Differs(data) ==
    IF MustFlush(repeat)
    THEN /\ PassOn("ca", Flushed(repeat, data.stamp), "renew", data)
         /\ UNCHANGED seen
    ELSE Renew("ca", data)

RepeatValue(data) ==
    IF repeat.valid /\ SameValue(repeat.prev, data)
    THEN Inc("ca", clock)
    ELSE Differs(data)

\* TimeSlotFilter::pvValue() of a monitored get, then the RepeatFilter.
RoundTimeUp(stamp) == ((stamp \div Period) + 1) * Period

SlotValue(data) ==
    IF kind = "monitored" /\ data.stamp < next_slot
    THEN UNCHANGED <<next_slot, repeat, thread, seen, raced>>
    ELSE /\ next_slot' = IF kind = "monitored" THEN RoundTimeUp(data.stamp)
                         ELSE next_slot
         /\ RepeatValue(data)

\* TimeFilter::pvValue()
TimeCheck(t) ==
    /\ thread[t].pc = "time"
    /\ LET stamp == repeat.prev.stamp
       IN  IF stamp - clock > IgnoredFuture \/ stamp < last_stamp
           THEN /\ refused' = refused \cup {Len(passed)}
                /\ thread' = [thread EXCEPT ![t].pc = "after"]
                /\ UNCHANGED last_stamp
           ELSE /\ last_stamp' = stamp
                /\ thread' = [thread EXCEPT ![t].pc = "store"]
                /\ UNCHANGED refused
    /\ UNCHANGED <<source, disable, next_slot, repeat, passed, seen, raced>>

\* SampleMechanism::pvValue() receives the sample.
Store(t) ==
    /\ thread[t].pc = "store"
    /\ passed' = Append(passed, repeat.prev)
    /\ thread' = [thread EXCEPT ![t].pc = "after"]
    /\ UNCHANGED <<source, disable, next_slot, repeat, last_stamp, ghosts>>

\* Back from passing a sample on, what the RepeatFilter has left to do.
After(t) ==
    /\ thread[t].pc = "after"
    /\ CASE thread[t].then = "return" ->
              Return(t) /\ UNCHANGED <<repeat, passed, seen, raced>>
         [] thread[t].then = "renew" ->
              Renew(t, thread[t].data) /\ UNCHANGED passed
         [] thread[t].then = "forget" ->
              /\ repeat' = [repeat EXCEPT !.valid = FALSE]
              /\ Return(t)
              /\ raced' = Races(t)
              /\ UNCHANGED <<passed, seen>>
         [] thread[t].then = "disconnect" ->
              /\ repeat' = [repeat EXCEPT !.valid = FALSE]
              /\ Return(t)
              /\ raced' = Races(t)
              /\ passed' = Append(passed, Gap)
              /\ seen' = Append(seen, Gap.val)
    /\ UNCHANGED <<source, disable, next_slot, last_stamp, refused>>

------------------------------------------------------------------------------
\* Callbacks begin when the CA thread is idle; the model ends at a race.
Begin(t) ==
    /\ ~raced /\ thread[t].pc = "idle"
    /\ calls < MaxCalls
    /\ calls' = calls + 1

\* A value of the PV, from a get or a monitor, for the DisableFilter.
PvValue(v, stamp) ==
    /\ Begin("ca") /\ connected
    /\ kind = "get" => asked
    /\ asked' = FALSE
    /\ stamp >= pv.stamp
    /\ pv' = Sample(v, stamp)
    /\ IF disable.on
       THEN /\ disable' = [disable EXCEPT !.last = pv']
            /\ UNCHANGED <<next_slot, repeat, thread, seen, raced>>
       ELSE /\ SlotValue(Sample(v, stamp))
            /\ UNCHANGED disable
    /\ UNCHANGED <<kind, running, connected, clock, last_stamp, passed, refused>>

Disable ==
    /\ Begin("ca") /\ ~disable.on
    /\ disable' = [disable EXCEPT !.on = TRUE]
    /\ UNCHANGED <<kind, running, connected, asked, pv, clock, next_slot, repeat,
                   last_stamp, passed, thread, ghosts>>

\* enable() passes on the value that arrived while disabled, stamped with the
\* time of the sample that enabled the group.
Enable(when) ==
    /\ Begin("ca") /\ disable.on
    /\ disable' = [on |-> FALSE, last |-> Nothing]
    /\ IF disable.last = Nothing
       THEN UNCHANGED <<next_slot, repeat, thread, seen, raced>>
       ELSE SlotValue([disable.last EXCEPT !.stamp = when])
    /\ UNCHANGED <<kind, running, connected, asked, pv, clock, last_stamp, passed,
                   refused>>

\* pvConnected(): the RepeatFilter gets memory for the type of the PV.
Connected ==
    /\ Begin("ca") /\ running /\ ~connected
    /\ connected' = TRUE
    /\ repeat' = [repeat EXCEPT !.prev = Nothing, !.valid = FALSE]
    /\ raced' = Races("ca")
    /\ UNCHANGED <<kind, running, asked, pv, clock, disable, next_slot, last_stamp,
                   passed, thread, seen, refused>>

\* pvDisconnected(): on the CA thread, or on that of the engine which stops
\* the PV.
Disconnected(t) ==
    /\ connected' = FALSE /\ asked' = FALSE
    /\ disable' = IF disable.on THEN [disable EXCEPT !.last = Nothing] ELSE disable
    /\ IF MustFlush(repeat)
       THEN PassOn(t, Flushed(repeat, clock), "disconnect", Nothing) /\ UNCHANGED <<passed, seen>>
       ELSE /\ repeat' = [repeat EXCEPT !.valid = FALSE]
            /\ passed' = Append(passed, Gap)
            /\ seen' = Append(seen, Gap.val)
            /\ raced' = Races(t)
            /\ UNCHANGED thread
    /\ UNCHANGED <<kind, pv, clock, next_slot, last_stamp, refused>>

PvDisconnected ==
    /\ Begin("ca") /\ connected
    /\ Disconnected("ca")
    /\ UNCHANGED running

\* scan() of a get asks for a value; that of a monitored get looks whether
\* the PV is connected, and then goes to RepeatFilter::update().
Scan ==
    /\ Begin("engine") /\ running /\ connected
    /\ IF kind = "get"
       THEN asked' = TRUE /\ UNCHANGED thread
       ELSE /\ thread' = [thread EXCEPT !["engine"].pc = "update"]
            /\ UNCHANGED asked
    /\ UNCHANGED <<kind, running, connected, pv, clock, disable, next_slot, repeat,
                   last_stamp, passed, ghosts>>

Update ==
    /\ ~raced /\ thread["engine"].pc = "update"
    /\ IF ~repeat.had
       THEN Inc("engine", clock)
       ELSE /\ repeat' = [repeat EXCEPT !.had = FALSE]
            /\ Return("engine")
            /\ UNCHANGED <<seen, raced>>
    /\ UNCHANGED <<source, disable, next_slot, last_stamp, passed, refused>>

\* stop() of the mechanism: off the scan list, RepeatFilter::stop(), and
\* then the PV is stopped, which is a disconnection when it was connected.
Stop ==
    /\ Begin("engine") /\ running
    /\ running' = FALSE
    /\ IF MustFlush(repeat)
       THEN PassOn("engine", Flushed(repeat, clock), "forget", Nothing)
       ELSE /\ repeat' = [repeat EXCEPT !.valid = FALSE]
            /\ raced' = Races("engine")
            /\ UNCHANGED thread
    /\ UNCHANGED <<kind, connected, asked, pv, clock, disable, next_slot, last_stamp,
                   passed, seen, refused>>

StopPV ==
    /\ ~raced /\ ~running /\ connected
    /\ thread["engine"].pc = "idle"
    /\ Disconnected("engine")
    /\ UNCHANGED <<running, calls>>

Start ==
    /\ Begin("engine") /\ ~running /\ ~connected
    /\ running' = TRUE
    /\ UNCHANGED <<kind, connected, asked, pv, clock, disable, next_slot, repeat,
                   last_stamp, passed, thread, ghosts>>

Tick ==
    /\ clock < MaxTime
    /\ clock' = clock + 1
    /\ UNCHANGED <<kind, running, connected, asked, pv, calls, disable, next_slot, repeat,
                   last_stamp, passed, thread, ghosts>>

Next ==
    \/ \E v \in Values, stamp \in 1 .. MaxTime : PvValue(v, stamp)
    \/ \E when \in 1 .. MaxTime : Enable(when)
    \/ Disable \/ Connected \/ PvDisconnected
    \/ Scan \/ Update \/ Stop \/ StopPV \/ Start
    \/ \E t \in Threads : ~raced /\ (TimeCheck(t) \/ Store(t) \/ After(t))
    \/ Tick

Spec == Init /\ [][Next]_vars

------------------------------------------------------------------------------
\* The variables have their types (the fields of the four filters, Engine/
\* DisableFilter.h, TimeSlotFilter.h, RepeatFilter.h and TimeFilter.h).
TypeOK ==
    /\ pv.val \in Values \cup {0} /\ clock \in 1 .. MaxTime
    /\ repeat.prev.val \in Values \cup {0}
    /\ repeat.valid => repeat.prev # Nothing
    /\ repeat.count \in 0 .. MaxCalls
    /\ {repeat.stamp, last_stamp, repeat.prev.stamp} \subseteq 0 .. MaxTime
    /\ \A t \in Threads : thread[t].pc \in {"idle", "update", "time", "store", "after"}
    /\ \A i \in 1 .. Len(passed) : passed[i].repeats \in 0 .. MaxRepeatCount

Resting == \A t \in Threads : thread[t].pc \in {"idle", "update"}

Expanded(s) ==
    IF s.repeats = 0 THEN <<s.val>> ELSE [i \in 1 .. s.repeats |-> s.val]

\* Counting repeats loses nothing: a reader who takes every repeat sample for
\* as many samples of its value gets exactly what the RepeatFilter was given
\* or has counted, in order and between the same disconnections
\* (manual/engine.tex:114-120).  What the TimeFilter refuses is excepted.
RepeatsTellAll ==
    Resting /\ ~raced /\ refused = {} =>
        FlattenSeq([i \in 1 .. Len(passed) |-> Expanded(passed[i])])
            \o [i \in 1 .. (IF repeat.valid THEN repeat.count ELSE 0) |-> repeat.prev.val]
        = seen

\* A new value is not refused for its time stamp when it comes right after a
\* repeat sample, which may bear the time of the host (RepeatFilter.cpp:112-
\* 121): the code moves the stamp of the first value after a repeat.  That is
\* one value only: if it is refused as futuristic, the next one is on its own.
NewValueFollowsRepeat ==
    \A i \in 1 .. Len(passed) :
        /\ ~raced /\ thread["ca"].pc = "time"
        /\ repeat.prev.repeats = 0
        /\ passed[i].repeats > 0
        /\ \A j \in i + 1 .. Len(passed) : passed[j] = Gap
        /\ \A k \in refused : k < i
        => last_stamp <= repeat.prev.stamp
==============================================================================
