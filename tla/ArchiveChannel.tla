--------------------------- MODULE ArchiveChannel ---------------------------
(***************************************************************************)
(* An ArchiveChannel between its callers.  `Channel' is a plain channel, a *)
(* member of one or more groups; the channels in `Disabling' disable       *)
(* groups while their value is above zero.                                 *)
(*                                                                         *)
(* The engine thread is whoever holds the lock of the engine: the main     *)
(* loop, which writes, and the commands of the HTTP server and the end of  *)
(* the program, which stop all channels, write, perhaps reconfigure a      *)
(* channel, and start all channels again.  The CA thread runs pvValue() of *)
(* the disabling channels, which disables and enables groups and their     *)
(* members; with the option `disconnect', that stops and starts them.      *)
(*                                                                         *)
(* stop() and write() give up the lock of the channel and mark its         *)
(* SampleMechanism as busy instead.  A stretch of code between two points  *)
(* where the channel is unlocked is one action.  A failed assertion throws *)
(* an exception: the thread abandons what it does, what it has set stays.  *)
(* The other plain members of the groups have no state of their own here:  *)
(* what they do to Channel is that their stop() or start() may throw and   *)
(* so end the loop over the members of a group.                            *)
(***************************************************************************)
EXTENDS Naturals, FiniteSets

CONSTANTS
    Groups,          \* names of groups
    Channel,         \* the plain channel
    Disabling,       \* the disabling channels
    Nobody,          \* stands for `no callback in progress'
    Options,         \* the values of the option `disconnect'
    MaxCommands,     \* bound of the model on commands
    MaxCuts          \* bound of the model on loops over members that are cut short

ASSUME NamesAssumption ==
    /\ Channel \notin Disabling
    /\ Nobody \notin Disabling \cup {Channel}
    /\ IsFiniteSet(Disabling) /\ IsFiniteSet(Groups)
ASSUME OptionsAssumption ==
    Options \subseteq BOOLEAN /\ MaxCommands \in Nat /\ MaxCuts \in Nat

VARIABLES
    disconnect,      \* getDisconnectOnDisable() of the configuration
    order,           \* the list of channels of the engine
    \* Channel and its mechanism
    busy,            \* sample_mechanism_busy
    running,         \* SampleMechanism::running
    id,              \* its PV was started
    filtering,       \* is_disabled of its DisableFilter
    pending,         \* its ring holds samples
    groups,          \* the groups it belongs to
    disable_count,   \* by how many of them it is disabled
    \* The groups and the disabling channels
    group_count,     \* disable_count of each group
    disable_groups,  \* the groups that each disabling channel disables
    disabling,       \* currently_disabling of each disabling channel
    started,         \* the disabling channels that are running
    disturbed,       \* the channels whose stopped PV is not in the state INIT
    cuts,            \* how often an exception cut short a loop over members
    \* The threads
    callback,        \* pvValue() in progress
    at,              \* where each thread is in stop() or start() of Channel
    task,            \* what the engine thread does to all channels
    command,         \* the command that it does so for
    next,            \* the next channel in its loop over all channels
    is_running,      \* Engine::is_running
    write_failed,    \* a write ended with an exception
    abandoned,       \* a command ended with an exception
    noted,           \* the ring holds but events of the configuration in progress
    commands         \* commands so far

options == <<disconnect, order>>
mechanism == <<busy, running, id, filtering, pending>>
counts == <<groups, disable_count, group_count>>
disablers == <<disable_groups, disabling, started>>
faults == <<disturbed, cuts>>
record == <<write_failed, abandoned, noted>>
engine == <<task, command, next, is_running, record, commands>>
vars == <<options, mechanism, counts, disablers, faults,
                   callback, at, engine>>

Threads == {"engine", "ca"}
All == Disabling \cup {Channel}
N == Cardinality(All)
NoCallback == [pv |-> Nobody, todo |-> {}, disables |-> FALSE]
Tasks == {"idle", "stop", "write", "writing", "configure", "start", "done"}
Commands == {"cycle", "restart", "configure", "exit"}

Init ==
    /\ disconnect \in Options
    /\ order \in { f \in [1 .. N -> All] : \A i, j \in 1 .. N : f[i] = f[j] => i = j }
    /\ busy = FALSE /\ running = FALSE /\ id = FALSE
    /\ filtering = FALSE /\ pending = FALSE
    /\ groups \in SUBSET Groups \ {{}}
    /\ disable_count = 0
    /\ group_count = [g \in Groups |-> 0]
    /\ disable_groups \in [Disabling -> SUBSET Groups \ {{}}]
    /\ disabling = [d \in Disabling |-> FALSE]
    /\ started = {} /\ disturbed = {} /\ cuts = 0
    /\ callback = NoCallback
    /\ at = [t \in Threads |-> "out"]
    /\ task = "start" /\ command = "restart" /\ next = 1
    /\ is_running = FALSE /\ commands = 0
    /\ write_failed = FALSE /\ abandoned = FALSE /\ noted = FALSE

\* start() keeps the channel locked until the PV is started.
Unlocked == \A t \in Threads : at[t] # "starting"

\* The catch clause of the caller: the CA thread reports the error and waits
\* for the next value, a command is abandoned, and so is the exit.
Throw(t) ==
    /\ at' = [at EXCEPT ![t] = "out"]
    /\ IF t = "ca"
       THEN callback' = NoCallback /\ UNCHANGED <<task, abandoned>>
       ELSE /\ task' = (IF command = "exit" THEN "done" ELSE "idle")
            /\ abandoned' = (abandoned \/ command # "exit")
            /\ UNCHANGED callback
-----------------------------------------------------------------------------
(* stop() and start() of Channel *)

\* stop(), to the point where it has marked the mechanism as busy, or waits.
EnterStop(t) ==
    IF ~running
    THEN UNCHANGED <<at, busy>>
    ELSE IF busy
    THEN at' = [at EXCEPT ![t] = "waiting"] /\ UNCHANGED busy
    ELSE at' = [at EXCEPT ![t] = "entered"] /\ busy' = TRUE

\* Mutant of StopWaited: the use of the mechanism by another is ignored.
StopWaitedNot(t) ==
    /\ at[t] = "waiting" /\ Unlocked
    /\ busy' = TRUE
    /\ at' = [at EXCEPT ![t] = "entered"]
    /\ UNCHANGED <<options, running, id, filtering, pending, counts, disablers, faults,
                   callback, engine>>

\* The channel is locked and not busy; nothing else is looked at again.
StopWaited(t) ==
    /\ at[t] = "waiting" /\ Unlocked
    /\ ~busy
    /\ busy' = TRUE
    /\ at' = [at EXCEPT ![t] = "entered"]
    /\ UNCHANGED <<options, running, id, filtering, pending, counts, disablers, faults,
                   callback, engine>>

\* SampleMechanism::stop, which asserts that the mechanism is running.
StopMechanism(t) ==
    /\ at[t] = "entered"
    /\ IF running
       THEN /\ running' = FALSE
            /\ at' = [at EXCEPT ![t] = "pv"]
            /\ UNCHANGED <<callback, task, abandoned>>
       ELSE Throw(t) /\ UNCHANGED running
    /\ UNCHANGED <<options, busy, id, filtering, pending, counts, disablers, faults,
                   command, next, is_running, write_failed, noted, commands>>

\* ProcessVariable::stop, which asserts that the PV was started.  It leaves
\* the state INIT, unless the connection is lost while it is unlocked.
StopPv(t) ==
    /\ at[t] = "pv"
    /\ IF id
       THEN /\ id' = FALSE
            /\ disturbed' \in {disturbed, disturbed \cup {Channel}}
            /\ at' = [at EXCEPT ![t] = "event"]
            /\ UNCHANGED <<callback, task, abandoned>>
       ELSE Throw(t) /\ UNCHANGED <<id, disturbed>>
    /\ UNCHANGED <<options, busy, running, filtering, pending, counts, disablers, cuts,
                   command, next, is_running, write_failed, noted, commands>>

\* Mutant of StopEnd: the mechanism stays busy.
StopEndBusy(t) ==
    /\ at[t] = "event"
    /\ pending' = TRUE
    /\ at' = [at EXCEPT ![t] = "out"]
    /\ UNCHANGED <<options, busy, running, id, filtering, counts, disablers, faults,
                   callback, engine>>

\* The event `stopped' is added to the ring, and the mechanism is free; the
\* channel is locked again.
StopEnd(t) ==
    /\ at[t] = "event" /\ Unlocked
    /\ pending' = TRUE
    /\ busy' = FALSE
    /\ at' = [at EXCEPT ![t] = "out"]
    /\ UNCHANGED <<options, running, id, filtering, counts, disablers, faults,
                   callback, engine>>

\* start(), to the point where SampleMechanism::start has set running.
EnterStart(t) ==
    IF running
    THEN UNCHANGED <<running, at>>
    ELSE running' = TRUE /\ at' = [at EXCEPT ![t] = "starting"]

\* ProcessVariable::start, which asserts that the PV was not started and that
\* its state is INIT.
StartPv(t) ==
    /\ at[t] = "starting"
    /\ IF id \/ Channel \in disturbed
       THEN Throw(t) /\ UNCHANGED id
       ELSE /\ id' = TRUE
            /\ at' = [at EXCEPT ![t] = "out"]
            /\ UNCHANGED <<callback, task, abandoned>>
    /\ UNCHANGED <<options, busy, running, filtering, pending, counts, disablers, faults,
                   command, next, is_running, write_failed, noted, commands>>
-----------------------------------------------------------------------------
(* The CA thread *)

\* A value of Channel passes its filter.
Sample ==
    /\ callback = NoCallback
    /\ id /\ ~filtering
    /\ pending' = TRUE
    /\ UNCHANGED <<options, busy, running, id, filtering, counts, disablers, faults,
                   callback, at, engine>>

\* pvValue() of d: a change to above zero, or from above zero.
PvValue(d) ==
    /\ callback = NoCallback
    /\ d \in started
    /\ disabling' = [disabling EXCEPT ![d] = ~@]
    /\ callback' = [pv |-> d, todo |-> disable_groups[d], disables |-> ~disabling[d]]
    /\ UNCHANGED <<options, mechanism, counts, disable_groups, started, faults, at, engine>>

\* disable() of Channel: when the last of its groups disables it, it
\* adds an event to its ring and filters values; then t may stop it.
DisableChannel(t) ==
    /\ disable_count' = disable_count + 1
    /\ IF disable_count' = Cardinality(groups)
       THEN /\ filtering' = TRUE /\ pending' = TRUE
            /\ IF disconnect THEN EnterStop(t) ELSE UNCHANGED <<at, busy>>
       ELSE UNCHANGED <<filtering, pending, at, busy>>

\* enable() of Channel: unless all its groups disable it, the filter opens,
\* passes the value that it may have kept, and the channel may be started.
EnableChannel ==
    IF disable_count = 0
    THEN UNCHANGED <<disable_count, filtering, pending, running, at>>
    ELSE /\ disable_count' = disable_count - 1
         /\ IF disable_count' # Cardinality(groups)
            THEN /\ filtering' = FALSE
                 /\ pending' \in {pending, pending \/ (id /\ filtering)}
                 /\ IF disconnect THEN EnterStart("ca") ELSE UNCHANGED <<running, at>>
            ELSE UNCHANGED <<filtering, pending, running, at>>

\* The ways in which a loop over the members of a group ends: all had their
\* turn or, with `disconnect', the stop() or start() of another member threw
\* before or after the turn of Channel.
Loops ==
    {"whole"} \cup (IF disconnect /\ cuts < MaxCuts THEN {"before", "after"} ELSE {})

\* The callback has been to g; an exception of a member is the end of it.
Visited(g, loop) ==
    /\ callback' = [callback EXCEPT !.todo = IF loop = "whole" THEN @ \ {g} ELSE {}]
    /\ cuts' = cuts + (IF loop = "whole" THEN 0 ELSE 1)

\* Mutant of DisableGroup: whoever disables it disables its members.
DisableGroupAgain(g) ==
    /\ callback.disables /\ g \in callback.todo
    /\ at["ca"] = "out" /\ Unlocked
    /\ group_count' = [group_count EXCEPT ![g] = @ + 1]
    /\ \E loop \in Loops :
          /\ Visited(g, loop)
          /\ IF g \in groups /\ loop # "before"
             THEN DisableChannel("ca")
             ELSE UNCHANGED <<disable_count, filtering, pending, at, busy>>
    /\ UNCHANGED <<options, running, id, groups, disablers, disturbed, engine>>

\* disable() of a group: the first to disable it disables its members.
DisableGroup(g) ==
    /\ callback.disables /\ g \in callback.todo
    /\ at["ca"] = "out" /\ Unlocked
    /\ group_count' = [group_count EXCEPT ![g] = @ + 1]
    /\ \E loop \in (IF group_count[g] = 0 THEN Loops ELSE {"whole"}) :
          /\ Visited(g, loop)
          /\ IF group_count[g] = 0 /\ g \in groups /\ loop # "before"
             THEN DisableChannel("ca")
             ELSE UNCHANGED <<disable_count, filtering, pending, at, busy>>
    /\ UNCHANGED <<options, running, id, groups, disablers, disturbed, engine>>

\* Mutant of EnableGroup: the first to enable it enables its members.
EnableGroupFirst(g) ==
    /\ callback.pv # Nobody /\ ~callback.disables /\ g \in callback.todo
    /\ at["ca"] = "out" /\ Unlocked
    /\ group_count' = [group_count EXCEPT ![g] = IF @ = 0 THEN 0 ELSE @ - 1]
    /\ \E loop \in Loops :
          /\ Visited(g, loop)
          /\ IF g \in groups /\ loop # "before"
             THEN EnableChannel
             ELSE UNCHANGED <<disable_count, filtering, pending, running, at>>
    /\ UNCHANGED <<options, busy, id, groups, disablers, disturbed, engine>>

\* enable() of a group: the last to enable it enables its members.
EnableGroup(g) ==
    /\ callback.pv # Nobody /\ ~callback.disables /\ g \in callback.todo
    /\ at["ca"] = "out" /\ Unlocked
    /\ group_count' = [group_count EXCEPT ![g] = IF @ = 0 THEN 0 ELSE @ - 1]
    /\ \E loop \in (IF group_count[g] = 1 THEN Loops ELSE {"whole"}) :
          /\ Visited(g, loop)
          /\ IF group_count[g] = 1 /\ g \in groups /\ loop # "before"
             THEN EnableChannel
             ELSE UNCHANGED <<disable_count, filtering, pending, running, at>>
    /\ UNCHANGED <<options, busy, id, groups, disablers, disturbed, engine>>

CallbackDone ==
    /\ callback.pv # Nobody /\ callback.todo = {}
    /\ at["ca"] = "out"
    /\ callback' = NoCallback
    /\ UNCHANGED <<options, mechanism, counts, disablers, faults, at, engine>>
-----------------------------------------------------------------------------
(* The engine thread *)

\* Time to write.
BeginCycle ==
    /\ task = "idle"
    /\ task' = "write" /\ command' = "cycle" /\ next' = 1
    /\ UNCHANGED <<options, mechanism, counts, disablers, faults, callback, at,
                   is_running, record, commands>>

\* An HTTP command, or the end of the main loop.
BeginCommand(c) ==
    /\ task = "idle"
    /\ commands < MaxCommands
    /\ commands' = commands + 1
    /\ task' = "stop" /\ command' = c /\ next' = 1
    /\ UNCHANGED <<options, mechanism, counts, disablers, faults, callback, at,
                   is_running, record>>

\* Engine::stop asserts that the engine is running.
StopAsserts ==
    /\ task = "stop" /\ ~is_running
    /\ Throw("engine")
    /\ UNCHANGED <<options, mechanism, counts, disablers, faults,
                   command, next, is_running, write_failed, noted, commands>>

StopNext ==
    /\ task = "stop" /\ is_running
    /\ at["engine"] = "out" /\ Unlocked
    /\ next <= N /\ order[next] = Channel
    /\ EnterStop("engine")
    /\ next' = next + 1
    /\ UNCHANGED <<options, running, id, filtering, pending, counts, disablers, faults, callback,
                   task, command, is_running, record, commands>>

\* A disabling channel: the CA library waits for its callback to return.
StopDisabler ==
    /\ task = "stop" /\ is_running
    /\ at["engine"] = "out"
    /\ next <= N /\ order[next] # Channel
    /\ callback.pv # order[next]
    /\ started' = started \ {order[next]}
    /\ disturbed' \in {disturbed, disturbed \cup {order[next]}}
    /\ next' = next + 1
    /\ UNCHANGED <<options, mechanism, counts, disable_groups, disabling, cuts, callback, at,
                   task, command, is_running, record, commands>>

\* Mutant of StopDone: the final write is left out.
StopDoneUnwritten ==
    /\ task = "stop" /\ is_running
    /\ at["engine"] = "out"
    /\ next > N
    /\ is_running' = FALSE
    /\ task' = (IF command = "exit" THEN "done" ELSE "configure") /\ next' = 1
    /\ UNCHANGED <<options, mechanism, counts, disablers, faults, callback, at,
                   command, record, commands>>

StopDone ==
    /\ task = "stop" /\ is_running
    /\ at["engine"] = "out"
    /\ next > N
    /\ is_running' = FALSE
    /\ task' = "write" /\ next' = 1
    /\ UNCHANGED <<options, mechanism, counts, disablers, faults, callback, at,
                   command, record, commands>>

\* Mutant of WriteNext: only a channel that is running is written.
WriteNextRunning ==
    /\ task = "write" /\ Unlocked
    /\ next <= N
    /\ next' = next + 1
    /\ IF order[next] = Channel /\ ~busy /\ running
       THEN busy' = TRUE /\ task' = "writing"
       ELSE UNCHANGED <<busy, task>>
    /\ UNCHANGED <<options, running, id, filtering, pending, counts, disablers, faults,
                   callback, at, command, is_running, record, commands>>

\* write() of Channel, unless the mechanism is busy; that of the disabling
\* channels has no effect on Channel.
WriteNext ==
    /\ task = "write" /\ Unlocked
    /\ next <= N
    /\ next' = next + 1
    /\ IF order[next] = Channel /\ ~busy
       THEN busy' = TRUE /\ task' = "writing"
       ELSE UNCHANGED <<busy, task>>
    /\ UNCHANGED <<options, running, id, filtering, pending, counts, disablers, faults,
                   callback, at, command, is_running, record, commands>>

\* The ring is empty, or an exception was caught.
WriteEnd ==
    /\ task = "writing" /\ Unlocked
    /\ \/ pending' = FALSE /\ UNCHANGED write_failed
       \/ write_failed' = TRUE /\ UNCHANGED pending
    /\ busy' = FALSE
    /\ task' = "write"
    /\ UNCHANGED <<options, running, id, filtering, counts, disablers, faults, callback, at,
                   command, next, is_running, abandoned, noted, commands>>

WriteDone ==
    /\ task = "write"
    /\ next > N
    /\ \/ command = "cycle" /\ task' = "idle"
       \/ command = "restart" /\ task' = "start"
       \/ command = "configure" /\ task' = "configure"
       \/ command = "exit" /\ task' = "done"
    /\ next' = 1
    /\ UNCHANGED <<options, mechanism, counts, disablers, faults, callback, at,
                   command, is_running, record, commands>>

\* Mutant of Configure: the new mechanism inherits the state of the filter.
ConfigureFiltering(g) ==
    /\ task = "configure" /\ at["engine"] = "out" /\ Unlocked
    /\ ~busy
    /\ groups' = groups \cup {g}
    /\ disable_count' = disable_count + (IF g \notin groups /\ group_count[g] > 0 THEN 1 ELSE 0)
    /\ pending' = FALSE
    /\ UNCHANGED <<options, busy, running, id, filtering, group_count, disablers, faults,
                   callback, at, engine>>

\* addChannel() for Channel and group g: configure() waits while the
\* mechanism is busy and replaces it; addToGroup() disables the channel once
\* more if g is new to it and disabled.  addChannel of the server
\* calls it once, a configuration that is read once for each entry.
Configure(g) ==
    /\ task = "configure" /\ at["engine"] = "out" /\ Unlocked
    /\ ~busy
    /\ IF running
       THEN /\ Throw("engine")
            /\ noted' = FALSE
            /\ UNCHANGED <<groups, disable_count, id, filtering, pending, disturbed>>
       ELSE /\ id' = FALSE
            /\ disturbed' = disturbed \ {Channel}
            /\ groups' = groups \cup {g}
            /\ IF g \notin groups /\ group_count[g] > 0
               THEN /\ disable_count' = disable_count + 1
                    /\ filtering' = (disable_count' = Cardinality(groups'))
                    /\ pending' = filtering'
               ELSE /\ filtering' = FALSE /\ pending' = FALSE
                    /\ UNCHANGED disable_count
            /\ noted' = pending'
            /\ UNCHANGED <<callback, at, task, abandoned>>
    /\ UNCHANGED <<options, busy, running, group_count, disablers, cuts,
                   command, next, is_running, write_failed, commands>>

\* addChannel() lets d disable g as well: right away if it is disabling.
ConfigureDisabler(d, g) ==
    /\ task = "configure" /\ at["engine"] = "out" /\ Unlocked
    /\ disable_groups' = [disable_groups EXCEPT ![d] = @ \cup {g}]
    /\ group_count' = [group_count EXCEPT ![g] =
                          IF disabling[d] /\ g \notin disable_groups[d] THEN @ + 1 ELSE @]
    /\ disturbed' = disturbed \ {d}
    /\ IF group_count[g] = 0 /\ group_count'[g] = 1
       THEN \/ /\ IF g \in groups
                  THEN DisableChannel("engine")
                  ELSE UNCHANGED <<disable_count, filtering, pending, at, busy>>
               /\ noted' = (pending' /\ (noted \/ ~pending))
               /\ UNCHANGED <<callback, task, abandoned, cuts>>
            \/ /\ "before" \in Loops
               /\ Throw("engine")
               /\ noted' = FALSE
               /\ cuts' = cuts + 1
               /\ UNCHANGED <<disable_count, filtering, pending, busy>>
       ELSE UNCHANGED <<disable_count, filtering, pending, at, busy, noted,
                        callback, task, abandoned, cuts>>
    /\ UNCHANGED <<options, running, id, groups, disabling, started,
                   command, next, is_running, write_failed, commands>>

\* An exception: the configuration, or what is left of it, cannot be read, or
\* it cannot be written to the file.
ConfigureFails ==
    /\ task = "configure" /\ at["engine"] = "out"
    /\ Throw("engine")
    /\ noted' = FALSE
    /\ UNCHANGED <<options, mechanism, counts, disablers, faults,
                   command, next, is_running, write_failed, commands>>

\* The configuration was written to the file.
ConfigureDone ==
    /\ task = "configure" /\ at["engine"] = "out"
    /\ task' = "start"
    /\ noted' = FALSE
    /\ UNCHANGED <<options, mechanism, counts, disablers, faults, callback, at,
                   command, next, is_running, write_failed, abandoned, commands>>

\* start() of the next channel; that of a disabling channel asserts like
\* StartPv.
StartNext ==
    /\ task = "start"
    /\ at["engine"] = "out" /\ Unlocked
    /\ next <= N
    /\ next' = next + 1
    /\ \/ /\ order[next] = Channel
          /\ EnterStart("engine")
          /\ UNCHANGED <<started, callback, task, abandoned>>
       \/ /\ order[next] \in Disabling \ disturbed
          /\ started' = started \cup {order[next]}
          /\ UNCHANGED <<running, at, callback, task, abandoned>>
       \/ /\ order[next] \in Disabling \cap disturbed
          /\ Throw("engine")
          /\ UNCHANGED <<running, started>>
    /\ UNCHANGED <<options, busy, id, filtering, pending, counts, disable_groups, disabling,
                   faults, command, is_running, write_failed, noted, commands>>

StartDone ==
    /\ task = "start"
    /\ at["engine"] = "out"
    /\ next > N
    /\ is_running' = TRUE
    /\ task' = "idle"
    /\ UNCHANGED <<options, mechanism, counts, disablers, faults, callback, at,
                   command, next, record, commands>>
-----------------------------------------------------------------------------
StopOrStart(t) ==
    \/ StopWaited(t) \/ StopMechanism(t) \/ StopPv(t) \/ StopEnd(t)
    \/ StartPv(t)

CaSteps ==
    \/ StopOrStart("ca")
    \/ \E g \in Groups : DisableGroup(g) \/ EnableGroup(g)
    \/ CallbackDone

EngineSteps ==
    \/ StopOrStart("engine")
    \/ StopAsserts \/ StopNext \/ StopDisabler \/ StopDone
    \/ WriteNext \/ WriteEnd \/ WriteDone
    \/ \E g \in Groups : Configure(g) \/ \E d \in Disabling : ConfigureDisabler(d, g)
    \/ ConfigureFails \/ ConfigureDone
    \/ StartNext \/ StartDone

Next ==
    \/ Sample
    \/ \E d \in Disabling : PvValue(d)
    \/ CaSteps
    \/ BeginCycle
    \/ \E c \in {"restart", "configure", "exit"} : BeginCommand(c)
    \/ EngineSteps

Spec == Init /\ [][Next]_vars

\* Each thread makes progress in what it has begun.  A disabling channel may
\* have one callback after the other, but between two of them the CA library
\* lets the call return that waits for them.
Fairness ==
    /\ WF_vars(CaSteps)
    /\ WF_vars(EngineSteps)
    /\ SF_vars(StopDisabler)

FairSpec == Spec /\ Fairness
-----------------------------------------------------------------------------
TypeOK ==
    /\ disconnect \in BOOLEAN
    /\ order \in [1 .. N -> All]
    /\ <<busy, running, id, filtering, pending>> \in
           BOOLEAN \X BOOLEAN \X BOOLEAN \X BOOLEAN \X BOOLEAN
    /\ groups \subseteq Groups
    /\ disable_count \in 0 .. Cardinality(groups) + cuts
    /\ group_count \in [Groups -> Nat]
    /\ disable_groups \in [Disabling -> SUBSET Groups]
    /\ disabling \in [Disabling -> BOOLEAN]
    /\ started \subseteq Disabling
    /\ disturbed \subseteq All
    /\ cuts \in 0 .. MaxCuts
    /\ callback \in [pv : Disabling \cup {Nobody}, todo : SUBSET Groups, disables : BOOLEAN]
    /\ at \in [Threads -> {"out", "waiting", "entered", "pv", "event", "starting"}]
    /\ task \in Tasks
    /\ command \in Commands
    /\ next \in 1 .. N + 1
    /\ is_running \in BOOLEAN
    /\ <<write_failed, abandoned, noted>> \in BOOLEAN \X BOOLEAN \X BOOLEAN
    /\ commands \in 0 .. MaxCommands

\* t uses the mechanism without holding the lock of the channel.
Uses(t) ==
    \/ at[t] \in {"entered", "pv", "event"}
    \/ t = "engine" /\ task = "writing"

\* Never do two threads use the mechanism that have both unlocked the channel:
\* neither while the main loop writes and a disabling value stops the channel,
\* nor when two threads stop it.
MechanismUsedByOne ==
    \A t, u \in Threads : Uses(t) /\ Uses(u) => t = u

\* Who has marked the mechanism as busy resets the mark when done with it:
\* it is busy only while a thread uses it.
BusyIsGivenBack ==
    busy => \E t \in Threads : Uses(t)

\* The counts agree with who disables what: the channel counts its disabled
\* groups, unless an exception of another member has cut short a loop over the
\* members of a group, and a group counts, between two callbacks, the channels
\* that disable it.  With `disconnect' an exception may cut a callback short.
CountsAgree ==
    /\ cuts = 0 =>
         disable_count = Cardinality({ g \in groups : group_count[g] > 0 })
    /\ ~disconnect /\ callback = NoCallback =>
         \A g \in Groups : group_count[g] =
             Cardinality({ d \in Disabling : disabling[d] /\ g \in disable_groups[d] })

\* The values of the channel are held back only while all its groups are
\* disabled, unless an exception has cut short a loop over members; without
\* `disconnect' none does.
DisabledOnlyByAll ==
    cuts = 0 \/ ~disconnect =>
        (filtering => \A g \in groups : group_count[g] > 0)

\* When the program has ended, no sample is left in memory, unless a write
\* failed or an exception ended an earlier command, which leaves the engine in
\* a state where it can neither be stopped nor started.
AllWrittenAtExit ==
    ~disconnect /\ ~write_failed /\ ~abandoned /\ task = "done" => ~pending

\* No sample leaves the ring but by a write: when configure() replaces the
\* mechanism, what is lost is at most an event that the same command added.
OnlyWritesEmpty ==
    [][pending /\ ~pending' =>
          busy \/ disconnect \/ write_failed \/ (task = "configure" /\ noted)]_vars

\* Without `disconnect', what the engine thread has begun comes to an end,
\* although it waits for callbacks and for the mechanism.
CommandsReturn ==
    ~disconnect => (task # "idle" ~> task \in {"idle", "done"})
=============================================================================
