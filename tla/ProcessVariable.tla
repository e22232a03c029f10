--------------------------- MODULE ProcessVariable ---------------------------
(***************************************************************************)
(* Class ProcessVariable: one channel of the control system, reached       *)
(* through the Channel Access (CA) client library, and the sampling        *)
(* listener behind it, which may subscribe when it is told of a connection *)
(* (SampleMechanismMonitored) or leave it at calls of getValue().          *)
(*                                                                         *)
(* Three threads are at work, each of which unlocks the PV around every    *)
(* call of the CA library.  Whoever holds the lock of the engine calls     *)
(* start() and stop(): its position is `task'.  The main loop, which scans *)
(* without that lock, calls getValue(): `scan'.  The CA thread runs the    *)
(* callbacks, one at a time: a callback examines the PV under its mutex,   *)
(* which is part of the action that models the CA event, and calls the     *)
(* listeners after it has unlocked it: `callback' is what it still has to  *)
(* do.                                                                     *)
(*                                                                         *)
(* The CA library is not part of the repository.  It is modelled by what   *)
(* the code relies on: events of a connection come in order, a monitor     *)
(* survives a reconnect with the type it was requested with, a request     *)
(* that is lost with its circuit is answered with an error, and clearing a *)
(* subscription or channel waits for a callback in progress (LockTest.cpp).*)
(* Any request may be refused, or answered with an error, over a circuit   *)
(* that stays up.  What a call with an id that is no channel does is       *)
(* undefined: the model records it in `misused' and ends.                  *)
(***************************************************************************)
EXTENDS Naturals

CONSTANTS
    Types,             \* DBR types the channel may have on its server
    CtrlTypes,         \* those that setup_ctrl_info handles
    NoType,            \* stands for `no subscription'
    MaxConnections,    \* bound of the model on connections of the circuit
    MaxStarts,         \* bound of the model on calls of start()
    MaxGets            \* bound of the model on `get' requests at a time

ASSUME NoTypeAssumption == NoType \notin Types
ASSUME CtrlTypesAssumption == CtrlTypes \subseteq Types
ASSUME MaximaAssumption ==
    MaxConnections \in Nat /\ MaxStarts \in Nat /\ MaxGets \in Nat

VARIABLES
    state,             \* as in the code
    id,                \* whether the member id is set
    ev_id,             \* whether the member ev_id is set
    dbr_type,          \* type of the PV
    outstanding_gets,  \* `get' requests without an answer, as far as known
    subscribes,        \* whether the listener subscribes when connected
    task,              \* where the thread that starts and stops is
    was_connected,     \* local variable of stop()
    scan,              \* the id in getValue(): "none", "live" or "cleared"
    callback,          \* what the CA thread has to do after unlocking
    \* The CA client library
    channel,           \* created and not cleared
    circuit,           \* "down", "up", or "lost": down, but not reported yet
    serverType,        \* type of the channel on the server
    monitor,           \* type of the subscription, or NoType
    infoPending,       \* a request for control information is unanswered
    getsPending,       \* unanswered `get' requests
    failed,            \* CA failed a request of the present connection
    misused,           \* CA was called with an id that is no channel
    \* What the listeners know
    heard,             \* the last state they were told
    \* Bounds of the model
    connections,
    starts

member == <<state, id, ev_id, dbr_type, outstanding_gets>>
thread == <<task, was_connected>>
ca == <<channel, circuit, serverType, monitor, infoPending, getsPending, failed, misused>>
vars == <<member, subscribes, thread, scan, callback, ca, heard, connections, starts>>

Nothing == [todo |-> "nothing", type |-> NoType]

Init ==
    /\ state = "INIT"
    /\ id = FALSE
    /\ ev_id = FALSE
    /\ dbr_type \in Types
    /\ outstanding_gets = 0
    /\ subscribes \in BOOLEAN
    /\ task = "stopped"
    /\ was_connected = FALSE
    /\ scan = "none"
    /\ callback = Nothing
    /\ channel = FALSE
    /\ circuit = "down"
    /\ serverType \in Types
    /\ monitor = NoType
    /\ infoPending = FALSE
    /\ getsPending = 0
    /\ failed = FALSE
    /\ misused = FALSE
    /\ heard = "disconnected"
    /\ connections = 0
    /\ starts = 0

\* firePvConnected(), firePvDisconnected().
Tell(news) == heard' = news

\* Where the threads are, as long as the model goes.
At(place) == ~misused /\ task = place
Scanning(what) == ~misused /\ scan = what
Doing(what) == ~misused /\ callback.todo = what
-----------------------------------------------------------------------------
\* start(): throws, and does nothing else, unless the PV is in its initial
\* state; unlocks for ca_create_channel.
Start ==
    /\ At("stopped")
    /\ ~id /\ state = "INIT"
    /\ starts < MaxStarts
    /\ starts' = starts + 1
    /\ state' = "DISCONNECTED"
    /\ task' = "creating"
    /\ UNCHANGED <<id, ev_id, dbr_type, outstanding_gets, subscribes, was_connected, scan,
                   callback, ca, heard, connections>>

CreateChannel ==
    /\ At("creating")
    /\ channel' \in BOOLEAN
    /\ task' = "storing"
    /\ UNCHANGED <<member, subscribes, was_connected, scan, callback, circuit, serverType,
                   monitor, infoPending, getsPending, failed, misused, heard, connections,
                   starts>>

\* Locked again: only now does the PV know its channel.  When CA created none
\* the id is stored all the same, and is whatever was on the stack.
StoreId ==
    /\ At("storing")
    /\ id' \in IF channel THEN {TRUE} ELSE BOOLEAN
    /\ task' = "running"
    /\ UNCHANGED <<state, ev_id, dbr_type, outstanding_gets, subscribes, was_connected,
                   scan, callback, ca, heard, connections, starts>>
-----------------------------------------------------------------------------
\* Mutant of GetValue: the answer is not announced.
GetValueUncounted ==
    /\ Scanning("none")
    /\ state = "CONNECTED"
    /\ outstanding_gets < MaxGets /\ getsPending < MaxGets
    /\ scan' = "live"
    /\ UNCHANGED <<member, subscribes, thread, callback, ca, heard, connections, starts>>

\* getValue(), on the main loop: counts the answer, copies the id, unlocks.
GetValue ==
    /\ Scanning("none")
    /\ state = "CONNECTED"
    /\ outstanding_gets < MaxGets /\ getsPending < MaxGets
    /\ outstanding_gets' = outstanding_gets + 1
    /\ scan' = "live"
    /\ UNCHANGED <<state, id, ev_id, dbr_type, subscribes, thread, callback, ca, heard,
                   connections, starts>>

\* The call of CA, with the copied id and the dbr_type of this moment: it may
\* fail, and does if the circuit is gone.  The count stays.
IssueGet ==
    /\ Scanning("live")
    /\ getsPending' \in {getsPending, IF circuit = "up" THEN getsPending + 1 ELSE getsPending}
    /\ scan' = "none"
    /\ UNCHANGED <<member, subscribes, thread, callback, channel, circuit, serverType,
                   monitor, infoPending, failed, misused, heard, connections, starts>>

\* stop() has cleared the channel after getValue() unlocked.
IssueGetOnCleared ==
    /\ Scanning("cleared")
    /\ misused' = TRUE
    /\ scan' = "none"
    /\ UNCHANGED <<member, subscribes, thread, callback, channel, circuit, serverType,
                   monitor, infoPending, getsPending, failed, heard, connections, starts>>
-----------------------------------------------------------------------------
\* stop() sets all indicators back, and unlocks for the CA library; it throws,
\* and does nothing else, without an id.
StopBegin ==
    /\ At("running")
    /\ id
    /\ was_connected' = (state = "CONNECTED")
    /\ id' = FALSE
    /\ state' = "INIT"
    /\ outstanding_gets' = 0
    /\ ev_id' = FALSE
    /\ task' = IF ev_id THEN "unsubscribing" ELSE "clearing"
    /\ UNCHANGED <<dbr_type, subscribes, scan, callback, ca, heard, connections, starts>>

ClearSubscription ==
    /\ At("unsubscribing")
    /\ callback = Nothing
    /\ monitor' = NoType
    /\ task' = "clearing"
    /\ UNCHANGED <<member, subscribes, was_connected, scan, callback, channel, circuit,
                   serverType, infoPending, getsPending, failed, misused, heard,
                   connections, starts>>

\* Mutant of ClearChannel: does not wait for the callback in progress.
ClearChannelAtOnce ==
    /\ At("clearing")
    /\ channel
    /\ channel' = FALSE
    /\ circuit' = "down"
    /\ monitor' = NoType
    /\ infoPending' = FALSE
    /\ getsPending' = 0
    /\ scan' = IF scan = "live" THEN "cleared" ELSE scan
    /\ task' = IF was_connected THEN "announcing" ELSE "stopped"
    /\ UNCHANGED <<member, subscribes, was_connected, callback, serverType, failed, misused,
                   heard, connections, starts>>

\* After ca_clear_channel no callback is left to run.  A `get' that has the id
\* already is not a callback: it is not waited for.
ClearChannel ==
    /\ At("clearing")
    /\ channel
    /\ callback = Nothing
    /\ channel' = FALSE
    /\ circuit' = "down"
    /\ monitor' = NoType
    /\ infoPending' = FALSE
    /\ getsPending' = 0
    /\ scan' = IF scan = "live" THEN "cleared" ELSE scan
    /\ task' = IF was_connected THEN "announcing" ELSE "stopped"
    /\ UNCHANGED <<member, subscribes, was_connected, callback, serverType, failed, misused,
                   heard, connections, starts>>

\* start() stored an id although CA had created no channel.
ClearNoChannel ==
    /\ At("clearing")
    /\ ~channel
    /\ misused' = TRUE
    /\ UNCHANGED <<member, subscribes, thread, scan, callback, channel, circuit,
                   serverType, monitor, infoPending, getsPending, failed, heard,
                   connections, starts>>

StopAnnounce ==
    /\ At("announcing")
    /\ Tell("disconnected")
    /\ task' = "stopped"
    /\ UNCHANGED <<member, subscribes, was_connected, scan, callback, ca, connections,
                   starts>>
-----------------------------------------------------------------------------
\* A callback runs when the CA thread has finished the one before it.
CallbackMayRun == ~misused /\ channel /\ callback = Nothing

\* Mutant of ConnectionUp: a PV that is subscribed trusts the information it
\* already has.
ConnectionUpTrusting ==
    /\ CallbackMayRun
    /\ circuit = "down"
    /\ connections < MaxConnections
    /\ connections' = connections + 1
    /\ serverType' \in Types
    /\ \E holds, granted \in BOOLEAN :
         /\ circuit' = IF holds THEN "up" ELSE "lost"
         /\ infoPending' = (id /\ granted /\ holds /\ ~ev_id)
         /\ failed' = (id /\ ~granted)
    /\ state' = IF id THEN "GETTING_INFO" ELSE state
    /\ UNCHANGED <<id, ev_id, dbr_type, outstanding_gets, subscribes, thread, scan, callback,
                   channel, monitor, getsPending, misused, heard, starts>>

\* connection_handler, connection `up': asks for control information, which CA
\* may refuse; the circuit may fail again meanwhile.  Ignored as long as the id
\* is not known.
ConnectionUp ==
    /\ CallbackMayRun
    /\ circuit = "down"
    /\ connections < MaxConnections
    /\ connections' = connections + 1
    /\ serverType' \in Types
    /\ \E holds, granted \in BOOLEAN :
         /\ circuit' = IF holds THEN "up" ELSE "lost"
         /\ infoPending' = (id /\ granted /\ holds)
         /\ failed' = (id /\ ~granted)
    /\ state' = IF id THEN "GETTING_INFO" ELSE state
    /\ UNCHANGED <<id, ev_id, dbr_type, outstanding_gets, subscribes, thread, scan, callback,
                   channel, monitor, getsPending, misused, heard, starts>>

\* The circuit fails: requests are answered with an error, on which
\* control_callback and value_callback return without touching the PV.
CircuitLost ==
    /\ ~misused
    /\ circuit = "up"
    /\ circuit' = "lost"
    /\ infoPending' = FALSE
    /\ getsPending' = 0
    /\ UNCHANGED <<member, subscribes, thread, scan, callback, channel, serverType, monitor,
                   failed, misused, heard, connections, starts>>

\* connection_handler, connection `down': whatever the PV is doing.
ConnectionDown ==
    /\ CallbackMayRun
    /\ circuit = "lost"
    /\ circuit' = "down"
    /\ state' = "DISCONNECTED"
    /\ callback' = [Nothing EXCEPT !.todo = "tell down"]
    /\ UNCHANGED <<id, ev_id, dbr_type, outstanding_gets, subscribes, thread, scan, channel,
                   serverType, monitor, infoPending, getsPending, failed, misused, heard,
                   connections, starts>>

TellDown ==
    /\ Doing("tell down")
    /\ Tell("disconnected")
    /\ callback' = Nothing
    /\ UNCHANGED <<member, subscribes, thread, scan, ca, connections, starts>>

\* control_callback: the PV is now connected, unless stop() came first.  The
\* listeners are told if setup_ctrl_info could handle the type.
InfoArrives ==
    /\ CallbackMayRun
    /\ circuit = "up"
    /\ infoPending
    /\ infoPending' = FALSE
    /\ IF state = "GETTING_INFO" /\ id
       THEN /\ dbr_type' = serverType
            /\ state' = "CONNECTED"
            /\ callback' = IF serverType \in CtrlTypes
                           THEN [Nothing EXCEPT !.todo = "tell up"] ELSE Nothing
       ELSE UNCHANGED <<dbr_type, state, callback>>
    /\ UNCHANGED <<id, ev_id, outstanding_gets, subscribes, thread, scan, channel, circuit,
                   serverType, monitor, getsPending, failed, misused, heard, connections,
                   starts>>

\* control_callback with an error, as for a channel without read access: the
\* PV stays as it is.
InfoFails ==
    /\ CallbackMayRun
    /\ circuit = "up"
    /\ infoPending
    /\ infoPending' = FALSE
    /\ failed' = TRUE
    /\ UNCHANGED <<member, subscribes, thread, scan, callback, channel, circuit, serverType,
                   monitor, getsPending, misused, heard, connections, starts>>

TellUp ==
    /\ Doing("tell up")
    /\ Tell("connected")
    /\ callback' = IF subscribes THEN [callback EXCEPT !.todo = "subscribe"] ELSE Nothing
    /\ UNCHANGED <<member, subscribes, thread, scan, ca, connections, starts>>

\* Mutant of Subscribe: does not look whether stop() was called meanwhile.
SubscribeRegardless ==
    /\ Doing("subscribe")
    /\ IF ~ev_id
       THEN \/ monitor' = dbr_type /\ ev_id' = TRUE /\ UNCHANGED failed
            \/ failed' = TRUE /\ UNCHANGED <<monitor, ev_id>>
       ELSE UNCHANGED <<monitor, ev_id, failed>>
    /\ callback' = Nothing
    /\ UNCHANGED <<state, id, dbr_type, outstanding_gets, subscribes, thread, scan, channel,
                   circuit, serverType, infoPending, getsPending, misused, heard,
                   connections, starts>>

\* subscribe(), called by the listener from pvConnected: keeps the PV locked.
\* CA may refuse the subscription; nothing tries again.
Subscribe ==
    /\ Doing("subscribe")
    /\ IF ~ev_id /\ id /\ state = "CONNECTED"
       THEN \/ monitor' = dbr_type /\ ev_id' = TRUE /\ UNCHANGED failed
            \/ failed' = TRUE /\ UNCHANGED <<monitor, ev_id>>
       ELSE UNCHANGED <<monitor, ev_id, failed>>
    /\ callback' = Nothing
    /\ UNCHANGED <<state, id, dbr_type, outstanding_gets, subscribes, thread, scan, channel,
                   circuit, serverType, infoPending, getsPending, misused, heard,
                   connections, starts>>

\* Mutant of Accepted: a monitor that comes while the PV waits for its
\* control information is passed on.
AcceptedEarly == state \in {"GETTING_INFO", "CONNECTED"}

\* value_callback passes a value on only while the PV is connected.
Accepted == state = "CONNECTED"

\* Mutant of ValueCallback: counts down without looking at the count.
ValueCallbackUnguarded(type) ==
    LET expected == outstanding_gets > 0 \/ ev_id
    IN  /\ outstanding_gets' = outstanding_gets - 1
        /\ callback' = IF expected /\ Accepted
                       THEN [todo |-> "tell value", type |-> type]
                       ELSE Nothing

\* value_callback: is the value expected, by a `get' or by a subscription?
ValueCallback(type) ==
    LET expected == outstanding_gets > 0 \/ ev_id
    IN  /\ outstanding_gets' =
             IF outstanding_gets > 0 THEN outstanding_gets - 1 ELSE 0
        /\ callback' = IF expected /\ Accepted
                       THEN [todo |-> "tell value", type |-> type]
                       ELSE Nothing

MonitorArrives ==
    /\ CallbackMayRun
    /\ circuit = "up"
    /\ monitor # NoType
    /\ ValueCallback(monitor)
    /\ UNCHANGED <<state, id, ev_id, dbr_type, subscribes, thread, scan, ca, heard,
                   connections, starts>>

\* The answer to a `get', of the type that dbr_type had when it was issued.
GetArrives ==
    /\ CallbackMayRun
    /\ circuit = "up"
    /\ getsPending > 0
    /\ getsPending' = getsPending - 1
    /\ \E type \in Types : ValueCallback(type)
    /\ UNCHANGED <<state, id, ev_id, dbr_type, subscribes, thread, scan, channel, circuit,
                   serverType, monitor, infoPending, failed, misused, heard, connections,
                   starts>>

\* An answer with an error or without a valid time stamp is dropped before
\* value_callback even counts it.
GetFails ==
    /\ CallbackMayRun
    /\ circuit = "up"
    /\ getsPending > 0
    /\ getsPending' = getsPending - 1
    /\ UNCHANGED <<member, subscribes, thread, scan, callback, channel, circuit, serverType,
                   monitor, infoPending, failed, misused, heard, connections, starts>>

TellValue ==
    /\ Doing("tell value")
    /\ callback' = Nothing
    /\ UNCHANGED <<member, subscribes, thread, scan, ca, heard, connections, starts>>
-----------------------------------------------------------------------------
EngineThread ==
    \/ Start \/ CreateChannel \/ StoreId
    \/ StopBegin \/ ClearSubscription \/ ClearChannel \/ ClearNoChannel \/ StopAnnounce

MainLoop == GetValue \/ IssueGet \/ IssueGetOnCleared

CAThread ==
    \/ ConnectionUp \/ ConnectionDown \/ TellDown
    \/ InfoArrives \/ InfoFails \/ TellUp \/ Subscribe
    \/ MonitorArrives \/ GetArrives \/ GetFails \/ TellValue

Next == EngineThread \/ MainLoop \/ CAThread \/ CircuitLost

Spec == Init /\ [][Next]_vars

\* A call that was entered returns, CA reports the loss of a circuit, and a
\* request is answered over a circuit that holds, if only with an error.
Fairness ==
    /\ WF_vars(CreateChannel)
    /\ WF_vars(StoreId)
    /\ WF_vars(IssueGet \/ IssueGetOnCleared)
    /\ SF_vars(ClearSubscription)
    /\ SF_vars(ClearChannel)
    /\ WF_vars(StopAnnounce)
    /\ WF_vars(TellDown)
    /\ WF_vars(TellUp)
    /\ WF_vars(Subscribe)
    /\ WF_vars(TellValue)
    /\ SF_vars(InfoArrives \/ InfoFails)
    /\ SF_vars(ConnectionDown)

FairSpec == Spec /\ Fairness
-----------------------------------------------------------------------------
Callbacks == {"nothing", "tell down", "tell up", "subscribe", "tell value"}

\* Every variable keeps its type, and the counters their bounds.
TypeOK ==
    /\ state \in {"INIT", "DISCONNECTED", "GETTING_INFO", "CONNECTED"}
    /\ {id, ev_id, subscribes, was_connected, channel, infoPending, failed, misused}
         \subseteq BOOLEAN
    /\ dbr_type \in Types
    /\ serverType \in Types
    /\ outstanding_gets \in 0 .. MaxGets
    /\ getsPending \in 0 .. MaxGets
    /\ task \in {"stopped", "creating", "storing", "running", "unsubscribing",
                 "clearing", "announcing"}
    /\ scan \in {"none", "live", "cleared"}
    /\ callback \in [todo : Callbacks, type : Types \cup {NoType}]
    /\ circuit \in {"down", "up", "lost"}
    /\ monitor \in Types \cup {NoType}
    /\ heard \in {"disconnected", "connected"}
    /\ connections \in 0 .. MaxConnections
    /\ starts \in 0 .. MaxStarts

\* Listeners get no value before they were told of the connection (on which
\* they allocate the ring for its type) nor after they were told of its loss,
\* although CA sends monitors as soon as the circuit is back (value_callback of
\* ProcessVariable.cpp).  For a type that setup_ctrl_info does not know the
\* code connects without telling anybody, and this does not hold.
NoValueWhileDisconnected ==
    callback.todo = "tell value" /\ dbr_type \in CtrlTypes => heard = "connected"

\* When stop() has returned, whatever callback it interrupted, CA will call
\* nobody for this PV again, no subscription is left, and the listeners know
\* that it is disconnected (stop of ProcessVariable.cpp).  What the main loop
\* may still do is to use the id it copied before: that id is then known to
\* belong to no channel, so that a `get' left over never counts for the next
\* channel.
StoppedIsQuiet ==
    task = "stopped" =>
        /\ ~channel /\ callback = Nothing /\ monitor = NoType
        /\ ~id /\ ~ev_id
        /\ heard = "disconnected"
        /\ getsPending = 0 /\ scan # "live"

\* The PV knows exactly whether CA has a subscription for it, except while it
\* is giving it up: none is leaked, none is made on a channel that is going
\* (subscribe and unsubscribe of ProcessVariable.cpp).
SubscriptionKnown ==
    task # "unsubscribing" => (ev_id <=> monitor # NoType)

\* No valid answer to a `get' that reaches a connected PV is turned away as
\* unexpected, whatever monitors took its count, whatever answers failed and
\* however late the request was issued (getValue and value_callback).
GetsExpected ==
    [][GetArrives /\ state = "CONNECTED" => callback'.todo = "tell value"]_vars

\* A PV that began to connect gets there, up to the subscription, unless it
\* loses the connection, is stopped, or has a type nobody knows.  Only if CA
\* failed one of its requests may it be left half connected: there is no
\* retry (connection_handler, control_callback, subscribe).
ConnectionCompletes ==
    (task = "running" /\ state = "GETTING_INFO") ~>
        \/ heard = "connected" /\ state = "CONNECTED" /\ (subscribes => ev_id)
        \/ state = "DISCONNECTED"
        \/ task # "running"
        \/ failed
        \/ state = "CONNECTED" /\ dbr_type \notin CtrlTypes
        \/ misused

\* What start() asserts: a stopped PV is in its initial state.
StartAssertion == task = "stopped" => state = "INIT"
=============================================================================
