----------------------- MODULE ProcessVariableProofs -----------------------
(***************************************************************************)
(* Proofs about ProcessVariable: its safety invariants and its action      *)
(* property, for any set of types and any bounds of the model.  They hold  *)
(* together: each needs what the other threads may have left behind.       *)
(***************************************************************************)
EXTENDS ProcessVariable, TLAPS

Stopping == {"unsubscribing", "clearing"}

\* What the PV and CA may know of each other, by the place of the thread that
\* starts and stops: the id is known between start() and stop(), the channel
\* exists a little before and a little after.
KnownByTask ==
    /\ id => task = "running"
    /\ channel => task \in {"storing", "running"} \cup Stopping
    /\ state \in {"GETTING_INFO", "CONNECTED"} \/ ev_id => id
    /\ task = "storing" => getsPending = 0 /\ scan # "live"

\* Without a channel CA has nothing to report, to answer or to finish, and no
\* id in use is taken for one of a channel.
QuietWithoutChannel ==
    ~channel => /\ circuit = "down" /\ monitor = NoType /\ callback = Nothing
                /\ scan # "live"

\* A circuit that is gone has taken the requests along.
RequestsNeedCircuit ==
    /\ circuit # "up" => ~infoPending /\ getsPending = 0
    /\ state = "CONNECTED" => circuit # "down"

\* The PV was connected when stop() set its indicators back.
LeftConnected == was_connected /\ task \in Stopping

\* The listeners lag behind a PV of a known type by the callback in progress
\* only; stop() remembers to tell them what it hid from the CA thread.
NewsOnTheWay ==
    /\ callback.todo = "tell up" => state = "CONNECTED" \/ LeftConnected
    /\ callback.todo = "tell down" => state # "CONNECTED"
    /\ callback.todo = "subscribe" => heard = "connected"
    /\ callback.todo = "tell value" /\ dbr_type \in CtrlTypes => heard = "connected"
    /\ state = "CONNECTED" /\ dbr_type \in CtrlTypes /\ callback.todo # "tell up" =>
         heard = "connected"
    /\ heard = "connected" =>
         \/ callback.todo = "tell down"
         \/ state = "CONNECTED"
         \/ LeftConnected
         \/ was_connected /\ task = "announcing"

\* Unless monitors take from the count, it covers the answers that may come:
\* those CA owes, and the one of a call about to be made.
GetsCounted ==
    IF scan = "live" THEN getsPending < outstanding_gets ELSE getsPending <= outstanding_gets

AllExpected == id /\ ~ev_id => GetsCounted

\* What the threads know of each other ...
Known ==
    /\ TypeOK
    /\ KnownByTask
    /\ QuietWithoutChannel
    /\ RequestsNeedCircuit
    /\ NewsOnTheWay
    /\ SubscriptionKnown

\* The bound of the model on answers leaves room for the call about to be made.
Room == scan = "live" => getsPending < MaxGets

\* ... and the count of the answers that rests on it.
IInv == Known /\ Room /\ AllExpected
-----------------------------------------------------------------------------
\* TypeOK in three parts: flags, data, and counters.
Flags ==
    {id, ev_id, subscribes, was_connected, channel, infoPending, failed, misused}
        \subseteq BOOLEAN

Data ==
    /\ state \in {"INIT", "DISCONNECTED", "GETTING_INFO", "CONNECTED"}
    /\ dbr_type \in Types
    /\ serverType \in Types
    /\ task \in {"stopped", "creating", "storing", "running", "unsubscribing",
                 "clearing", "announcing"}
    /\ scan \in {"none", "live", "cleared"}
    /\ callback \in [todo : Callbacks, type : Types \cup {NoType}]
    /\ circuit \in {"down", "up", "lost"}
    /\ monitor \in Types \cup {NoType}
    /\ heard \in {"disconnected", "connected"}

Counters ==
    /\ outstanding_gets \in 0 .. MaxGets
    /\ getsPending \in 0 .. MaxGets
    /\ connections \in 0 .. MaxConnections
    /\ starts \in 0 .. MaxStarts

LEMMA TypeParts == TypeOK <=> Flags /\ Data /\ Counters
BY DEF TypeOK, Flags, Data, Counters

LEMMA InitType == Init => TypeOK
<1> SUFFICES ASSUME Init
             PROVE  Flags /\ Data /\ Counters
  BY TypeParts
<1>1. Flags
  BY Zenon DEF Init, Flags
<1>2. Data
  BY DEF Init, Data, Nothing, Callbacks
<1>3. Counters
  BY MaximaAssumption DEF Init, Counters
<1> QED
  BY <1>1, <1>2, <1>3

\* What value_callback does with the count and with the value.
LEMMA ValueCallbackCounts ==
    ASSUME MaxGets \in Nat, outstanding_gets \in 0 .. MaxGets,
           NEW type, ValueCallback(type)
    PROVE  /\ outstanding_gets' \in 0 .. MaxGets
           /\ outstanding_gets' >= outstanding_gets - 1
<1>1. outstanding_gets' = IF outstanding_gets > 0 THEN outstanding_gets - 1 ELSE 0
  BY Zenon DEF ValueCallback
<1> QED
  BY <1>1

LEMMA ValueCallbackTells ==
    ASSUME NEW type \in Types \cup {NoType}, ValueCallback(type)
    PROVE  \/ callback' = Nothing
           \/ callback' = [todo |-> "tell value", type |-> type] /\ state = "CONNECTED"
BY Zenon DEF ValueCallback, Accepted

LEMMA ValueCallbackType ==
    ASSUME NEW type \in Types \cup {NoType}, ValueCallback(type)
    PROVE  callback' \in [todo : Callbacks, type : Types \cup {NoType}]
<1>1. Nothing \in [todo : Callbacks, type : Types \cup {NoType}]
  BY DEF Nothing, Callbacks
<1>2. [todo |-> "tell value", type |-> type]
        \in [todo : Callbacks, type : Types \cup {NoType}]
  BY DEF Callbacks
<1> QED
  BY <1>1, <1>2, ValueCallbackTells

LEMMA NothingTodo == Nothing.todo = "nothing"
BY DEF Nothing

LEMMA ValueCallbackTodo ==
    ASSUME NEW type \in Types \cup {NoType}, ValueCallback(type)
    PROVE  \/ callback'.todo = "nothing"
           \/ callback'.todo = "tell value" /\ state = "CONNECTED"
<1>1. CASE callback' = Nothing
  BY <1>1, NothingTodo
<1>2. CASE callback' = [todo |-> "tell value", type |-> type] /\ state = "CONNECTED"
  BY <1>2
<1> QED
  BY <1>1, <1>2, ValueCallbackTells

LEMMA GetArrivesCounts ==
    Counters /\ GetArrives =>
        /\ outstanding_gets' \in 0 .. MaxGets
        /\ outstanding_gets' >= outstanding_gets - 1
        /\ getsPending # 0
        /\ getsPending' = getsPending - 1
<1> SUFFICES ASSUME Counters, GetArrives
             PROVE  /\ outstanding_gets' \in 0 .. MaxGets
                    /\ outstanding_gets' >= outstanding_gets - 1
                    /\ getsPending # 0
                    /\ getsPending' = getsPending - 1
  OBVIOUS
<1>1. PICK type \in Types : ValueCallback(type)
  BY DEF GetArrives
<1>2. /\ outstanding_gets' \in 0 .. MaxGets
      /\ outstanding_gets' >= outstanding_gets - 1
  BY <1>1, MaximaAssumption, ValueCallbackCounts DEF Counters
<1>3. getsPending # 0 /\ getsPending' = getsPending - 1
  BY MaximaAssumption DEF Counters, GetArrives
<1> QED
  BY <1>2, <1>3

LEMMA GetArrivesTodo ==
    GetArrives => \/ callback'.todo = "nothing"
                  \/ callback'.todo = "tell value" /\ state = "CONNECTED"
BY ValueCallbackTodo DEF GetArrives

LEMMA SameIsCounted ==
    ASSUME GetsCounted, UNCHANGED <<outstanding_gets, getsPending, scan>>
    PROVE  GetsCounted'
BY DEF GetsCounted

LEMMA GetValueCounted == Counters /\ GetValue /\ GetsCounted => GetsCounted'
BY MaximaAssumption DEF Counters, GetsCounted, GetValue, Scanning, ca

LEMMA IssueGetCounted == Counters /\ IssueGet /\ GetsCounted => GetsCounted'
BY MaximaAssumption DEF Counters, GetsCounted, IssueGet, Scanning, member

LEMMA GetFailsCounted == Counters /\ GetFails /\ GetsCounted => GetsCounted'
BY MaximaAssumption DEF Counters, GetsCounted, GetFails, member

LEMMA CircuitLostCounted == Counters /\ CircuitLost /\ GetsCounted => GetsCounted'
BY MaximaAssumption DEF Counters, GetsCounted, CircuitLost, member

LEMMA GetArrivesCounted == Counters /\ GetArrives /\ GetsCounted => GetsCounted'
<1> SUFFICES ASSUME Counters, GetArrives, GetsCounted
             PROVE  GetsCounted'
  OBVIOUS
<1>1. /\ outstanding_gets' \in 0 .. MaxGets
      /\ outstanding_gets' >= outstanding_gets - 1
      /\ getsPending' = getsPending - 1
  BY GetArrivesCounts
<1>2. scan' = scan
  BY DEF GetArrives
<1> QED
  BY <1>1, <1>2, MaximaAssumption DEF Counters, GetsCounted

LEMMA NextFlags == Flags /\ [Next]_vars => Flags'
<1> SUFFICES ASSUME Flags, [Next]_vars
             PROVE  Flags'
  OBVIOUS
<1> USE DEF Flags, At, Doing, Scanning, CallbackMayRun, member, thread, ca
<1>1. CASE Start
  BY <1>1, Zenon DEF Start
<1>2. CASE CreateChannel
  BY <1>2, Zenon DEF CreateChannel
<1>3. CASE StoreId
  BY <1>3, Zenon DEF StoreId
<1>4. CASE GetValue
  BY <1>4, Zenon DEF GetValue
<1>5. CASE IssueGet
  BY <1>5, Zenon DEF IssueGet
<1>6. CASE IssueGetOnCleared
  BY <1>6, Zenon DEF IssueGetOnCleared
<1>7. CASE StopBegin
  BY <1>7, Zenon DEF StopBegin
<1>8. CASE ClearSubscription
  BY <1>8, Zenon DEF ClearSubscription
<1>9. CASE ClearChannel
  BY <1>9, Zenon DEF ClearChannel
<1>10. CASE ClearNoChannel
  BY <1>10, Zenon DEF ClearNoChannel
<1>11. CASE StopAnnounce
  BY <1>11, Zenon DEF StopAnnounce, Tell
<1>12. CASE ConnectionUp
  BY <1>12, Zenon DEF ConnectionUp
<1>13. CASE ConnectionDown
  BY <1>13, Zenon DEF ConnectionDown
<1>14. CASE TellDown
  BY <1>14, Zenon DEF TellDown, Tell
<1>15. CASE InfoArrives
  BY <1>15, Zenon DEF InfoArrives
<1>16. CASE InfoFails
  BY <1>16, Zenon DEF InfoFails
<1>17. CASE TellUp
  BY <1>17, Zenon DEF TellUp, Tell
<1>18. CASE Subscribe
  BY <1>18, Zenon DEF Subscribe
<1>19. CASE MonitorArrives
  BY <1>19, Zenon DEF MonitorArrives
<1>20. CASE GetArrives
  BY <1>20, Zenon DEF GetArrives
<1>21. CASE GetFails
  BY <1>21, Zenon DEF GetFails
<1>22. CASE TellValue
  BY <1>22, Zenon DEF TellValue
<1>23. CASE CircuitLost
  BY <1>23, Zenon DEF CircuitLost
<1>24. CASE UNCHANGED vars
  BY <1>24, Zenon DEF vars
<1> QED
  BY <1>1, <1>2, <1>3, <1>4, <1>5, <1>6, <1>7, <1>8, <1>9, <1>10, <1>11, <1>12,
     <1>13, <1>14, <1>15, <1>16, <1>17, <1>18, <1>19, <1>20, <1>21, <1>22, <1>23, <1>24
     DEF Next, EngineThread, MainLoop, CAThread

LEMMA NextData == Data /\ [Next]_vars => Data'
<1> SUFFICES ASSUME Data, [Next]_vars
             PROVE  Data'
  OBVIOUS
<1> USE DEF Data, Callbacks, Nothing, At, Doing, Scanning, CallbackMayRun, member, thread, ca
<1>1. CASE Start
  BY <1>1 DEF Start
<1>2. CASE CreateChannel
  BY <1>2 DEF CreateChannel
<1>3. CASE StoreId
  BY <1>3 DEF StoreId
<1>4. CASE GetValue
  BY <1>4 DEF GetValue
<1>5. CASE IssueGet
  BY <1>5 DEF IssueGet
<1>6. CASE IssueGetOnCleared
  BY <1>6 DEF IssueGetOnCleared
<1>7. CASE StopBegin
  BY <1>7 DEF StopBegin
<1>8. CASE ClearSubscription
  BY <1>8 DEF ClearSubscription
<1>9. CASE ClearChannel
  BY <1>9 DEF ClearChannel
<1>10. CASE ClearNoChannel
  BY <1>10 DEF ClearNoChannel
<1>11. CASE StopAnnounce
  BY <1>11 DEF StopAnnounce, Tell
<1>12. CASE ConnectionUp
  BY <1>12 DEF ConnectionUp
<1>13. CASE ConnectionDown
  BY <1>13 DEF ConnectionDown
<1>14. CASE TellDown
  BY <1>14 DEF TellDown, Tell
<1>15. CASE InfoArrives
  BY <1>15 DEF InfoArrives
<1>16. CASE InfoFails
  BY <1>16 DEF InfoFails
<1>17. CASE TellUp
  BY <1>17 DEF TellUp, Tell
<1>18. CASE Subscribe
  BY <1>18 DEF Subscribe
<1>19. CASE MonitorArrives
  <2>1. callback' \in [todo : Callbacks, type : Types \cup {NoType}]
    BY <1>19, ValueCallbackType DEF MonitorArrives
  <2> QED
    BY <1>19, <2>1 DEF MonitorArrives
<1>20. CASE GetArrives
  <2>1. callback' \in [todo : Callbacks, type : Types \cup {NoType}]
    BY <1>20, ValueCallbackType DEF GetArrives
  <2> QED
    BY <1>20, <2>1 DEF GetArrives
<1>21. CASE GetFails
  BY <1>21 DEF GetFails
<1>22. CASE TellValue
  BY <1>22 DEF TellValue
<1>23. CASE CircuitLost
  BY <1>23 DEF CircuitLost
<1>24. CASE UNCHANGED vars
  <2>1. UNCHANGED <<state, dbr_type, serverType, task, scan, callback, circuit, monitor,
                    heard>>
    BY <1>24 DEF vars
  <2>2. callback' \in [todo : Callbacks, type : Types \cup {NoType}]
    <3>1. callback \in [todo : Callbacks, type : Types \cup {NoType}]
      BY DEF Data
    <3>2. callback' = callback
      BY <2>1
    <3> QED
      BY <3>1, <3>2, Zenon
  <2> QED
    BY <2>1, <2>2
<1> QED
  BY <1>1, <1>2, <1>3, <1>4, <1>5, <1>6, <1>7, <1>8, <1>9, <1>10, <1>11, <1>12,
     <1>13, <1>14, <1>15, <1>16, <1>17, <1>18, <1>19, <1>20, <1>21, <1>22, <1>23, <1>24
     DEF Next, EngineThread, MainLoop, CAThread

LEMMA NextCounters == Counters /\ Room /\ [Next]_vars => Counters' /\ Room'
<1> SUFFICES ASSUME Counters, Room, [Next]_vars
             PROVE  Counters' /\ Room'
  OBVIOUS
<1> USE MaximaAssumption DEF Counters, Room, At, Doing, Scanning, CallbackMayRun, member, thread, ca
<1>1. CASE Start
  BY <1>1 DEF Start
<1>2. CASE CreateChannel
  BY <1>2 DEF CreateChannel
<1>3. CASE StoreId
  BY <1>3 DEF StoreId
<1>4. CASE GetValue
  BY <1>4 DEF GetValue
<1>5. CASE IssueGet
  BY <1>5 DEF IssueGet
<1>6. CASE IssueGetOnCleared
  BY <1>6 DEF IssueGetOnCleared
<1>7. CASE StopBegin
  BY <1>7 DEF StopBegin
<1>8. CASE ClearSubscription
  BY <1>8 DEF ClearSubscription
<1>9. CASE ClearChannel
  BY <1>9 DEF ClearChannel
<1>10. CASE ClearNoChannel
  BY <1>10 DEF ClearNoChannel
<1>11. CASE StopAnnounce
  BY <1>11 DEF StopAnnounce, Tell
<1>12. CASE ConnectionUp
  BY <1>12 DEF ConnectionUp
<1>13. CASE ConnectionDown
  BY <1>13 DEF ConnectionDown
<1>14. CASE TellDown
  BY <1>14 DEF TellDown, Tell
<1>15. CASE InfoArrives
  BY <1>15 DEF InfoArrives
<1>16. CASE InfoFails
  BY <1>16 DEF InfoFails
<1>17. CASE TellUp
  BY <1>17 DEF TellUp, Tell
<1>18. CASE Subscribe
  BY <1>18 DEF Subscribe
<1>19. CASE MonitorArrives
  BY <1>19, ValueCallbackCounts DEF MonitorArrives
<1>20. CASE GetArrives
  <2>1. /\ outstanding_gets' \in 0 .. MaxGets
        /\ getsPending # 0
        /\ getsPending' = getsPending - 1
    BY <1>20, GetArrivesCounts
  <2> QED
    BY <1>20, <2>1 DEF GetArrives
<1>21. CASE GetFails
  BY <1>21 DEF GetFails
<1>22. CASE TellValue
  BY <1>22 DEF TellValue
<1>23. CASE CircuitLost
  BY <1>23 DEF CircuitLost
<1>24. CASE UNCHANGED vars
  BY <1>24 DEF vars
<1> QED
  BY <1>1, <1>2, <1>3, <1>4, <1>5, <1>6, <1>7, <1>8, <1>9, <1>10, <1>11, <1>12,
     <1>13, <1>14, <1>15, <1>16, <1>17, <1>18, <1>19, <1>20, <1>21, <1>22, <1>23, <1>24
     DEF Next, EngineThread, MainLoop, CAThread

LEMMA InitInv == Init => IInv
<1> SUFFICES ASSUME Init
             PROVE  IInv
  OBVIOUS
<1>1. TypeOK
  BY InitType
<1>2. KnownByTask /\ RequestsNeedCircuit /\ SubscriptionKnown
  BY DEF Init, KnownByTask, RequestsNeedCircuit, SubscriptionKnown, Stopping
<1>3. QuietWithoutChannel
  BY DEF Init, QuietWithoutChannel
<1>4. NewsOnTheWay
  BY NothingTodo DEF Init, NewsOnTheWay
<1>5. Room /\ AllExpected
  BY DEF Init, Room, AllExpected
<1> QED
  BY <1>1, <1>2, <1>3, <1>4, <1>5 DEF IInv, Known

LEMMA NextKnown == Known /\ Room /\ [Next]_vars => Known' /\ Room'
<1> SUFFICES ASSUME Known, Room, [Next]_vars
             PROVE  Known' /\ Room'
  OBVIOUS
<1> USE NoTypeAssumption, MaximaAssumption
    DEF Known, KnownByTask, QuietWithoutChannel, RequestsNeedCircuit, NewsOnTheWay,
        SubscriptionKnown, Stopping, LeftConnected, Nothing,
        At, Doing, Scanning, CallbackMayRun, 
        member, thread, ca
<1>0. Data /\ Counters /\ TypeOK' /\ Room'
  BY TypeParts, NextFlags, NextData, NextCounters, PTL
<1>1. CASE Start
  <2>1. KnownByTask'
    BY <1>0, <1>1 DEF Start, Data
  <2>2. QuietWithoutChannel'
    BY <1>0, <1>1 DEF Start, Data
  <2>3. RequestsNeedCircuit'
    BY <1>0, <1>1 DEF Start, Data
  <2>4. NewsOnTheWay'
    BY <1>0, <1>1 DEF Start, Data
  <2>5. SubscriptionKnown'
    BY <1>0, <1>1 DEF Start, Data
  <2> QED
    BY <1>0, <2>1, <2>2, <2>3, <2>4, <2>5
<1>2. CASE CreateChannel
  <2>1. KnownByTask'
    BY <1>0, <1>2 DEF CreateChannel, Data
  <2>2. QuietWithoutChannel'
    BY <1>0, <1>2 DEF CreateChannel, Data
  <2>3. RequestsNeedCircuit'
    BY <1>0, <1>2 DEF CreateChannel, Data
  <2>4. NewsOnTheWay'
    BY <1>0, <1>2 DEF CreateChannel, Data
  <2>5. SubscriptionKnown'
    BY <1>0, <1>2 DEF CreateChannel, Data
  <2> QED
    BY <1>0, <2>1, <2>2, <2>3, <2>4, <2>5
<1>3. CASE StoreId
  <2>1. KnownByTask'
    BY <1>0, <1>3 DEF StoreId, Data
  <2>2. QuietWithoutChannel'
    BY <1>0, <1>3 DEF StoreId, Data
  <2>3. RequestsNeedCircuit'
    BY <1>0, <1>3 DEF StoreId, Data
  <2>4. NewsOnTheWay'
    BY <1>0, <1>3 DEF StoreId, Data
  <2>5. SubscriptionKnown'
    BY <1>0, <1>3 DEF StoreId, Data
  <2> QED
    BY <1>0, <2>1, <2>2, <2>3, <2>4, <2>5
<1>4. CASE GetValue
  <2>1. KnownByTask'
    BY <1>0, <1>4 DEF GetValue, Data
  <2>2. QuietWithoutChannel'
    BY <1>0, <1>4 DEF GetValue, Data
  <2>3. RequestsNeedCircuit'
    BY <1>0, <1>4 DEF GetValue, Data
  <2>4. NewsOnTheWay'
    BY <1>0, <1>4 DEF GetValue, Data
  <2>5. SubscriptionKnown'
    BY <1>0, <1>4 DEF GetValue, Data
  <2> QED
    BY <1>0, <2>1, <2>2, <2>3, <2>4, <2>5
<1>5. CASE IssueGet
  <2>1. KnownByTask'
    BY <1>0, <1>5 DEF IssueGet, Data
  <2>2. QuietWithoutChannel'
    BY <1>0, <1>5 DEF IssueGet, Data
  <2>3. RequestsNeedCircuit'
    BY <1>0, <1>5 DEF IssueGet, Data
  <2>4. NewsOnTheWay'
    BY <1>0, <1>5 DEF IssueGet, Data
  <2>5. SubscriptionKnown'
    BY <1>0, <1>5 DEF IssueGet, Data
  <2> QED
    BY <1>0, <2>1, <2>2, <2>3, <2>4, <2>5
<1>6. CASE IssueGetOnCleared
  <2>1. KnownByTask'
    BY <1>0, <1>6 DEF IssueGetOnCleared, Data
  <2>2. QuietWithoutChannel'
    BY <1>0, <1>6 DEF IssueGetOnCleared, Data
  <2>3. RequestsNeedCircuit'
    BY <1>0, <1>6 DEF IssueGetOnCleared, Data
  <2>4. NewsOnTheWay'
    BY <1>0, <1>6 DEF IssueGetOnCleared, Data
  <2>5. SubscriptionKnown'
    BY <1>0, <1>6 DEF IssueGetOnCleared, Data
  <2> QED
    BY <1>0, <2>1, <2>2, <2>3, <2>4, <2>5
<1>7. CASE StopBegin
  <2>1. KnownByTask'
    BY <1>0, <1>7 DEF StopBegin, Data
  <2>2. QuietWithoutChannel'
    BY <1>0, <1>7 DEF StopBegin, Data
  <2>3. RequestsNeedCircuit'
    BY <1>0, <1>7 DEF StopBegin, Data
  <2>4. NewsOnTheWay'
    BY <1>0, <1>7 DEF StopBegin, Data
  <2>5. SubscriptionKnown'
    BY <1>0, <1>7 DEF StopBegin, Data
  <2> QED
    BY <1>0, <2>1, <2>2, <2>3, <2>4, <2>5
<1>8. CASE ClearSubscription
  <2>1. KnownByTask'
    BY <1>0, <1>8 DEF ClearSubscription, Data
  <2>2. QuietWithoutChannel'
    BY <1>0, <1>8 DEF ClearSubscription, Data
  <2>3. RequestsNeedCircuit'
    BY <1>0, <1>8 DEF ClearSubscription, Data
  <2>4. NewsOnTheWay'
    BY <1>0, <1>8 DEF ClearSubscription, Data
  <2>5. SubscriptionKnown'
    BY <1>0, <1>8 DEF ClearSubscription, Data
  <2> QED
    BY <1>0, <2>1, <2>2, <2>3, <2>4, <2>5
<1>9. CASE ClearChannel
  <2>1. KnownByTask'
    BY <1>0, <1>9 DEF ClearChannel, Data
  <2>2. QuietWithoutChannel'
    BY <1>0, <1>9 DEF ClearChannel, Data
  <2>3. RequestsNeedCircuit'
    BY <1>0, <1>9 DEF ClearChannel, Data
  <2>4. NewsOnTheWay'
    BY <1>0, <1>9 DEF ClearChannel, Data
  <2>5. SubscriptionKnown'
    BY <1>0, <1>9 DEF ClearChannel, Data
  <2> QED
    BY <1>0, <2>1, <2>2, <2>3, <2>4, <2>5
<1>10. CASE ClearNoChannel
  <2>1. KnownByTask'
    BY <1>0, <1>10 DEF ClearNoChannel, Data
  <2>2. QuietWithoutChannel'
    BY <1>0, <1>10 DEF ClearNoChannel, Data
  <2>3. RequestsNeedCircuit'
    BY <1>0, <1>10 DEF ClearNoChannel, Data
  <2>4. NewsOnTheWay'
    BY <1>0, <1>10 DEF ClearNoChannel, Data
  <2>5. SubscriptionKnown'
    BY <1>0, <1>10 DEF ClearNoChannel, Data
  <2> QED
    BY <1>0, <2>1, <2>2, <2>3, <2>4, <2>5
<1>11. CASE StopAnnounce
  <2>1. KnownByTask'
    BY <1>0, <1>11 DEF StopAnnounce, Tell, Data
  <2>2. QuietWithoutChannel'
    BY <1>0, <1>11 DEF StopAnnounce, Tell, Data
  <2>3. RequestsNeedCircuit'
    BY <1>0, <1>11 DEF StopAnnounce, Tell, Data
  <2>4. NewsOnTheWay'
    <3>1. callback = Nothing
      BY <1>11 DEF StopAnnounce
    <3>2. state # "CONNECTED"
      BY <1>11 DEF StopAnnounce
    <3>3. callback' = callback /\ state' = state /\ heard' = "disconnected"
      BY <1>11 DEF StopAnnounce, Tell
    <3> QED
      BY <3>1, <3>2, <3>3, NothingTodo
  <2>5. SubscriptionKnown'
    BY <1>0, <1>11 DEF StopAnnounce, Tell, Data
  <2> QED
    BY <1>0, <2>1, <2>2, <2>3, <2>4, <2>5
<1>12. CASE ConnectionUp
  <2>1. KnownByTask'
    BY <1>0, <1>12 DEF ConnectionUp, Data
  <2>2. QuietWithoutChannel'
    BY <1>0, <1>12 DEF ConnectionUp, Data
  <2>3. RequestsNeedCircuit'
    BY <1>0, <1>12 DEF ConnectionUp, Data
  <2>4. NewsOnTheWay'
    BY <1>0, <1>12 DEF ConnectionUp, Data
  <2>5. SubscriptionKnown'
    BY <1>0, <1>12 DEF ConnectionUp, Data
  <2> QED
    BY <1>0, <2>1, <2>2, <2>3, <2>4, <2>5
<1>13. CASE ConnectionDown
  <2>1. KnownByTask'
    BY <1>0, <1>13 DEF ConnectionDown, Data
  <2>2. QuietWithoutChannel'
    BY <1>0, <1>13 DEF ConnectionDown, Data
  <2>3. RequestsNeedCircuit'
    BY <1>0, <1>13 DEF ConnectionDown, Data
  <2>4. NewsOnTheWay'
    BY <1>0, <1>13 DEF ConnectionDown, Data
  <2>5. SubscriptionKnown'
    BY <1>0, <1>13 DEF ConnectionDown, Data
  <2> QED
    BY <1>0, <2>1, <2>2, <2>3, <2>4, <2>5
<1>14. CASE TellDown
  <2>1. KnownByTask'
    BY <1>0, <1>14 DEF TellDown, Tell, Data
  <2>2. QuietWithoutChannel'
    BY <1>0, <1>14 DEF TellDown, Tell, Data
  <2>3. RequestsNeedCircuit'
    BY <1>0, <1>14 DEF TellDown, Tell, Data
  <2>4. NewsOnTheWay'
    BY <1>0, <1>14 DEF TellDown, Tell, Data
  <2>5. SubscriptionKnown'
    BY <1>0, <1>14 DEF TellDown, Tell, Data
  <2> QED
    BY <1>0, <2>1, <2>2, <2>3, <2>4, <2>5
<1>15. CASE InfoArrives
  <2>1. KnownByTask'
    BY <1>0, <1>15 DEF InfoArrives, Data
  <2>2. QuietWithoutChannel'
    BY <1>0, <1>15 DEF InfoArrives, Data
  <2>3. RequestsNeedCircuit'
    BY <1>0, <1>15 DEF InfoArrives, Data
  <2>4. NewsOnTheWay'
    <3>1. UNCHANGED <<heard, was_connected, task>> /\ callback.todo = "nothing"
      BY <1>15 DEF InfoArrives
    <3>2. CASE state = "GETTING_INFO" /\ id
      <4>1. state' = "CONNECTED" /\ dbr_type' = serverType
        BY <1>15, <3>2 DEF InfoArrives
      <4>2. callback'.todo = IF dbr_type' \in CtrlTypes THEN "tell up" ELSE "nothing"
        <5>1. callback' = IF serverType \in CtrlTypes
                          THEN [Nothing EXCEPT !.todo = "tell up"] ELSE Nothing
          BY <1>15, <3>2, Zenon DEF InfoArrives
        <5> QED
          BY <4>1, <5>1
      <4> QED
        BY <3>1, <4>1, <4>2
    <3>3. CASE ~(state = "GETTING_INFO" /\ id)
      <4>1. UNCHANGED <<state, dbr_type, callback>>
        BY <1>15, <3>3 DEF InfoArrives
      <4> QED
        BY <3>1, <4>1
    <3> QED
      BY <3>2, <3>3
  <2>5. SubscriptionKnown'
    BY <1>0, <1>15 DEF InfoArrives, Data
  <2> QED
    BY <1>0, <2>1, <2>2, <2>3, <2>4, <2>5
<1>16. CASE InfoFails
  <2>1. KnownByTask'
    BY <1>0, <1>16 DEF InfoFails, Data
  <2>2. QuietWithoutChannel'
    BY <1>0, <1>16 DEF InfoFails, Data
  <2>3. RequestsNeedCircuit'
    BY <1>0, <1>16 DEF InfoFails, Data
  <2>4. NewsOnTheWay'
    BY <1>0, <1>16 DEF InfoFails, Data
  <2>5. SubscriptionKnown'
    BY <1>0, <1>16 DEF InfoFails, Data
  <2> QED
    BY <1>0, <2>1, <2>2, <2>3, <2>4, <2>5
<1>17. CASE TellUp
  <2>1. KnownByTask'
    BY <1>0, <1>17 DEF TellUp, Tell, Data
  <2>2. QuietWithoutChannel'
    <3>1. callback # Nothing
      BY <1>17, NothingTodo DEF TellUp
    <3>2. channel /\ UNCHANGED channel
      BY <1>17, <3>1 DEF TellUp
    <3> QED
      BY <3>2
  <2>3. RequestsNeedCircuit'
    BY <1>0, <1>17 DEF TellUp, Tell, Data
  <2>4. NewsOnTheWay'
    BY <1>0, <1>17 DEF TellUp, Tell, Data
  <2>5. SubscriptionKnown'
    BY <1>0, <1>17 DEF TellUp, Tell, Data
  <2> QED
    BY <1>0, <2>1, <2>2, <2>3, <2>4, <2>5
<1>18. CASE Subscribe
  <2>1. KnownByTask'
    BY <1>0, <1>18 DEF Subscribe, Data
  <2>2. QuietWithoutChannel'
    BY <1>0, <1>18 DEF Subscribe, Data
  <2>3. RequestsNeedCircuit'
    BY <1>0, <1>18 DEF Subscribe, Data
  <2>4. NewsOnTheWay'
    BY <1>0, <1>18 DEF Subscribe, Data
  <2>5. SubscriptionKnown'
    BY <1>0, <1>18 DEF Subscribe, Data
  <2> QED
    BY <1>0, <2>1, <2>2, <2>3, <2>4, <2>5
<1>19. CASE MonitorArrives
  <2>1. KnownByTask'
    BY <1>0, <1>19 DEF MonitorArrives, Data
  <2>2. QuietWithoutChannel'
    BY <1>0, <1>19 DEF MonitorArrives, Data
  <2>3. RequestsNeedCircuit'
    BY <1>0, <1>19 DEF MonitorArrives, Data
  <2>4. NewsOnTheWay'
    <3>1. callback.todo = "nothing"
      BY <1>19 DEF MonitorArrives
    <3>2. \/ callback'.todo = "nothing"
          \/ callback'.todo = "tell value" /\ state = "CONNECTED"
      BY <1>0, <1>19, <3>1, ValueCallbackTodo DEF MonitorArrives, Data
    <3>3. UNCHANGED <<state, dbr_type, heard, was_connected, task>>
      BY <1>19 DEF MonitorArrives
    <3> QED
      BY <3>1, <3>2, <3>3
  <2>5. SubscriptionKnown'
    BY <1>0, <1>19 DEF MonitorArrives, Data
  <2> QED
    BY <1>0, <2>1, <2>2, <2>3, <2>4, <2>5
<1>20. CASE GetArrives
  <2>1. KnownByTask'
    BY <1>0, <1>20, GetArrivesCounts DEF GetArrives
  <2>2. QuietWithoutChannel'
    BY <1>0, <1>20 DEF GetArrives, Data
  <2>3. RequestsNeedCircuit'
    BY <1>0, <1>20, GetArrivesCounts DEF GetArrives
  <2>4. NewsOnTheWay'
    <3>1. callback.todo = "nothing"
      BY <1>20 DEF GetArrives
    <3>2. \/ callback'.todo = "nothing"
          \/ callback'.todo = "tell value" /\ state = "CONNECTED"
      BY <1>0, <1>20, <3>1, GetArrivesTodo
    <3>3. UNCHANGED <<state, dbr_type, heard, was_connected, task>>
      BY <1>20 DEF GetArrives
    <3> QED
      BY <3>1, <3>2, <3>3
  <2>5. SubscriptionKnown'
    BY <1>0, <1>20 DEF GetArrives, Data
  <2> QED
    BY <1>0, <2>1, <2>2, <2>3, <2>4, <2>5
<1>21. CASE GetFails
  <2>1. KnownByTask'
    BY <1>0, <1>21 DEF GetFails, Data
  <2>2. QuietWithoutChannel'
    BY <1>0, <1>21 DEF GetFails, Data
  <2>3. RequestsNeedCircuit'
    BY <1>0, <1>21 DEF GetFails, Data
  <2>4. NewsOnTheWay'
    BY <1>0, <1>21 DEF GetFails, Data
  <2>5. SubscriptionKnown'
    BY <1>0, <1>21 DEF GetFails, Data
  <2> QED
    BY <1>0, <2>1, <2>2, <2>3, <2>4, <2>5
<1>22. CASE TellValue
  <2>1. KnownByTask'
    BY <1>0, <1>22 DEF TellValue, Data
  <2>2. QuietWithoutChannel'
    BY <1>0, <1>22 DEF TellValue, Data
  <2>3. RequestsNeedCircuit'
    BY <1>0, <1>22 DEF TellValue, Data
  <2>4. NewsOnTheWay'
    BY <1>0, <1>22 DEF TellValue, Data
  <2>5. SubscriptionKnown'
    BY <1>0, <1>22 DEF TellValue, Data
  <2> QED
    BY <1>0, <2>1, <2>2, <2>3, <2>4, <2>5
<1>23. CASE CircuitLost
  <2>1. KnownByTask'
    BY <1>0, <1>23 DEF CircuitLost, Data
  <2>2. QuietWithoutChannel'
    BY <1>0, <1>23 DEF CircuitLost, Data
  <2>3. RequestsNeedCircuit'
    BY <1>0, <1>23 DEF CircuitLost, Data
  <2>4. NewsOnTheWay'
    BY <1>0, <1>23 DEF CircuitLost, Data
  <2>5. SubscriptionKnown'
    BY <1>0, <1>23 DEF CircuitLost, Data
  <2> QED
    BY <1>0, <2>1, <2>2, <2>3, <2>4, <2>5
<1>24. CASE UNCHANGED vars
  BY <1>0, <1>24 DEF vars
<1> QED
  BY <1>1, <1>2, <1>3, <1>4, <1>5, <1>6, <1>7, <1>8, <1>9, <1>10, <1>11, <1>12,
     <1>13, <1>14, <1>15, <1>16, <1>17, <1>18, <1>19, <1>20, <1>21, <1>22, <1>23, <1>24
     DEF Next, EngineThread, MainLoop, CAThread

LEMMA NextGets == IInv /\ [Next]_vars => AllExpected'
<1> SUFFICES ASSUME Known, Room, AllExpected, [Next]_vars,
                    id', ~ev_id'
             PROVE  GetsCounted'
  BY DEF IInv, AllExpected
<1>0. Counters /\ Counters'
  BY TypeParts, NextCounters DEF Known
<1>a. id /\ ~ev_id => GetsCounted
  BY DEF AllExpected
<1>b. id => task = "running"
  BY DEF Known, KnownByTask
<1> HIDE DEF Known, GetsCounted, Counters
<1> USE DEF At, Doing, Scanning, CallbackMayRun, member, thread, ca
<1>1. CASE Start
  BY <1>1, <1>b DEF Start
<1>2. CASE CreateChannel
  BY <1>2, <1>a, SameIsCounted DEF CreateChannel
<1>3. CASE StoreId
  <2>1. getsPending = 0 /\ scan # "live"
    BY <1>3 DEF Known, KnownByTask, StoreId
  <2>2. UNCHANGED <<outstanding_gets, getsPending, scan>>
    BY <1>3 DEF StoreId
  <2> QED
    BY <1>0, <2>1, <2>2, MaximaAssumption DEF Counters, GetsCounted
<1>4. CASE GetValue
  BY <1>4, <1>a, <1>0, GetValueCounted DEF GetValue
<1>5. CASE IssueGet
  BY <1>5, <1>a, <1>0, IssueGetCounted DEF IssueGet
<1>6. CASE IssueGetOnCleared
  <2>1. GetsCounted
    BY <1>6, <1>a DEF IssueGetOnCleared
  <2>2. UNCHANGED <<outstanding_gets, getsPending>> /\ scan # "live" /\ scan' # "live"
    BY <1>6 DEF IssueGetOnCleared
  <2> QED
    BY <2>1, <2>2 DEF GetsCounted
<1>7. CASE StopBegin
  BY <1>7, <1>b DEF StopBegin
<1>8. CASE ClearSubscription
  BY <1>8, <1>b DEF ClearSubscription
<1>9. CASE ClearChannel
  BY <1>9, <1>b DEF ClearChannel
<1>10. CASE ClearNoChannel
  BY <1>10, <1>a, SameIsCounted DEF ClearNoChannel
<1>11. CASE StopAnnounce
  BY <1>11, <1>a, SameIsCounted DEF StopAnnounce
<1>12. CASE ConnectionUp
  BY <1>12, <1>a, SameIsCounted DEF ConnectionUp
<1>13. CASE ConnectionDown
  BY <1>13, <1>a, SameIsCounted DEF ConnectionDown
<1>14. CASE TellDown
  BY <1>14, <1>a, SameIsCounted DEF TellDown
<1>15. CASE InfoArrives
  BY <1>15, <1>a, SameIsCounted DEF InfoArrives
<1>16. CASE InfoFails
  BY <1>16, <1>a, SameIsCounted DEF InfoFails
<1>17. CASE TellUp
  BY <1>17, <1>a, SameIsCounted DEF TellUp
<1>18. CASE Subscribe
  <2>1. ~ev_id
    BY <1>18, Zenon DEF Subscribe
  <2> QED
    BY <1>18, <2>1, <1>a, SameIsCounted DEF Subscribe
<1>19. CASE MonitorArrives
  BY <1>19, <1>b DEF MonitorArrives, Known, SubscriptionKnown
<1>20. CASE GetArrives
  BY <1>20, <1>a, <1>0, GetArrivesCounted DEF GetArrives
<1>21. CASE GetFails
  BY <1>21, <1>a, <1>0, GetFailsCounted DEF GetFails
<1>22. CASE TellValue
  BY <1>22, <1>a, SameIsCounted DEF TellValue
<1>23. CASE CircuitLost
  BY <1>23, <1>a, <1>0, CircuitLostCounted DEF CircuitLost
<1>24. CASE UNCHANGED vars
  BY <1>24, <1>a, SameIsCounted DEF vars
<1> QED
  BY <1>1, <1>2, <1>3, <1>4, <1>5, <1>6, <1>7, <1>8, <1>9, <1>10, <1>11, <1>12,
     <1>13, <1>14, <1>15, <1>16, <1>17, <1>18, <1>19, <1>20, <1>21, <1>22, <1>23, <1>24
     DEF Next, EngineThread, MainLoop, CAThread

LEMMA NextInv == IInv /\ [Next]_vars => IInv'
BY NextKnown, NextGets DEF IInv
-----------------------------------------------------------------------------
\* IInv is inductive, so that it holds whatever the two threads and CA do.
LEMMA AlwaysInv == Spec => []IInv
BY InitInv, NextInv, PTL DEF Spec

\* Every variable of the PV keeps its type and the counts stay in their
\* bounds: in particular outstanding_gets does not pass below zero, whatever
\* answers arrive (value_callback).
THEOREM PvTypeOK == Spec => []TypeOK
<1>1. IInv => TypeOK
  BY DEF IInv, Known
<1> QED
  BY <1>1, AlwaysInv, PTL

\* value_callback hands no value to listeners that have not been told of the
\* connection or have been told of its loss, for a type that setup_ctrl_info
\* handles.
THEOREM NoEarlyValue == Spec => []NoValueWhileDisconnected
<1>1. IInv => NoValueWhileDisconnected
  BY DEF IInv, Known, NewsOnTheWay, NoValueWhileDisconnected
<1> QED
  BY <1>1, AlwaysInv, PTL

\* When stop() has returned no callback is running or can come, nothing is
\* subscribed or unanswered, the listeners have been told, and a `get' that the
\* main loop has begun has the id of no channel.
THEOREM StopIsQuiet == Spec => []StoppedIsQuiet
<1>1. IInv => StoppedIsQuiet
  <2> SUFFICES ASSUME IInv, task = "stopped"
               PROVE  /\ ~channel /\ callback = Nothing /\ monitor = NoType
                      /\ ~id /\ ~ev_id
                      /\ heard = "disconnected"
                      /\ getsPending = 0 /\ scan # "live"
    BY DEF StoppedIsQuiet
  <2>1. ~channel /\ ~id /\ ~ev_id /\ state # "CONNECTED"
    BY DEF IInv, Known, KnownByTask, Stopping
  <2>2. callback = Nothing /\ monitor = NoType /\ circuit = "down" /\ scan # "live"
    BY <2>1 DEF IInv, Known, QuietWithoutChannel
  <2>3. callback.todo # "tell down"
    BY <2>2, NothingTodo
  <2>4. heard # "connected"
    BY <2>1, <2>3 DEF IInv, Known, NewsOnTheWay, LeftConnected, Stopping
  <2>5. getsPending = 0
    BY <2>2 DEF IInv, Known, RequestsNeedCircuit
  <2> QED
    BY <2>1, <2>2, <2>4, <2>5 DEF IInv, Known, TypeOK
<1> QED
  BY <1>1, AlwaysInv, PTL

\* subscribe() and unsubscribe(), called by either thread, leak no
\* subscription, whether CA grants it or not: the PV has an event id exactly
\* when CA has a monitor, except within stop().
THEOREM NoSubscriptionLeaks == Spec => []SubscriptionKnown
<1>1. IInv => SubscriptionKnown
  BY DEF IInv, Known
<1> QED
  BY <1>1, AlwaysInv, PTL

\* getValue() and value_callback count so that no valid answer to a request is
\* turned away while the PV is connected: not after the loss of a circuit or
\* of an answer, not for a request issued long after it was counted, and not
\* because monitors were counted in its place.
THEOREM GetsAreExpected == Spec => GetsExpected
<1>1. IInv /\ [Next]_vars =>
        [GetArrives /\ state = "CONNECTED" => callback'.todo = "tell value"]_vars
  <2> SUFFICES ASSUME IInv, GetArrives, state = "CONNECTED"
               PROVE  callback'.todo = "tell value"
    OBVIOUS
  <2>1. id
    BY DEF IInv, Known, KnownByTask
  <2>2. outstanding_gets > 0 \/ ev_id
    <3> SUFFICES ASSUME ~ev_id
                 PROVE  outstanding_gets > 0
      OBVIOUS
    <3>1. Counters /\ GetsCounted
      BY <2>1, TypeParts DEF IInv, Known, AllExpected
    <3>2. getsPending > 0
      BY DEF GetArrives
    <3> QED
      BY <3>1, <3>2, MaximaAssumption DEF Counters, GetsCounted
  <2>3. PICK type \in Types : ValueCallback(type)
    BY DEF GetArrives
  <2>4. callback' = [todo |-> "tell value", type |-> type]
    BY <2>2, <2>3, Zenon DEF ValueCallback, Accepted
  <2> QED
    BY <2>4
<1> QED
  BY <1>1, AlwaysInv, PTL DEF Spec, GetsExpected
============================================================================
