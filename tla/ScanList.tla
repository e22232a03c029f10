------------------------------ MODULE ScanList ------------------------------
(***************************************************************************)
(* The ScanList of the engine: a ConcurrentList of SinglePeriodScanLists,  *)
(* each a ConcurrentList of the mechanisms that are due at its period.     *)
(*                                                                         *)
(* Engine::process() scans without the lock of the engine                  *)
(* (Engine.cpp:198-203).  Meanwhile other threads put mechanisms on the    *)
(* list and take them off: the HTTP threads, whose commands stop and start *)
(* the engine, and with the option `disconnect' the CA thread, on which a  *)
(* disabling value stops and starts a channel.  Each method of a           *)
(* ConcurrentList locks that list; between two of them nothing is locked.  *)
(* A step that goes through the pointer to a SinglePeriodScanList which    *)
(* was deleted sets `dangling', and the model ends.                        *)
(***************************************************************************)
EXTENDS Integers, Sequences, SequencesExt

CONSTANTS Items,     \* the mechanisms that are scanned
          Periods,   \* in seconds, at least 1
          Callers,   \* threads that start and stop mechanisms
          None,      \* the item of a list element that was removed
          MaxTime,   \* bound of the model on the clock
          MaxCalls   \* bound of the model on calls of add() and remove()

VARIABLES
    clock,
    lists,           \* the elements of the ConcurrentList of lists
    memory,          \* every SinglePeriodScanList ever made; a list is its index
    next_list_scan,
    started,         \* the mechanisms that were started
    calls,
    at,              \* where each caller is in add() or remove()
    scanner,         \* where the main loop is in scan()
    dangling         \* a list was used after it was deleted

vars == <<clock, lists, memory, next_list_scan, started, calls, at, scanner, dangling>>

nullTime == 0

------------------------------------------------------------------------------
\* ConcurrentPtrList: elements are never unlinked, their item is cleared, and
\* the first one without item is used again.
EmptyList(s) == \A i \in 1 .. Len(s) : s[i] = None

FirstOf(s, item) == SelectInSeq(s, LAMBDA e : e = item)

WithItem(s, item) ==
    IF FirstOf(s, None) = 0
    THEN Append(s, item)
    ELSE ReplaceAt(s, FirstOf(s, None), item)

WithoutItem(s, item) ==
    IF FirstOf(s, item) = 0 THEN s ELSE ReplaceAt(s, FirstOf(s, item), None)

\* An iterator holds the item it will return and the element after it, 0 at
\* the end: what is appended later is not reached.
Reach(s, element) ==
    LET left == IF element = 0 THEN <<>> ELSE SubSeq(s, element, Len(s))
        i    == SelectInSeq(left, LAMBDA e : e # None)
    IN  IF i = 0 THEN [item |-> None, next |-> 0]
        ELSE [item |-> left[i],
              next |-> IF i = Len(left) THEN 0 ELSE element + i]

Iterator(s) == Reach(s, IF s = <<>> THEN 0 ELSE 1)

------------------------------------------------------------------------------
\* SinglePeriodScanList::computeNextScantime()
RoundTimeUp(time, period) == ((time \div period) + 1) * period

NextScantime(last, period) ==
    IF last + period < clock THEN RoundTimeUp(clock, period) ELSE last + period

NewList(period) ==
    [period |-> period, items |-> <<>>, deleted |-> FALSE,
     next_scan |-> NextScantime(nullTime, period)]

Idle == [pc |-> "idle", op |-> "none", item |-> None, period |-> 0, first |-> FALSE,
         list |-> None, it |-> Iterator(<<>>), due |-> 0]
Resting == [pc |-> "idle", deadline |-> 0, it |-> Iterator(<<>>), list |-> None,
            inner |-> Iterator(<<>>), due |-> nullTime]

Init ==
    /\ clock = 1 /\ lists = <<>> /\ memory = <<>> /\ next_list_scan = nullTime
    /\ started = {} /\ calls = 0
    /\ at = [t \in Callers |-> Idle]
    /\ scanner = Resting
    /\ dangling = FALSE

At(t, pc) == ~dangling /\ at[t].pc = pc
Go(t, pc) == at' = [at EXCEPT ![t].pc = pc]
Use(list) == dangling' = memory[list].deleted

------------------------------------------------------------------------------
\* ScanList::remove().  The lock of the mechanism is held from stop() on, so
\* that no two threads call for the same mechanism.
Call(t, item) ==
    /\ At(t, "idle") /\ calls < MaxCalls
    /\ \A u \in Callers : at[u].item # item
    /\ calls' = calls + 1

BeginRemove(t, item) ==
    /\ Call(t, item) /\ item \in started
    /\ started' = started \ {item}
    /\ at' = [at EXCEPT ![t] = [Idle EXCEPT !.pc = "next", !.op = "remove", !.item = item,
                                            !.it = Iterator(lists)]]
    /\ UNCHANGED <<clock, lists, memory, next_list_scan, scanner, dangling>>

NextList(t) ==
    /\ At(t, "next")
    /\ LET a == at[t]
       IN  at' = [at EXCEPT ![t] =
                  IF a.it.item # None
                  THEN [a EXCEPT !.pc = "take", !.list = a.it.item,
                                 !.it = Reach(lists, a.it.next)]
                  ELSE IF a.op = "add" THEN [a EXCEPT !.pc = "find"] ELSE Idle]
    /\ UNCHANGED <<clock, lists, memory, next_list_scan, started, calls, scanner, dangling>>

TakeItem(t) ==
    /\ At(t, "take")
    /\ memory' = [memory EXCEPT ![at[t].list].items = WithoutItem(@, at[t].item)]
    /\ Go(t, "empty") /\ Use(at[t].list)
    /\ UNCHANGED <<clock, lists, next_list_scan, started, calls, scanner>>

IsEmpty(t) ==
    /\ At(t, "empty")
    /\ Go(t, IF EmptyList(memory[at[t].list].items) THEN "unlist" ELSE "next")
    /\ Use(at[t].list)
    /\ UNCHANGED <<clock, lists, memory, next_list_scan, started, calls, scanner>>

\* lists.remove() throws when another thread has taken the list off.
Unlist(t) ==
    /\ At(t, "unlist")
    /\ lists' = WithoutItem(lists, at[t].list)
    /\ IF FirstOf(lists, at[t].list) = 0
       THEN at' = [at EXCEPT ![t] = Idle]
       ELSE Go(t, "delete")
    /\ UNCHANGED <<clock, memory, next_list_scan, started, calls, scanner, dangling>>

Delete(t) ==
    /\ At(t, "delete")
    /\ memory' = [memory EXCEPT ![at[t].list].deleted = TRUE]
    /\ Go(t, "next")
    /\ UNCHANGED <<clock, lists, next_list_scan, started, calls, scanner, dangling>>

------------------------------------------------------------------------------
\* ScanList::add() looks whether it adds the first item, removes the item from
\* wherever it is, and puts it on the list of its period.
BeginAdd(t, item, period) ==
    /\ Call(t, item) /\ item \notin started
    /\ started' = started \cup {item}
    /\ at' = [at EXCEPT ![t] = [Idle EXCEPT !.pc = "remove", !.op = "add", !.item = item,
                                            !.period = period, !.first = EmptyList(lists)]]
    /\ UNCHANGED <<clock, lists, memory, next_list_scan, scanner, dangling>>

\* The iterators of remove() and of the search for the period.
Iterate(t) ==
    /\ \E step \in {<<"remove", "next">>, <<"find", "search">>} :
         /\ At(t, step[1])
         /\ at' = [at EXCEPT ![t].pc = step[2], ![t].it = Iterator(lists)]
    /\ UNCHANGED <<clock, lists, memory, next_list_scan, started, calls, scanner, dangling>>

SearchNext(t) ==
    /\ At(t, "search")
    /\ LET a == at[t]
       IN  at' = [at EXCEPT ![t] =
                  IF a.it.item = None THEN [a EXCEPT !.pc = "new"]
                  ELSE [a EXCEPT !.pc = "compare", !.list = a.it.item,
                                 !.it = Reach(lists, a.it.next)]]
    /\ UNCHANGED <<clock, lists, memory, next_list_scan, started, calls, scanner, dangling>>

ComparePeriod(t) ==
    /\ At(t, "compare")
    /\ Go(t, IF memory[at[t].list].period = at[t].period THEN "put" ELSE "search")
    /\ Use(at[t].list)
    /\ UNCHANGED <<clock, lists, memory, next_list_scan, started, calls, scanner>>

AddList(t) ==
    /\ At(t, "new")
    /\ memory' = Append(memory, NewList(at[t].period))
    /\ lists' = WithItem(lists, Len(memory'))
    /\ at' = [at EXCEPT ![t].pc = "put", ![t].list = Len(memory')]
    /\ UNCHANGED <<clock, next_list_scan, started, calls, scanner, dangling>>

PutItem(t) ==
    /\ At(t, "put")
    /\ memory' = [memory EXCEPT ![at[t].list].items = WithItem(@, at[t].item)]
    /\ Go(t, "due") /\ Use(at[t].list)
    /\ UNCHANGED <<clock, lists, next_list_scan, started, calls, scanner>>

ReadDue(t) ==
    /\ At(t, "due")
    /\ at' = [at EXCEPT ![t].pc = "publish", ![t].due = memory[at[t].list].next_scan]
    /\ Use(at[t].list)
    /\ UNCHANGED <<clock, lists, memory, next_list_scan, started, calls, scanner>>

PublishDue(t) ==
    /\ At(t, "publish")
    /\ next_list_scan' = IF at[t].first \/ at[t].due < next_list_scan THEN at[t].due
                         ELSE next_list_scan
    /\ at' = [at EXCEPT ![t] = Idle]
    /\ UNCHANGED <<clock, lists, memory, started, calls, scanner, dangling>>

------------------------------------------------------------------------------
\* Engine::process() and ScanList::scan(), on the main thread.
ScannerAt(pc) == ~dangling /\ scanner.pc = pc

Scan ==
    /\ ScannerAt("idle")
    /\ ~EmptyList(lists) /\ next_list_scan <= clock
    /\ scanner' = [Resting EXCEPT !.pc = "next", !.deadline = clock, !.it = Iterator(lists)]
    /\ UNCHANGED <<clock, lists, memory, next_list_scan, started, calls, at, dangling>>

ScanNext ==
    /\ ScannerAt("next")
    /\ IF scanner.it.item = None
       THEN /\ next_list_scan' = scanner.due
            /\ scanner' = Resting
       ELSE /\ scanner' = [scanner EXCEPT !.pc = "due?", !.list = scanner.it.item,
                                          !.it = Reach(lists, @.next)]
            /\ UNCHANGED next_list_scan
    /\ UNCHANGED <<clock, lists, memory, started, calls, at, dangling>>

ScanIfDue ==
    /\ ScannerAt("due?")
    /\ LET l == memory[scanner.list]
       IN  scanner' = IF scanner.deadline >= l.next_scan
                      THEN [scanner EXCEPT !.pc = "items", !.inner = Iterator(l.items)]
                      ELSE [scanner EXCEPT !.pc = "earliest"]
    /\ Use(scanner.list)
    /\ UNCHANGED <<clock, lists, memory, next_list_scan, started, calls, at>>

ScanItem ==
    /\ ScannerAt("items")
    /\ scanner' = IF scanner.inner.item = None THEN [scanner EXCEPT !.pc = "compute"]
                  ELSE [scanner EXCEPT !.inner = Reach(memory[scanner.list].items, @.next)]
    /\ Use(scanner.list)
    /\ UNCHANGED <<clock, lists, memory, next_list_scan, started, calls, at>>

ComputeNext ==
    /\ ScannerAt("compute")
    /\ memory' = [memory EXCEPT ![scanner.list].next_scan =
                                    NextScantime(@, memory[scanner.list].period)]
    /\ scanner' = [scanner EXCEPT !.pc = "earliest"]
    /\ Use(scanner.list)
    /\ UNCHANGED <<clock, lists, next_list_scan, started, calls, at>>

Earliest ==
    /\ ScannerAt("earliest")
    /\ LET due == memory[scanner.list].next_scan
       IN  scanner' = [scanner EXCEPT !.pc = "next",
                          !.due = IF @ = nullTime \/ @ > due THEN due ELSE @]
    /\ Use(scanner.list)
    /\ UNCHANGED <<clock, lists, memory, next_list_scan, started, calls, at>>

Tick ==
    /\ ~dangling /\ clock < MaxTime
    /\ clock' = clock + 1
    /\ UNCHANGED <<lists, memory, next_list_scan, started, calls, at, scanner, dangling>>

Next ==
    \/ \E t \in Callers :
         \/ \E item \in Items : \/ BeginRemove(t, item)
                               \/ \E p \in Periods : BeginAdd(t, item, p)
         \/ NextList(t) \/ TakeItem(t) \/ IsEmpty(t) \/ Unlist(t) \/ Delete(t)
         \/ Iterate(t) \/ SearchNext(t) \/ ComparePeriod(t) \/ AddList(t)
         \/ PutItem(t) \/ ReadDue(t) \/ PublishDue(t)
    \/ Scan \/ ScanNext \/ ScanIfDue \/ ScanItem \/ ComputeNext \/ Earliest
    \/ Tick

Spec == Init /\ [][Next]_vars

------------------------------------------------------------------------------
\* "The ScanList is self-protecting against concurrent access" (ScanList.h:38):
\* no thread goes on with a list that another one has deleted
\* (ScanList.cpp:186).
SelfProtecting == ~dangling
==============================================================================
