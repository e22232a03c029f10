---------------------------- MODULE BoundedQueue ----------------------------
(***************************************************************************)
(* What the sample buffer of a channel promises: a first-in first-out      *)
(* queue of bounded capacity that, when it is full, drops its OLDEST       *)
(* element to make room for a new one, and counts what it dropped.         *)
(* Reallocating or resetting it forgets everything.                        *)
(***************************************************************************)
EXTENDS Naturals, Sequences

CONSTANTS
    Values,      \* what can be queued
    Nothing,     \* what removing from an empty queue returns
    Sizes        \* the capacities a queue can be allocated with

VARIABLES
    queue,       \* the queued elements, oldest first
    capacity,    \* how many elements fit
    dropped,     \* how many were dropped since the last Allocate or Reset
    removed      \* result of the last Remove

qvars == <<queue, capacity, dropped, removed>>

Init ==
    /\ queue = <<>>
    /\ capacity = 0
    /\ dropped = 0
    /\ removed = Nothing

Allocate(n) ==
    /\ queue' = <<>>
    /\ capacity' = n
    /\ dropped' = 0
    /\ UNCHANGED removed

Add(v) ==
    /\ IF Len(queue) < capacity
       THEN queue' = Append(queue, v) /\ dropped' = dropped
       ELSE queue' = Tail(Append(queue, v)) /\ dropped' = dropped + 1
    /\ UNCHANGED <<capacity, removed>>

Remove ==
    /\ IF queue = <<>>
       THEN removed' = Nothing /\ queue' = queue
       ELSE removed' = Head(queue) /\ queue' = Tail(queue)
    /\ UNCHANGED <<capacity, dropped>>

Reset ==
    /\ queue' = <<>>
    /\ dropped' = 0
    /\ UNCHANGED <<capacity, removed>>

Next ==
    \/ \E n \in Sizes : Allocate(n)
    \/ \E v \in Values : Add(v)
    \/ Remove
    \/ Reset

Spec == Init /\ [][Next]_qvars
=============================================================================
