------------------------ MODULE ArchiveChannelProofs ------------------------
(***************************************************************************)
(* Proofs about ArchiveChannel: who uses the mechanism, what the groups    *)
(* and the channel count, and what a stopped engine has written.           *)
(***************************************************************************)
EXTENDS ArchiveChannel, FiniteSetTheorems, TLAPS

\* Positions of a thread in stop() and start().
AtOK == at \in [Threads -> {"out", "waiting", "entered", "pv", "event", "starting"}]

\* Outside its loops over all channels the engine thread is not in stop(), so
\* that a write is not the second use of the mechanism by the same thread.
EngineOut == task \notin {"stop", "configure", "start"} => at["engine"] = "out"

\* The mark is there as long as the mechanism is used.
UsedIsBusy == \A t \in Threads : Uses(t) => busy

IInv == AtOK /\ EngineOut /\ UsedIsBusy /\ MechanismUsedByOne

LEMMA InitUse == Init => IInv
BY DEF Init, IInv, AtOK, EngineOut, UsedIsBusy, MechanismUsedByOne, Uses, Threads

LEMMA StopOrStartUse ==
    ASSUME IInv, NEW t \in Threads, StopOrStart(t)
    PROVE  IInv'
<1>1. CASE StopWaited(t)
  BY <1>1 DEF IInv, AtOK, EngineOut, UsedIsBusy, MechanismUsedByOne, Uses, Threads,
              StopWaited, engine, record
<1>2. CASE StopMechanism(t)
  BY <1>2 DEF IInv, AtOK, EngineOut, UsedIsBusy, MechanismUsedByOne, Uses, Threads,
              StopMechanism, Throw
<1>3. CASE StopPv(t)
  BY <1>3 DEF IInv, AtOK, EngineOut, UsedIsBusy, MechanismUsedByOne, Uses, Threads,
              StopPv, Throw
<1>4. CASE StopEnd(t)
  BY <1>4 DEF IInv, AtOK, EngineOut, UsedIsBusy, MechanismUsedByOne, Uses, Threads,
              StopEnd, engine, record
<1>5. CASE StartPv(t)
  BY <1>5 DEF IInv, AtOK, EngineOut, UsedIsBusy, MechanismUsedByOne, Uses, Threads,
              StartPv, Throw
<1> QED
  BY <1>1, <1>2, <1>3, <1>4, <1>5 DEF StopOrStart

LEMMA CaUse ==
    ASSUME IInv, CaSteps
    PROVE  IInv'
<1>1. CASE StopOrStart("ca")
  BY <1>1, StopOrStartUse DEF Threads
<1>2. ASSUME NEW g \in Groups, DisableGroup(g)
      PROVE  IInv'
  BY <1>2 DEF IInv, AtOK, EngineOut, UsedIsBusy, MechanismUsedByOne, Uses, Threads,
              DisableGroup, Visited, DisableChannel, EnterStop, engine, record
<1>3. ASSUME NEW g \in Groups, EnableGroup(g)
      PROVE  IInv'
  BY <1>3 DEF IInv, AtOK, EngineOut, UsedIsBusy, MechanismUsedByOne, Uses, Threads,
              EnableGroup, Visited, EnableChannel, EnterStart, engine, record
<1>4. CASE CallbackDone
  BY <1>4 DEF IInv, AtOK, EngineOut, UsedIsBusy, MechanismUsedByOne, Uses, Threads,
              CallbackDone, mechanism, engine, record
<1> QED
  BY <1>1, <1>2, <1>3, <1>4 DEF CaSteps

LEMMA EngineUse ==
    ASSUME IInv, EngineSteps
    PROVE  IInv'
<1> USE DEF IInv, AtOK, EngineOut, UsedIsBusy, MechanismUsedByOne, Uses, Threads
<1>1. CASE StopOrStart("engine")
  BY <1>1, StopOrStartUse
<1>2. CASE StopAsserts
  BY <1>2 DEF StopAsserts, Throw, mechanism
<1>3. CASE StopNext
  BY <1>3 DEF StopNext, EnterStop
<1>4. CASE StopDisabler
  BY <1>4 DEF StopDisabler, mechanism
<1>5. CASE StopDone
  BY <1>5 DEF StopDone, mechanism
<1>6. CASE WriteNext
  BY <1>6 DEF WriteNext
<1>7. CASE WriteEnd
  BY <1>7 DEF WriteEnd
<1>8. CASE WriteDone
  BY <1>8 DEF WriteDone, mechanism
<1>9. ASSUME NEW g \in Groups, Configure(g)
      PROVE  IInv'
  BY <1>9 DEF Configure, Throw
<1>10. ASSUME NEW g \in Groups, NEW d \in Disabling, ConfigureDisabler(d, g)
       PROVE  IInv'
  BY <1>10 DEF ConfigureDisabler, DisableChannel, EnterStop, Throw
<1>11. CASE ConfigureFails \/ ConfigureDone
  BY <1>11 DEF ConfigureFails, ConfigureDone, Throw, mechanism
<1>12. CASE StartNext
  BY <1>12 DEF StartNext, EnterStart, Throw
<1>13. CASE StartDone
  BY <1>13 DEF StartDone, mechanism
<1> QED
  BY <1>1, <1>2, <1>3, <1>4, <1>5, <1>6, <1>7, <1>8, <1>9, <1>10, <1>11, <1>12, <1>13
     DEF EngineSteps

LEMMA NextUse == IInv /\ [Next]_vars => IInv'
<1> SUFFICES ASSUME IInv, [Next]_vars
             PROVE  IInv'
  OBVIOUS
<1> USE DEF IInv, AtOK, EngineOut, UsedIsBusy, MechanismUsedByOne, Uses, Threads
<1>1. CASE Sample
  BY <1>1 DEF Sample, engine, record
<1>2. ASSUME NEW d \in Disabling, PvValue(d)
      PROVE  IInv'
  BY <1>2 DEF PvValue, mechanism, engine, record
<1>3. CASE BeginCycle
  BY <1>3 DEF BeginCycle, mechanism
<1>4. ASSUME NEW c \in {"restart", "configure", "exit"}, BeginCommand(c)
      PROVE  IInv'
  BY <1>4 DEF BeginCommand, mechanism
<1>5. CASE UNCHANGED vars
  BY <1>5 DEF vars, mechanism, engine, record
<1> QED
  BY <1>1, <1>2, <1>3, <1>4, <1>5, CaUse, EngineUse DEF Next

\* However the main loop, the commands, the exit and the callbacks of the
\* disabling channels interleave in ArchiveChannel::stop and write, no two
\* threads use the unlocked mechanism together.
THEOREM MechanismExclusive == Spec => []MechanismUsedByOne
<1>1. IInv => MechanismUsedByOne
  BY DEF IInv
<1> QED
  BY <1>1, InitUse, NextUse, PTL DEF Spec
-----------------------------------------------------------------------------
\* The disabled ones of the groups of Channel.
Off == { g \in groups : group_count[g] > 0 }

\* Types of what is counted.
CountTypes ==
    /\ groups \in SUBSET Groups
    /\ group_count \in [Groups -> Nat]
    /\ filtering \in BOOLEAN

\* The channel counts its disabled groups, and its filter is closed only when
\* these are all; without the first, enable() and disable() could not tell.
\* Every loop over members that skips the channel takes the count one away.
CInv ==
    /\ CountTypes
    /\ disable_count \in Nat /\ cuts \in Nat
    /\ disable_count <= Cardinality(Off) + cuts
    /\ cuts = 0 => /\ disable_count = Cardinality(Off)
                   /\ filtering => Off = groups

\* Loops are cut short only by the stop() and start() of members.
CutsInv ==
    /\ cuts \in 0 .. MaxCuts
    /\ disconnect = FALSE => cuts = 0

\* There are finitely many groups: counts of groups are numbers, and equal
\* only if the groups are the same.
LEMMA GroupsCounted ==
    ASSUME NEW S \in SUBSET Groups, NEW T \in SUBSET S
    PROVE  /\ IsFiniteSet(T)
           /\ Cardinality(S) \in Nat /\ Cardinality(T) \in Nat
           /\ Cardinality(T) = Cardinality(S) => T = S
<1>1. IsFiniteSet(S)
  BY NamesAssumption, FS_Subset
<1> QED
  BY <1>1, FS_Subset, FS_CardinalityType

LEMMA InitCounts == Init => CInv
<1> SUFFICES ASSUME Init
             PROVE  CInv
  OBVIOUS
<1>1. Off = {}
  BY DEF Init, Off
<1>2. CountTypes
  BY Zenon DEF Init, CountTypes
<1>3. filtering = FALSE /\ disable_count = 0 /\ cuts = 0
  BY DEF Init
<1> QED
  BY <1>1, <1>2, <1>3, FS_EmptySet DEF CInv

\* Cardinalities of the disabled groups.
LEMMA OffCounted ==
    ASSUME CountTypes
    PROVE  /\ Off \in SUBSET groups /\ groups \in SUBSET Groups
           /\ IsFiniteSet(Off) /\ Cardinality(Off) \in Nat /\ Cardinality(groups) \in Nat
           /\ Cardinality(Off) = Cardinality(groups) => Off = groups
<1>1. Off \in SUBSET groups /\ groups \in SUBSET Groups
  BY DEF CountTypes, Off
<1> QED
  BY <1>1, GroupsCounted

\* A group of the channel is disabled by the first to do so.
LEMMA DisableCounts ==
    ASSUME CInv, NEW g \in groups, NEW t \in Threads, group_count[g] = 0,
           group_count' = [group_count EXCEPT ![g] = 1],
           groups' = groups, cuts' \in {cuts, cuts + 1}, DisableChannel(t)
    PROVE  CInv'
<1>1. CountTypes /\ group_count' \in [Groups -> Nat]
  BY DEF CInv, CountTypes
<1>2. Off' = Off \cup {g} /\ g \notin Off
  BY <1>1 DEF CountTypes, Off
<1>3. Cardinality(Off') = Cardinality(Off) + 1
  BY <1>1, <1>2, OffCounted, FS_AddElement
<1>4. /\ disable_count' = disable_count + 1
      /\ filtering' = TRUE \/ filtering' = filtering
      /\ disable_count' # Cardinality(groups) => filtering' = filtering
  BY DEF DisableChannel
<1>5. CountTypes'
  BY <1>1, <1>4, Zenon DEF CountTypes
<1>6. /\ disable_count' \in Nat /\ cuts' \in Nat
      /\ disable_count' <= Cardinality(Off') + cuts'
      /\ cuts' = 0 => cuts = 0 /\ disable_count' = Cardinality(Off')
  BY <1>1, <1>3, <1>4, OffCounted DEF CInv
<1>7. ASSUME cuts' = 0, filtering'
      PROVE  Off' = groups'
  <2>1. CASE disable_count' = Cardinality(groups)
    BY <1>5, <1>6, <1>7, <2>1, GroupsCounted, OffCounted DEF CountTypes, Off
  <2>2. CASE disable_count' # Cardinality(groups)
    BY <1>2, <1>4, <1>6, <1>7, <2>2 DEF CInv
  <2> QED
    BY <2>1, <2>2
<1> QED
  BY <1>5, <1>6, <1>7 DEF CInv

\* A group of the channel is enabled by the last to do so.
LEMMA EnableCounts ==
    ASSUME CInv, NEW g \in groups, group_count[g] = 1,
           group_count' = [group_count EXCEPT ![g] = 0],
           groups' = groups, cuts' \in {cuts, cuts + 1}, EnableChannel
    PROVE  CInv'
<1>1. CountTypes /\ group_count' \in [Groups -> Nat]
  BY DEF CInv, CountTypes
<1>2. Off' = Off \ {g} /\ g \in Off
  BY <1>1 DEF CountTypes, Off
<1>3. Cardinality(Off') = Cardinality(Off) - 1
  BY <1>1, <1>2, OffCounted, FS_RemoveElement
<1>4. Cardinality(Off) # 0 /\ Cardinality(Off) <= Cardinality(groups)
  BY <1>1, <1>2, OffCounted, FS_EmptySet, FS_Subset, NamesAssumption
<1>5. /\ disable_count' = IF disable_count = 0 THEN 0 ELSE disable_count - 1
      /\ filtering' = FALSE \/ filtering' = filtering
      /\ disable_count # 0 /\ disable_count' # Cardinality(groups) => filtering' = FALSE
  BY DEF EnableChannel
<1>6. CountTypes'
  BY <1>1, <1>5, Zenon DEF CountTypes
<1>7. /\ disable_count' \in Nat /\ cuts' \in Nat
      /\ disable_count' <= Cardinality(Off') + cuts'
      /\ cuts' = 0 => /\ cuts = 0 /\ disable_count' = Cardinality(Off')
                      /\ disable_count # 0 /\ disable_count' # Cardinality(groups)
  BY <1>1, <1>3, <1>4, <1>5, OffCounted DEF CInv
<1> QED
  BY <1>5, <1>6, <1>7 DEF CInv

\* A loop over the members of g is cut short before the turn of the channel.
LEMMA SkipCounts ==
    ASSUME CInv, NEW g \in Groups, NEW n \in Nat,
           group_count' = [group_count EXCEPT ![g] = n],
           cuts' = cuts + 1, UNCHANGED <<groups, disable_count, filtering>>
    PROVE  CInv'
<1>1. CountTypes /\ CountTypes'
  BY DEF CInv, CountTypes
<1>2. Off \subseteq Off' \cup {g} /\ Off' \subseteq Off \cup {g}
  BY <1>1 DEF CountTypes, Off
<1>3. Cardinality(Off) <= Cardinality(Off') + 1
  <2>1. /\ IsFiniteSet(Off) /\ IsFiniteSet(Off')
        /\ Cardinality(Off) \in Nat /\ Cardinality(Off') \in Nat
    <3>1. Off' \in SUBSET groups' /\ groups' \in SUBSET Groups
      BY <1>1 DEF CountTypes, Off
    <3> QED
      BY <1>1, <3>1, OffCounted, GroupsCounted
  <2>2. /\ IsFiniteSet(Off' \cup {g})
        /\ Cardinality(Off' \cup {g}) \in {Cardinality(Off'), Cardinality(Off') + 1}
    BY <2>1, FS_AddElement
  <2>3. Cardinality(Off) <= Cardinality(Off' \cup {g})
    BY <1>2, <2>2, FS_Subset
  <2> QED
    BY <2>1, <2>2, <2>3
<1>4. Cardinality(Off') \in Nat /\ Cardinality(Off) \in Nat
  <2>1. Off' \in SUBSET groups' /\ groups' \in SUBSET Groups
    BY <1>1 DEF CountTypes, Off
  <2> QED
    BY <1>1, <2>1, OffCounted, GroupsCounted
<1>5. /\ disable_count' \in Nat /\ cuts' \in Nat /\ cuts' # 0
      /\ disable_count' <= Cardinality(Off') + cuts'
  BY <1>3, <1>4 DEF CInv
<1> QED
  BY <1>1, <1>5 DEF CInv

\* What leaves the counts of the channel's groups and the filter alone.
LEMMA OtherCounts ==
    ASSUME CInv, group_count' \in [Groups -> Nat],
           \A g \in groups : group_count'[g] > 0 <=> group_count[g] > 0,
           cuts' \in {cuts, cuts + 1},
           UNCHANGED <<groups, disable_count, filtering>>
    PROVE  CInv'
<1>1. Off' = Off
  BY DEF CInv, CountTypes, Off
<1>2. CountTypes /\ CountTypes'
  BY DEF CInv, CountTypes
<1>3. /\ cuts' \in Nat /\ disable_count' <= Cardinality(Off') + cuts'
      /\ cuts' = 0 => cuts = 0
  BY <1>1, <1>2, OffCounted DEF CInv
<1> QED
  BY <1>1, <1>2, <1>3 DEF CInv

LEMMA SameCounts ==
    ASSUME CInv, UNCHANGED <<groups, group_count, disable_count, filtering, cuts>>
    PROVE  CInv'
BY DEF CInv, CountTypes, Off

\* The loops over members, and what they leave.
LEMMA LoopsVisited ==
    ASSUME CInv, NEW g, NEW loop \in Loops, Visited(g, loop)
    PROVE  cuts' \in {cuts, cuts + 1} /\ (loop = "before" => cuts' = cuts + 1)
BY DEF Loops, Visited, CInv

LEMMA DisableGroupCounts ==
    ASSUME CInv, NEW g \in Groups, DisableGroup(g)
    PROVE  CInv'
<1>1. group_count' = [group_count EXCEPT ![g] = @ + 1] /\ groups' = groups
  BY DEF DisableGroup
<1>2. group_count[g] \in Nat /\ group_count'[g] = group_count[g] + 1
  BY <1>1 DEF CInv, CountTypes
<1>3. PICK loop \in Loops :
        /\ Visited(g, loop)
        /\ IF group_count[g] = 0 /\ g \in groups /\ loop # "before"
           THEN DisableChannel("ca")
           ELSE UNCHANGED <<disable_count, filtering, pending, at, busy>>
  BY DEF DisableGroup, Loops
<1>4. cuts' \in {cuts, cuts + 1} /\ (loop = "before" => cuts' = cuts + 1)
  BY <1>3, LoopsVisited
<1>5. CASE group_count[g] = 0 /\ g \in groups /\ loop # "before"
  <2>1. group_count' = [group_count EXCEPT ![g] = 1]
    BY <1>1, <1>5
  <2>2. DisableChannel("ca")
    BY <1>3, <1>5
  <2> QED
    BY <1>1, <1>4, <1>5, <2>1, <2>2, DisableCounts DEF Threads
<1>6. CASE loop = "before"
  <2>1. group_count' = [group_count EXCEPT ![g] = group_count[g] + 1]
    BY <1>1
  <2>2. group_count[g] + 1 \in Nat
    BY <1>2
  <2>3. UNCHANGED <<groups, disable_count, filtering>>
    BY <1>1, <1>3, <1>6
  <2> QED
    BY <1>4, <1>6, <2>1, <2>2, <2>3, SkipCounts
<1>7. CASE ~(group_count[g] = 0 /\ g \in groups) /\ loop # "before"
  <2>1. UNCHANGED <<groups, disable_count, filtering>>
    BY <1>1, <1>3, <1>7
  <2>2. group_count' \in [Groups -> Nat]
    BY <1>1, <1>2 DEF CInv, CountTypes
  <2>3. \A h \in groups : group_count'[h] > 0 <=> group_count[h] > 0
    BY <1>1, <1>2, <1>7 DEF CInv, CountTypes
  <2> QED
    BY <1>4, <2>1, <2>2, <2>3, OtherCounts
<1> QED
  BY <1>5, <1>6, <1>7

LEMMA EnableGroupCounts ==
    ASSUME CInv, NEW g \in Groups, EnableGroup(g)
    PROVE  CInv'
<1>1. /\ group_count' = [group_count EXCEPT ![g] = IF @ = 0 THEN 0 ELSE @ - 1]
      /\ groups' = groups
  BY DEF EnableGroup
<1>2. group_count[g] \in Nat /\ (IF group_count[g] = 0 THEN 0 ELSE group_count[g] - 1) \in Nat
  BY DEF CInv, CountTypes
<1>3. PICK loop \in Loops :
        /\ Visited(g, loop)
        /\ IF group_count[g] = 1 /\ g \in groups /\ loop # "before"
           THEN EnableChannel
           ELSE UNCHANGED <<disable_count, filtering, pending, running, at>>
  BY DEF EnableGroup, Loops
<1>4. cuts' \in {cuts, cuts + 1} /\ (loop = "before" => cuts' = cuts + 1)
  BY <1>3, LoopsVisited
<1>5. CASE group_count[g] = 1 /\ g \in groups /\ loop # "before"
  <2>1. group_count' = [group_count EXCEPT ![g] = 0]
    BY <1>1, <1>5
  <2>2. EnableChannel
    BY <1>3, <1>5
  <2> QED
    BY <1>1, <1>4, <1>5, <2>1, <2>2, EnableCounts
<1>6. CASE loop = "before"
  BY <1>1, <1>2, <1>3, <1>4, <1>6, SkipCounts
<1>7. CASE ~(group_count[g] = 1 /\ g \in groups) /\ loop # "before"
  <2>1. UNCHANGED <<groups, disable_count, filtering>>
    BY <1>1, <1>3, <1>7
  <2>2. group_count' \in [Groups -> Nat]
    BY <1>1, <1>2 DEF CInv, CountTypes
  <2>3. \A h \in groups : group_count'[h] > 0 <=> group_count[h] > 0
    BY <1>1, <1>2, <1>7 DEF CInv, CountTypes
  <2> QED
    BY <1>4, <2>1, <2>2, <2>3, OtherCounts
<1> QED
  BY <1>5, <1>6, <1>7

\* configure() opens the filter, and addToGroup() closes it if the new group
\* is disabled like all others.
LEMMA ConfigureCounts ==
    ASSUME CInv, NEW g \in Groups, Configure(g)
    PROVE  CInv'
<1>1. group_count' = group_count /\ cuts' = cuts
  BY DEF Configure
<1>2. CASE running
  BY <1>1, <1>2, SameCounts DEF Configure
<1>3. CASE ~running
  <2>1. groups' = groups \cup {g} /\ groups' \in SUBSET Groups
    BY <1>3 DEF Configure, CInv, CountTypes
  <2>2. CountTypes /\ Off' \in SUBSET groups'
    BY DEF Off, CInv
  <2>3. CASE g \notin groups /\ group_count[g] > 0
    <3>1. Off' = Off \cup {g} /\ g \notin Off
      BY <1>1, <2>1, <2>3 DEF Off
    <3>2. /\ disable_count' = disable_count + 1
          /\ filtering' = (disable_count' = Cardinality(groups'))
      BY <1>3, <2>3 DEF Configure
    <3>3. Cardinality(Off') = Cardinality(Off) + 1
      BY <2>2, <3>1, OffCounted, FS_AddElement
    <3>4. /\ disable_count' \in Nat
          /\ disable_count' <= Cardinality(Off') + cuts'
          /\ cuts' = 0 => disable_count' = Cardinality(Off')
      BY <1>1, <2>2, <3>2, <3>3, OffCounted DEF CInv
    <3>5. cuts' = 0 /\ filtering' => Off' = groups'
      BY <2>1, <2>2, <3>2, <3>4, GroupsCounted
    <3>6. CountTypes'
      BY <1>1, <2>1, <2>2, <3>2 DEF CountTypes
    <3> QED
      BY <1>1, <3>4, <3>5, <3>6 DEF CInv
  <2>4. CASE ~(g \notin groups /\ group_count[g] > 0)
    <3>1. Off' = Off
      BY <1>1, <2>1, <2>4 DEF Off
    <3>2. disable_count' = disable_count /\ filtering' = FALSE
      BY <1>3, <2>4 DEF Configure
    <3> QED
      BY <1>1, <2>1, <3>1, <3>2 DEF CInv, CountTypes
  <2> QED
    BY <2>3, <2>4
<1> QED
  BY <1>2, <1>3

LEMMA ConfigureDisablerCounts ==
    ASSUME CInv, NEW g \in Groups, NEW d \in Disabling, ConfigureDisabler(d, g)
    PROVE  CInv'
<1> DEFINE right_away == disabling[d] /\ g \notin disable_groups[d]
<1>1. /\ group_count' = [group_count EXCEPT ![g] = IF right_away THEN @ + 1 ELSE @]
      /\ groups' = groups
  BY DEF ConfigureDisabler
<1>2. group_count[g] \in Nat /\ group_count'[g] \in {group_count[g], group_count[g] + 1}
  BY <1>1 DEF CInv, CountTypes
<1>3. CASE group_count[g] = 0 /\ group_count'[g] = 1
  <2>1. group_count' = [group_count EXCEPT ![g] = 1]
    BY <1>1, <1>3 DEF CInv, CountTypes
  <2>2. CASE g \in groups /\ DisableChannel("engine") /\ cuts' = cuts
    BY <1>1, <1>3, <2>1, <2>2, DisableCounts DEF Threads
  <2>3. CASE g \notin groups /\ UNCHANGED <<disable_count, filtering, cuts>>
    <3>1. group_count' \in [Groups -> Nat]
      BY <2>1 DEF CInv, CountTypes
    <3>2. \A h \in groups : group_count'[h] > 0 <=> group_count[h] > 0
      BY <2>1, <2>3 DEF CInv, CountTypes
    <3> QED
      BY <1>1, <2>3, <3>1, <3>2, OtherCounts
  <2>4. CASE UNCHANGED <<disable_count, filtering>> /\ cuts' = cuts + 1
    BY <1>1, <2>1, <2>4, SkipCounts
  <2>5. \/ g \in groups /\ DisableChannel("engine") /\ cuts' = cuts
        \/ g \notin groups /\ UNCHANGED <<disable_count, filtering, cuts>>
        \/ UNCHANGED <<disable_count, filtering>> /\ cuts' = cuts + 1
    BY <1>3 DEF ConfigureDisabler
  <2> QED
    BY <2>2, <2>3, <2>4, <2>5
<1>4. CASE ~(group_count[g] = 0 /\ group_count'[g] = 1)
  <2>1. UNCHANGED <<groups, disable_count, filtering, cuts>>
    BY <1>4 DEF ConfigureDisabler
  <2>2. group_count' \in [Groups -> Nat]
    BY <1>1, <1>2 DEF CInv, CountTypes
  <2>3. \A h \in groups : group_count'[h] > 0 <=> group_count[h] > 0
    BY <1>1, <1>2, <1>4 DEF CInv, CountTypes
  <2> QED
    BY <2>1, <2>2, <2>3, OtherCounts
<1> QED
  BY <1>3, <1>4

LEMMA StopOrStartCounts ==
    ASSUME CInv, NEW t \in Threads, StopOrStart(t)
    PROVE  CInv'
<1>1. UNCHANGED <<groups, group_count, disable_count, filtering, cuts>>
  BY DEF StopOrStart, StopWaited, StopMechanism, StopPv, StopEnd, StartPv, counts, faults
<1> QED
  BY <1>1, SameCounts

LEMMA NextCounts == CInv /\ [Next]_vars => CInv'
<1> SUFFICES ASSUME CInv, [Next]_vars
             PROVE  CInv'
  OBVIOUS
<1>1. CASE CaSteps
  <2>1. CASE StopOrStart("ca")
    BY <2>1, StopOrStartCounts DEF Threads
  <2>2. CASE CallbackDone
    BY <2>2, SameCounts DEF CallbackDone, mechanism, counts, faults
  <2> QED
    BY <1>1, <2>1, <2>2, DisableGroupCounts, EnableGroupCounts DEF CaSteps
<1>2. CASE EngineSteps
  <2>1. CASE StopOrStart("engine")
    BY <2>1, StopOrStartCounts DEF Threads
  <2>2. CASE StopAsserts \/ StopNext \/ StopDisabler \/ StopDone
    BY <2>2, SameCounts DEF StopAsserts, StopNext, StopDisabler, StopDone,
                         mechanism, counts, faults
  <2>3. CASE WriteNext \/ WriteEnd \/ WriteDone
    BY <2>3, SameCounts DEF WriteNext, WriteEnd, WriteDone, mechanism, counts, faults
  <2>4. CASE ConfigureFails \/ ConfigureDone \/ StartNext \/ StartDone
    BY <2>4, SameCounts DEF ConfigureFails, ConfigureDone, StartNext, StartDone,
                         mechanism, counts, faults
  <2> QED
    BY <1>2, <2>1, <2>2, <2>3, <2>4, ConfigureCounts, ConfigureDisablerCounts
       DEF EngineSteps
<1>3. CASE Sample
  BY <1>3, SameCounts DEF Sample, counts, faults
<1>4. ASSUME NEW d \in Disabling, PvValue(d)
      PROVE  CInv'
  BY <1>4, SameCounts DEF PvValue, mechanism, counts, faults
<1>5. CASE BeginCycle
  BY <1>5, SameCounts DEF BeginCycle, mechanism, counts, faults
<1>6. ASSUME NEW c \in {"restart", "configure", "exit"}, BeginCommand(c)
      PROVE  CInv'
  BY <1>6, SameCounts DEF BeginCommand, mechanism, counts, faults
<1>7. CASE UNCHANGED vars
  BY <1>7, SameCounts DEF vars, mechanism, counts, faults
<1> QED
  BY <1>1, <1>2, <1>3, <1>4, <1>5, <1>6, <1>7 DEF Next

\* The option does not change.
LEMMA SameOption == [Next]_vars => disconnect' = disconnect
BY DEF Next, vars, options, CaSteps, EngineSteps, StopOrStart, Sample, PvValue, StopWaited,
       StopMechanism, StopPv, StopEnd, StartPv, DisableGroup, EnableGroup, CallbackDone,
       BeginCycle, BeginCommand, StopAsserts, StopNext, StopDisabler, StopDone, WriteNext,
       WriteEnd, WriteDone, Configure, ConfigureDisabler, ConfigureFails, ConfigureDone,
         StartNext, StartDone

LEMMA InitCuts == Init => CutsInv
BY OptionsAssumption DEF Init, CutsInv

LEMMA NextCuts == CutsInv /\ [Next]_vars => CutsInv'
<1> SUFFICES ASSUME CutsInv, [Next]_vars
             PROVE  CutsInv'
  OBVIOUS
<1> USE DEF CutsInv, options
<1>1. ASSUME NEW g \in Groups, DisableGroup(g) \/ EnableGroup(g)
      PROVE  CutsInv'
  BY <1>1, OptionsAssumption DEF DisableGroup, EnableGroup, Loops, Visited
<1>2. ASSUME NEW g \in Groups, NEW d \in Disabling, ConfigureDisabler(d, g)
      PROVE  CutsInv'
  BY <1>2, OptionsAssumption DEF ConfigureDisabler, Loops
<1>3. \/ \E g \in Groups : DisableGroup(g) \/ EnableGroup(g)
      \/ \E g \in Groups : \E d \in Disabling : ConfigureDisabler(d, g)
      \/ UNCHANGED <<disconnect, cuts>>
  BY DEF Next, vars, faults, CaSteps, EngineSteps, StopOrStart, Sample, PvValue, StopWaited,
         StopMechanism, StopPv, StopEnd, StartPv, CallbackDone, BeginCycle, BeginCommand,
         StopAsserts, StopNext, StopDisabler, StopDone, WriteNext, WriteEnd, WriteDone,
         Configure, ConfigureFails, ConfigureDone, StartNext, StartDone
<1> QED
  BY <1>1, <1>2, <1>3

\* GroupInfo and ArchiveChannel count in two places; still the filter of a
\* channel is closed only while every group it belongs to is disabled,
\* whatever is reconfigured and whichever exception its own stop() and start()
\* throw into a callback; only the exception of another member, which keeps it
\* from its turn in GroupInfo::disable() or enable(), can break this.
THEOREM FilterClosedByAll == Spec => []DisabledOnlyByAll
<1>1. Init => disconnect \in BOOLEAN
  BY OptionsAssumption DEF Init
<1>2. CInv /\ CutsInv /\ disconnect \in BOOLEAN => DisabledOnlyByAll
  BY DEF CInv, CountTypes, CutsInv, Off, DisabledOnlyByAll
<1>3. disconnect \in BOOLEAN /\ [Next]_vars => (disconnect \in BOOLEAN)'
  BY SameOption
<1> QED
  BY <1>1, <1>2, <1>3, InitCounts, NextCounts, InitCuts, NextCuts, PTL DEF Spec
-----------------------------------------------------------------------------
(* The groups and the channels that disable them *)

\* The channels that g counts: those that disable it, but not yet the one
\* whose callback is on its way to g, and still the one that is about to
\* enable it.
Counted(g) ==
    { d \in Disabling : /\ g \in disable_groups[d]
                        /\ disabling[d] # (callback.pv = d /\ g \in callback.todo) }

DisablerTypes ==
    /\ group_count \in [Groups -> Nat]
    /\ disable_groups \in [Disabling -> SUBSET Groups]
    /\ disabling \in [Disabling -> BOOLEAN]
    /\ callback \in [pv : Disabling \cup {Nobody}, todo : SUBSET Groups, disables : BOOLEAN]

\* The callback in progress goes to groups of its channel.
CallbackOfDisabler ==
    /\ callback.pv = Nobody => callback.todo = {}
    /\ callback.pv # Nobody => /\ callback.todo \subseteq disable_groups[callback.pv]
                               /\ callback.disables = disabling[callback.pv]

GroupsCount == \A g \in Groups : group_count[g] = Cardinality(Counted(g))

\* Without the option `disconnect' no callback is cut short, for it never
\* enters stop() or start().
GInv ==
    disconnect = FALSE =>
        DisablerTypes /\ CallbackOfDisabler /\ at["ca"] = "out" /\ GroupsCount

LEMMA CountedFinite ==
    ASSUME NEW g
    PROVE  IsFiniteSet(Counted(g)) /\ Cardinality(Counted(g)) \in Nat
<1>1. Counted(g) \in SUBSET Disabling
  BY DEF Counted
<1> QED
  BY <1>1, NamesAssumption, FS_Subset, FS_CardinalityType

LEMMA InitGroups == Init => GInv
<1> SUFFICES ASSUME Init
             PROVE  DisablerTypes /\ CallbackOfDisabler /\ at["ca"] = "out" /\ GroupsCount
  BY DEF GInv
<1>1. DisablerTypes /\ CallbackOfDisabler /\ at["ca"] = "out"
  BY DEF Init, DisablerTypes, CallbackOfDisabler, NoCallback, Threads
<1>2. ASSUME NEW g \in Groups
      PROVE  Counted(g) = {}
  BY DEF Init, NoCallback, Counted
<1>3. GroupsCount
  BY <1>2, FS_EmptySet DEF Init, GroupsCount
<1> QED
  BY <1>1, <1>3

\* What leaves the groups and the disabling channels alone.
LEMMA SameGroups ==
    ASSUME GInv, UNCHANGED <<disconnect, group_count, disable_groups, disabling, callback>>,
           disconnect = FALSE => at'["ca"] = at["ca"]
    PROVE  GInv'
BY DEF GInv, DisablerTypes, CallbackOfDisabler, GroupsCount, Counted

\* A value of d begins a callback: d is counted as before, since it has not
\* come to any of its groups.
LEMMA PvValueGroups ==
    ASSUME GInv, NEW d \in Disabling, PvValue(d)
    PROVE  GInv'
<1> SUFFICES ASSUME disconnect = FALSE
             PROVE  DisablerTypes' /\ CallbackOfDisabler' /\ at'["ca"] = "out" /\ GroupsCount'
  BY DEF GInv, PvValue, options
<1> USE DEF GInv
<1>1. /\ disabling' = [disabling EXCEPT ![d] = ~@]
      /\ callback = NoCallback
      /\ callback' = [pv |-> d, todo |-> disable_groups[d], disables |-> ~disabling[d]]
      /\ UNCHANGED <<group_count, disable_groups, at>>
  BY DEF PvValue, counts
<1>2. DisablerTypes' /\ CallbackOfDisabler' /\ at'["ca"] = "out"
  BY <1>1, NamesAssumption DEF DisablerTypes, CallbackOfDisabler
<1>3. ASSUME NEW g \in Groups
      PROVE  Counted(g)' = Counted(g)
  <2>1. ASSUME NEW e \in Disabling
        PROVE  e \in Counted(g)' <=> e \in Counted(g)
    <3>1. CASE e = d
      BY <1>1, <3>1 DEF Counted, NoCallback, DisablerTypes
    <3>2. CASE e # d
      BY <1>1, <3>2 DEF Counted, NoCallback, DisablerTypes
    <3> QED
      BY <3>1, <3>2
  <2> QED
    BY <2>1 DEF Counted
<1>4. GroupsCount'
  BY <1>1, <1>3 DEF GroupsCount
<1> QED
  BY <1>2, <1>4

\* When the callback of d has come to g, g counts d, or no longer.
LEMMA DisableGroupGroups ==
    ASSUME GInv, NEW g \in Groups, DisableGroup(g)
    PROVE  GInv'
<1> SUFFICES ASSUME disconnect = FALSE
             PROVE  DisablerTypes' /\ CallbackOfDisabler' /\ at'["ca"] = "out" /\ GroupsCount'
  BY DEF GInv, DisableGroup, options
<1> DEFINE d == callback.pv
<1>1. /\ callback.disables /\ g \in callback.todo
      /\ callback' = [callback EXCEPT !.todo = @ \ {g}]
      /\ group_count' = [group_count EXCEPT ![g] = @ + 1]
      /\ UNCHANGED <<disable_groups, disabling>>
  BY DEF DisableGroup, Loops, Visited, disablers, GInv
<1>2. at' = at
  BY DEF DisableGroup, DisableChannel
<1>3. /\ d \in Disabling /\ disabling[d] = TRUE /\ g \in disable_groups[d]
      /\ DisablerTypes
  BY <1>1 DEF GInv, DisablerTypes, CallbackOfDisabler
<1>4. DisablerTypes' /\ CallbackOfDisabler' /\ at'["ca"] = "out"
  <2>1. DisablerTypes'
    BY <1>1, <1>3 DEF DisablerTypes
  <2>2. CallbackOfDisabler'
    BY <1>1, <1>3 DEF GInv, DisablerTypes, CallbackOfDisabler
  <2>3. at'["ca"] = "out"
    BY <1>2 DEF GInv
  <2> QED
    BY <2>1, <2>2, <2>3
<1>5. d \notin Counted(g) /\ Counted(g)' = Counted(g) \cup {d}
  BY <1>1, <1>3 DEF Counted, DisablerTypes
<1>6. ASSUME NEW h \in Groups, h # g
      PROVE  Counted(h)' = Counted(h)
  BY <1>1, <1>3, <1>6 DEF Counted, DisablerTypes
<1>7. group_count'[g] = Cardinality(Counted(g)')
  <2>1. group_count'[g] = Cardinality(Counted(g)) + 1
    BY <1>1, <1>3 DEF GInv, GroupsCount, DisablerTypes
  <2> QED
    BY <1>5, <2>1, CountedFinite, FS_AddElement
<1>8. ASSUME NEW h \in Groups, h # g
      PROVE  group_count'[h] = Cardinality(Counted(h)')
  BY <1>1, <1>3, <1>6, <1>8 DEF GInv, GroupsCount, DisablerTypes
<1> QED
  BY <1>4, <1>7, <1>8 DEF GroupsCount

LEMMA EnableGroupGroups ==
    ASSUME GInv, NEW g \in Groups, EnableGroup(g)
    PROVE  GInv'
<1> SUFFICES ASSUME disconnect = FALSE
             PROVE  DisablerTypes' /\ CallbackOfDisabler' /\ at'["ca"] = "out" /\ GroupsCount'
  BY DEF GInv, EnableGroup, options
<1> DEFINE d == callback.pv
<1>1. /\ d # Nobody /\ ~callback.disables /\ g \in callback.todo
      /\ callback' = [callback EXCEPT !.todo = @ \ {g}]
      /\ group_count' = [group_count EXCEPT ![g] = IF @ = 0 THEN 0 ELSE @ - 1]
      /\ UNCHANGED <<disable_groups, disabling>>
  BY DEF EnableGroup, Loops, Visited, disablers, GInv
<1>2. at' = at
  BY DEF EnableGroup, EnableChannel
<1>3. /\ d \in Disabling /\ disabling[d] = FALSE /\ g \in disable_groups[d]
      /\ DisablerTypes
  BY <1>1 DEF GInv, DisablerTypes, CallbackOfDisabler
<1>4. DisablerTypes' /\ CallbackOfDisabler' /\ at'["ca"] = "out"
  BY <1>1, <1>2, <1>3 DEF GInv, DisablerTypes, CallbackOfDisabler
<1>5. d \in Counted(g) /\ Counted(g)' = Counted(g) \ {d}
  BY <1>1, <1>3 DEF Counted, DisablerTypes
<1>6. ASSUME NEW h \in Groups, h # g
      PROVE  Counted(h)' = Counted(h)
  BY <1>1, <1>3, <1>6 DEF Counted, DisablerTypes
<1>7. group_count'[g] = Cardinality(Counted(g)')
  <2>1. group_count[g] = Cardinality(Counted(g)) /\ group_count[g] # 0
    BY <1>5, CountedFinite, FS_EmptySet DEF GInv, GroupsCount
  <2>2. group_count'[g] = Cardinality(Counted(g)) - 1
    BY <1>1, <1>3, <2>1 DEF DisablerTypes
  <2> QED
    BY <1>5, <2>2, CountedFinite, FS_RemoveElement
<1>8. ASSUME NEW h \in Groups, h # g
      PROVE  group_count'[h] = Cardinality(Counted(h)')
  BY <1>1, <1>3, <1>6, <1>8 DEF GInv, GroupsCount, DisablerTypes
<1> QED
  BY <1>4, <1>7, <1>8 DEF GroupsCount

\* A group that becomes one of d's groups counts d at once if d disables; a
\* callback of d in progress does not come to it.
LEMMA ConfigureDisablerGroups ==
    ASSUME GInv, NEW g \in Groups, NEW d \in Disabling, ConfigureDisabler(d, g)
    PROVE  GInv'
<1> SUFFICES ASSUME disconnect = FALSE
             PROVE  DisablerTypes' /\ CallbackOfDisabler' /\ at'["ca"] = "out" /\ GroupsCount'
  BY DEF GInv, ConfigureDisabler, options
<1> DEFINE right_away == disabling[d] /\ g \notin disable_groups[d]
<1>1. /\ disable_groups' = [disable_groups EXCEPT ![d] = @ \cup {g}]
      /\ group_count' = [group_count EXCEPT ![g] = IF right_away THEN @ + 1 ELSE @]
      /\ UNCHANGED <<disabling, callback>>
  BY DEF ConfigureDisabler, Loops
<1>2. at' = at
  BY DEF ConfigureDisabler, Loops, DisableChannel
<1>3. DisablerTypes /\ CallbackOfDisabler /\ GroupsCount
  BY DEF GInv
<1>4. DisablerTypes' /\ CallbackOfDisabler' /\ at'["ca"] = "out"
  BY <1>1, <1>2, <1>3 DEF GInv, DisablerTypes, CallbackOfDisabler
<1>5. ASSUME NEW h \in Groups, h # g
      PROVE  group_count'[h] = Cardinality(Counted(h)')
  <2>1. Counted(h)' = Counted(h)
    BY <1>1, <1>3, <1>5 DEF Counted, DisablerTypes
  <2> QED
    BY <1>1, <1>3, <1>5, <2>1 DEF GroupsCount, DisablerTypes
<1>6. CASE right_away
  <2>1. ~(callback.pv = d /\ g \in callback.todo)
    BY <1>3, <1>6, NamesAssumption DEF CallbackOfDisabler
  <2>2. d \notin Counted(g) /\ Counted(g)' = Counted(g) \cup {d}
    BY <1>1, <1>3, <1>6, <2>1 DEF Counted, DisablerTypes
  <2>3. group_count'[g] = Cardinality(Counted(g)) + 1
    BY <1>1, <1>3, <1>6 DEF GroupsCount, DisablerTypes
  <2>4. group_count'[g] = Cardinality(Counted(g)')
    BY <2>2, <2>3, CountedFinite, FS_AddElement
  <2> QED
    BY <1>4, <1>5, <2>4 DEF GroupsCount
<1>7. CASE ~right_away
  <2>1. Counted(g)' = Counted(g)
    <3>1. CASE g \in disable_groups[d]
      BY <1>1, <1>3, <3>1 DEF Counted, DisablerTypes
    <3>2. CASE g \notin disable_groups[d]
      <4>1. ~(callback.pv = d /\ g \in callback.todo) /\ disabling[d] = FALSE
        BY <1>3, <1>7, <3>2, NamesAssumption DEF CallbackOfDisabler, DisablerTypes
      <4> QED
        BY <1>1, <1>3, <3>2, <4>1 DEF Counted, DisablerTypes
    <3> QED
      BY <3>1, <3>2
  <2>2. group_count'[g] = group_count[g]
    BY <1>1, <1>3, <1>7 DEF DisablerTypes
  <2> QED
    BY <1>3, <1>4, <1>5, <2>1, <2>2 DEF GroupsCount
<1> QED
  BY <1>6, <1>7

\* Only the engine thread is in stop() and start().
LEMMA StopOrStartGroups ==
    ASSUME GInv, AtOK, NEW t \in Threads, StopOrStart(t)
    PROVE  GInv'
<1>1. UNCHANGED <<disconnect, group_count, disable_groups, disabling>>
  BY DEF StopOrStart, StopWaited, StopMechanism, StopPv, StopEnd, StartPv,
         options, counts, disablers
<1>2. CASE disconnect = FALSE
  <2>1. t = "engine"
    BY <1>2 DEF GInv, Threads, StopOrStart, StopWaited, StopMechanism, StopPv, StopEnd, StartPv
  <2>2. UNCHANGED callback /\ at'["ca"] = at["ca"]
    BY <2>1 DEF AtOK, Threads, StopOrStart, StopWaited, StopMechanism, StopPv, StopEnd,
                StartPv, Throw
  <2> QED
    BY <1>1, <2>2, SameGroups
<1>3. CASE disconnect # FALSE
  BY <1>1, <1>3 DEF GInv
<1> QED
  BY <1>2, <1>3

\* The other steps of the engine thread.
LEMMA EngineGroups ==
    ASSUME GInv, AtOK,
           \/ StopAsserts \/ StopNext \/ StopDisabler \/ StopDone
           \/ WriteNext \/ WriteEnd \/ WriteDone
           \/ \E g \in Groups : Configure(g)
           \/ ConfigureFails \/ ConfigureDone \/ StartNext \/ StartDone
    PROVE  GInv'
<1>1. UNCHANGED <<disconnect, group_count, disable_groups, disabling, callback>>
  BY DEF StopAsserts, StopNext, StopDisabler, StopDone, WriteNext, WriteEnd, WriteDone,
         Configure, ConfigureFails, ConfigureDone, StartNext, StartDone, Throw,
         options, counts, disablers
<1>2. at'["ca"] = at["ca"]
  BY DEF StopAsserts, StopNext, StopDisabler, StopDone, WriteNext, WriteEnd, WriteDone,
         Configure, ConfigureFails, ConfigureDone, StartNext, StartDone, Throw,
         EnterStop, EnterStart,
         AtOK, Threads
<1> QED
  BY <1>1, <1>2, SameGroups

LEMMA NextGroups == GInv /\ AtOK /\ [Next]_vars => GInv'
<1> SUFFICES ASSUME GInv, AtOK, [Next]_vars
             PROVE  GInv'
  OBVIOUS
<1>1. CASE CaSteps
  <2>1. CASE StopOrStart("ca")
    BY <2>1, StopOrStartGroups DEF Threads
  <2>2. CASE CallbackDone
    <3>1. /\ callback.todo = {} /\ callback' = NoCallback
          /\ UNCHANGED <<disconnect, group_count, disable_groups, disabling, at>>
      BY <2>2 DEF CallbackDone, options, counts, disablers
    <3>2. \A g \in Groups : Counted(g)' = Counted(g)
      BY <3>1 DEF Counted, NoCallback
    <3> QED
      BY <3>1, <3>2 DEF GInv, DisablerTypes, CallbackOfDisabler, GroupsCount, NoCallback
  <2> QED
    BY <1>1, <2>1, <2>2, DisableGroupGroups, EnableGroupGroups DEF CaSteps
<1>2. CASE EngineSteps
  <2>1. CASE StopOrStart("engine")
    BY <2>1, StopOrStartGroups DEF Threads
  <2> QED
    BY <1>2, <2>1, EngineGroups, ConfigureDisablerGroups DEF EngineSteps
<1>3. CASE Sample
  BY <1>3, SameGroups DEF Sample, options, counts, disablers
<1>4. ASSUME NEW d \in Disabling, PvValue(d)
      PROVE  GInv'
  BY <1>4, PvValueGroups
<1>5. CASE BeginCycle
  BY <1>5, SameGroups DEF BeginCycle, options, counts, disablers
<1>6. ASSUME NEW c \in {"restart", "configure", "exit"}, BeginCommand(c)
      PROVE  GInv'
  BY <1>6, SameGroups DEF BeginCommand, options, counts, disablers
<1>7. CASE UNCHANGED vars
  BY <1>7, SameGroups DEF vars, options, counts, disablers
<1> QED
  BY <1>1, <1>2, <1>3, <1>4, <1>5, <1>6, <1>7 DEF Next

\* The counts of GroupInfo and of ArchiveChannel agree with who disables
\* what, for any number of groups and of disabling channels, although
\* a callback goes to one group after the other and addChannel() changes the
\* groups meanwhile.  With `disconnect' an exception in the stop() or start()
\* of another member can make the counts of the two disagree, and nothing else.
THEOREM CountsAgreeAlways == Spec => []CountsAgree
<1>1. CInv /\ GInv /\ disconnect \in BOOLEAN => CountsAgree
  <2> SUFFICES ASSUME CInv, GInv, disconnect \in BOOLEAN
               PROVE  CountsAgree
    OBVIOUS
  <2>1. cuts = 0 =>
          disable_count = Cardinality({ g \in groups : group_count[g] > 0 })
    BY DEF CInv, Off
  <2>2. ASSUME ~disconnect, callback = NoCallback, NEW g \in Groups
        PROVE  group_count[g] =
                 Cardinality({ d \in Disabling : disabling[d] /\ g \in disable_groups[d] })
    <3>1. Counted(g) = { d \in Disabling : disabling[d] /\ g \in disable_groups[d] }
      BY <2>2 DEF Counted, NoCallback, GInv, DisablerTypes
    <3> QED
      BY <2>2, <3>1 DEF GInv, GroupsCount
  <2> QED
    BY <2>1, <2>2 DEF CountsAgree
<1>2. Init => disconnect \in BOOLEAN
  BY OptionsAssumption DEF Init
<1>3. disconnect \in BOOLEAN /\ [Next]_vars => (disconnect \in BOOLEAN)'
  BY SameOption
<1>4. IInv => AtOK
  BY DEF IInv
<1> QED
  BY <1>1, <1>2, <1>3, <1>4, InitUse, NextUse, InitCounts, NextCounts, InitGroups, NextGroups,
     PTL DEF Spec
-----------------------------------------------------------------------------
(* What a stopped engine leaves in memory *)

\* The list of the engine has every channel, and stays as it is.
ListComplete ==
    /\ order \in [1 .. N -> All]
    /\ \A c \in All : \E i \in 1 .. N : order[i] = c

\* Where the engine thread is in stop() and start(), the mechanism and the PV
\* agree with it: outside, they run together or not at all.
PvFollows ==
    /\ at["engine"] \in {"waiting", "entered"} => running /\ id
    /\ at["engine"] = "pv" => ~running /\ id
    /\ at["engine"] = "event" => ~running /\ ~id
    /\ at["engine"] = "starting" => running /\ ~id /\ task = "start"
    /\ at["engine"] = "out" => (running <=> id)

BusyInUse == busy => Uses("engine")

\* Who has no callback in progress has nothing to do for one.
CallbackWhole == callback.pv = Nobody => callback = NoCallback

\* A command has stopped the engine by the time it writes, configures, starts
\* or ends; while it has nothing to do, the engine runs.
StopsFirst ==
    /\ task \in {"configure", "start", "done"} => ~is_running
    /\ task \in {"write", "writing"} => (is_running <=> command = "cycle")
    /\ task \in {"configure", "start"} => command # "exit"
    /\ task = "stop" => command # "cycle"
    /\ task \in {"idle", "stop"} => is_running

\* The channels that the engine thread is done with in its loop over all.
Passed == { order[i] : i \in { j \in 1 .. N : j < next } }

StoppedInTurn ==
    task = "stop" /\ is_running =>
        /\ Channel \in Passed /\ at["engine"] = "out" => ~running
        /\ started \cap Passed = {}
        /\ callback.pv \notin Passed

\* Once the engine is stopped, nothing adds a sample, and no thread is in the
\* stop() of the channel.
Quiet ==
    ~is_running /\ task # "start" =>
        /\ ~running /\ started = {} /\ callback = NoCallback
        /\ at["engine"] = "out"

Written ==
    ~write_failed /\ ~is_running =>
        /\ task = "done" => ~pending
        /\ task = "configure" /\ pending => noted
        /\ task = "write" /\ Channel \in Passed => ~pending

\* What the steps preserve as long as the CA thread is not in stop() or start()
\* and no command was abandoned.
Progress ==
    /\ PvFollows /\ BusyInUse /\ CallbackWhole /\ StopsFirst
    /\ StoppedInTurn /\ Quiet /\ Written

\* After that, every command is abandoned at once.
Stranded ==
    /\ ~is_running /\ at["engine"] = "out"
    /\ task \in {"idle", "stop", "write", "writing", "done"}
    /\ task = "stop" => command # "cycle"
    /\ task \in {"write", "writing"} => command = "cycle"

WInv ==
    disconnect = FALSE =>
        /\ ~abandoned => Progress
        /\ abandoned => Stranded

\* Where the loops over all channels stand.
LoopOK ==
    /\ ListComplete
    /\ next \in 1 .. N + 1
    /\ started \subseteq Disabling

LEMMA AllCounted == IsFiniteSet(All) /\ N \in Nat
<1>1. IsFiniteSet(All)
  BY NamesAssumption, FS_AddElement DEF All
<1> QED
  BY <1>1, FS_CardinalityType DEF N

\* A list of the channels that repeats none has all of them.
LEMMA InitLoop == Init => LoopOK
<1> SUFFICES ASSUME Init
             PROVE  LoopOK
  OBVIOUS
<1>1. /\ order \in [1 .. N -> All]
      /\ \A i, j \in 1 .. N : order[i] = order[j] => i = j
  BY DEF Init
<1>2. order \in Injection(1 .. N, All)
  BY <1>1 DEF Injection, IsInjective
<1>3. Cardinality(1 .. N) = Cardinality(All)
  BY AllCounted, FS_Interval DEF N
<1>4. order \in Surjection(1 .. N, All)
  BY <1>2, <1>3, AllCounted, FS_Injection
<1>5. ListComplete
  BY <1>1, <1>4 DEF ListComplete, Surjection
<1>6. next \in 1 .. N + 1 /\ started \subseteq Disabling
  BY AllCounted DEF Init
<1> QED
  BY <1>5, <1>6 DEF LoopOK

\* Progress of the loops.
LEMMA Passing ==
    ASSUME LoopOK
    PROVE  /\ UNCHANGED <<order, next>> => Passed' = Passed
           /\ UNCHANGED order /\ next' = 1 => Passed' = {}
           /\ UNCHANGED order /\ next <= N /\ next' = next + 1 =>
                Passed' = Passed \cup {order[next]}
           /\ next > N => Passed = All
           /\ Passed \subseteq All
           /\ Channel \in All /\ Nobody \notin All /\ Disabling \subseteq All
<1> USE AllCounted DEF LoopOK, ListComplete
<1>1. UNCHANGED <<order, next>> => Passed' = Passed
  BY DEF Passed
<1>2. ASSUME UNCHANGED order, next' = 1
      PROVE  Passed' = {}
  <2>1. \A j \in 1 .. N : ~(j < 1)
    OBVIOUS
  <2> QED
    BY <1>2, <2>1 DEF Passed
<1>3. ASSUME UNCHANGED order, next <= N, next' = next + 1
      PROVE  Passed' = Passed \cup {order[next]}
  <2>1. { j \in 1 .. N : j < next + 1 } = { j \in 1 .. N : j < next } \cup {next}
    BY <1>3
  <2> QED
    BY <1>3, <2>1 DEF Passed
<1>4. ASSUME next > N
      PROVE  Passed = All
  <2>1. { j \in 1 .. N : j < next } = 1 .. N
    BY <1>4
  <2> QED
    BY <2>1 DEF Passed
<1>5. Passed \subseteq All
  BY DEF Passed
<1>6. Channel \in All /\ Nobody \notin All /\ Disabling \subseteq All
  BY NamesAssumption DEF All
<1> QED
  BY <1>1, <1>2, <1>3, <1>4, <1>5, <1>6

\* The list stays as it is, and the loops inside it.
LEMMA NextLoop == LoopOK /\ [Next]_vars => LoopOK'
<1> SUFFICES ASSUME LoopOK, [Next]_vars
             PROVE  LoopOK'
  OBVIOUS
<1>1. order' = order
  BY DEF Next, vars, options, CaSteps, EngineSteps, StopOrStart, Sample, PvValue, StopWaited,
         StopMechanism, StopPv, StopEnd, StartPv, DisableGroup, EnableGroup, CallbackDone,
         BeginCycle, BeginCommand, StopAsserts, StopNext, StopDisabler, StopDone, WriteNext,
         WriteEnd, WriteDone, Configure, ConfigureDisabler, ConfigureFails, ConfigureDone,
         StartNext, StartDone
<1>2. \/ next' = next
      \/ next' = 1
      \/ next <= N /\ next' = next + 1
  BY DEF Next, vars, engine, CaSteps, EngineSteps, StopOrStart, Sample, PvValue, StopWaited,
         StopMechanism, StopPv, StopEnd, StartPv, DisableGroup, EnableGroup, CallbackDone,
         BeginCycle, BeginCommand, StopAsserts, StopNext, StopDisabler, StopDone, WriteNext,
         WriteEnd, WriteDone, Configure, ConfigureDisabler, ConfigureFails, ConfigureDone,
         StartNext, StartDone
<1>3. next' \in 1 .. N + 1
  BY <1>2, AllCounted DEF LoopOK
<1>4. \/ started' = started
      \/ started' = started \ {order[next]}
      \/ order[next] \in Disabling /\ started' = started \cup {order[next]}
  BY DEF Next, vars, disablers, CaSteps, EngineSteps, StopOrStart, Sample, PvValue, StopWaited,
         StopMechanism, StopPv, StopEnd, StartPv, DisableGroup, EnableGroup, CallbackDone,
         BeginCycle, BeginCommand, StopAsserts, StopNext, StopDisabler, StopDone, WriteNext,
         WriteEnd, WriteDone, Configure, ConfigureDisabler, ConfigureFails, ConfigureDone,
         StartNext, StartDone
<1>5. started' \subseteq Disabling
  BY <1>4 DEF LoopOK
<1> QED
  BY <1>1, <1>3, <1>5 DEF LoopOK, ListComplete
-----------------------------------------------------------------------------
\* What the steps below start from when the option is off.
Before ==
    /\ disconnect = FALSE
    /\ AtOK /\ EngineOut /\ UsedIsBusy /\ LoopOK
    /\ at["ca"] = "out"
    /\ callback \in [pv : Disabling \cup {Nobody}, todo : SUBSET Groups, disables : BOOLEAN]
    /\ Progress

\* What follows: the same, or the command was abandoned.
After == IF abandoned' THEN Stranded' ELSE Progress'

LEMMA CallbackWritten ==
    ASSUME Before, CaSteps
    PROVE  Progress' /\ abandoned' = abandoned
<1> USE DEF Before, Progress, PvFollows, BusyInUse, CallbackWhole, StopsFirst, StoppedInTurn,
            Quiet, Written, Uses, NoCallback, mechanism, options, disablers, engine, record
<1>1. ~StopOrStart("ca")
  BY DEF StopOrStart, StopWaited, StopMechanism, StopPv, StopEnd, StartPv
<1>2. ASSUME NEW g \in Groups, DisableGroup(g)
      PROVE  Progress' /\ abandoned' = abandoned
  BY <1>2, Passing DEF DisableGroup, Visited, DisableChannel
<1>3. ASSUME NEW g \in Groups, EnableGroup(g)
      PROVE  Progress' /\ abandoned' = abandoned
  BY <1>3, Passing DEF EnableGroup, Visited, EnableChannel
<1>4. CASE CallbackDone
  BY <1>4, Passing, NamesAssumption DEF CallbackDone
<1> QED
  BY <1>1, <1>2, <1>3, <1>4 DEF CaSteps

LEMMA StopOrStartWritten ==
    ASSUME Before, ~abandoned, StopOrStart("engine")
    PROVE  After
<1> USE DEF Before, Progress, PvFollows, BusyInUse, CallbackWhole, StopsFirst, StoppedInTurn,
            Quiet, Written, Uses, NoCallback, AtOK, Threads, EngineOut, UsedIsBusy,
            mechanism, options, disablers, engine, record
<1>1. CASE StopWaited("engine")
  BY <1>1, Passing DEF After, StopWaited
<1>2. CASE StopMechanism("engine")
  BY <1>2, Passing DEF After, StopMechanism, Throw
<1>3. CASE StopPv("engine")
  BY <1>3, Passing DEF After, StopPv, Throw
<1>4. CASE StopEnd("engine")
  BY <1>4, Passing DEF After, StopEnd
<1>5. CASE StartPv("engine")
  <2>1. at["engine"] = "starting" /\ task = "start" /\ ~is_running /\ command # "exit"
    BY <1>5 DEF StartPv
  <2>2. CASE Throw("engine")
    <3>1. abandoned'
      BY <2>1, <2>2 DEF Throw
    <3>2. Stranded'
      BY <1>5, <2>1, <2>2 DEF StartPv, Throw, Stranded
    <3> QED
      BY <3>1, <3>2 DEF After
  <2>3. CASE ~Throw("engine")
    BY <1>5, <2>1, <2>3, Passing DEF After, StartPv
  <2> QED
    BY <2>2, <2>3
<1> QED
  BY <1>1, <1>2, <1>3, <1>4, <1>5 DEF StopOrStart

LEMMA EngineWritten ==
    ASSUME Before, ~abandoned, EngineSteps
    PROVE  After
<1> USE DEF Before, Progress, PvFollows, BusyInUse, CallbackWhole, StopsFirst, StoppedInTurn,
            Quiet, Written, Uses, NoCallback, AtOK, Threads, EngineOut, UsedIsBusy,
            mechanism, options, disablers, engine, record
<1>1. CASE StopOrStart("engine")
  BY <1>1, StopOrStartWritten
<1>2. ~StopAsserts
  BY DEF StopAsserts
<1>3. CASE StopNext
  BY <1>3, Passing, NamesAssumption DEF After, StopNext, EnterStop, LoopOK
<1>4. CASE StopDisabler
  BY <1>4, Passing, NamesAssumption DEF After, StopDisabler
<1>5. CASE StopDone
  BY <1>5, Passing DEF After, StopDone, LoopOK
<1>6. CASE WriteNext
  BY <1>6, Passing DEF After, WriteNext
<1>7. CASE WriteEnd
  BY <1>7, Passing DEF After, WriteEnd
<1>8. CASE WriteDone
  BY <1>8, Passing DEF After, WriteDone
<1>9. ASSUME NEW g \in Groups, Configure(g)
      PROVE  After
  <2>1. ~running
    BY <1>9 DEF Configure
  <2> QED
    BY <1>9, <2>1, Passing DEF After, Configure
<1>10. ASSUME NEW g \in Groups, NEW d \in Disabling, ConfigureDisabler(d, g)
       PROVE  After
  <2>1. "before" \notin Loops
    BY DEF Loops
  <2>2. task = "configure" /\ ~is_running
    BY <1>10 DEF ConfigureDisabler
  <2>3. /\ UNCHANGED <<running, id, busy, at, callback, started>>
        /\ UNCHANGED <<task, abandoned, command, is_running, write_failed>>
        /\ pending /\ noted /\ pending' => noted'
        /\ ~pending /\ pending' => noted'
    BY <1>10, <2>1 DEF ConfigureDisabler, DisableChannel
  <2> QED
    BY <2>2, <2>3 DEF After
<1>11. CASE ConfigureFails
  BY <1>11 DEF After, Stranded, ConfigureFails, Throw
<1>12. CASE ConfigureDone
  BY <1>12, Passing DEF After, ConfigureDone
<1>13. CASE StartNext
  <2>1. CASE Throw("engine")
    BY <1>13, <2>1 DEF After, Stranded, StartNext, Throw
  <2>2. CASE ~Throw("engine")
    BY <1>13, <2>2, Passing DEF After, StartNext, EnterStart
  <2> QED
    BY <2>1, <2>2
<1>14. CASE StartDone
  BY <1>14, Passing DEF After, StartDone
<1> QED
  BY <1>1, <1>2, <1>3, <1>4, <1>5, <1>6, <1>7, <1>8, <1>9, <1>10, <1>11, <1>12, <1>13, <1>14
     DEF EngineSteps

LEMMA NextWritten ==
    ASSUME Before, ~abandoned, [Next]_vars
    PROVE  After
<1> USE DEF Before, Progress, PvFollows, BusyInUse, CallbackWhole, StopsFirst, StoppedInTurn,
            Quiet, Written, Uses, NoCallback, mechanism, options, disablers, engine, record
<1>1. CASE Sample
  BY <1>1, Passing DEF After, Sample
<1>2. ASSUME NEW d \in Disabling, PvValue(d)
      PROVE  After
  BY <1>2, Passing, NamesAssumption DEF After, PvValue
<1>3. CASE BeginCycle
  BY <1>3, Passing DEF After, BeginCycle
<1>4. ASSUME NEW c \in {"restart", "configure", "exit"}, BeginCommand(c)
      PROVE  After
  BY <1>4, Passing DEF After, BeginCommand
<1>5. CASE UNCHANGED vars
  BY <1>5, Passing DEF After, vars
<1>6. CASE CaSteps
  <2>1. Progress' /\ abandoned' = abandoned
    BY <1>6, CallbackWritten
  <2>2. ~abandoned'
    BY <2>1, Zenon
  <2> QED
    BY <2>1, <2>2 DEF After
<1> QED
  BY <1>1, <1>2, <1>3, <1>4, <1>5, <1>6, EngineWritten DEF Next

\* A command that was abandoned stays so.
LEMMA AbandonedStays == abandoned /\ [Next]_vars => abandoned'
<1> SUFFICES ASSUME abandoned, [Next]_vars
             PROVE  abandoned'
  OBVIOUS
<1> USE DEF engine, record
<1>1. CASE CaSteps
  BY <1>1, Zenon DEF CaSteps, StopOrStart, StopWaited, StopMechanism, StopPv, StopEnd, StartPv,
              Throw, DisableGroup, EnableGroup, CallbackDone
<1>2. CASE EngineSteps
  BY <1>2, Zenon DEF EngineSteps, StopOrStart, StopWaited, StopMechanism, StopPv, StopEnd,
              StartPv, Throw, StopAsserts, StopNext, StopDisabler, StopDone, WriteNext, WriteEnd,
              WriteDone, Configure, ConfigureDisabler, ConfigureFails, ConfigureDone,
              StartNext, StartDone
<1>3. CASE ~CaSteps /\ ~EngineSteps
  BY <1>3, Zenon DEF Next, vars, Sample, PvValue, BeginCycle, BeginCommand
<1> QED
  BY <1>1, <1>2, <1>3, Zenon

\* An engine that is stranded only writes, until it ends.
LEMMA StrandedStays ==
    ASSUME AtOK, disconnect = FALSE, at["ca"] = "out", Stranded, [Next]_vars
    PROVE  Stranded'
<1> USE DEF Stranded, AtOK, Threads, engine, record
<1>1. CASE CaSteps
  <2>1. ~StopOrStart("ca")
    BY DEF StopOrStart, StopWaited, StopMechanism, StopPv, StopEnd, StartPv
  <2>2. UNCHANGED <<is_running, task, command, at>>
    BY <1>1, <2>1 DEF CaSteps, DisableGroup, DisableChannel, EnableGroup, EnableChannel,
                      CallbackDone
  <2> QED
    BY <2>2
<1>2. CASE EngineSteps
  <2>1. ~StopOrStart("engine")
    BY DEF StopOrStart, StopWaited, StopMechanism, StopPv, StopEnd, StartPv
  <2>2. CASE StopAsserts
    BY <2>2 DEF StopAsserts, Throw
  <2>3. CASE WriteNext \/ WriteEnd
    BY <2>3 DEF WriteNext, WriteEnd
  <2>4. CASE WriteDone
    BY <2>4 DEF WriteDone
  <2> QED
    BY <1>2, <2>1, <2>2, <2>3, <2>4 DEF EngineSteps, StopNext, StopDisabler, StopDone, Configure,
       ConfigureDisabler, ConfigureFails, ConfigureDone, StartNext, StartDone
<1>3. CASE ~CaSteps /\ ~EngineSteps
  BY <1>3 DEF Next, vars, Sample, PvValue, BeginCycle, BeginCommand
<1> QED
  BY <1>1, <1>2, <1>3

\* All of the above together.
ChannelInv == IInv /\ CInv /\ CutsInv /\ GInv /\ LoopOK /\ WInv

LEMMA InitChannel == Init => ChannelInv
<1> SUFFICES ASSUME Init
             PROVE  ChannelInv
  OBVIOUS
<1>1. Progress
  BY DEF Init, Progress, PvFollows, BusyInUse, CallbackWhole, StopsFirst, StoppedInTurn,
         Quiet, Written, NoCallback, Threads
<1>2. abandoned = FALSE
  BY DEF Init
<1> QED
  BY <1>1, <1>2, InitUse, InitCounts, InitCuts, InitGroups, InitLoop DEF ChannelInv, WInv

LEMMA BeforeStep == ChannelInv /\ disconnect = FALSE /\ ~abandoned => Before
BY DEF ChannelInv, IInv, GInv, DisablerTypes, WInv, Before

LEMMA NextChannel == ChannelInv /\ [Next]_vars => ChannelInv'
<1> SUFFICES ASSUME ChannelInv, [Next]_vars
             PROVE  ChannelInv'
  OBVIOUS
<1>1. IInv' /\ CInv' /\ CutsInv' /\ GInv' /\ LoopOK'
  BY NextUse, NextCounts, NextCuts, NextGroups, NextLoop DEF ChannelInv, IInv
<1>2. WInv'
  <2> SUFFICES ASSUME disconnect = FALSE
               PROVE  After
    BY SameOption DEF WInv, After
  <2>1. CASE ~abandoned
    BY <2>1, BeforeStep, NextWritten
  <2>2. CASE abandoned
    <3>1. Stranded' /\ abandoned'
      BY <2>2, StrandedStays, AbandonedStays DEF ChannelInv, IInv, GInv, WInv
    <3> QED
      BY <3>1 DEF After
  <2> QED
    BY <2>1, <2>2
<1> QED
  BY <1>1, <1>2 DEF ChannelInv

LEMMA ChannelAlways == Spec => []ChannelInv
BY InitChannel, NextChannel, PTL DEF Spec

\* The program ends with nothing in the ring of the channel, whatever the
\* callbacks and the commands were, unless a write failed or a command was
\* abandoned: the exit stops whoever could add a sample before it writes for
\* the last time (Engine::stop).
THEOREM NothingLeftAtExit == Spec => []AllWrittenAtExit
<1>1. Init => disconnect \in BOOLEAN
  BY OptionsAssumption DEF Init
<1>2. ChannelInv /\ disconnect \in BOOLEAN => AllWrittenAtExit
  <2> SUFFICES ASSUME ChannelInv, disconnect = FALSE, ~write_failed, ~abandoned, task = "done"
               PROVE  ~pending
    BY DEF AllWrittenAtExit
  <2> QED
    BY DEF ChannelInv, WInv, Progress, StopsFirst, Written
<1>3. disconnect \in BOOLEAN /\ [Next]_vars => (disconnect \in BOOLEAN)'
  BY SameOption
<1> QED
  BY <1>1, <1>2, <1>3, ChannelAlways, PTL DEF Spec

\* No sample leaves the ring but by a write: when configure() replaces the
\* mechanism, the ring has been written, and holds at most what the same
\* command has added since (ArchiveChannel::configure, addToGroup).
THEOREM OnlyAWriteEmpties == Spec => OnlyWritesEmpty
<1> DEFINE Kept ==
      pending /\ ~pending' =>
          busy \/ disconnect \/ write_failed \/ (task = "configure" /\ noted)
<1>1. ChannelInv /\ disconnect \in BOOLEAN /\ [Next]_vars => [Kept]_vars
  <2> SUFFICES ASSUME ChannelInv, [Next]_vars, pending, ~pending', disconnect = FALSE,
                      ~busy, ~write_failed, ~(task = "configure" /\ noted)
               PROVE  FALSE
    BY Zenon
  <2>1. \/ WriteEnd
        \/ \E g \in Groups : Configure(g)
    BY DEF Next, vars, mechanism, CaSteps, EngineSteps, StopOrStart, Sample, PvValue, StopWaited,
           StopMechanism, StopPv, StopEnd, StartPv, DisableGroup, DisableChannel, EnableGroup,
           EnableChannel, CallbackDone, BeginCycle, BeginCommand, StopAsserts, StopNext,
           StopDisabler, StopDone, WriteNext, WriteDone, ConfigureDisabler, ConfigureFails,
           ConfigureDone, StartNext, StartDone
  <2>2. CASE WriteEnd
    BY <2>2 DEF WriteEnd, ChannelInv, IInv, UsedIsBusy, Uses, Threads
  <2>3. CASE \E g \in Groups : Configure(g)
    <3>1. task = "configure"
      BY <2>3 DEF Configure
    <3>2. ~abandoned /\ Progress
      BY <3>1 DEF ChannelInv, WInv, Stranded
    <3> QED
      BY <3>1, <3>2 DEF Progress, StopsFirst, Written
  <2> QED
    BY <2>1, <2>2, <2>3
<1>2. Init => disconnect \in BOOLEAN
  BY OptionsAssumption DEF Init
<1>3. disconnect \in BOOLEAN /\ [Next]_vars => (disconnect \in BOOLEAN)'
  BY SameOption
<1> QED
  BY <1>1, <1>2, <1>3, ChannelAlways, PTL DEF Spec, OnlyWritesEmpty
-----------------------------------------------------------------------------
Flags ==
    /\ disconnect \in BOOLEAN
    /\ busy \in BOOLEAN /\ running \in BOOLEAN /\ id \in BOOLEAN
    /\ filtering \in BOOLEAN /\ pending \in BOOLEAN
    /\ is_running \in BOOLEAN /\ write_failed \in BOOLEAN

Marks == abandoned \in BOOLEAN /\ noted \in BOOLEAN

Errands ==
    /\ task \in Tasks
    /\ command \in Commands
    /\ commands \in 0 .. MaxCommands
    /\ disturbed \subseteq All

TypeInv == Flags /\ Marks /\ Errands /\ DisablerTypes

LEMMA NoCallbackType ==
    NoCallback \in [pv : Disabling \cup {Nobody}, todo : SUBSET Groups, disables : BOOLEAN]
BY DEF NoCallback

LEMMA InitTypes == Init => TypeInv
<1> SUFFICES ASSUME Init
             PROVE  TypeInv
  OBVIOUS
<1>1. Flags
  BY OptionsAssumption, Zenon DEF Init, Flags
<1>2. Errands
  BY OptionsAssumption DEF Init, Errands, Tasks, Commands
<1>3. DisablerTypes
  BY NoCallbackType DEF Init, DisablerTypes
<1>4. Marks
  BY Zenon DEF Init, Marks
<1> QED
  BY <1>1, <1>2, <1>3, <1>4 DEF TypeInv

\* What disable() and enable() do to the flags.
LEMMA ToggleFlags ==
    ASSUME Flags
    PROVE  /\ \A t \in Threads : DisableChannel(t) =>
                filtering' \in BOOLEAN /\ pending' \in BOOLEAN /\ busy' \in BOOLEAN
           /\ EnableChannel =>
                filtering' \in BOOLEAN /\ pending' \in BOOLEAN /\ running' \in BOOLEAN
<1>1. ASSUME NEW t \in Threads, DisableChannel(t)
      PROVE  filtering' \in BOOLEAN /\ pending' \in BOOLEAN /\ busy' \in BOOLEAN
  <2>1. /\ filtering' = TRUE \/ filtering' = filtering
        /\ pending' = TRUE \/ pending' = pending
        /\ busy' = TRUE \/ busy' = busy
    BY <1>1, Zenon DEF DisableChannel, EnterStop
  <2> QED
    BY <2>1, Zenon DEF Flags
<1>2. ASSUME EnableChannel
      PROVE  filtering' \in BOOLEAN /\ pending' \in BOOLEAN /\ running' \in BOOLEAN
  <2>1. /\ filtering' = FALSE \/ filtering' = filtering
        /\ pending' = pending \/ pending' = (pending \/ (id /\ filtering))
        /\ running' = TRUE \/ running' = running
    BY <1>2, Zenon DEF EnableChannel, EnterStart
  <2> QED
    BY <2>1, Zenon DEF Flags
<1> QED
  BY <1>1, <1>2, Zenon

\* The CA thread, and either thread in stop() and start().
LEMMA CaFlags ==
    ASSUME Flags, NEW t \in Threads, StopOrStart(t) \/ CaSteps
    PROVE  Flags'
<1>1. ASSUME NEW u \in Threads, StopOrStart(u)
      PROVE  Flags'
  BY <1>1, Zenon DEF Flags, StopOrStart, StopWaited, StopMechanism, StopPv, StopEnd, StartPv,
                     options, engine, record
<1>2. ASSUME NEW g \in Groups, DisableGroup(g)
      PROVE  Flags'
  BY <1>2, ToggleFlags, Zenon DEF Flags, DisableGroup, options, engine, record, Threads
<1>3. ASSUME NEW g \in Groups, EnableGroup(g)
      PROVE  Flags'
  BY <1>3, ToggleFlags, Zenon DEF Flags, EnableGroup, options, engine, record
<1>4. CASE CallbackDone
  BY <1>4, Zenon DEF Flags, CallbackDone, mechanism, options, engine, record
<1> QED
  BY <1>1, <1>2, <1>3, <1>4, Zenon DEF CaSteps, Threads

LEMMA EngineFlags ==
    ASSUME Flags, EngineSteps
    PROVE  Flags'
<1> USE DEF Flags, mechanism, options, engine, record
<1>1. CASE StopOrStart("engine")
  BY <1>1, CaFlags, Zenon DEF Threads
<1>2. CASE StopAsserts \/ StopDisabler \/ StopDone
  BY <1>2, Zenon DEF StopAsserts, StopDisabler, StopDone
<1>3. CASE StopNext
  BY <1>3, Zenon DEF StopNext, EnterStop
<1>4. CASE WriteNext \/ WriteEnd \/ WriteDone
  BY <1>4, Zenon DEF WriteNext, WriteEnd, WriteDone
<1>5. ASSUME NEW g \in Groups, Configure(g)
      PROVE  Flags'
  BY <1>5, Zenon DEF Configure
<1>6. ASSUME NEW g \in Groups, NEW d \in Disabling, ConfigureDisabler(d, g)
      PROVE  Flags'
  BY <1>6, ToggleFlags, Zenon DEF ConfigureDisabler, Threads
<1>7. CASE ConfigureFails \/ ConfigureDone \/ StartDone
  BY <1>7, Zenon DEF ConfigureFails, ConfigureDone, StartDone
<1>8. CASE StartNext
  BY <1>8, Zenon DEF StartNext, EnterStart
<1> QED
  BY <1>1, <1>2, <1>3, <1>4, <1>5, <1>6, <1>7, <1>8, Zenon DEF EngineSteps

LEMMA NextFlags == Flags /\ [Next]_vars => Flags'
<1> SUFFICES ASSUME Flags, [Next]_vars
             PROVE  Flags'
  OBVIOUS
<1>1. CASE CaSteps \/ EngineSteps
  BY <1>1, CaFlags, EngineFlags, Zenon DEF Threads
<1>2. CASE ~CaSteps /\ ~EngineSteps
  BY <1>2, Zenon DEF Flags, mechanism, options, engine, record, Next, vars, Sample, PvValue,
                     BeginCycle, BeginCommand
<1> QED
  BY <1>1, <1>2, Zenon

\* What becomes of the command, and of the events of a configuration.
LEMMA NextMarks == Marks /\ Flags /\ [Next]_vars => Marks'
<1> SUFFICES ASSUME Marks, Flags, [Next]_vars
             PROVE  Marks'
  OBVIOUS
<1>1. abandoned' \in BOOLEAN
  <2>1. \/ \E t \in Threads : Throw(t)
        \/ UNCHANGED abandoned
    BY Zenon DEF Next, vars, engine, record, CaSteps, EngineSteps, StopOrStart, Sample, PvValue,
       StopWaited, StopMechanism, StopPv, StopEnd, StartPv, DisableGroup, EnableGroup,
       CallbackDone, BeginCycle, BeginCommand, StopAsserts, StopNext, StopDisabler, StopDone,
       WriteNext, WriteEnd, WriteDone, Configure, ConfigureDisabler, ConfigureFails,
       ConfigureDone, StartNext, StartDone, Threads
  <2>2. abandoned \in BOOLEAN
    BY Zenon DEF Marks
  <2>3. ASSUME NEW t \in Threads, Throw(t)
        PROVE  abandoned' \in BOOLEAN
    <3>1. abandoned' = abandoned \/ abandoned' = (abandoned \/ command # "exit")
      BY <2>3, Zenon DEF Throw
    <3> QED
      BY <2>2, <3>1, Zenon
  <2>4. CASE UNCHANGED abandoned
    BY <2>2, <2>4, Zenon
  <2> QED
    BY <2>1, <2>3, <2>4, Zenon
<1>2. \/ UNCHANGED noted
      \/ noted' = FALSE
      \/ noted' = (filtering')
      \/ noted' = (pending' /\ (noted \/ ~pending))
  BY Zenon DEF Next, vars, engine, record, CaSteps, EngineSteps, StopOrStart, Sample, PvValue,
     StopWaited, StopMechanism, StopPv, StopEnd, StartPv, DisableGroup, EnableGroup,
     CallbackDone, BeginCycle, BeginCommand, StopAsserts, StopNext, StopDisabler, StopDone,
     WriteNext, WriteEnd, WriteDone, Configure, ConfigureDisabler, ConfigureFails,
     ConfigureDone, StartNext, StartDone
<1>3. noted' \in BOOLEAN
  BY <1>2, NextFlags, Zenon DEF Marks, Flags
<1> QED
  BY <1>1, <1>3, Zenon DEF Marks

\* Everything but the counts, the loops and the positions of the threads.
LEMMA NextTypes == TypeInv /\ LoopOK /\ [Next]_vars => TypeInv'
<1> SUFFICES ASSUME TypeInv, LoopOK, [Next]_vars
             PROVE  TypeInv'
  OBVIOUS
<1>1. Flags' /\ Marks'
  BY NextFlags, NextMarks DEF TypeInv
<1>2. Errands'
  <2> USE DEF TypeInv, Errands, Tasks, Commands, engine, faults
  <2>1. CASE CaSteps
    BY <2>1 DEF All, CaSteps, StopOrStart, StopWaited, StopMechanism, StopPv, StopEnd, StartPv,
                Throw, DisableGroup, EnableGroup, CallbackDone
  <2>2. CASE StopOrStart("engine")
    BY <2>2 DEF All, StopOrStart, StopWaited, StopMechanism, StopPv, StopEnd, StartPv, Throw
  <2>3. CASE StopDisabler
    <3>1. order[next] \in All
      BY <2>3, AllCounted DEF StopDisabler, LoopOK, ListComplete
    <3> QED
      BY <2>3, <3>1 DEF StopDisabler
  <2>4. CASE EngineSteps /\ ~StopOrStart("engine") /\ ~StopDisabler
    BY <2>4 DEF EngineSteps, Throw, StopAsserts, StopNext, StopDone, WriteNext, WriteEnd,
                WriteDone, Configure, ConfigureDisabler, ConfigureFails, ConfigureDone,
                StartNext, StartDone
  <2>5. CASE ~CaSteps /\ ~EngineSteps
    BY <2>5, OptionsAssumption DEF Next, vars, Sample, PvValue, BeginCycle, BeginCommand
  <2> QED
    BY <2>1, <2>2, <2>3, <2>4, <2>5 DEF EngineSteps
<1>3. DisablerTypes'
  <2> USE DEF TypeInv, DisablerTypes
  <2>1. ASSUME NEW g \in Groups, DisableGroup(g)
        PROVE  DisablerTypes'
    BY <2>1 DEF DisableGroup, Visited, Loops, disablers
  <2>2. ASSUME NEW g \in Groups, EnableGroup(g)
        PROVE  DisablerTypes'
    BY <2>2 DEF EnableGroup, Visited, Loops, disablers
  <2>3. ASSUME NEW g \in Groups, NEW d \in Disabling, ConfigureDisabler(d, g)
        PROVE  DisablerTypes'
    BY <2>3 DEF ConfigureDisabler, Throw
  <2>4. ASSUME NEW d \in Disabling, PvValue(d)
        PROVE  DisablerTypes'
    BY <2>4 DEF PvValue, counts
  <2>5. CASE UNCHANGED <<group_count, disable_groups, disabling>>
             /\ callback' \in {callback, NoCallback}
    BY <2>5, NoCallbackType
  <2>6. \/ \E g \in Groups : DisableGroup(g) \/ EnableGroup(g)
        \/ \E g \in Groups : \E d \in Disabling : ConfigureDisabler(d, g)
        \/ \E d \in Disabling : PvValue(d)
        \/ UNCHANGED <<group_count, disable_groups, disabling>>
           /\ callback' \in {callback, NoCallback}
    BY DEF Next, vars, counts, disablers, CaSteps, EngineSteps, StopOrStart, Sample, StopWaited,
           StopMechanism, StopPv, StopEnd, StartPv, Throw, CallbackDone, BeginCycle,
           BeginCommand, StopAsserts, StopNext, StopDisabler, StopDone, WriteNext, WriteEnd,
           WriteDone, Configure, ConfigureFails, ConfigureDone, StartNext, StartDone
  <2> QED
    BY <2>1, <2>2, <2>3, <2>4, <2>5, <2>6
<1> QED
  BY <1>1, <1>2, <1>3 DEF TypeInv

\* Every variable keeps its type, and a channel is never disabled by more
\* groups than it has, except once more for every loop over members that an
\* exception cut short: for any groups, channels and commands, the counter of
\* disable() and enable() stays in range (ArchiveChannel.cpp).
THEOREM ChannelTypeOK == Spec => []TypeOK
<1>1. ChannelInv /\ TypeInv => TypeOK
  <2> SUFFICES ASSUME ChannelInv, TypeInv
               PROVE  TypeOK
    OBVIOUS
  <2>1. <<busy, running, id, filtering, pending>> \in
          BOOLEAN \X BOOLEAN \X BOOLEAN \X BOOLEAN \X BOOLEAN
    BY DEF TypeInv, Flags
  <2>2. disable_count \in 0 .. Cardinality(groups) + cuts
    <3>1. /\ Off \in SUBSET groups /\ groups \in SUBSET Groups
          /\ disable_count \in Nat /\ cuts \in Nat /\ disable_count <= Cardinality(Off) + cuts
      BY DEF ChannelInv, CInv, CountTypes, Off
    <3>2. Cardinality(Off) \in Nat /\ Cardinality(groups) \in Nat
          /\ Cardinality(Off) <= Cardinality(groups)
      BY <3>1, NamesAssumption, FS_Subset, FS_CardinalityType
    <3> QED
      BY <3>1, <3>2
  <2>3. <<write_failed, abandoned, noted>> \in BOOLEAN \X BOOLEAN \X BOOLEAN
    BY DEF TypeInv, Flags, Marks
  <2> QED
    BY <2>1, <2>2, <2>3 DEF TypeOK, ChannelInv, CutsInv, IInv, AtOK, CInv, CountTypes,
                      LoopOK, ListComplete,
                      TypeInv, Flags, Errands, DisablerTypes
<1>2. ChannelInv => LoopOK
  BY DEF ChannelInv
<1> QED
  BY <1>1, <1>2, ChannelAlways, InitTypes, NextTypes, PTL DEF Spec
=============================================================================
