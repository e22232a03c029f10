--------------------------- MODULE FiltersProofs ---------------------------
(***************************************************************************)
(* The filters keep their types, counting repeats loses nothing, and the   *)
(* first value after a repeat is not refused: whatever the values, the     *)
(* period and the limits, for both mechanisms, and for every order of what *)
(* the CA thread and the engine thread do until they race.                 *)
(***************************************************************************)
EXTENDS Filters, SequenceTheorems, WellFoundedInduction, TLAPS

(* FlattenSeq, whose definition is recursive, of one sequence more.  The   *)
(* induction is over a set of numbers: what fails does so at a least one.  *)
LEMMA HasLeast ==
    ASSUME NEW S \in SUBSET Nat, S # {}
    PROVE  \E m \in S : \A n \in S : m <= n
<1> DEFINE Less == {ss \in Nat \X Nat : ss[1] < ss[2]}
<1>1. Less = OpToRel(<, Nat)
  BY DEF OpToRel
<1> HIDE DEF Less
<1>2. IsWellFoundedOn(Less, Nat)
  BY <1>1, NatLessThanWellFounded, Zenon
<1>3. PICK m \in S : \A n \in S : <<n, m>> \notin Less
  BY <1>2, WFMin
<1>4. ASSUME NEW n \in S PROVE m <= n
  <2>1. n < m => <<n, m>> \in Less
    BY DEF Less
  <2> QED
    BY <1>3, <2>1
<1> QED
  BY <1>4

\* g[i] is the first i sequences of s put together.
Joins(g, s, m) == g = [i \in 1..m |-> IF i = 1 THEN s[i] ELSE g[i - 1] \o s[i]]

LEMMA JoinsExists ==
    ASSUME NEW s
    PROVE  \A m \in Nat : \E g : Joins(g, s, m)
<1> DEFINE Bad == {m \in Nat : ~ \E g : Joins(g, s, m)}
<1>1. SUFFICES ASSUME Bad # {} PROVE FALSE
  OBVIOUS
<1>2. PICK m \in Bad : \A n \in Bad : m <= n
  BY <1>1, HasLeast
<1>3. m \in Nat /\ ~ \E g : Joins(g, s, m)
  OBVIOUS
<1>4. m # 0
  <2> DEFINE e == [i \in 1..0 |-> s]
  <2>1. Joins(e, s, 0)
    BY DEF Joins
  <2> QED BY <2>1, <1>3
<1>5. m - 1 \in Nat /\ m - 1 \notin Bad
  BY <1>2, <1>3, <1>4
<1>6. PICK g : Joins(g, s, m - 1)
  BY <1>5
<1> DEFINE h == [i \in 1..m |-> IF i < m THEN g[i]
                                ELSE IF m = 1 THEN s[m] ELSE g[m - 1] \o s[m]]
<1>7. ASSUME NEW i \in 1..m
      PROVE  h[i] = IF i = 1 THEN s[i] ELSE h[i - 1] \o s[i]
  <2>1. CASE i < m
    <3>1. i \in 1..m - 1 /\ i \in Int
      BY <2>1, <1>3
    <3>2. g[i] = IF i = 1 THEN s[i] ELSE g[i - 1] \o s[i]
      BY <1>6, <3>1 DEF Joins
    <3>3. i # 1 => h[i - 1] = g[i - 1]
      BY <3>1, <2>1
    <3> QED BY <3>2, <3>3, <2>1
  <2>2. CASE i = m
    <3>1. i # 1 => h[i - 1] = g[i - 1]
      BY <2>2, <1>3
    <3> QED BY <2>2, <3>1
  <2> QED BY <2>1, <2>2, <1>3
<1>8. h = [i \in 1..m |-> h[i]]
  OBVIOUS
<1> HIDE DEF h
<1>9. Joins(h, s, m)
  BY <1>7, <1>8 DEF Joins
<1> QED BY <1>9, <1>3

\* Only the first m sequences count.
Agree(f, g, m) == \A i \in 1..m : f[i] = g[i]

LEMMA JoinsUnique ==
    ASSUME NEW s, NEW u, NEW m \in Nat, NEW n \in Nat, m <= n,
           Agree(u, s, m),
           NEW g, Joins(g, s, m), NEW h, Joins(h, u, n)
    PROVE  Agree(h, g, m)
<1> DEFINE Bad == {i \in 1..m : h[i] # g[i]}
<1>1. SUFFICES ASSUME Bad # {} PROVE FALSE
  BY DEF Agree
<1>2. PICK i \in Bad : \A j \in Bad : i <= j
  <2>1. Bad \in SUBSET Nat
    OBVIOUS
  <2> QED BY <1>1, <2>1, HasLeast
<1>3. i \in 1..m /\ i \in 1..n /\ h[i] # g[i]
  OBVIOUS
<1>4. g[i] = IF i = 1 THEN s[i] ELSE g[i - 1] \o s[i]
  BY <1>3 DEF Joins
<1>5. h[i] = IF i = 1 THEN u[i] ELSE h[i - 1] \o u[i]
  BY <1>3 DEF Joins
<1>6. i # 1 => h[i - 1] = g[i - 1]
  BY <1>2, <1>3
<1> QED BY <1>3, <1>4, <1>5, <1>6 DEF Agree

LEMMA JoinsType ==
    ASSUME NEW T, NEW s \in Seq(Seq(T)), NEW g, Joins(g, s, Len(s))
    PROVE  \A i \in 1..Len(s) : g[i] \in Seq(T)
<1> DEFINE Bad == {i \in 1..Len(s) : g[i] \notin Seq(T)}
<1>1. SUFFICES ASSUME Bad # {} PROVE FALSE
  OBVIOUS
<1>2. PICK i \in Bad : \A j \in Bad : i <= j
  <2>1. Bad \in SUBSET Nat
    OBVIOUS
  <2> QED BY <1>1, <2>1, HasLeast
<1>3. i \in 1..Len(s) /\ g[i] \notin Seq(T)
  OBVIOUS
<1>4. g[i] = IF i = 1 THEN s[i] ELSE g[i - 1] \o s[i]
  BY <1>3 DEF Joins
<1>5. s[i] \in Seq(T)
  BY <1>3
<1>6. i # 1 => g[i - 1] \in Seq(T)
  BY <1>2, <1>3
<1>7. CASE i = 1
  BY <1>3, <1>4, <1>5, <1>7
<1>8. CASE i # 1
  <2>1. g[i - 1] \o s[i] \in Seq(T)
    BY <1>5, <1>6, <1>8
  <2> QED BY <1>3, <1>4, <1>8, <2>1
<1> QED BY <1>7, <1>8

LEMMA FlattenJoins ==
    ASSUME NEW s, Len(s) \in Nat, Len(s) # 0
    PROVE  \E g : Joins(g, s, Len(s)) /\ FlattenSeq(s) = g[Len(s)]
<1> DEFINE f == CHOOSE g : Joins(g, s, Len(s))
<1>1. Joins(f, s, Len(s))
  BY JoinsExists
<1>2. FlattenSeq(s) = f[Len(s)]
  BY DEF FlattenSeq, Joins
<1> QED BY <1>1, <1>2

LEMMA FlattenEmpty == FlattenSeq(<< >>) = << >>
  BY DEF FlattenSeq

\* Putting sequences together, one sequence at a time.
LEMMA FlattenAppend ==
    ASSUME NEW T, NEW s \in Seq(Seq(T)), NEW x \in Seq(T)
    PROVE  /\ FlattenSeq(s) \in Seq(T)
           /\ FlattenSeq(Append(s, x)) = FlattenSeq(s) \o x
<1> DEFINE u == Append(s, x)
<1>1. Len(s) \in Nat /\ Len(u) = Len(s) + 1 /\ u[Len(u)] = x
  OBVIOUS
<1>2. \A i \in 1..Len(s) : u[i] = s[i]
  OBVIOUS
<1> HIDE DEF u
<1> DEFINE n == Len(u)
<1>3. n \in Nat /\ n # 0 /\ n \in 1..n
  BY <1>1
<1>4. PICK h : Joins(h, u, n) /\ FlattenSeq(u) = h[n]
  <2>1. \E h : Joins(h, u, n) /\ FlattenSeq(u) = h[n]
    BY <1>3, FlattenJoins, Zenon
  <2> QED BY <2>1
<1> HIDE DEF n
<1>5. h[n] = IF n = 1 THEN u[n] ELSE h[n - 1] \o u[n]
  BY <1>3, <1>4 DEF Joins
<1> USE DEF n
<1>6. CASE Len(s) = 0
  <2>1. s = << >>
    BY <1>6
  <2>2. FlattenSeq(s) = << >>
    BY <2>1, FlattenEmpty
  <2>3. << >> \o x = x
    OBVIOUS
  <2>4. FlattenSeq(u) = x
    BY <1>1, <1>4, <1>5, <1>6
  <2> QED BY <2>2, <2>3, <2>4 DEF u
<1>7. CASE Len(s) # 0
  <2>1. PICK g : Joins(g, s, Len(s)) /\ FlattenSeq(s) = g[Len(s)]
    BY <1>1, <1>7, FlattenJoins
  <2>2. h[Len(s)] = g[Len(s)]
    <3>1. \A i \in 1..Len(s) : h[i] = g[i]
      <4> DEFINE k == Len(s)
      <4>1. k \in Nat /\ n \in Nat /\ k <= n
        BY <1>1
      <4>2. Joins(g, s, k) /\ Joins(h, u, n) /\ Agree(u, s, k)
        BY <1>2, <1>4, <2>1 DEF Agree
      <4> HIDE DEF k, n
      <4>3. Agree(h, g, k)
        BY <4>1, <4>2, JoinsUnique
      <4> QED BY <4>3 DEF Agree, k
    <3> QED BY <3>1, <1>1, <1>7
  <2>3. g[Len(s)] \in Seq(T)
    BY <2>1, <1>1, <1>7, JoinsType
  <2>4. FlattenSeq(u) = h[Len(s)] \o x
    BY <1>1, <1>4, <1>5, <1>7
  <2> QED BY <2>1, <2>2, <2>3, <2>4 DEF u
<1> QED BY <1>6, <1>7
Stamps == 0..MaxTime
Samples == [val : Values \cup {0}, stamp : Stamps, repeats : 0..MaxRepeatCount]
Given == [val : Values \cup {0}, stamp : Stamps, repeats : {0}]

Repeats == [valid : BOOLEAN, prev : Samples, count : 0..MaxCalls,
            had : BOOLEAN, was : BOOLEAN, stamp : Stamps]
Places == {"idle", "update", "time", "store", "after"}
Ways == {"return", "renew", "forget", "disconnect"}
Tasks == [pc : Places, then : Ways, data : Given]

\* The types of what the PV and the DisableFilter keep, of the RepeatFilter
\* with the two threads, and of what comes after them.
SourceTyped ==
    /\ kind \in {"get", "monitored"}
    /\ running \in BOOLEAN /\ connected \in BOOLEAN /\ asked \in BOOLEAN
    /\ pv \in Given
    /\ clock \in 1..MaxTime
    /\ calls \in 0..MaxCalls
    /\ disable \in [on : BOOLEAN, last : Given]
    /\ disable.last # Nothing => disable.on /\ disable.last.val \in Values

FilterTyped ==
    /\ repeat \in Repeats
    /\ thread \in [Threads -> Tasks]
    /\ seen \in Seq(Values \cup {Gap.val})
    /\ raced \in BOOLEAN

PassedTyped ==
    /\ last_stamp \in Stamps
    /\ passed \in Seq(Samples \cup {Gap})
    /\ refused \in SUBSET Nat

\* Every repeat was counted by a callback or a scan.
Budget ==
    /\ repeat.count <= calls
    /\ thread["engine"].pc = "update" => repeat.count < calls

\* A previous value is a value, and so is one that waits to become it; only a
\* thread that passes a sample on has something left to do.
Kept ==
    /\ repeat.valid => repeat.prev.val \in Values /\ repeat.count < MaxRepeatCount
    /\ \A t \in Threads :
         thread[t].then # "return" => thread[t].pc \in {"time", "store", "after"}
    /\ \A t \in Threads : thread[t].then = "renew" => thread[t].data.val \in Values
    /\ thread["ca"].pc # "update"

\* A previous value that was passed on as a repeat looks like one, and
\* repeat_stamp is its stamp.
Marked ==
    repeat.valid =>
        /\ repeat.was <=> repeat.prev.repeats > 0
        /\ repeat.was => repeat.stamp = repeat.prev.stamp

FilterOK == FilterTyped /\ Kept /\ Marked

\* As long as there was no race one thread at most has a sample under way,
\* and all repeats are in it.
OnePass ==
    ~raced =>
        /\ \A s, t \in Threads : InPass(s) /\ InPass(t) => s = t
        /\ \A t \in Threads : InPass(t) => repeat.valid /\ repeat.count = 0

\* Only a connected PV has a previous value, unless a thread is about to
\* forget it.
OfConnected ==
    ~raced =>
        /\ \A t \in Threads : thread[t].then = "renew" => connected
        /\ connected \/ disable.last = Nothing
        /\ connected \/ ~repeat.valid
             \/ \E t \in Threads : InPass(t) /\ thread[t].then = "disconnect"

\* What a reader of the archive has been told, and what it will be told by
\* the sample under way or by the repeats counted so far.
Sending(t) == thread[t].pc \in {"time", "store"}
Told(p) == FlattenSeq([i \in 1 .. Len(p) |-> Expanded(p[i])])
Copies(n, v) == [i \in 1 .. n |-> v]
Rest == IF \E t \in Threads : Sending(t) THEN Expanded(repeat.prev)
        ELSE Copies(IF repeat.valid THEN repeat.count ELSE 0, repeat.prev.val)

Account == ~raced /\ refused = {} => Told(passed) \o Rest = seen

\* p[i] is the last sample in p, gaps aside.
LastSample(p, i) ==
    /\ i \in 1 .. Len(p) /\ p[i] # Gap
    /\ \A j \in i + 1 .. Len(p) : p[j] = Gap

\* The TimeFilter remembers the stamp of the last sample.
Storing == \E t \in Threads : thread[t].pc = "store"
Stamped ==
    ~raced =>
        /\ Storing => last_stamp = repeat.prev.stamp
        /\ \A i \in 1 .. Len(passed) :
             LastSample(passed, i) /\ ~Storing => last_stamp = passed[i].stamp

\* After a repeat sample the RepeatFilter remembers its stamp, until it has
\* stamped the next sample, which is then under way.
NoneRefusedSince(i) == \A k \in refused : k < i
StampKept ==
    ~raced =>
        \A i \in 1 .. Len(passed) :
            LastSample(passed, i) /\ passed[i].repeats > 0 /\ NoneRefusedSince(i) =>
                \/ repeat.was /\ passed[i].stamp <= repeat.stamp
                \/ /\ \E t \in Threads : Sending(t)
                   /\ repeat.prev.repeats = 0
                   /\ passed[i].stamp <= repeat.prev.stamp

Flow == OnePass /\ Account /\ Stamped /\ StampKept
IInv == SourceTyped /\ PassedTyped /\ FilterOK /\ Budget /\ OfConnected /\ Flow
-----------------------------------------------------------------------------
(* What the parts of the RepeatFilter do to its types.                     *)
LEMMA Numbers ==
    /\ MaxTime \in Nat /\ 1 <= MaxTime /\ MaxCalls \in Nat
    /\ MaxRepeatCount \in Nat /\ 1 <= MaxRepeatCount
    /\ \A v \in Values : v \in Nat /\ v # 0 /\ v # Gap.val
    /\ Gap.val = -1
  BY ConfigAssumption, ValuesAssumption DEF Gap

LEMMA NothingGiven == Nothing \in Given /\ Nothing \in Samples
  BY Numbers DEF Nothing, Given, Samples, Stamps

LEMMA GivenIsSample == Given \subseteq Samples
  BY Numbers DEF Given, Samples

LEMMA FlushedFields ==
    ASSUME NEW r \in Repeats, r.count <= MaxRepeatCount, NEW when \in Stamps
    PROVE  LET f == Flushed(r, when)
           IN  /\ f \in Repeats
               /\ f.valid = r.valid /\ f.count = 0 /\ f.was
               /\ f.prev.val = r.prev.val /\ f.prev.repeats = r.count
               /\ f.stamp = f.prev.stamp /\ r.prev.stamp <= f.stamp
<1> DEFINE st == IF when > r.prev.stamp THEN when ELSE r.prev.stamp
           p == [r.prev EXCEPT !.stamp = st, !.repeats = r.count]
<1>1. r.prev \in Samples /\ r.count \in Nat /\ r.stamp \in Stamps
  BY DEF Repeats
<1>2. st \in Stamps /\ r.prev.stamp <= st
  BY <1>1, Numbers DEF Samples, Stamps
<1>3. /\ p \in Samples
      /\ p.val = r.prev.val /\ p.stamp = st /\ p.repeats = r.count
  <2>1. r.count \in 0..MaxRepeatCount
    BY <1>1, Numbers
  <2> HIDE DEF st
  <2> QED BY <1>1, <1>2, <2>1 DEF Samples
<1>4. Flushed(r, when) = [r EXCEPT !.prev = p, !.was = TRUE, !.stamp = st,
                                   !.count = 0, !.had = TRUE]
  BY <1>1 DEF Flushed, Repeats
<1> HIDE DEF st, p
<1> DEFINE f == Flushed(r, when)
<1>5. /\ f.valid = r.valid /\ f.count = 0 /\ f.was = TRUE
      /\ f.prev = p /\ f.stamp = st
  BY <1>4 DEF Repeats
<1>6. f \in Repeats
  <2>1. 0 \in 0..MaxCalls
    BY Numbers
  <2> QED BY <2>1, <1>2, <1>3, <1>4 DEF Repeats
<1> HIDE DEF f
<1>7. f.prev.val = r.prev.val /\ f.prev.repeats = r.count
  BY <1>3, <1>5
<1>8. f.stamp = f.prev.stamp /\ r.prev.stamp <= f.stamp
  BY <1>2, <1>3, <1>5
<1> QED BY <1>5, <1>6, <1>7, <1>8 DEF f

LEMMA RenewedFields ==
    ASSUME NEW r \in Repeats, NEW data \in Given
    PROVE  LET f == Renewed(r, data)
           IN  /\ f \in Repeats
               /\ f.valid /\ f.count = 0 /\ f.was = FALSE
               /\ f.prev.val = data.val /\ f.prev.repeats = 0
               /\ r.was => r.stamp <= f.prev.stamp
<1> DEFINE st == IF r.was /\ data.stamp < r.stamp THEN r.stamp ELSE data.stamp
           p == [data EXCEPT !.stamp = st]
<1>1. r.stamp \in Stamps /\ data.stamp \in Stamps
  BY DEF Repeats, Given
<1>2. st \in Stamps /\ (r.was => r.stamp <= st)
  BY <1>1, Numbers DEF Stamps
<1>3. /\ p \in Samples
      /\ p.val = data.val /\ p.stamp = st /\ p.repeats = 0
  BY <1>2, Numbers DEF Samples, Given
<1>4. Renewed(r, data) = [r EXCEPT !.prev = p, !.valid = TRUE, !.count = 0,
                                   !.had = TRUE, !.was = FALSE]
  BY DEF Renewed
<1> HIDE DEF st, p
<1> DEFINE f == Renewed(r, data)
<1>5. f.valid = TRUE /\ f.count = 0 /\ f.was = FALSE /\ f.prev = p
  BY <1>4 DEF Repeats
<1>6. f \in Repeats
  <2>1. 0 \in 0..MaxCalls
    BY Numbers
  <2> QED BY <2>1, <1>3, <1>4 DEF Repeats
<1> HIDE DEF f
<1>7. f.prev.val = data.val /\ f.prev.repeats = 0
  BY <1>3, <1>5
<1>8. r.was => r.stamp <= f.prev.stamp
  BY <1>2, <1>3, <1>5
<1> QED BY <1>5, <1>6, <1>7, <1>8 DEF f

LEMMA PassOnOK ==
    ASSUME FilterTyped, Kept, NEW t \in Threads, NEW r, NEW then, NEW data,
           PassOn(t, r, then, data),
           r \in Repeats, then \in Ways, data \in Given,
           r.valid => r.prev.val \in Values /\ r.count = 0,
           then = "renew" => data.val \in Values
    PROVE  /\ repeat' \in Repeats /\ thread' \in [Threads -> Tasks]
           /\ raced' \in BOOLEAN /\ Kept'
           /\ thread'[t] = Passing(then, data)
           /\ \A s \in Threads : s # t => thread'[s] = thread[s]
<1>1. Passing(then, data) \in Tasks
  BY DEF Passing, Tasks, Places
<1>2. /\ thread' = [thread EXCEPT ![t] = Passing(then, data)]
      /\ repeat' = r /\ raced' = Races(t)
  BY DEF PassOn
<1>3. thread' \in [Threads -> Tasks]
  BY <1>1, <1>2 DEF FilterTyped
<1>4. /\ thread'[t] = Passing(then, data)
      /\ \A s \in Threads : s # t => thread'[s] = thread[s]
  BY <1>2 DEF FilterTyped
<1>5. Races(t) \in BOOLEAN
  BY DEF Races, InPass
<1>6. /\ Passing(then, data).pc = "time" /\ Passing(then, data).then = then
      /\ Passing(then, data).data = data
  BY DEF Passing
<1>7. Kept'
  <2>1. (repeat.valid => repeat.prev.val \in Values /\ repeat.count < MaxRepeatCount)'
    BY <1>2, Numbers
  <2>2. ASSUME NEW s \in Threads
        PROVE  /\ thread'[s].then # "return" =>
                       thread'[s].pc \in {"time", "store", "after"}
               /\ thread'[s].then = "renew" => thread'[s].data.val \in Values
    BY <1>4, <1>6 DEF Kept
  <2>3. thread'["ca"].pc # "update"
    BY <1>4, <1>6 DEF Kept, Threads
  <2> QED BY <2>1, <2>2, <2>3 DEF Kept
<1> QED BY <1>2, <1>3, <1>4, <1>5, <1>7

LEMMA ReturnOK ==
    ASSUME FilterTyped, Kept, NEW t \in Threads, Return(t)
    PROVE  /\ thread' \in [Threads -> Tasks]
           /\ thread'[t] = Idle
           /\ \A s \in Threads : s # t => thread'[s] = thread[s]
           /\ \A s \in Threads :
                /\ thread'[s].then # "return" =>
                       thread'[s].pc \in {"time", "store", "after"}
                /\ thread'[s].then = "renew" => thread'[s].data.val \in Values
           /\ thread'["ca"].pc # "update"
<1>1. Idle \in Tasks /\ Idle.pc = "idle" /\ Idle.then = "return"
  BY NothingGiven DEF Idle, Tasks, Places, Ways
<1>2. thread' = [thread EXCEPT ![t] = Idle]
  BY DEF Return
<1>3. thread' \in [Threads -> Tasks]
  BY <1>1, <1>2 DEF FilterTyped
<1>4. /\ thread'[t] = Idle
      /\ \A s \in Threads : s # t => thread'[s] = thread[s]
  BY <1>2 DEF FilterTyped
<1> QED BY <1>1, <1>3, <1>4 DEF Kept, Threads

\* A step of thread t in the RepeatFilter, which counts one repeat at most.
GoesOn(t) ==
    /\ FilterOK'
    /\ repeat'.count <= repeat.count + 1
    /\ thread'[t].pc \in {"idle", "time"}
    /\ \A s \in Threads : s # t => thread'[s] = thread[s]

LEMMA RenewOK ==
    ASSUME FilterOK, NEW t \in Threads, NEW data \in Given, data.val \in Values,
           Renew(t, data)
    PROVE  GoesOn(t)
<1> DEFINE f == Renewed(repeat, data)
<1>1. /\ f \in Repeats
      /\ f.valid = TRUE /\ f.count = 0 /\ f.was = FALSE
      /\ f.prev.val = data.val /\ f.prev.repeats = 0
  BY RenewedFields DEF FilterOK, FilterTyped
<1> HIDE DEF f
<1>2. PassOn(t, f, "return", data) /\ seen' = Append(seen, data.val)
  BY DEF Renew, f
<1>3. /\ repeat' \in Repeats /\ thread' \in [Threads -> Tasks]
      /\ raced' \in BOOLEAN /\ Kept'
      /\ thread'[t] = Passing("return", data)
      /\ \A s \in Threads : s # t => thread'[s] = thread[s]
  <2>1. FilterTyped /\ Kept /\ "return" \in Ways
    BY DEF FilterOK, Ways
  <2>2. f.valid => f.prev.val \in Values /\ f.count = 0
    BY <1>1
  <2> QED BY <1>1, <1>2, <2>1, <2>2, PassOnOK
<1>4. repeat' = f
  BY <1>2 DEF PassOn
<1>5. FilterTyped'
  <2>1. seen' \in Seq(Values \cup {Gap.val})
    <3>1. data.val \in Values \cup {Gap.val} /\ seen \in Seq(Values \cup {Gap.val})
      BY DEF FilterOK, FilterTyped
    <3> QED BY <1>2, <3>1
  <2> QED BY <1>3, <2>1 DEF FilterTyped
<1>6. Marked'
  BY <1>1, <1>4 DEF Marked
<1>7. repeat'.count <= repeat.count + 1
  <2>1. repeat.count \in Nat
    BY Numbers DEF FilterOK, FilterTyped, Repeats
  <2> QED BY <1>1, <1>4, <2>1
<1>8. thread'[t].pc = "time"
  BY <1>3 DEF Passing
<1> QED BY <1>3, <1>5, <1>6, <1>7, <1>8 DEF GoesOn, FilterOK

LEMMA FlushOK ==
    ASSUME FilterOK, NEW t \in Threads,
           NEW r \in Repeats, MustFlush(r), r.count <= MaxRepeatCount,
           r.prev.val \in Values,
           NEW when \in Stamps, NEW then \in Ways, NEW data \in Given,
           then = "renew" => data.val \in Values,
           PassOn(t, Flushed(r, when), then, data),
           seen' \in Seq(Values \cup {Gap.val})
    PROVE  GoesOn(t)
<1> DEFINE f == Flushed(r, when)
<1>1. /\ f \in Repeats
      /\ f.valid = r.valid /\ f.count = 0 /\ f.was
      /\ f.prev.val = r.prev.val /\ f.prev.repeats = r.count
      /\ f.stamp = f.prev.stamp
  BY FlushedFields
<1> HIDE DEF f
<1>2. PassOn(t, f, then, data)
  BY DEF f
<1>3. /\ repeat' \in Repeats /\ thread' \in [Threads -> Tasks]
      /\ raced' \in BOOLEAN /\ Kept'
      /\ thread'[t] = Passing(then, data)
      /\ \A s \in Threads : s # t => thread'[s] = thread[s]
  <2>1. FilterTyped /\ Kept
    BY DEF FilterOK
  <2>2. f.valid => f.prev.val \in Values /\ f.count = 0
    BY <1>1
  <2> QED BY <1>1, <1>2, <2>1, <2>2, PassOnOK
<1>4. repeat' = f
  BY <1>2 DEF PassOn
<1>5. FilterTyped'
  BY <1>3 DEF FilterTyped
<1>6. Marked'
  <2>1. r.count > 0
    BY DEF MustFlush
  <2> QED BY <1>1, <1>4, <2>1 DEF Marked
<1>7. repeat'.count <= repeat.count + 1
  <2>1. repeat.count \in Nat
    BY Numbers DEF FilterOK, FilterTyped, Repeats
  <2> QED BY <1>1, <1>4, <2>1
<1>8. thread'[t].pc = "time"
  BY <1>3 DEF Passing
<1> QED BY <1>3, <1>5, <1>6, <1>7, <1>8 DEF GoesOn, FilterOK

LEMMA PreviousFlushOK ==
    ASSUME FilterOK, NEW t \in Threads, MustFlush(repeat),
           NEW when \in Stamps, NEW then \in Ways, NEW data \in Given,
           then = "renew" => data.val \in Values,
           PassOn(t, Flushed(repeat, when), then, data), UNCHANGED seen
    PROVE  GoesOn(t)
<1>1. repeat \in Repeats /\ repeat.valid
  BY DEF FilterOK, FilterTyped, MustFlush
<1>2. repeat.prev.val \in Values /\ repeat.count < MaxRepeatCount
  BY <1>1 DEF FilterOK, Kept
<1>3. repeat.count <= MaxRepeatCount
  BY <1>1, <1>2, Numbers DEF Repeats
<1>4. seen' \in Seq(Values \cup {Gap.val})
  BY DEF FilterOK, FilterTyped
<1> QED BY <1>1, <1>2, <1>3, <1>4, FlushOK

\* What inc() makes of the previous value.
Counted == [repeat EXCEPT !.count = @ + 1]

LEMMA CountedFields ==
    ASSUME FilterOK, repeat.count < MaxCalls
    PROVE  /\ Counted \in Repeats
           /\ Counted.valid = repeat.valid /\ Counted.prev = repeat.prev
           /\ Counted.count = repeat.count + 1
           /\ Counted.was = repeat.was /\ Counted.stamp = repeat.stamp
           /\ repeat.count \in Nat
           /\ repeat.valid => Counted.count <= MaxRepeatCount
<1>1. repeat \in Repeats /\ repeat.count \in Nat
  BY Numbers DEF FilterOK, FilterTyped, Repeats
<1>2. repeat.count + 1 \in 0..MaxCalls
  BY <1>1, Numbers
<1>3. /\ Counted \in Repeats
      /\ Counted.valid = repeat.valid /\ Counted.prev = repeat.prev
      /\ Counted.count = repeat.count + 1
      /\ Counted.was = repeat.was /\ Counted.stamp = repeat.stamp
  BY <1>1, <1>2 DEF Counted, Repeats
<1>4. repeat.valid => repeat.count < MaxRepeatCount
  BY DEF FilterOK, Kept
<1> QED BY <1>1, <1>3, <1>4, Numbers

LEMMA IncOK ==
    ASSUME FilterOK, NEW t \in Threads, NEW when \in Stamps,
           repeat.count < MaxCalls, Inc(t, when)
    PROVE  GoesOn(t)
<1>1. /\ Counted \in Repeats
      /\ Counted.valid = repeat.valid /\ Counted.prev = repeat.prev
      /\ Counted.count = repeat.count + 1
      /\ Counted.was = repeat.was /\ Counted.stamp = repeat.stamp
      /\ repeat.count \in Nat
      /\ repeat.valid => Counted.count <= MaxRepeatCount
  BY CountedFields
<1>2. repeat.valid => repeat.prev.val \in Values
  BY DEF FilterOK, Kept
<1>3. seen' \in Seq(Values \cup {Gap.val})
  <2>1. seen' = IF repeat.valid THEN Append(seen, repeat.prev.val) ELSE seen
    BY <1>1 DEF Inc, Counted
  <2>2. seen \in Seq(Values \cup {Gap.val})
    BY DEF FilterOK, FilterTyped
  <2> QED BY <1>2, <2>1, <2>2
<1>4. CASE ReachesMaximum(Counted) /\ MustFlush(Counted)
  <2>1. PassOn(t, Flushed(Counted, when), "return", Nothing)
    BY <1>4 DEF Inc, Counted
  <2>2. repeat.valid
    BY <1>1, <1>4 DEF MustFlush
  <2>3. "return" \in Ways /\ Nothing \in Given /\ Counted.prev.val \in Values
    BY <1>1, <1>2, <2>2, NothingGiven DEF Ways
  <2> HIDE DEF Counted
  <2> QED BY <1>1, <1>3, <1>4, <2>1, <2>2, <2>3, FlushOK
<1>5. CASE ~(ReachesMaximum(Counted) /\ MustFlush(Counted))
  <2>1. repeat' = Counted /\ Return(t) /\ raced' = Races(t)
    BY <1>5 DEF Inc, Counted
  <2>2. /\ thread' \in [Threads -> Tasks]
        /\ thread'[t] = Idle
        /\ \A s \in Threads : s # t => thread'[s] = thread[s]
        /\ \A s \in Threads :
             /\ thread'[s].then # "return" =>
                    thread'[s].pc \in {"time", "store", "after"}
             /\ thread'[s].then = "renew" => thread'[s].data.val \in Values
        /\ thread'["ca"].pc # "update"
    BY <2>1, ReturnOK DEF FilterOK
  <2>3. FilterTyped'
    <3>1. Races(t) \in BOOLEAN
      BY DEF Races, InPass
    <3> QED BY <1>1, <1>3, <2>1, <2>2, <3>1 DEF FilterTyped
  <2>4. repeat.valid => repeat.count + 1 < MaxRepeatCount
    BY <1>1, <1>5, Numbers DEF ReachesMaximum, MustFlush
  <2>5. Kept'
    <3>1. (repeat.valid => repeat.prev.val \in Values /\ repeat.count < MaxRepeatCount)'
      BY <1>1, <1>2, <2>1, <2>4
    <3> QED BY <2>2, <3>1 DEF Kept
  <2>6. Marked'
    BY <1>1, <2>1 DEF FilterOK, Marked
  <2>7. repeat'.count <= repeat.count + 1 /\ thread'[t].pc = "idle"
    BY <1>1, <2>1, <2>2 DEF Idle
  <2> QED BY <2>2, <2>3, <2>5, <2>6, <2>7 DEF GoesOn, FilterOK
<1> QED BY <1>4, <1>5

\* A value for the RepeatFilter.
LEMMA RepeatValueOK ==
    ASSUME FilterOK, NEW data \in Given, data.val \in Values, clock \in Stamps,
           repeat.count < MaxCalls, RepeatValue(data)
    PROVE  GoesOn("ca")
<1> "ca" \in Threads
  BY DEF Threads
<1>1. CASE repeat.valid /\ SameValue(repeat.prev, data)
  BY <1>1, IncOK DEF RepeatValue
<1>2. CASE ~(repeat.valid /\ SameValue(repeat.prev, data)) /\ MustFlush(repeat)
  <2>1. /\ PassOn("ca", Flushed(repeat, data.stamp), "renew", data)
        /\ UNCHANGED seen
    BY <1>2 DEF RepeatValue, Differs
  <2>2. data.stamp \in Stamps /\ "renew" \in Ways
    BY DEF Given, Ways
  <2> QED BY <1>2, <2>1, <2>2, PreviousFlushOK
<1>3. CASE ~(repeat.valid /\ SameValue(repeat.prev, data)) /\ ~MustFlush(repeat)
  <2>1. Renew("ca", data)
    BY <1>3 DEF RepeatValue, Differs
  <2> QED BY <2>1, RenewOK
<1> QED BY <1>1, <1>2, <1>3

LEMMA SlotValueOK ==
    ASSUME FilterOK, NEW data \in Given, data.val \in Values, clock \in Stamps,
           repeat.count < MaxCalls, thread["ca"].pc = "idle", SlotValue(data)
    PROVE  GoesOn("ca")
<1>1. CASE UNCHANGED <<next_slot, repeat, thread, seen, raced>>
  <2>1. FilterOK'
    BY <1>1 DEF FilterOK, FilterTyped, Kept, Marked
  <2>2. repeat.count \in Nat
    BY Numbers DEF FilterOK, FilterTyped, Repeats
  <2> QED BY <1>1, <2>1, <2>2 DEF GoesOn
<1>2. CASE RepeatValue(data)
  BY <1>2, RepeatValueOK
<1> QED BY <1>1, <1>2 DEF SlotValue

-----------------------------------------------------------------------------
(* The type invariant.                                                     *)
Types == SourceTyped /\ PassedTyped /\ FilterOK /\ Budget

LEMMA Basics ==
    ASSUME Types
    PROVE  /\ clock \in Stamps /\ repeat.count \in Nat /\ calls \in Nat
           /\ repeat.count <= calls /\ calls <= MaxCalls
           /\ thread["ca"] \in Tasks /\ thread["engine"] \in Tasks
           /\ repeat \in Repeats
           /\ "ca" \in Threads /\ "engine" \in Threads
           /\ \A t \in Threads : t = "ca" \/ t = "engine"
<1>1. clock \in Stamps /\ calls \in Nat /\ calls <= MaxCalls
  BY Numbers DEF Types, SourceTyped, Stamps
<1>2. repeat \in Repeats /\ repeat.count \in Nat
  BY Numbers DEF Types, FilterOK, FilterTyped, Repeats
<1>3. "ca" \in Threads /\ "engine" \in Threads /\ \A t \in Threads : t = "ca" \/ t = "engine"
  BY DEF Threads
<1>4. thread["ca"] \in Tasks /\ thread["engine"] \in Tasks
  BY <1>3 DEF Types, FilterOK, FilterTyped
<1> QED BY <1>1, <1>2, <1>3, <1>4 DEF Types, Budget

LEMMA InitTypes == Init => Types
<1> SUFFICES ASSUME Init PROVE Types
  OBVIOUS
<1>1. Nothing \in Given /\ Nothing \in Samples
  BY NothingGiven
<1>2. 0 \in Stamps /\ 0 \in 0..MaxCalls /\ 1 \in 1..MaxTime
  BY Numbers DEF Stamps
<1>3. Idle \in Tasks /\ Idle.pc = "idle" /\ Idle.then = "return"
  BY <1>1 DEF Idle, Tasks, Places, Ways
<1>4. SourceTyped
  BY <1>1, <1>2 DEF Init, SourceTyped
<1>5. PassedTyped
  BY <1>2 DEF Init, PassedTyped
<1>6. FilterTyped
  <2>1. repeat \in Repeats
    BY <1>1, <1>2 DEF Init, Repeats
  <2>2. thread \in [Threads -> Tasks]
    BY <1>3 DEF Init
  <2>3. seen \in Seq(Values \cup {Gap.val})
    <3>1. seen = << >>
      BY DEF Init
    <3> QED BY <3>1
  <2>4. raced \in BOOLEAN
    BY DEF Init
  <2> QED BY <2>1, <2>2, <2>3, <2>4 DEF FilterTyped
<1>7. Kept
  BY <1>3 DEF Init, Kept, Threads
<1>8. Marked /\ Budget
  BY <1>3 DEF Init, Marked, Budget, Threads
<1> QED BY <1>4, <1>5, <1>6, <1>7, <1>8 DEF Types, FilterOK

\* A callback of CA that goes through the RepeatFilter, or not.
LEMMA CallbackBudget ==
    ASSUME Types, GoesOn("ca"), calls' = calls + 1
    PROVE  Budget'
<1>1. repeat'.count <= repeat.count + 1 /\ thread'["engine"] = thread["engine"]
  BY DEF GoesOn, Threads
<1>2. repeat'.count \in Nat
  BY Numbers DEF GoesOn, FilterOK, FilterTyped, Repeats
<1>3. repeat.count \in Nat /\ calls \in Nat /\ repeat.count <= calls
  BY Basics
<1>4. thread["engine"].pc = "update" => repeat.count < calls
  BY DEF Types, Budget
<1> QED BY <1>1, <1>2, <1>3, <1>4 DEF Budget

LEMMA CallCounted ==
    ASSUME Types, calls < MaxCalls
    PROVE  calls + 1 \in 0..MaxCalls /\ repeat.count < MaxCalls
  BY Basics, Numbers

\* The RepeatFilter is left alone.
LEMMA FilterKept ==
    ASSUME FilterOK, UNCHANGED <<repeat, thread, seen, raced>>
    PROVE  FilterOK'
  BY DEF FilterOK, FilterTyped, Kept, Marked

LEMMA PassedKept ==
    ASSUME PassedTyped, UNCHANGED <<last_stamp, passed, refused>>
    PROVE  PassedTyped'
  BY DEF PassedTyped

\* A thread forgets the previous value.
LEMMA ForgetOK ==
    ASSUME FilterOK, NEW r \in Repeats, repeat' = r, r.valid = FALSE,
           NEW t \in Threads, Return(t) \/ UNCHANGED thread,
           raced' \in BOOLEAN, seen' \in Seq(Values \cup {Gap.val})
    PROVE  FilterOK'
<1>1. thread' \in [Threads -> Tasks] /\ Kept'
  <2>1. CASE Return(t)
    BY <2>1, ReturnOK DEF FilterOK, Kept
  <2>2. CASE UNCHANGED thread
    BY <2>2 DEF FilterOK, FilterTyped, Kept
  <2> QED BY <2>1, <2>2
<1>2. FilterTyped'
  BY <1>1 DEF FilterTyped
<1>3. Marked'
  BY DEF Marked
<1> QED BY <1>1, <1>2, <1>3 DEF FilterOK

LEMMA GapPasses ==
    ASSUME Types
    PROVE  /\ Append(passed, Gap) \in Seq(Samples \cup {Gap})
           /\ Append(seen, Gap.val) \in Seq(Values \cup {Gap.val})
<1>1. passed \in Seq(Samples \cup {Gap}) /\ seen \in Seq(Values \cup {Gap.val})
  BY DEF Types, PassedTyped, FilterOK, FilterTyped
<1> QED BY <1>1

LEMMA RaceType == \A t \in Threads : Races(t) \in BOOLEAN
  BY DEF Races, InPass

\* repeat without its previous value.
Invalid == [repeat EXCEPT !.valid = FALSE]

LEMMA InvalidFields ==
    ASSUME FilterOK
    PROVE  /\ Invalid \in Repeats /\ Invalid.valid = FALSE
           /\ Invalid.count = repeat.count
           /\ Invalid.was = repeat.was /\ Invalid.stamp = repeat.stamp
           /\ Invalid.prev = repeat.prev
<1>1. repeat \in Repeats
  BY DEF FilterOK, FilterTyped
<1> QED BY <1>1 DEF Invalid, Repeats

\* The disconnection reaches the RepeatFilter in thread t.
LEMMA DisconnectedOK ==
    ASSUME Types, NEW t \in Threads, Disconnected(t), thread[t].pc # "update"
    PROVE  /\ FilterOK' /\ PassedTyped'
           /\ repeat'.count <= repeat.count
           /\ thread'[t].pc # "update"
           /\ \A s \in Threads : s # t => thread'[s] = thread[s]
<1>1. CASE MustFlush(repeat)
  <2>1. /\ PassOn(t, Flushed(repeat, clock), "disconnect", Nothing)
        /\ UNCHANGED <<passed, seen, last_stamp, refused>>
    BY <1>1 DEF Disconnected
  <2>2. clock \in Stamps /\ "disconnect" \in Ways /\ Nothing \in Given
    BY Basics, NothingGiven DEF Ways
  <2>3. GoesOn(t)
    <3>1. FilterOK
      BY DEF Types
    <3> QED BY <1>1, <2>1, <2>2, <3>1, PreviousFlushOK
  <2>4. PassedTyped'
    BY <2>1, PassedKept DEF Types
  <2>5. repeat'.count = 0
    <3>1. repeat \in Repeats
      BY Basics
    <3> QED BY <2>1, <3>1 DEF PassOn, Flushed, Repeats
  <2> QED BY <2>3, <2>4, <2>5, Basics DEF GoesOn
<1>2. CASE ~MustFlush(repeat)
  <2>1. /\ repeat' = Invalid
        /\ passed' = Append(passed, Gap) /\ seen' = Append(seen, Gap.val)
        /\ raced' = Races(t)
        /\ UNCHANGED <<thread, last_stamp, refused>>
    BY <1>2 DEF Disconnected, Invalid
  <2>2. PassedTyped'
    BY <2>1, GapPasses DEF Types, PassedTyped
  <2>3. Invalid \in Repeats /\ Invalid.valid = FALSE /\ Invalid.count = repeat.count
    BY InvalidFields DEF Types
  <2>4. FilterOK'
    <3>1. FilterOK
      BY DEF Types
    <3>2. raced' \in BOOLEAN /\ seen' \in Seq(Values \cup {Gap.val})
      BY <2>1, GapPasses, RaceType
    <3> HIDE DEF Invalid
    <3> QED BY <2>1, <2>3, <3>1, <3>2, ForgetOK
  <2>5. repeat'.count = repeat.count
    BY <2>1, <2>3
  <2> QED BY <2>1, <2>2, <2>4, <2>5, Basics
<1> QED BY <1>1, <1>2

LEMMA PvValueTypes ==
    ASSUME Types, NEW v \in Values, NEW stamp \in 1..MaxTime, PvValue(v, stamp)
    PROVE  Types'
<1> DEFINE data == Sample(v, stamp)
<1>1. data \in Given /\ data.val \in Values
  BY Numbers DEF Sample, Given, Stamps
<1> HIDE DEF data
<1>2. /\ calls < MaxCalls /\ calls' = calls + 1 /\ thread["ca"].pc = "idle"
      /\ pv' = data /\ asked' = FALSE
      /\ UNCHANGED <<kind, running, connected, clock, last_stamp, passed, refused>>
  BY DEF PvValue, Begin, data
<1>3. PassedTyped'
  BY <1>2, PassedKept DEF Types
<1>4. CASE disable.on
  <2>1. disable' = [disable EXCEPT !.last = data]
    BY <1>2, <1>4 DEF PvValue
  <2>2. UNCHANGED <<repeat, thread, seen, raced>>
    BY <1>4 DEF PvValue
  <2>3. SourceTyped'
    <3>1. calls' \in 0..MaxCalls
      BY <1>2, CallCounted
    <3>2. /\ disable' \in [on : BOOLEAN, last : Given]
          /\ disable'.last = data /\ disable'.on = disable.on
      <4>1. disable \in [on : BOOLEAN, last : Given]
        BY DEF Types, SourceTyped
      <4> QED BY <1>1, <2>1, <4>1
    <3> QED BY <1>1, <1>2, <1>4, <3>1, <3>2 DEF Types, SourceTyped
  <2>4. FilterOK'
    BY <2>2, FilterKept DEF Types
  <2>5. Budget'
    BY <1>2, <2>2, Basics DEF Types, Budget
  <2> QED BY <1>3, <2>3, <2>4, <2>5 DEF Types
<1>5. CASE ~disable.on
  <2>1. SlotValue(data) /\ UNCHANGED disable
    BY <1>5 DEF PvValue, data
  <2>2. GoesOn("ca")
    <3>1. FilterOK /\ clock \in Stamps /\ repeat.count < MaxCalls
      BY <1>2, Basics, CallCounted DEF Types
    <3> QED BY <1>1, <1>2, <2>1, <3>1, SlotValueOK
  <2>3. SourceTyped'
    <3>1. calls' \in 0..MaxCalls
      BY <1>2, CallCounted
    <3> QED BY <1>1, <1>2, <2>1, <3>1 DEF Types, SourceTyped
  <2>4. Budget'
    BY <1>2, <2>2, CallbackBudget
  <2> QED BY <1>3, <2>2, <2>3, <2>4 DEF Types, GoesOn
<1> QED BY <1>4, <1>5

LEMMA EnableTypes ==
    ASSUME Types, NEW when \in 1..MaxTime, Enable(when)
    PROVE  Types'
<1> DEFINE data == [disable.last EXCEPT !.stamp = when]
<1>1. /\ calls < MaxCalls /\ calls' = calls + 1 /\ thread["ca"].pc = "idle"
      /\ disable' = [on |-> FALSE, last |-> Nothing]
      /\ UNCHANGED <<kind, running, connected, asked, pv, clock, last_stamp, passed,
                     refused>>
  BY DEF Enable, Begin
<1>2. PassedTyped'
  BY <1>1, PassedKept DEF Types
<1>3. SourceTyped'
  <2>1. calls' \in 0..MaxCalls
    BY <1>1, CallCounted
  <2> QED BY <1>1, <2>1, NothingGiven DEF Types, SourceTyped
<1>4. GoesOn("ca")
  <2>1. CASE disable.last = Nothing
    <3>1. UNCHANGED <<repeat, thread, seen, raced>>
      BY <2>1 DEF Enable
    <3>2. FilterOK'
      BY <3>1, FilterKept DEF Types
    <3> QED BY <1>1, <3>1, <3>2, Basics DEF GoesOn
  <2>2. CASE disable.last # Nothing
    <3>1. disable.last \in Given /\ disable.last.val \in Values
      BY <2>2 DEF Types, SourceTyped
    <3>2. data \in Given /\ data.val \in Values
      BY <3>1, Numbers DEF Given, Stamps
    <3>3. SlotValue(data)
      BY <2>2 DEF Enable
    <3>4. FilterOK /\ clock \in Stamps /\ repeat.count < MaxCalls
      BY <1>1, Basics, CallCounted DEF Types
    <3> HIDE DEF data
    <3> QED BY <1>1, <3>2, <3>3, <3>4, SlotValueOK
  <2> QED BY <2>1, <2>2
<1>5. Budget'
  BY <1>1, <1>4, CallbackBudget
<1> QED BY <1>2, <1>3, <1>4, <1>5 DEF Types, GoesOn

LEMMA DisableTypes == Types /\ Disable => Types'
<1> SUFFICES ASSUME Types, Disable PROVE Types'
  OBVIOUS
<1>1. /\ calls < MaxCalls /\ calls' = calls + 1
      /\ disable' = [disable EXCEPT !.on = TRUE]
      /\ UNCHANGED <<kind, running, connected, asked, pv, clock, repeat, last_stamp,
                     passed, thread, seen, refused, raced>>
  BY DEF Disable, Begin, ghosts
<1>2. SourceTyped'
  <2>1. calls' \in 0..MaxCalls
    BY <1>1, CallCounted
  <2>2. /\ disable' \in [on : BOOLEAN, last : Given]
        /\ disable'.last = disable.last /\ disable'.on
    BY <1>1 DEF Types, SourceTyped
  <2> QED BY <1>1, <2>1, <2>2 DEF Types, SourceTyped
<1>3. PassedTyped' /\ FilterOK'
  BY <1>1, PassedKept, FilterKept DEF Types
<1>4. Budget'
  BY <1>1, Basics DEF Types, Budget
<1> QED BY <1>2, <1>3, <1>4 DEF Types

LEMMA ConnectedTypes == Types /\ Connected => Types'
<1> SUFFICES ASSUME Types, Connected PROVE Types'
  OBVIOUS
<1> DEFINE r == [repeat EXCEPT !.prev = Nothing, !.valid = FALSE]
<1>1. /\ calls < MaxCalls /\ calls' = calls + 1
      /\ repeat' = r /\ raced' = Races("ca") /\ connected' = TRUE
      /\ UNCHANGED <<kind, running, asked, pv, clock, disable, last_stamp, passed,
                     thread, seen, refused>>
  BY DEF Connected, Begin
<1>2. r \in Repeats /\ r.valid = FALSE /\ r.count = repeat.count
  BY Basics, NothingGiven DEF Repeats
<1> HIDE DEF r
<1>3. SourceTyped'
  <2>1. calls' \in 0..MaxCalls
    BY <1>1, CallCounted
  <2> QED BY <1>1, <2>1 DEF Types, SourceTyped
<1>4. FilterOK'
  <2>1. FilterOK /\ raced' \in BOOLEAN /\ "ca" \in Threads
    BY <1>1, RaceType, Basics DEF Types
  <2>2. seen' \in Seq(Values \cup {Gap.val})
    BY <1>1 DEF Types, FilterOK, FilterTyped
  <2> QED BY <1>1, <1>2, <2>1, <2>2, ForgetOK
<1>5. PassedTyped'
  BY <1>1, PassedKept DEF Types
<1>6. Budget'
  BY <1>1, <1>2, Basics DEF Types, Budget
<1> QED BY <1>3, <1>4, <1>5, <1>6 DEF Types

LEMMA DisconnectedSource ==
    ASSUME Types, NEW t \in Threads, Disconnected(t), running' \in BOOLEAN,
           calls' \in 0..MaxCalls
    PROVE  SourceTyped'
<1>1. /\ connected' = FALSE /\ asked' = FALSE
      /\ disable' = IF disable.on THEN [disable EXCEPT !.last = Nothing] ELSE disable
      /\ UNCHANGED <<kind, pv, clock>>
  BY DEF Disconnected
<1>2. /\ disable' \in [on : BOOLEAN, last : Given]
      /\ disable'.last # Nothing => disable'.on /\ disable'.last.val \in Values
  <2>1. /\ disable \in [on : BOOLEAN, last : Given]
        /\ disable.last # Nothing => disable.on /\ disable.last.val \in Values
    BY DEF Types, SourceTyped
  <2>2. CASE disable.on
    BY <1>1, <2>1, <2>2, NothingGiven
  <2>3. CASE ~disable.on
    BY <1>1, <2>1, <2>3
  <2> QED BY <2>2, <2>3
<1> QED BY <1>1, <1>2 DEF Types, SourceTyped

LEMMA PvDisconnectedTypes == Types /\ PvDisconnected => Types'
<1> SUFFICES ASSUME Types, PvDisconnected PROVE Types'
  OBVIOUS
<1>1. /\ calls < MaxCalls /\ calls' = calls + 1 /\ thread["ca"].pc = "idle"
      /\ Disconnected("ca") /\ UNCHANGED running
  BY DEF PvDisconnected, Begin
<1>2. /\ FilterOK' /\ PassedTyped'
      /\ repeat'.count <= repeat.count
      /\ thread'["engine"] = thread["engine"]
  BY <1>1, DisconnectedOK, Basics
<1>3. SourceTyped'
  <2>1. running' \in BOOLEAN
    BY <1>1 DEF Types, SourceTyped
  <2> QED BY <1>1, <2>1, DisconnectedSource, CallCounted, Basics
<1>4. Budget'
  <2>1. repeat'.count \in Nat
    BY <1>2, Numbers DEF FilterOK, FilterTyped, Repeats
  <2> QED BY <1>1, <1>2, <2>1, Basics DEF Types, Budget
<1> QED BY <1>2, <1>3, <1>4 DEF Types

LEMMA StopPVTypes == Types /\ StopPV => Types'
<1> SUFFICES ASSUME Types, StopPV PROVE Types'
  OBVIOUS
<1>1. /\ thread["engine"].pc = "idle" /\ Disconnected("engine")
      /\ UNCHANGED <<running, calls>>
  BY DEF StopPV
<1>2. /\ FilterOK' /\ PassedTyped'
      /\ repeat'.count <= repeat.count
      /\ thread'["engine"].pc # "update"
  BY <1>1, DisconnectedOK, Basics
<1>3. SourceTyped'
  <2>1. running' \in BOOLEAN /\ calls' \in 0..MaxCalls
    BY <1>1 DEF Types, SourceTyped
  <2> QED BY <1>1, <2>1, DisconnectedSource, Basics
<1>4. Budget'
  <2>1. repeat'.count \in Nat
    BY <1>2, Numbers DEF FilterOK, FilterTyped, Repeats
  <2> QED BY <1>1, <1>2, <2>1, Basics DEF Types, Budget
<1> QED BY <1>2, <1>3, <1>4 DEF Types

LEMMA ScanTypes == Types /\ Scan => Types'
<1> SUFFICES ASSUME Types, Scan PROVE Types'
  OBVIOUS
<1>1. /\ calls < MaxCalls /\ calls' = calls + 1 /\ thread["engine"].pc = "idle"
      /\ UNCHANGED <<kind, running, connected, pv, clock, disable, repeat, last_stamp,
                     passed, seen, refused, raced>>
  BY DEF Scan, Begin, ghosts
<1>2. PassedTyped'
  BY <1>1, PassedKept DEF Types
<1>3. calls' \in 0..MaxCalls
  BY <1>1, CallCounted
<1>4. CASE kind = "get"
  <2>1. asked' = TRUE /\ UNCHANGED thread
    BY <1>4 DEF Scan
  <2>2. SourceTyped'
    BY <1>1, <1>3, <2>1 DEF Types, SourceTyped
  <2>3. FilterOK'
    BY <1>1, <2>1, FilterKept DEF Types
  <2>4. Budget'
    BY <1>1, <2>1, Basics DEF Types, Budget
  <2> QED BY <1>2, <2>2, <2>3, <2>4 DEF Types
<1>5. CASE kind # "get"
  <2>1. /\ thread' = [thread EXCEPT !["engine"].pc = "update"]
        /\ UNCHANGED asked
    BY <1>5 DEF Scan
  <2>2. SourceTyped'
    BY <1>1, <1>3, <2>1 DEF Types, SourceTyped
  <2>3. thread \in [Threads -> Tasks]
    BY DEF Types, FilterOK, FilterTyped
  <2>4. /\ thread'["engine"].pc = "update"
        /\ thread'["engine"].then = thread["engine"].then
        /\ thread'["engine"].data = thread["engine"].data
        /\ thread'["ca"] = thread["ca"]
        /\ thread' \in [Threads -> Tasks]
    BY <2>1, <2>3 DEF Threads, Tasks, Places
  <2>5. FilterTyped'
    BY <1>1, <2>4 DEF Types, FilterOK, FilterTyped
  <2>6. Kept'
    <3>1. (repeat.valid => repeat.prev.val \in Values /\ repeat.count < MaxRepeatCount)'
      BY <1>1 DEF Types, FilterOK, Kept
    <3>2. thread["engine"].then = "return"
      BY <1>1, Basics DEF Types, FilterOK, Kept
    <3>3. ASSUME NEW t \in Threads
          PROVE  /\ thread'[t].then # "return" =>
                       thread'[t].pc \in {"time", "store", "after"}
                 /\ thread'[t].then = "renew" => thread'[t].data.val \in Values
      BY <2>4, <3>2, Basics DEF Types, FilterOK, Kept
    <3>4. thread'["ca"].pc # "update"
      BY <2>4 DEF Types, FilterOK, Kept
    <3> QED BY <3>1, <3>3, <3>4 DEF Kept
  <2>7. Marked'
    BY <1>1 DEF Types, FilterOK, Marked
  <2>8. Budget'
    BY <1>1, Basics DEF Budget
  <2> QED BY <1>2, <2>2, <2>5, <2>6, <2>7, <2>8 DEF Types, FilterOK
<1> QED BY <1>4, <1>5

LEMMA UpdateTypes == Types /\ Update => Types'
<1> SUFFICES ASSUME Types, Update PROVE Types'
  OBVIOUS
<1>1. /\ thread["engine"].pc = "update"
      /\ UNCHANGED <<source, last_stamp, passed, refused, disable>>
  BY DEF Update
<1>2. SourceTyped' /\ PassedTyped'
  BY <1>1 DEF Types, SourceTyped, PassedTyped, source
<1>3. repeat.count < calls /\ repeat.count < MaxCalls
  BY <1>1, Basics, Numbers DEF Types, Budget
<1>4. CASE ~repeat.had
  <2>1. Inc("engine", clock)
    BY <1>4 DEF Update
  <2>2. GoesOn("engine")
    BY <1>3, <2>1, IncOK, Basics DEF Types
  <2>3. Budget'
    <3>1. repeat'.count <= repeat.count + 1 /\ thread'["engine"].pc # "update"
      BY <2>2 DEF GoesOn
    <3>2. repeat'.count \in Nat /\ calls' = calls
      BY <1>1, <2>2, Numbers DEF GoesOn, FilterOK, FilterTyped, Repeats, source
    <3> QED BY <1>3, <3>1, <3>2, Basics DEF Budget
  <2> QED BY <1>2, <2>2, <2>3 DEF Types, GoesOn
<1>5. CASE repeat.had
  <2>1. /\ repeat' = [repeat EXCEPT !.had = FALSE]
        /\ Return("engine") /\ UNCHANGED <<seen, raced>>
    BY <1>5 DEF Update
  <2>2. /\ repeat' \in Repeats
        /\ repeat'.valid = repeat.valid /\ repeat'.prev = repeat.prev
        /\ repeat'.count = repeat.count /\ repeat'.was = repeat.was
        /\ repeat'.stamp = repeat.stamp
    BY <2>1, Basics DEF Repeats
  <2>3. /\ thread' \in [Threads -> Tasks]
        /\ thread'["engine"] = Idle
        /\ \A s \in Threads :
             /\ thread'[s].then # "return" =>
                    thread'[s].pc \in {"time", "store", "after"}
             /\ thread'[s].then = "renew" => thread'[s].data.val \in Values
        /\ thread'["ca"].pc # "update"
    BY <2>1, ReturnOK, Basics DEF Types, FilterOK
  <2>4. FilterTyped'
    BY <2>1, <2>2, <2>3 DEF Types, FilterOK, FilterTyped
  <2>5. Kept'
    BY <2>2, <2>3 DEF Types, FilterOK, Kept
  <2>6. Marked'
    BY <2>2 DEF Types, FilterOK, Marked
  <2>7. Budget'
    BY <1>1, <2>2, <2>3, Basics DEF Budget, Idle, source
  <2> QED BY <1>2, <2>4, <2>5, <2>6, <2>7 DEF Types, FilterOK
<1> QED BY <1>4, <1>5

LEMMA StopTypes == Types /\ Stop => Types'
<1> SUFFICES ASSUME Types, Stop PROVE Types'
  OBVIOUS
<1>1. /\ calls < MaxCalls /\ calls' = calls + 1 /\ thread["engine"].pc = "idle"
      /\ running' = FALSE
      /\ UNCHANGED <<kind, connected, asked, pv, clock, disable, last_stamp, passed, seen,
                     refused>>
  BY DEF Stop, Begin
<1>2. SourceTyped'
  <2>1. calls' \in 0..MaxCalls
    BY <1>1, CallCounted
  <2> QED BY <1>1, <2>1 DEF Types, SourceTyped
<1>3. PassedTyped'
  BY <1>1, PassedKept DEF Types
<1>4. CASE MustFlush(repeat)
  <2>1. PassOn("engine", Flushed(repeat, clock), "forget", Nothing)
    BY <1>4 DEF Stop
  <2>2. "forget" \in Ways /\ Nothing \in Given
    BY NothingGiven DEF Ways
  <2>3. GoesOn("engine")
    <3>1. FilterOK /\ clock \in Stamps /\ "engine" \in Threads /\ UNCHANGED seen
      BY <1>1, Basics DEF Types
    <3> QED BY <1>4, <2>1, <2>2, <3>1, PreviousFlushOK
  <2>4. Budget'
    <3>1. repeat'.count <= repeat.count + 1 /\ thread'["engine"].pc # "update"
      BY <2>3 DEF GoesOn
    <3>2. repeat'.count \in Nat
      BY <2>3, Numbers DEF GoesOn, FilterOK, FilterTyped, Repeats
    <3> QED BY <1>1, <3>1, <3>2, Basics DEF Budget
  <2> QED BY <1>2, <1>3, <2>3, <2>4 DEF Types, GoesOn
<1>5. CASE ~MustFlush(repeat)
  <2>1. repeat' = Invalid /\ raced' = Races("engine") /\ UNCHANGED thread
    BY <1>5 DEF Stop, Invalid
  <2>2. Invalid \in Repeats /\ Invalid.valid = FALSE /\ Invalid.count = repeat.count
    BY InvalidFields DEF Types
  <2>3. FilterOK'
    <3>1. FilterOK /\ "engine" \in Threads
      BY Basics DEF Types
    <3>2. raced' \in BOOLEAN /\ seen' \in Seq(Values \cup {Gap.val})
      BY <1>1, <2>1, RaceType, Basics DEF Types, FilterOK, FilterTyped
    <3> HIDE DEF Invalid
    <3> QED BY <2>1, <2>2, <3>1, <3>2, ForgetOK
  <2>4. Budget'
    BY <1>1, <2>1, <2>2, Basics DEF Budget
  <2> QED BY <1>2, <1>3, <2>3, <2>4 DEF Types
<1> QED BY <1>4, <1>5

LEMMA StartTypes == Types /\ Start => Types'
<1> SUFFICES ASSUME Types, Start PROVE Types'
  OBVIOUS
<1>1. /\ calls < MaxCalls /\ calls' = calls + 1 /\ running' = TRUE
      /\ UNCHANGED <<kind, connected, asked, pv, clock, disable, repeat, last_stamp,
                     passed, thread, seen, refused, raced>>
  BY DEF Start, Begin, ghosts
<1>2. SourceTyped'
  <2>1. calls' \in 0..MaxCalls
    BY <1>1, CallCounted
  <2> QED BY <1>1, <2>1 DEF Types, SourceTyped
<1>3. PassedTyped' /\ FilterOK'
  BY <1>1, PassedKept, FilterKept DEF Types
<1>4. Budget'
  BY <1>1, Basics DEF Types, Budget
<1> QED BY <1>2, <1>3, <1>4 DEF Types

LEMMA TickTypes == Types /\ Tick => Types'
<1> SUFFICES ASSUME Types, Tick PROVE Types'
  OBVIOUS
<1>1. /\ clock < MaxTime /\ clock' = clock + 1
      /\ UNCHANGED <<kind, running, connected, asked, pv, calls, disable, repeat,
                     last_stamp, passed, thread, seen, refused, raced>>
  BY DEF Tick, ghosts
<1>2. SourceTyped'
  <2>1. clock' \in 1..MaxTime
    BY <1>1, Numbers DEF Types, SourceTyped
  <2> QED BY <1>1, <2>1 DEF Types, SourceTyped
<1>3. PassedTyped' /\ FilterOK' /\ Budget'
  BY <1>1, PassedKept, FilterKept DEF Types, Budget
<1> QED BY <1>2, <1>3 DEF Types

\* A thread that passes a sample on gets one place further.
LEMMA MovesOK ==
    ASSUME Types, NEW t \in Threads, NEW to \in {"store", "after"},
           thread' = [thread EXCEPT ![t].pc = to],
           UNCHANGED <<kind, running, connected, asked, pv, clock, calls, disable,
                       repeat, seen, raced>>
    PROVE  /\ SourceTyped' /\ FilterOK' /\ Budget'
           /\ thread'[t].pc = to /\ thread'[t].then = thread[t].then
           /\ thread'[t].data = thread[t].data
           /\ \A s \in Threads : s # t => thread'[s] = thread[s]
<1>1. SourceTyped'
  BY DEF Types, SourceTyped
<1>2. thread \in [Threads -> Tasks]
  BY DEF Types, FilterOK, FilterTyped
<1>3. /\ thread'[t].pc = to /\ thread'[t].then = thread[t].then
      /\ thread'[t].data = thread[t].data
      /\ \A s \in Threads : s # t => thread'[s] = thread[s]
      /\ thread' \in [Threads -> Tasks]
  BY <1>2 DEF Tasks, Places
<1>4. FilterTyped'
  BY <1>3 DEF Types, FilterOK, FilterTyped
<1>5. Kept'
  <2>1. (repeat.valid => repeat.prev.val \in Values /\ repeat.count < MaxRepeatCount)'
    BY DEF Types, FilterOK, Kept
  <2>2. ASSUME NEW s \in Threads
        PROVE  /\ thread'[s].then # "return" =>
                     thread'[s].pc \in {"time", "store", "after"}
               /\ thread'[s].then = "renew" => thread'[s].data.val \in Values
    BY <1>3 DEF Types, FilterOK, Kept
  <2>3. thread'["ca"].pc # "update"
    BY <1>3, Basics DEF Types, FilterOK, Kept
  <2> QED BY <2>1, <2>2, <2>3 DEF Kept
<1>6. Marked'
  BY DEF Types, FilterOK, Marked
<1>7. Budget'
  BY <1>3, Basics DEF Types, Budget
<1> QED BY <1>1, <1>3, <1>4, <1>5, <1>6, <1>7 DEF FilterOK

LEMMA TimeCheckTypes ==
    ASSUME Types, NEW t \in Threads, TimeCheck(t)
    PROVE  Types'
<1>1. UNCHANGED <<kind, running, connected, asked, pv, clock, calls, disable,
                  repeat, passed, seen, raced>>
  BY DEF TimeCheck, source
<1>2. \/ /\ refused' = refused \cup {Len(passed)}
         /\ thread' = [thread EXCEPT ![t].pc = "after"] /\ UNCHANGED last_stamp
      \/ /\ last_stamp' = repeat.prev.stamp
         /\ thread' = [thread EXCEPT ![t].pc = "store"] /\ UNCHANGED refused
  BY DEF TimeCheck
<1>3. PassedTyped'
  <2>1. repeat.prev.stamp \in Stamps
    BY Basics DEF Repeats, Samples
  <2>2. passed \in Seq(Samples \cup {Gap}) /\ Len(passed) \in Nat
    BY DEF Types, PassedTyped
  <2> QED BY <1>1, <1>2, <2>1, <2>2 DEF Types, PassedTyped
<1>4. SourceTyped' /\ FilterOK' /\ Budget'
  BY <1>1, <1>2, MovesOK
<1> QED BY <1>3, <1>4 DEF Types

LEMMA StoreTypes ==
    ASSUME Types, NEW t \in Threads, Store(t)
    PROVE  Types'
<1>1. UNCHANGED <<kind, running, connected, asked, pv, clock, calls, disable,
                  repeat, last_stamp, refused, seen, raced>>
  BY DEF Store, source, ghosts
<1>2. /\ passed' = Append(passed, repeat.prev)
      /\ thread' = [thread EXCEPT ![t].pc = "after"]
  BY DEF Store
<1>3. PassedTyped'
  <2>1. repeat.prev \in Samples \cup {Gap}
    BY Basics DEF Repeats
  <2>2. passed \in Seq(Samples \cup {Gap})
    BY DEF Types, PassedTyped
  <2>3. passed' \in Seq(Samples \cup {Gap})
    BY <1>2, <2>1, <2>2
  <2> QED BY <1>1, <2>3 DEF Types, PassedTyped
<1>4. SourceTyped' /\ FilterOK' /\ Budget'
  BY <1>1, <1>2, MovesOK
<1> QED BY <1>3, <1>4 DEF Types

LEMMA AfterTypes ==
    ASSUME Types, NEW t \in Threads, After(t)
    PROVE  Types'
<1>1. /\ thread[t].pc = "after"
      /\ UNCHANGED <<kind, running, connected, asked, pv, clock, calls, disable,
                     last_stamp, refused>>
  BY DEF After, source
<1>2. SourceTyped'
  BY <1>1 DEF Types, SourceTyped
<1>3. thread[t] \in Tasks /\ FilterOK
  BY DEF Types, FilterOK, FilterTyped
<1>4. CASE thread[t].then = "return"
  <2>1. Return(t) /\ UNCHANGED <<repeat, passed, seen, raced>>
    BY <1>1, <1>4 DEF After
  <2>2. /\ thread' \in [Threads -> Tasks]
        /\ thread'[t] = Idle
        /\ \A s \in Threads : s # t => thread'[s] = thread[s]
        /\ \A s \in Threads :
             /\ thread'[s].then # "return" =>
                    thread'[s].pc \in {"time", "store", "after"}
             /\ thread'[s].then = "renew" => thread'[s].data.val \in Values
        /\ thread'["ca"].pc # "update"
    BY <1>3, <2>1, ReturnOK DEF FilterOK
  <2>3. FilterOK'
    BY <2>1, <2>2, <1>3 DEF FilterOK, FilterTyped, Kept, Marked
  <2>4. Budget'
    BY <1>1, <2>1, <2>2, Basics DEF Types, Budget, Idle
  <2> QED BY <1>1, <1>2, <2>1, <2>3, <2>4, PassedKept DEF Types
<1>5. CASE thread[t].then = "renew"
  <2>1. Renew(t, thread[t].data) /\ UNCHANGED passed
    BY <1>1, <1>5 DEF After
  <2>2. thread[t].data \in Given /\ thread[t].data.val \in Values
    BY <1>3, <1>5 DEF FilterOK, Kept, Tasks
  <2>3. GoesOn(t)
    BY <1>3, <2>1, <2>2, RenewOK
  <2>4. repeat'.count = 0
    <3>1. repeat' = Renewed(repeat, thread[t].data)
      BY <2>1 DEF Renew, PassOn
    <3> QED BY <2>2, <3>1, RenewedFields, Basics
  <2>5. Budget'
    BY <1>1, <2>3, <2>4, Basics DEF Types, Budget, GoesOn
  <2> QED BY <1>1, <1>2, <2>1, <2>3, <2>5, PassedKept DEF Types, GoesOn
<1>6. CASE thread[t].then \in {"forget", "disconnect"}
  <2>1. /\ repeat' = Invalid /\ Return(t) /\ raced' = Races(t)
        /\ passed' \in {passed, Append(passed, Gap)}
        /\ seen' \in {seen, Append(seen, Gap.val)}
    BY <1>1, <1>6 DEF After, Invalid
  <2>2. Invalid \in Repeats /\ Invalid.valid = FALSE /\ Invalid.count = repeat.count
    BY <1>3, InvalidFields
  <2>3. FilterOK'
    <3>1. raced' \in BOOLEAN /\ seen' \in Seq(Values \cup {Gap.val})
      BY <1>3, <2>1, RaceType, GapPasses DEF FilterOK, FilterTyped
    <3> HIDE DEF Invalid
    <3> QED BY <1>3, <2>1, <2>2, <3>1, ForgetOK
  <2>4. PassedTyped'
    BY <1>1, <2>1, GapPasses DEF Types, PassedTyped
  <2>5. Budget'
    <3>1. thread'[t] = Idle /\ \A s \in Threads : s # t => thread'[s] = thread[s]
      BY <1>3, <2>1, ReturnOK DEF FilterOK
    <3> QED BY <1>1, <2>1, <2>2, <3>1, Basics DEF Types, Budget, Idle
  <2> QED BY <1>2, <2>3, <2>4, <2>5 DEF Types
<1> QED BY <1>3, <1>4, <1>5, <1>6 DEF Tasks, Ways

LEMMA TypesStep == Types /\ [Next]_vars => Types'
<1> SUFFICES ASSUME Types, [Next]_vars PROVE Types'
  OBVIOUS
<1>1. ASSUME NEW v \in Values, NEW stamp \in 1..MaxTime, PvValue(v, stamp) PROVE Types'
  BY <1>1, PvValueTypes
<1>2. ASSUME NEW when \in 1..MaxTime, Enable(when) PROVE Types'
  BY <1>2, EnableTypes
<1>3. CASE Disable
  BY <1>3, DisableTypes
<1>4. CASE Connected
  BY <1>4, ConnectedTypes
<1>5. CASE PvDisconnected
  BY <1>5, PvDisconnectedTypes
<1>6. CASE Scan
  BY <1>6, ScanTypes
<1>7. CASE Update
  BY <1>7, UpdateTypes
<1>8. CASE Stop
  BY <1>8, StopTypes
<1>9. CASE StopPV
  BY <1>9, StopPVTypes
<1>10. CASE Start
  BY <1>10, StartTypes
<1>11. ASSUME NEW t \in Threads, TimeCheck(t) \/ Store(t) \/ After(t) PROVE Types'
  BY <1>11, TimeCheckTypes, StoreTypes, AfterTypes
<1>12. CASE Tick
  BY <1>12, TickTypes
<1>13. CASE UNCHANGED vars
  <2>1. UNCHANGED <<kind, running, connected, asked, pv, clock, calls, disable, repeat,
                    last_stamp, passed, thread, seen, refused, raced>>
    BY <1>13 DEF vars, source, ghosts
  <2> QED BY <2>1, PassedKept, FilterKept DEF Types, SourceTyped, Budget
<1> QED BY <1>1, <1>2, <1>3, <1>4, <1>5, <1>6, <1>7, <1>8, <1>9, <1>10, <1>11, <1>12,
           <1>13 DEF Next

LEMMA TypesImplyTypeOK == Types => TypeOK
<1> SUFFICES ASSUME Types PROVE TypeOK
  OBVIOUS
<1>1. pv.val \in Values \cup {0} /\ clock \in 1 .. MaxTime
  BY DEF Types, SourceTyped, Given
<1>2. /\ repeat.prev.val \in Values \cup {0} /\ repeat.count \in 0 .. MaxCalls
      /\ repeat.stamp \in Stamps /\ repeat.prev.stamp \in Stamps
  BY Basics DEF Repeats, Samples
<1>3. last_stamp \in Stamps
  BY DEF Types, PassedTyped
<1>4. repeat.valid => repeat.prev # Nothing
  BY Numbers DEF Types, FilterOK, Kept, Nothing
<1>5. ASSUME NEW t \in Threads
      PROVE  thread[t].pc \in {"idle", "update", "time", "store", "after"}
  BY DEF Types, FilterOK, FilterTyped, Tasks, Places
<1>6. ASSUME NEW i \in 1 .. Len(passed)
      PROVE  passed[i].repeats \in 0 .. MaxRepeatCount
  <2>1. passed[i] \in Samples \cup {Gap}
    BY DEF Types, PassedTyped
  <2> QED BY <2>1, Numbers DEF Samples, Gap
<1> QED BY <1>1, <1>2, <1>3, <1>4, <1>5, <1>6 DEF TypeOK, Stamps

\* The variables have their types.  In particular no repeat sample in the
\* archive tells more repeats than max_repeat_count, whichever of its four
\* callers makes RepeatFilter::flush() write it.
THEOREM FiltersTypeOK == Spec => []TypeOK
<1>1. Init => Types
  BY InitTypes
<1>2. Types /\ [Next]_vars => Types'
  BY TypesStep
<1>3. Types => TypeOK
  BY TypesImplyTypeOK
<1> QED BY <1>1, <1>2, <1>3, PTL DEF Spec

-----------------------------------------------------------------------------
(* The steps of the RepeatFilter, by what they do to the sample under way, *)
(* to the repeats and to what has passed.                                  *)
Others(t) == \A s \in Threads : s # t => thread'[s] = thread[s]
NothingPasses == UNCHANGED <<passed, last_stamp, refused>>

\* It begins to pass repeats on, with the one that this step has counted.
Flushes(t) ==
    /\ ~InPass(t) /\ repeat.valid
    /\ repeat'.valid /\ repeat'.count = 0 /\ repeat'.was
    /\ repeat'.prev.val = repeat.prev.val
    /\ repeat'.prev.repeats \in Nat /\ repeat'.prev.repeats > 0
    /\ repeat'.stamp = repeat'.prev.stamp /\ repeat.prev.stamp <= repeat'.stamp
    /\ \/ repeat'.prev.repeats = repeat.count /\ UNCHANGED seen
       \/ /\ repeat'.prev.repeats = repeat.count + 1
          /\ seen' = Append(seen, repeat.prev.val)
    /\ thread'[t].pc = "time" /\ Others(t)
    /\ raced' = Races(t)
    /\ NothingPasses

\* It begins to pass a new value on.
Renews(t) ==
    /\ thread[t].pc \in {"idle", "after"}
    /\ repeat.valid => repeat.count = 0
    /\ repeat'.valid /\ repeat'.count = 0 /\ repeat'.was = FALSE
    /\ repeat'.prev.repeats = 0
    /\ repeat.was => repeat.stamp <= repeat'.prev.stamp
    /\ seen' = Append(seen, repeat'.prev.val)
    /\ thread'[t].pc = "time" /\ Others(t)
    /\ raced' = Races(t)
    /\ NothingPasses

\* It counts a repeat.
Counts(t) ==
    /\ ~InPass(t)
    /\ repeat'.valid = repeat.valid /\ repeat'.prev = repeat.prev
    /\ repeat'.was = repeat.was /\ repeat'.stamp = repeat.stamp
    /\ repeat'.count = repeat.count + 1
    /\ seen' = IF repeat.valid THEN Append(seen, repeat.prev.val) ELSE seen
    /\ thread'[t].pc = "idle" /\ Others(t)
    /\ raced' = Races(t)
    /\ NothingPasses

\* It forgets the previous value, of which no repeat is left to tell.
Drops(t) ==
    /\ ~Sending(t)
    /\ repeat.valid => repeat.count = 0
    /\ repeat'.valid = FALSE
    /\ repeat'.was = repeat.was /\ repeat'.stamp = repeat.stamp
    /\ \/ UNCHANGED <<passed, seen>>
       \/ passed' = Append(passed, Gap) /\ seen' = Append(seen, Gap.val)
    /\ thread'[t].pc = "idle" /\ Others(t)
    /\ raced' = Races(t)
    /\ UNCHANGED <<last_stamp, refused>>

\* The RepeatFilter does nothing.
Rests ==
    /\ repeat'.valid = repeat.valid /\ repeat'.prev = repeat.prev
    /\ repeat'.was = repeat.was /\ repeat'.stamp = repeat.stamp
    /\ repeat'.count = repeat.count
    /\ \A t \in Threads :
         /\ InPass(t)' <=> InPass(t)
         /\ Sending(t)' <=> Sending(t)
         /\ (thread'[t].pc = "store") <=> (thread[t].pc = "store")
    /\ UNCHANGED <<seen, raced>>
    /\ NothingPasses

FilterStep ==
    \/ Rests
    \/ \E t \in Threads : Flushes(t) \/ Renews(t) \/ Counts(t) \/ Drops(t)
                            \/ TimeCheck(t) \/ Store(t)

LEMMA PassesTo ==
    ASSUME FilterTyped, NEW t \in Threads, NEW r, NEW then, NEW data,
           PassOn(t, r, then, data)
    PROVE  /\ repeat' = r /\ raced' = Races(t)
           /\ thread'[t].pc = "time" /\ thread'[t].then = then /\ Others(t)
  BY DEF PassOn, Passing, Others, FilterTyped

LEMMA ReturnsTo ==
    ASSUME FilterTyped, NEW t \in Threads, Return(t)
    PROVE  thread'[t].pc = "idle" /\ thread'[t].then = "return" /\ Others(t)
  BY DEF Return, Idle, Others, FilterTyped

LEMMA NotInPass ==
    ASSUME FilterOK, NEW t \in Threads, thread[t].pc \in {"idle", "update"}
    PROVE  ~InPass(t) /\ ~Sending(t)
  BY DEF InPass, Sending

LEMMA RenewIsStep ==
    ASSUME FilterOK, NEW t \in Threads, thread[t].pc \in {"idle", "after"},
           NEW data \in Given, Renew(t, data), repeat.valid => repeat.count = 0,
           NothingPasses
    PROVE  Renews(t)
<1> DEFINE f == Renewed(repeat, data)
<1>1. /\ f.valid /\ f.count = 0 /\ f.was = FALSE
      /\ f.prev.val = data.val /\ f.prev.repeats = 0
      /\ repeat.was => repeat.stamp <= f.prev.stamp
  BY RenewedFields DEF FilterOK, FilterTyped
<1> HIDE DEF f
<1>2. PassOn(t, f, "return", data) /\ seen' = Append(seen, data.val)
  BY DEF Renew, f
<1>3. /\ repeat' = f /\ raced' = Races(t)
      /\ thread'[t].pc = "time" /\ Others(t)
  BY <1>2, PassesTo DEF FilterOK
<1> QED BY <1>1, <1>2, <1>3 DEF Renews

LEMMA FlushIsStep ==
    ASSUME FilterOK, NEW t \in Threads, thread[t].pc \in {"idle", "update"},
           NEW r \in Repeats, r.valid, repeat.valid, r.prev = repeat.prev,
           r.count > 0, r.count <= MaxRepeatCount,
           NEW when \in Stamps, NEW then, NEW data,
           PassOn(t, Flushed(r, when), then, data),
           \/ r.count = repeat.count /\ UNCHANGED seen
           \/ r.count = repeat.count + 1 /\ seen' = Append(seen, repeat.prev.val),
           NothingPasses
    PROVE  Flushes(t)
<1> DEFINE f == Flushed(r, when)
<1>1. /\ f.valid = r.valid /\ f.count = 0 /\ f.was
      /\ f.prev.val = r.prev.val /\ f.prev.repeats = r.count
      /\ f.stamp = f.prev.stamp /\ r.prev.stamp <= f.stamp
  BY FlushedFields
<1> HIDE DEF f
<1>2. /\ repeat' = f /\ raced' = Races(t)
      /\ thread'[t].pc = "time" /\ Others(t)
  <2>1. PassOn(t, f, then, data) /\ FilterTyped
    BY DEF f, FilterOK
  <2> QED BY <2>1, PassesTo
<1>3. r.count \in Nat
  BY Numbers DEF Repeats
<1>4. ~InPass(t)
  BY NotInPass
<1> QED BY <1>1, <1>2, <1>3, <1>4 DEF Flushes

LEMMA PreviousFlushIsStep ==
    ASSUME FilterOK, NEW t \in Threads, thread[t].pc \in {"idle", "update"},
           MustFlush(repeat), NEW when \in Stamps, NEW then, NEW data,
           PassOn(t, Flushed(repeat, when), then, data),
           UNCHANGED seen, NothingPasses
    PROVE  Flushes(t)
<1>1. repeat \in Repeats /\ repeat.valid /\ repeat.count > 0
  BY DEF FilterOK, FilterTyped, MustFlush
<1>2. repeat.count <= MaxRepeatCount
  BY <1>1, Numbers DEF FilterOK, Kept, Repeats
<1> QED BY <1>1, <1>2, FlushIsStep

LEMMA IncIsStep ==
    ASSUME FilterOK, NEW t \in Threads, thread[t].pc \in {"idle", "update"},
           NEW when \in Stamps, repeat.count < MaxCalls, Inc(t, when), NothingPasses
    PROVE  Flushes(t) \/ Counts(t)
<1>1. /\ Counted \in Repeats
      /\ Counted.valid = repeat.valid /\ Counted.prev = repeat.prev
      /\ Counted.count = repeat.count + 1
      /\ Counted.was = repeat.was /\ Counted.stamp = repeat.stamp
      /\ repeat.count \in Nat
      /\ repeat.valid => Counted.count <= MaxRepeatCount
  BY CountedFields
<1>2. seen' = IF repeat.valid THEN Append(seen, repeat.prev.val) ELSE seen
  BY <1>1 DEF Inc, Counted
<1>3. CASE ReachesMaximum(Counted) /\ MustFlush(Counted)
  <2>1. PassOn(t, Flushed(Counted, when), "return", Nothing)
    BY <1>3 DEF Inc, Counted
  <2>2. Counted.valid /\ Counted.count > 0
    BY <1>3 DEF MustFlush
  <2>3. seen' = Append(seen, repeat.prev.val)
    BY <1>1, <1>2, <2>2
  <2> HIDE DEF Counted
  <2> QED BY <1>1, <2>1, <2>2, <2>3, FlushIsStep
<1>4. CASE ~(ReachesMaximum(Counted) /\ MustFlush(Counted))
  <2>1. repeat' = Counted /\ Return(t) /\ raced' = Races(t)
    BY <1>4 DEF Inc, Counted
  <2>2. thread'[t].pc = "idle" /\ Others(t) /\ ~InPass(t)
    BY <2>1, ReturnsTo, NotInPass DEF FilterOK
  <2> QED BY <1>1, <1>2, <2>1, <2>2 DEF Counts
<1> QED BY <1>3, <1>4

\* What a value may become in the filters.
LEMMA SlotValueIsStep ==
    ASSUME FilterOK, NEW data \in Given, data.val \in Values, clock \in Stamps,
           repeat.count < MaxCalls, repeat.count \in Nat,
           thread["ca"].pc = "idle", SlotValue(data), NothingPasses
    PROVE  \/ UNCHANGED <<repeat, thread, seen, raced>>
           \/ Flushes("ca") \/ Renews("ca") \/ Counts("ca")
<1> "ca" \in Threads
  BY DEF Threads
<1>1. CASE UNCHANGED <<next_slot, repeat, thread, seen, raced>>
  BY <1>1
<1>2. CASE RepeatValue(data)
  <2>1. CASE repeat.valid /\ SameValue(repeat.prev, data)
    <3>1. Inc("ca", clock)
      BY <1>2, <2>1 DEF RepeatValue
    <3> QED BY <3>1, IncIsStep
  <2>2. CASE ~(repeat.valid /\ SameValue(repeat.prev, data)) /\ MustFlush(repeat)
    <3>1. /\ PassOn("ca", Flushed(repeat, data.stamp), "renew", data)
          /\ UNCHANGED seen
      BY <1>2, <2>2 DEF RepeatValue, Differs
    <3>2. data.stamp \in Stamps
      BY DEF Given
    <3> QED BY <2>2, <3>1, <3>2, PreviousFlushIsStep
  <2>3. CASE ~(repeat.valid /\ SameValue(repeat.prev, data)) /\ ~MustFlush(repeat)
    <3>1. Renew("ca", data)
      BY <1>2, <2>3 DEF RepeatValue, Differs
    <3>2. repeat.valid => repeat.count = 0
      BY <2>3 DEF MustFlush
    <3> QED BY <3>1, <3>2, RenewIsStep
  <2> QED BY <2>1, <2>2, <2>3
<1> QED BY <1>1, <1>2 DEF SlotValue

LEMMA DisconnectedIsStep ==
    ASSUME Types, NEW t \in Threads, thread[t].pc = "idle", Disconnected(t)
    PROVE  Flushes(t) \/ Drops(t)
<1> FilterOK /\ FilterTyped
  BY DEF Types, FilterOK
<1>1. CASE MustFlush(repeat)
  <2>1. /\ PassOn(t, Flushed(repeat, clock), "disconnect", Nothing)
        /\ UNCHANGED seen /\ NothingPasses
    BY <1>1 DEF Disconnected, NothingPasses
  <2>2. clock \in Stamps
    BY Basics
  <2> QED BY <1>1, <2>1, <2>2, PreviousFlushIsStep
<1>2. CASE ~MustFlush(repeat)
  <2>1. /\ repeat' = Invalid
        /\ passed' = Append(passed, Gap) /\ seen' = Append(seen, Gap.val)
        /\ raced' = Races(t)
        /\ UNCHANGED <<thread, last_stamp, refused>>
    BY <1>2 DEF Disconnected, Invalid
  <2>2. repeat.valid => repeat.count = 0
    BY <1>2, Basics DEF MustFlush
  <2>3. /\ Invalid.valid = FALSE
        /\ Invalid.was = repeat.was /\ Invalid.stamp = repeat.stamp
    BY InvalidFields
  <2>4. ~Sending(t)
    BY NotInPass
  <2> QED BY <2>1, <2>2, <2>3, <2>4 DEF Drops, Others
<1> QED BY <1>1, <1>2

\* A thread that is not back yet from passing a sample on.
LEMMA AfterIsStep ==
    ASSUME Types, OnePass, ~raced, NEW t \in Threads, After(t)
    PROVE  FilterStep
<1> FilterOK /\ FilterTyped
  BY DEF Types, FilterOK
<1>1. thread[t].pc = "after" /\ UNCHANGED <<last_stamp, refused>> /\ ~Sending(t)
  BY DEF After, Sending
<1>2. thread[t].then # "return" => repeat.valid /\ repeat.count = 0
  BY <1>1 DEF OnePass, InPass
<1>3. CASE thread[t].then = "return"
  <2>1. Return(t) /\ UNCHANGED <<repeat, passed, seen, raced>>
    BY <1>1, <1>3 DEF After
  <2>2. thread'[t].pc = "idle" /\ Others(t)
    BY <2>1, ReturnsTo
  <2>3. ASSUME NEW s \in Threads
        PROVE  /\ InPass(s)' <=> InPass(s)
               /\ Sending(s)' <=> Sending(s)
               /\ (thread'[s].pc = "store") <=> (thread[s].pc = "store")
    <3>1. CASE s = t
      BY <1>1, <1>3, <2>2, <3>1 DEF InPass, Sending
    <3>2. CASE s # t
      BY <2>2, <3>2 DEF InPass, Sending, Others
    <3> QED BY <3>1, <3>2
  <2>4. Rests
    BY <1>1, <2>1, <2>3 DEF Rests, NothingPasses
  <2> QED BY <2>4 DEF FilterStep
<1>4. CASE thread[t].then = "renew"
  <2>1. Renew(t, thread[t].data) /\ NothingPasses
    BY <1>1, <1>4 DEF After, NothingPasses
  <2>2. thread[t].data \in Given
    BY DEF FilterTyped, Tasks
  <2>3. Renews(t)
    <3>1. thread[t].pc \in {"idle", "after"} /\ (repeat.valid => repeat.count = 0)
      BY <1>1, <1>2, <1>4
    <3> QED BY <2>1, <2>2, <3>1, RenewIsStep
  <2> QED BY <2>3 DEF FilterStep
<1>5. CASE thread[t].then \in {"forget", "disconnect"}
  <2>1. /\ repeat' = Invalid /\ Return(t) /\ raced' = Races(t)
        /\ \/ UNCHANGED <<passed, seen>>
           \/ passed' = Append(passed, Gap) /\ seen' = Append(seen, Gap.val)
    BY <1>1, <1>5 DEF After, Invalid
  <2>2. /\ Invalid.valid = FALSE
        /\ Invalid.was = repeat.was /\ Invalid.stamp = repeat.stamp
    BY InvalidFields
  <2>3. thread'[t].pc = "idle" /\ Others(t)
    BY <2>1, ReturnsTo
  <2>4. Drops(t)
    BY <1>1, <1>2, <1>5, <2>1, <2>2, <2>3 DEF Drops
  <2> QED BY <2>4 DEF FilterStep
<1>6. thread[t].then \in Ways
  BY DEF FilterTyped, Tasks
<1> QED BY <1>3, <1>4, <1>5, <1>6 DEF Ways

LEMMA SameIsRest ==
    ASSUME UNCHANGED <<repeat, thread, seen, raced>>, NothingPasses
    PROVE  FilterStep
  BY DEF FilterStep, Rests, InPass, Sending

LEMMA UpdateIsStep ==
    ASSUME Types, Update
    PROVE  FilterStep
<1> FilterOK /\ FilterTyped
  BY DEF Types, FilterOK
<1>1. thread["engine"].pc = "update" /\ NothingPasses /\ "engine" \in Threads
  BY Basics DEF Update, NothingPasses
<1>2. CASE ~repeat.had
  <2>1. Inc("engine", clock)
    BY <1>2 DEF Update
  <2>2. repeat.count < MaxCalls /\ clock \in Stamps
    BY <1>1, Basics, Numbers DEF Types, Budget
  <2>3. Flushes("engine") \/ Counts("engine")
    BY <1>1, <2>1, <2>2, IncIsStep
  <2> QED BY <1>1, <2>3 DEF FilterStep
<1>3. CASE repeat.had
  <2>1. /\ repeat' = [repeat EXCEPT !.had = FALSE]
        /\ Return("engine") /\ UNCHANGED <<seen, raced>>
    BY <1>3 DEF Update
  <2>2. /\ repeat'.valid = repeat.valid /\ repeat'.prev = repeat.prev
        /\ repeat'.count = repeat.count /\ repeat'.was = repeat.was
        /\ repeat'.stamp = repeat.stamp
    BY <2>1, Basics DEF Repeats
  <2>3. thread'["engine"].pc = "idle" /\ Others("engine")
    BY <1>1, <2>1, ReturnsTo
  <2>4. ASSUME NEW s \in Threads
        PROVE  /\ InPass(s)' <=> InPass(s)
               /\ Sending(s)' <=> Sending(s)
               /\ (thread'[s].pc = "store") <=> (thread[s].pc = "store")
    <3>1. CASE s = "engine"
      BY <1>1, <2>3, <3>1 DEF InPass, Sending
    <3>2. CASE s # "engine"
      BY <2>3, <3>2 DEF InPass, Sending, Others
    <3> QED BY <3>1, <3>2
  <2>5. Rests
    BY <1>1, <2>1, <2>2, <2>4 DEF Rests
  <2> QED BY <2>5 DEF FilterStep
<1> QED BY <1>2, <1>3

LEMMA ScanIsStep ==
    ASSUME Types, Scan
    PROVE  FilterStep
<1>1. /\ thread["engine"].pc = "idle" /\ NothingPasses
      /\ UNCHANGED <<repeat, seen, raced>>
  BY DEF Scan, Begin, NothingPasses, ghosts
<1>2. UNCHANGED thread \/ thread' = [thread EXCEPT !["engine"].pc = "update"]
  BY DEF Scan
<1>3. thread \in [Threads -> Tasks]
  BY DEF Types, FilterOK, FilterTyped
<1>4. ASSUME NEW s \in Threads
      PROVE  /\ InPass(s)' <=> InPass(s)
             /\ Sending(s)' <=> Sending(s)
             /\ (thread'[s].pc = "store") <=> (thread[s].pc = "store")
  <2>1. CASE UNCHANGED thread
    BY <2>1 DEF InPass, Sending
  <2>2. CASE thread' = [thread EXCEPT !["engine"].pc = "update"]
    <3>1. s # "engine" => thread'[s] = thread[s]
      BY <1>3, <2>2
    <3>2. s = "engine" => thread'[s].pc = "update" /\ thread[s].pc = "idle"
      BY <1>1, <1>3, <2>2 DEF Tasks
    <3>3. CASE s # "engine"
      BY <3>1, <3>3 DEF InPass, Sending
    <3>4. CASE s = "engine"
      BY <3>2, <3>4 DEF InPass, Sending
    <3> QED BY <3>3, <3>4
  <2> QED BY <1>2, <2>1, <2>2
<1>5. Rests
  BY <1>1, <1>4 DEF Rests
<1> QED BY <1>5 DEF FilterStep

LEMMA StopIsStep ==
    ASSUME Types, Stop
    PROVE  FilterStep
<1> FilterOK /\ FilterTyped
  BY DEF Types, FilterOK
<1>1. /\ thread["engine"].pc = "idle" /\ NothingPasses
      /\ UNCHANGED seen /\ "engine" \in Threads
  BY Basics DEF Stop, Begin, NothingPasses
<1>2. CASE MustFlush(repeat)
  <2>1. PassOn("engine", Flushed(repeat, clock), "forget", Nothing)
    BY <1>2 DEF Stop
  <2>2. Flushes("engine")
    BY <1>1, <1>2, <2>1, Basics, PreviousFlushIsStep
  <2> QED BY <1>1, <2>2 DEF FilterStep
<1>3. CASE ~MustFlush(repeat)
  <2>1. repeat' = Invalid /\ raced' = Races("engine") /\ UNCHANGED thread
    BY <1>3 DEF Stop, Invalid
  <2>2. repeat.valid => repeat.count = 0
    BY <1>3, Basics DEF MustFlush
  <2>3. /\ Invalid.valid = FALSE
        /\ Invalid.was = repeat.was /\ Invalid.stamp = repeat.stamp
    BY InvalidFields
  <2>4. ~Sending("engine")
    BY <1>1, NotInPass
  <2>5. Drops("engine")
    BY <1>1, <2>1, <2>2, <2>3, <2>4 DEF Drops, Others, NothingPasses
  <2> QED BY <1>1, <2>5 DEF FilterStep
<1> QED BY <1>2, <1>3

\* When the PV connects there is no previous value to lose.
LEMMA ConnectedIsStep ==
    ASSUME Types, OnePass, OfConnected, ~raced, ~raced', Connected
    PROVE  FilterStep
<1> DEFINE r == [repeat EXCEPT !.prev = Nothing, !.valid = FALSE]
<1>1. /\ thread["ca"].pc = "idle" /\ connected = FALSE
      /\ repeat' = r /\ raced' = Races("ca")
      /\ UNCHANGED <<thread, passed, seen, last_stamp, refused>>
  BY DEF Connected, Begin, Types, SourceTyped
<1>2. ~InPass("engine") /\ ~InPass("ca")
  BY <1>1 DEF Races, Other, InPass
<1>3. ~repeat.valid
  BY <1>1, <1>2 DEF OfConnected, Threads
<1>4. r.valid = FALSE /\ r.was = repeat.was /\ r.stamp = repeat.stamp
  BY Basics DEF Repeats
<1>5. ~Sending("ca")
  BY <1>1 DEF Sending
<1> HIDE DEF r
<1>6. Drops("ca")
  BY <1>1, <1>3, <1>4, <1>5 DEF Drops, Others
<1> QED BY <1>6, Basics DEF FilterStep

LEMMA EveryStep ==
    ASSUME Types, OnePass, OfConnected, ~raced, ~raced', [Next]_vars
    PROVE  FilterStep
<1> FilterOK /\ FilterTyped
  BY DEF Types, FilterOK
<1>1. ASSUME NEW v \in Values, NEW stamp \in 1..MaxTime, PvValue(v, stamp)
      PROVE  FilterStep
  <2> DEFINE data == Sample(v, stamp)
  <2>1. data \in Given /\ data.val \in Values
    BY Numbers DEF Sample, Given, Stamps
  <2>2. calls < MaxCalls /\ thread["ca"].pc = "idle" /\ NothingPasses
    BY <1>1 DEF PvValue, Begin, NothingPasses
  <2>3. UNCHANGED <<repeat, thread, seen, raced>> \/ SlotValue(data)
    BY <1>1 DEF PvValue
  <2>4. repeat.count < MaxCalls /\ clock \in Stamps /\ repeat.count \in Nat
    BY <2>2, Basics, CallCounted
  <2> HIDE DEF data
  <2>5. \/ UNCHANGED <<repeat, thread, seen, raced>>
        \/ Flushes("ca") \/ Renews("ca") \/ Counts("ca")
    BY <2>1, <2>2, <2>3, <2>4, SlotValueIsStep
  <2> QED BY <2>2, <2>5, SameIsRest, Basics DEF FilterStep
<1>2. ASSUME NEW when \in 1..MaxTime, Enable(when)
      PROVE  FilterStep
  <2> DEFINE data == [disable.last EXCEPT !.stamp = when]
  <2>1. disable.last # Nothing => data \in Given /\ data.val \in Values
    <3>1. /\ disable.last \in Given
          /\ disable.last = Nothing \/ disable.last.val \in Values
      BY DEF Types, SourceTyped
    <3> QED BY <3>1, Numbers DEF Given, Stamps
  <2>2. calls < MaxCalls /\ thread["ca"].pc = "idle" /\ NothingPasses
    BY <1>2 DEF Enable, Begin, NothingPasses
  <2>3. \/ UNCHANGED <<repeat, thread, seen, raced>>
        \/ disable.last # Nothing /\ SlotValue(data)
    BY <1>2 DEF Enable
  <2>4. repeat.count < MaxCalls /\ clock \in Stamps /\ repeat.count \in Nat
    BY <2>2, Basics, CallCounted
  <2> HIDE DEF data
  <2>5. \/ UNCHANGED <<repeat, thread, seen, raced>>
        \/ Flushes("ca") \/ Renews("ca") \/ Counts("ca")
    BY <2>1, <2>2, <2>3, <2>4, SlotValueIsStep
  <2> QED BY <2>2, <2>5, SameIsRest, Basics DEF FilterStep
<1>3. CASE Connected
  BY <1>3, ConnectedIsStep
<1>4. CASE PvDisconnected
  <2>1. thread["ca"].pc = "idle" /\ Disconnected("ca")
    BY <1>4 DEF PvDisconnected, Begin
  <2>2. Flushes("ca") \/ Drops("ca")
    BY <2>1, DisconnectedIsStep, Basics
  <2> QED BY <2>2, Basics DEF FilterStep
<1>5. CASE StopPV
  <2>1. thread["engine"].pc = "idle" /\ Disconnected("engine")
    BY <1>5 DEF StopPV
  <2>2. Flushes("engine") \/ Drops("engine")
    BY <2>1, DisconnectedIsStep, Basics
  <2> QED BY <2>2, Basics DEF FilterStep
<1>6. CASE Scan
  BY <1>6, ScanIsStep
<1>7. CASE Update
  BY <1>7, UpdateIsStep
<1>8. CASE Stop
  BY <1>8, StopIsStep
<1>9. ASSUME NEW t \in Threads, TimeCheck(t) \/ Store(t) \/ After(t)
      PROVE  FilterStep
  BY <1>9, AfterIsStep DEF FilterStep
<1>10. CASE Disable \/ Start \/ Tick \/ UNCHANGED vars
  <2>1. UNCHANGED <<repeat, thread, seen, raced>> /\ NothingPasses
    BY <1>10 DEF Disable, Start, Tick, vars, ghosts, NothingPasses
  <2> QED BY <2>1, SameIsRest
<1> QED BY <1>1, <1>2, <1>3, <1>4, <1>5, <1>6, <1>7, <1>8, <1>9, <1>10 DEF Next

-----------------------------------------------------------------------------
(* The previous value is one of a connected PV.                            *)
\* Whatever a value becomes, the PV is connected.
LEMMA ConnectedValue ==
    ASSUME connected', connected, disable'.last = Nothing \/ connected'
    PROVE  OfConnected'
  BY DEF OfConnected

LEMMA SameConnected ==
    ASSUME OfConnected, ~raced, UNCHANGED connected,
           disable'.last = disable.last \/ disable'.last = Nothing,
           repeat'.valid => repeat.valid,
           \A t \in Threads : thread'[t].then = "renew" => thread[t].then = "renew",
           \A t \in Threads : InPass(t) /\ thread[t].then = "disconnect" /\ repeat'.valid
                                => InPass(t)' /\ thread'[t].then = "disconnect"
    PROVE  OfConnected'
<1>2. \A t \in Threads : thread'[t].then = "renew" => connected'
  BY DEF OfConnected
<1>3. connected' \/ disable'.last = Nothing
  BY DEF OfConnected
<1>4. connected' \/ ~repeat'.valid
        \/ \E t \in Threads : InPass(t)' /\ thread'[t].then = "disconnect"
  BY DEF OfConnected
<1> QED BY <1>2, <1>3, <1>4 DEF OfConnected

LEMMA InPassIs ==
    ASSUME Types, NEW t \in Threads
    PROVE  thread[t].then # "return" => InPass(t)
  BY DEF Types, FilterOK, Kept, InPass

LEMMA DisconnectedConnected ==
    ASSUME Types, OfConnected, ~raced, ~raced', NEW t \in Threads,
           thread[t].pc = "idle", Disconnected(t)
    PROVE  OfConnected'
<1> FilterOK /\ FilterTyped
  BY DEF Types, FilterOK
<1>1. /\ connected' = FALSE
      /\ disable' = IF disable.on THEN [disable EXCEPT !.last = Nothing] ELSE disable
  BY DEF Disconnected
<1>2. disable'.last = Nothing
  BY <1>1 DEF Types, SourceTyped
<1>3. raced' = Races(t)
  BY DEF Disconnected, PassOn
<1>4. \A s \in Threads : s # t => ~InPass(s)
  BY <1>3, Basics DEF Races, Other
<1>5. thread[t].then = "return"
  BY DEF FilterOK, Kept
<1>6. CASE MustFlush(repeat)
  <2>1. PassOn(t, Flushed(repeat, clock), "disconnect", Nothing)
    BY <1>6 DEF Disconnected
  <2>2. thread'[t].pc = "time" /\ thread'[t].then = "disconnect" /\ Others(t)
    BY <2>1, PassesTo
  <2>3. \A s \in Threads : thread'[s].then # "renew"
    <3>1. \A s \in Threads : s # t => thread'[s] = thread[s] /\ thread[s].then = "return"
      BY <1>4, <2>2, InPassIs DEF Others
    <3> QED BY <2>2, <3>1
  <2>4. InPass(t)' /\ thread'[t].then = "disconnect"
    BY <2>2 DEF InPass
  <2> QED BY <1>2, <2>3, <2>4 DEF OfConnected
<1>7. CASE ~MustFlush(repeat)
  <2>1. repeat' = Invalid /\ UNCHANGED thread
    BY <1>7 DEF Disconnected, Invalid
  <2>2. ~repeat'.valid
    BY <2>1, InvalidFields
  <2>3. \A s \in Threads : thread'[s].then # "renew"
    BY <1>4, <1>5, <2>1, InPassIs
  <2> QED BY <1>2, <2>2, <2>3 DEF OfConnected
<1> QED BY <1>6, <1>7

LEMMA AfterConnected ==
    ASSUME Types, OfConnected, ~raced, ~raced', NEW t \in Threads, After(t)
    PROVE  OfConnected'
<1> FilterOK /\ FilterTyped
  BY DEF Types, FilterOK
<1>1. thread[t].pc = "after" /\ UNCHANGED <<connected, disable>>
  BY DEF After, source
<1>2. CASE thread[t].then = "return"
  <2>1. Return(t) /\ UNCHANGED repeat
    BY <1>1, <1>2 DEF After
  <2>2. thread'[t].then = "return" /\ Others(t)
    BY <2>1, ReturnsTo
  <2>3. ~InPass(t)
    BY <1>1, <1>2 DEF InPass
  <2>4. ASSUME NEW s \in Threads
        PROVE  /\ thread'[s].then = "renew" => thread[s].then = "renew"
               /\ InPass(s) /\ thread[s].then = "disconnect" /\ repeat'.valid
                    => InPass(s)' /\ thread'[s].then = "disconnect"
    <3>1. CASE s = t
      BY <2>2, <2>3, <3>1
    <3>2. CASE s # t
      BY <2>2, <3>2 DEF InPass, Others
    <3> QED BY <3>1, <3>2
  <2> QED BY <1>1, <2>1, <2>4, SameConnected
<1>3. CASE thread[t].then = "renew"
  <2>1. connected
    BY <1>3 DEF OfConnected
  <2> QED BY <1>1, <2>1, ConnectedValue
<1>4. CASE thread[t].then \in {"forget", "disconnect"}
  <2>1. repeat' = Invalid /\ Return(t)
    BY <1>1, <1>4 DEF After, Invalid
  <2>2. thread'[t].then = "return" /\ Others(t) /\ ~repeat'.valid
    BY <2>1, ReturnsTo, InvalidFields
  <2>3. \A s \in Threads : thread'[s].then = "renew" => thread[s].then = "renew"
    BY <2>2 DEF Others
  <2> QED BY <1>1, <2>2, <2>3, SameConnected
<1>5. thread[t].then \in Ways
  BY DEF FilterTyped, Tasks
<1> QED BY <1>2, <1>3, <1>4, <1>5 DEF Ways

LEMMA MovesConnected ==
    ASSUME Types, OfConnected, ~raced, NEW t \in Threads, TimeCheck(t) \/ Store(t)
    PROVE  OfConnected'
<1>1. /\ UNCHANGED <<kind, running, connected, asked, pv, clock, calls, disable, repeat,
                     seen, raced>>
      /\ thread[t].pc \in {"time", "store"}
  BY DEF TimeCheck, Store, source, ghosts
<1>2. \E to \in {"store", "after"} : thread' = [thread EXCEPT ![t].pc = to]
  BY DEF TimeCheck, Store
<1>3. /\ thread'[t].pc \in {"store", "after"} /\ thread'[t].then = thread[t].then
      /\ \A s \in Threads : s # t => thread'[s] = thread[s]
  BY <1>1, <1>2, MovesOK
<1>4. ASSUME NEW s \in Threads
      PROVE  /\ thread'[s].then = "renew" => thread[s].then = "renew"
             /\ InPass(s) /\ thread[s].then = "disconnect" /\ repeat'.valid
                  => InPass(s)' /\ thread'[s].then = "disconnect"
  <2>1. CASE s = t
    BY <1>3, <2>1 DEF InPass
  <2>2. CASE s # t
    BY <1>3, <2>2 DEF InPass
  <2> QED BY <2>1, <2>2
<1> QED BY <1>1, <1>4, SameConnected

LEMMA IncConnected ==
    ASSUME Types, OfConnected, ~raced, ~raced', Update
    PROVE  OfConnected'
<1> FilterOK /\ FilterTyped /\ "engine" \in Threads
  BY Basics DEF Types, FilterOK
<1>1. /\ thread["engine"].pc = "update" /\ UNCHANGED <<connected, disable>>
      /\ ~InPass("engine")
  BY DEF Update, source, InPass
<1>2. repeat'.valid = repeat.valid
  <2>1. CASE repeat.had
    BY <2>1, Basics DEF Update, Repeats
  <2>2. CASE ~repeat.had
    <3>1. Inc("engine", clock)
      BY <2>2 DEF Update
    <3>2. repeat.count < MaxCalls /\ clock \in Stamps
      BY <1>1, Basics, Numbers DEF Types, Budget
    <3>3. Counted.valid = repeat.valid /\ Counted \in Repeats
      BY <3>2, CountedFields
    <3>4. repeat' = Counted \/ repeat' = Flushed(Counted, clock)
      BY <3>1 DEF Inc, PassOn, Counted
    <3>5. Flushed(Counted, clock).valid = Counted.valid
      BY <3>3 DEF Flushed, Repeats
    <3> QED BY <3>3, <3>4, <3>5
  <2> QED BY <2>1, <2>2
<1>3. thread'["engine"].then = "return" /\ Others("engine")
  <2>1. \/ Return("engine")
        \/ \E r : PassOn("engine", r, "return", Nothing)
    BY DEF Update, Inc
  <2> QED BY <2>1, ReturnsTo, PassesTo
<1>4. ASSUME NEW s \in Threads
      PROVE  /\ thread'[s].then = "renew" => thread[s].then = "renew"
             /\ InPass(s) /\ thread[s].then = "disconnect" /\ repeat'.valid
                  => InPass(s)' /\ thread'[s].then = "disconnect"
  <2>1. CASE s = "engine"
    BY <1>1, <1>3, <2>1
  <2>2. CASE s # "engine"
    BY <1>3, <2>2 DEF InPass, Others
  <2> QED BY <2>1, <2>2
<1> QED BY <1>1, <1>2, <1>4, SameConnected

LEMMA StopConnected ==
    ASSUME Types, OfConnected, ~raced, ~raced', Stop
    PROVE  OfConnected'
<1> FilterOK /\ FilterTyped /\ "engine" \in Threads
  BY Basics DEF Types, FilterOK
<1>1. /\ thread["engine"].pc = "idle" /\ UNCHANGED <<connected, disable>>
      /\ ~InPass("engine")
  BY DEF Stop, Begin, InPass
<1>2. repeat'.valid => repeat.valid
  <2>1. CASE MustFlush(repeat)
    BY <2>1 DEF MustFlush
  <2>2. CASE ~MustFlush(repeat)
    <3>1. repeat' = Invalid
      BY <2>2 DEF Stop, Invalid
    <3> QED BY <3>1, InvalidFields
  <2> QED BY <2>1, <2>2
<1>3. /\ thread'["engine"].then \in {thread["engine"].then, "forget"}
      /\ Others("engine")
  <2>1. \/ UNCHANGED thread
        \/ PassOn("engine", Flushed(repeat, clock), "forget", Nothing)
    BY DEF Stop
  <2> QED BY <2>1, PassesTo DEF Others
<1>4. ASSUME NEW s \in Threads
      PROVE  /\ thread'[s].then = "renew" => thread[s].then = "renew"
             /\ InPass(s) /\ thread[s].then = "disconnect" /\ repeat'.valid
                  => InPass(s)' /\ thread'[s].then = "disconnect"
  <2>1. CASE s = "engine"
    BY <1>1, <1>3, <2>1
  <2>2. CASE s # "engine"
    BY <1>3, <2>2 DEF InPass, Others
  <2> QED BY <2>1, <2>2
<1> QED BY <1>1, <1>2, <1>4, SameConnected

LEMMA ConnectedStep ==
    ASSUME Types, OfConnected, ~raced, ~raced', [Next]_vars
    PROVE  OfConnected'
<1>1. ASSUME NEW v \in Values, NEW stamp \in 1..MaxTime, PvValue(v, stamp)
      PROVE  OfConnected'
  BY <1>1, ConnectedValue DEF PvValue
<1>2. ASSUME NEW when \in 1..MaxTime, Enable(when)
      PROVE  OfConnected'
  <2>1. CASE connected
    <3>1. connected' = connected
      BY <1>2 DEF Enable
    <3> QED BY <2>1, <3>1, ConnectedValue
  <2>2. CASE ~connected
    <3>1. disable.last = Nothing
      BY <2>2 DEF OfConnected
    <3>2. UNCHANGED <<connected, repeat, thread, raced>> /\ disable'.last = Nothing
      BY <1>2, <3>1 DEF Enable
    <3> QED BY <3>2, SameConnected DEF InPass
  <2> QED BY <2>1, <2>2
<1>3. CASE Connected
  <2>1. connected' = TRUE
    BY <1>3 DEF Connected
  <2> QED BY <2>1 DEF OfConnected
<1>4. CASE PvDisconnected
  BY <1>4, DisconnectedConnected, Basics DEF PvDisconnected, Begin
<1>5. CASE StopPV
  BY <1>5, DisconnectedConnected, Basics DEF StopPV
<1>6. CASE Scan
  <2>1. connected' = connected /\ connected
    BY <1>6 DEF Scan
  <2> QED BY <2>1, ConnectedValue
<1>7. CASE Update
  BY <1>7, IncConnected
<1>8. CASE Stop
  BY <1>8, StopConnected
<1>9. ASSUME NEW t \in Threads, TimeCheck(t) \/ Store(t) \/ After(t)
      PROVE  OfConnected'
  BY <1>9, MovesConnected, AfterConnected
<1>10. CASE Disable
  <2>1. /\ UNCHANGED <<connected, repeat, thread, raced>>
        /\ disable' = [disable EXCEPT !.on = TRUE]
    BY <1>10 DEF Disable, ghosts
  <2>2. disable'.last = disable.last
    BY <2>1 DEF Types, SourceTyped
  <2> QED BY <2>1, <2>2, SameConnected DEF InPass
<1>11. CASE Start \/ Tick \/ UNCHANGED vars
  <2>1. UNCHANGED <<connected, repeat, thread, raced, disable>>
    BY <1>11 DEF Start, Tick, vars, source, ghosts
  <2> QED BY <2>1, SameConnected DEF InPass
<1> QED BY <1>1, <1>2, <1>3, <1>4, <1>5, <1>6, <1>7, <1>8, <1>9, <1>10, <1>11 DEF Next

-----------------------------------------------------------------------------
(* What has been told, and what is still to tell.                          *)
Symbols == Values \cup {0, Gap.val}

LEMMA CopiesFacts ==
    ASSUME NEW v \in Symbols, NEW n \in Nat
    PROVE  /\ Copies(n, v) \in Seq(Symbols)
           /\ Copies(n + 1, v) = Append(Copies(n, v), v)
           /\ Copies(0, v) = << >>
<1>1. Copies(n, v) \in Seq(Symbols) /\ Len(Copies(n, v)) = n
  BY DEF Copies
<1>2. Copies(n + 1, v) = Append(Copies(n, v), v)
  <2> DEFINE a == Copies(n, v)
             b == Copies(n + 1, v)
  <2>1. /\ b \in Seq(Symbols) /\ Len(b) = n + 1
        /\ \A i \in 1 .. n + 1 : b[i] = v
    BY DEF Copies
  <2>2. \A i \in 1 .. n : a[i] = v
    BY DEF Copies
  <2> HIDE DEF a, b
  <2>3. /\ Append(a, v) \in Seq(Symbols) /\ Len(Append(a, v)) = n + 1
        /\ \A i \in 1 .. n : Append(a, v)[i] = a[i]
        /\ Append(a, v)[n + 1] = v
    BY <1>1 DEF a
  <2>4. \A i \in 1 .. n + 1 : Append(a, v)[i] = b[i]
    BY <2>1, <2>2, <2>3
  <2>5. b = Append(a, v)
    BY <2>1, <2>3, <2>4, SeqEqual
  <2> QED BY <2>5 DEF a, b
<1>3. Copies(0, v) = << >>
  BY DEF Copies
<1> QED BY <1>1, <1>2, <1>3

LEMMA ExpandedFacts ==
    ASSUME NEW x \in Samples \cup {Gap}
    PROVE  /\ x.val \in Symbols /\ x.repeats \in Nat
           /\ Expanded(x) = IF x.repeats = 0 THEN << x.val >>
                            ELSE Copies(x.repeats, x.val)
           /\ Expanded(x) \in Seq(Symbols)
<1>1. x.val \in Symbols /\ x.repeats \in Nat
  BY Numbers DEF Samples, Symbols, Gap
<1>2. Expanded(x) = IF x.repeats = 0 THEN << x.val >> ELSE Copies(x.repeats, x.val)
  BY DEF Expanded, Copies
<1>3. Copies(x.repeats, x.val) \in Seq(Symbols) /\ << x.val >> \in Seq(Symbols)
  BY <1>1, CopiesFacts
<1> QED BY <1>1, <1>2, <1>3

LEMMA ToldAppend ==
    ASSUME NEW p \in Seq(Samples \cup {Gap}), NEW x \in Samples \cup {Gap}
    PROVE  /\ Told(p) \in Seq(Symbols)
           /\ Told(Append(p, x)) = Told(p) \o Expanded(x)
<1> DEFINE s == [i \in 1 .. Len(p) |-> Expanded(p[i])]
           u == [i \in 1 .. Len(Append(p, x)) |-> Expanded(Append(p, x)[i])]
<1>1. \A i \in 1 .. Len(p) : Expanded(p[i]) \in Seq(Symbols)
  BY ExpandedFacts
<1>2. s \in Seq(Seq(Symbols)) /\ Len(s) = Len(p)
  BY <1>1
<1>3. Expanded(x) \in Seq(Symbols)
  BY ExpandedFacts
<1>4. u = Append(s, Expanded(x))
  <2>1. Len(p) \in Nat /\ Len(Append(p, x)) = Len(p) + 1
    OBVIOUS
  <2>2. /\ \A i \in 1 .. Len(p) : Append(p, x)[i] = p[i]
        /\ Append(p, x)[Len(p) + 1] = x
    OBVIOUS
  <2>3. /\ \A i \in 1 .. Len(p) : u[i] = s[i]
        /\ u[Len(p) + 1] = Expanded(x)
    BY <2>1, <2>2
  <2>4. u \in Seq(Seq(Symbols)) /\ Len(u) = Len(p) + 1
    <3>1. \A i \in 1 .. Len(p) + 1 : u[i] \in Seq(Symbols)
      BY <1>1, <1>3, <2>1, <2>3
    <3>2. u = [i \in 1 .. Len(p) + 1 |-> u[i]]
      BY <2>1
    <3> HIDE DEF u
    <3> QED BY <2>1, <3>1, <3>2
  <2> HIDE DEF s, u
  <2>5. /\ Append(s, Expanded(x)) \in Seq(Seq(Symbols))
        /\ Len(Append(s, Expanded(x))) = Len(p) + 1
        /\ \A i \in 1 .. Len(p) : Append(s, Expanded(x))[i] = s[i]
        /\ Append(s, Expanded(x))[Len(p) + 1] = Expanded(x)
    BY <1>2, <1>3
  <2>6. \A i \in 1 .. Len(p) + 1 : u[i] = Append(s, Expanded(x))[i]
    BY <2>1, <2>3, <2>5
  <2> QED BY <2>4, <2>5, <2>6, SeqEqual
<1> HIDE DEF s, u
<1>5. FlattenSeq(s) \in Seq(Symbols) /\ FlattenSeq(u) = FlattenSeq(s) \o Expanded(x)
  BY <1>2, <1>3, <1>4, FlattenAppend
<1>6. Told(p) = FlattenSeq(s) /\ Told(Append(p, x)) = FlattenSeq(u)
  BY DEF Told, s, u
<1> QED BY <1>5, <1>6

\* How to put sequences together.
LEMMA Concatenations ==
    ASSUME NEW a \in Seq(Symbols), NEW b \in Seq(Symbols), NEW v \in Symbols
    PROVE  /\ a \o << >> = a
           /\ a \o << v >> = Append(a, v)
           /\ a \o Append(b, v) = Append(a \o b, v)
<1>1. a \o << >> = a
  OBVIOUS
<1>2. a \o << v >> = Append(a, v)
  OBVIOUS
<1>3. a \o Append(b, v) = Append(a \o b, v)
  OBVIOUS
<1> QED BY <1>1, <1>2, <1>3

LEMMA AccountTypes ==
    ASSUME Types
    PROVE  /\ passed \in Seq(Samples \cup {Gap}) /\ Len(passed) \in Nat
           /\ Told(passed) \in Seq(Symbols)
           /\ repeat.prev \in Samples /\ repeat.prev.val \in Symbols
           /\ repeat.count \in Nat
           /\ repeat.valid => repeat.prev # Gap
<1>1. passed \in Seq(Samples \cup {Gap})
  BY DEF Types, PassedTyped
<1>2. repeat.prev \in Samples /\ repeat.count \in Nat
  BY Basics DEF Repeats
<1>3. repeat.prev.val \in Symbols
  BY <1>2, ExpandedFacts
<1>4. repeat.prev # Gap
  BY <1>2, Numbers DEF Samples
<1>5. Told(passed) \in Seq(Symbols)
  BY <1>1, ToldAppend
<1> QED BY <1>1, <1>2, <1>3, <1>4, <1>5

LEMMA StampNumbers ==
    /\ Types => /\ repeat.stamp \in Int /\ repeat.prev.stamp \in Int
                /\ \A i \in 1 .. Len(passed) : passed[i].stamp \in Int
    /\ Types' => repeat'.stamp \in Int /\ repeat'.prev.stamp \in Int
<1>1. \A x \in Samples \cup {Gap} : x.stamp \in Int
  BY Numbers DEF Samples, Gap, Stamps
<1>2. \A r \in Repeats : r.stamp \in Int /\ r.prev.stamp \in Int
  BY <1>1, Numbers DEF Repeats, Stamps
<1>3. Types => \A i \in 1 .. Len(passed) : passed[i].stamp \in Int
  BY <1>1, AccountTypes
<1>4. (Types => repeat \in Repeats) /\ (Types' => repeat' \in Repeats)
  BY DEF Types, FilterOK, FilterTyped
<1> QED BY <1>2, <1>3, <1>4

\* A step that passes nothing leaves alone what has passed.
LEMMA AloneInPass ==
    ASSUME NEW t \in Threads, ~Races(t)
    PROVE  \A s \in Threads : s # t => ~InPass(s) /\ ~Sending(s) /\ thread[s].pc # "store"
  BY DEF Threads, Races, Other, InPass, Sending

LEMMA NobodySends ==
    ASSUME NEW t \in Threads, ~Races(t), ~Sending(t), Others(t), ~Sending(t)'
    PROVE  /\ ~Storing /\ ~Storing'
           /\ ~\E s \in Threads : Sending(s)
           /\ ~\E s \in Threads : Sending(s)'
<1>1. \A s \in Threads : ~Sending(s) /\ thread[s].pc # "store"
  BY AloneInPass DEF Sending
<1>2. \A s \in Threads : ~Sending(s)' /\ thread'[s].pc # "store"
  BY <1>1 DEF Others, Sending
<1> QED BY <1>1, <1>2 DEF Storing

\* Where the other thread is not in a pass, thread t may be.
LEMMA OnePassStep ==
    ASSUME OnePass, NEW t \in Threads, ~Races(t), Others(t),
           InPass(t)' => repeat'.valid /\ repeat'.count = 0
    PROVE  OnePass'
<1>1. \A s \in Threads : s # t => ~InPass(s)'
  BY AloneInPass DEF Others, InPass
<1> QED BY <1>1 DEF OnePass

\* Stamps of what has passed, when nothing passes.
LEMMA StampedStep ==
    ASSUME Stamped, ~raced, ~Storing, ~Storing', NothingPasses
    PROVE  Stamped'
  BY DEF Stamped, NothingPasses

LEMMA FlushesFlow ==
    ASSUME Types, Types', Flow, ~raced, ~raced', NEW t \in Threads, Flushes(t)
    PROVE  Flow'
<1>1. /\ ~InPass(t) /\ repeat.valid /\ ~Races(t) /\ Others(t) /\ NothingPasses
      /\ thread'[t].pc = "time"
      /\ repeat'.valid /\ repeat'.count = 0 /\ repeat'.was
      /\ repeat'.prev.val = repeat.prev.val
      /\ repeat'.prev.repeats \in Nat /\ repeat'.prev.repeats > 0
      /\ repeat'.stamp = repeat'.prev.stamp /\ repeat.prev.stamp <= repeat'.stamp
  BY DEF Flushes
<1>2. \A s \in Threads : ~Sending(s) /\ thread[s].pc # "store"
  BY <1>1, AloneInPass DEF InPass, Sending
<1>3. Sending(t)' /\ ~Storing /\ ~Storing'
  <2>1. \A s \in Threads : thread'[s].pc # "store"
    BY <1>1, <1>2 DEF Others
  <2> QED BY <1>1, <1>2, <2>1 DEF Sending, Storing
<1>4. OnePass'
  BY <1>1, OnePassStep DEF Flow
<1>5. Account'
  <2> SUFFICES ASSUME refused = {}
               PROVE  Told(passed)' \o Rest' = seen'
    BY <1>1 DEF Account, NothingPasses
  <2> DEFINE v == repeat.prev.val
             n == repeat'.prev.repeats
  <2>1. Told(passed) \o Copies(repeat.count, v) = seen
    <3>1. Rest = Copies(repeat.count, v)
      BY <1>1, <1>2 DEF Rest
    <3> QED BY <3>1 DEF Flow, Account
  <2>2. Rest' = Copies(n, v)
    <3>1. Rest' = Expanded(repeat'.prev)
      BY <1>3 DEF Rest
    <3> QED BY <1>1, <3>1 DEF Expanded, Copies
  <2>3. Told(passed)' = Told(passed)
    BY <1>1 DEF NothingPasses
  <2>4. v \in Symbols /\ repeat.count \in Nat /\ Told(passed) \in Seq(Symbols)
    BY AccountTypes
  <2>5. \/ n = repeat.count /\ UNCHANGED seen
        \/ n = repeat.count + 1 /\ seen' = Append(seen, v)
    BY DEF Flushes
  <2> HIDE DEF v, n
  <2>6. CASE n = repeat.count /\ UNCHANGED seen
    BY <2>1, <2>2, <2>3, <2>6
  <2>7. CASE n = repeat.count + 1 /\ seen' = Append(seen, v)
    <3>1. /\ Copies(n, v) = Append(Copies(repeat.count, v), v)
          /\ Copies(repeat.count, v) \in Seq(Symbols)
      BY <2>4, <2>7, CopiesFacts
    <3>2. Told(passed) \o Append(Copies(repeat.count, v), v)
            = Append(Told(passed) \o Copies(repeat.count, v), v)
      BY <2>4, <3>1, Concatenations
    <3> QED BY <2>1, <2>2, <2>3, <2>7, <3>1, <3>2
  <2> QED BY <2>5, <2>6, <2>7
<1>6. Stamped'
  BY <1>1, <1>3, StampedStep DEF Flow
<1>7. StampKept'
  <2> SUFFICES ASSUME NEW i \in 1 .. Len(passed),
                      LastSample(passed, i), passed[i].repeats > 0, NoneRefusedSince(i)
               PROVE  repeat'.was /\ passed[i].stamp <= repeat'.stamp
    BY <1>1 DEF StampKept, NothingPasses, NoneRefusedSince
  <2>1. repeat.was /\ passed[i].stamp <= repeat.stamp
    BY <1>2 DEF Flow, StampKept
  <2>2. repeat.stamp = repeat.prev.stamp
    BY <1>1, <2>1 DEF Types, FilterOK, Marked
  <2>3. repeat.stamp \in Int /\ repeat'.stamp \in Int /\ passed[i].stamp \in Int
    BY StampNumbers
  <2> QED BY <1>1, <2>1, <2>2, <2>3
<1> QED BY <1>4, <1>5, <1>6, <1>7 DEF Flow

LEMMA RenewsFlow ==
    ASSUME Types, Types', Flow, ~raced, ~raced', NEW t \in Threads, Renews(t)
    PROVE  Flow'
<1>1. /\ thread[t].pc \in {"idle", "after"}
      /\ ~Races(t) /\ Others(t) /\ NothingPasses
      /\ repeat.valid => repeat.count = 0
      /\ thread'[t].pc = "time"
      /\ repeat'.valid /\ repeat'.count = 0 /\ repeat'.was = FALSE
      /\ repeat'.prev.repeats = 0
      /\ repeat.was => repeat.stamp <= repeat'.prev.stamp
      /\ seen' = Append(seen, repeat'.prev.val)
  BY DEF Renews
<1>2. \A s \in Threads : ~Sending(s) /\ thread[s].pc # "store"
  BY <1>1, AloneInPass DEF Sending
<1>3. Sending(t)' /\ ~Storing /\ ~Storing'
  <2>1. \A s \in Threads : thread'[s].pc # "store"
    BY <1>1, <1>2 DEF Others
  <2> QED BY <1>1, <1>2, <2>1 DEF Sending, Storing
<1>4. OnePass'
  BY <1>1, OnePassStep DEF Flow
<1>5. Account'
  <2> SUFFICES ASSUME refused = {}
               PROVE  Told(passed)' \o Rest' = seen'
    BY <1>1 DEF Account, NothingPasses
  <2> DEFINE v == repeat'.prev.val
  <2>1. Told(passed) = seen
    <3>1. Rest = Copies(0, repeat.prev.val)
      BY <1>1, <1>2 DEF Rest
    <3>2. Told(passed) \in Seq(Symbols) /\ Rest = << >>
      BY <3>1, AccountTypes, CopiesFacts
    <3>3. Told(passed) \o Rest = seen
      BY DEF Flow, Account
    <3> QED BY <3>2, <3>3
  <2>2. Rest' = << v >>
    <3>1. Rest' = Expanded(repeat'.prev)
      BY <1>3 DEF Rest
    <3> QED BY <1>1, <3>1 DEF Expanded
  <2>3. Told(passed)' = Told(passed)
    BY <1>1 DEF NothingPasses
  <2>4. v \in Symbols /\ Told(passed) \in Seq(Symbols)
    <3>1. repeat'.prev \in Samples
      BY DEF Types, FilterOK, FilterTyped, Repeats
    <3> QED BY <3>1, AccountTypes, ExpandedFacts
  <2> HIDE DEF v
  <2>5. Told(passed) \o << v >> = Append(Told(passed), v)
    BY <2>4, Concatenations
  <2> QED BY <1>1, <2>1, <2>2, <2>3, <2>5 DEF v
<1>6. Stamped'
  BY <1>1, <1>3, StampedStep DEF Flow
<1>7. StampKept'
  <2> SUFFICES ASSUME NEW i \in 1 .. Len(passed),
                      LastSample(passed, i), passed[i].repeats > 0, NoneRefusedSince(i)
               PROVE  passed[i].stamp <= repeat'.prev.stamp
    BY <1>1, <1>3 DEF StampKept, NothingPasses, NoneRefusedSince
  <2>1. repeat.was /\ passed[i].stamp <= repeat.stamp
    BY <1>2 DEF Flow, StampKept
  <2> QED BY <1>1, <2>1, StampNumbers
<1> QED BY <1>4, <1>5, <1>6, <1>7 DEF Flow

LEMMA CountsFlow ==
    ASSUME Types, Flow, ~raced, ~raced', NEW t \in Threads, Counts(t)
    PROVE  Flow'
<1>1. /\ ~InPass(t) /\ ~Races(t) /\ Others(t) /\ NothingPasses
      /\ thread'[t].pc = "idle"
      /\ repeat'.valid = repeat.valid /\ repeat'.prev = repeat.prev
      /\ repeat'.was = repeat.was /\ repeat'.stamp = repeat.stamp
      /\ repeat'.count = repeat.count + 1
      /\ seen' = IF repeat.valid THEN Append(seen, repeat.prev.val) ELSE seen
  BY DEF Counts
<1>2. /\ ~Storing /\ ~Storing'
      /\ ~\E s \in Threads : Sending(s)
      /\ ~\E s \in Threads : Sending(s)'
  <2>1. ~Sending(t) /\ ~Sending(t)'
    BY <1>1 DEF InPass, Sending
  <2> QED BY <1>1, <2>1, NobodySends
<1>3. OnePass'
  <2>1. ~InPass(t)'
    BY <1>1 DEF InPass
  <2> QED BY <1>1, <2>1, OnePassStep DEF Flow
<1>4. Account'
  <2> SUFFICES ASSUME refused = {}
               PROVE  Told(passed)' \o Rest' = seen'
    BY <1>1 DEF Account, NothingPasses
  <2> DEFINE v == repeat.prev.val
             n == repeat.count
  <2>1. Told(passed) \o Rest = seen
    BY DEF Flow, Account
  <2>2. Told(passed)' = Told(passed)
    BY <1>1 DEF NothingPasses
  <2>3. v \in Symbols /\ n \in Nat /\ Told(passed) \in Seq(Symbols)
    BY AccountTypes
  <2>4. /\ Rest = Copies(IF repeat.valid THEN n ELSE 0, v)
        /\ Rest' = Copies(IF repeat.valid THEN n + 1 ELSE 0, v)
    BY <1>1, <1>2 DEF Rest
  <2> HIDE DEF v, n
  <2>5. CASE repeat.valid
    <3>1. /\ Copies(n + 1, v) = Append(Copies(n, v), v)
          /\ Copies(n, v) \in Seq(Symbols)
      BY <2>3, CopiesFacts
    <3>2. Told(passed) \o Append(Copies(n, v), v) = Append(Told(passed) \o Copies(n, v), v)
      BY <2>3, <3>1, Concatenations
    <3>3. seen' = Append(seen, v)
      BY <1>1, <2>5 DEF v
    <3> QED BY <2>1, <2>2, <2>4, <2>5, <3>1, <3>2, <3>3
  <2>6. CASE ~repeat.valid
    BY <1>1, <2>1, <2>2, <2>4, <2>6
  <2> QED BY <2>5, <2>6
<1>5. Stamped'
  BY <1>1, <1>2, StampedStep DEF Flow
<1>6. StampKept'
  BY <1>1, <1>2 DEF Flow, StampKept, NothingPasses, NoneRefusedSince
<1> QED BY <1>3, <1>4, <1>5, <1>6 DEF Flow

\* A disconnection is not a sample.
LEMMA LastBeforeGap ==
    ASSUME NEW p \in Seq(Samples \cup {Gap}), NEW i, LastSample(Append(p, Gap), i)
    PROVE  i \in 1 .. Len(p) /\ LastSample(p, i) /\ Append(p, Gap)[i] = p[i]
<1> DEFINE q == Append(p, Gap)
<1>1. /\ Len(p) \in Nat /\ Len(q) = Len(p) + 1 /\ q[Len(p) + 1] = Gap
      /\ \A j \in 1 .. Len(p) : q[j] = p[j]
  OBVIOUS
<1>2. /\ i \in 1 .. Len(q) /\ q[i] # Gap
      /\ \A j \in i + 1 .. Len(q) : q[j] = Gap
  BY DEF LastSample
<1> HIDE DEF q
<1>3. i \in 1 .. Len(p) /\ q[i] = p[i]
  BY <1>1, <1>2
<1>4. \A j \in i + 1 .. Len(p) : p[j] = Gap
  BY <1>1, <1>2, <1>3
<1> QED BY <1>2, <1>3, <1>4 DEF LastSample, q

LEMMA LastIsNew ==
    ASSUME NEW p \in Seq(Samples \cup {Gap}), NEW x \in Samples \cup {Gap}, x # Gap,
           NEW i, LastSample(Append(p, x), i)
    PROVE  i = Len(p) + 1 /\ Append(p, x)[i] = x
<1> DEFINE q == Append(p, x)
<1>1. Len(p) \in Nat /\ Len(q) = Len(p) + 1 /\ q[Len(p) + 1] = x
  OBVIOUS
<1>2. i \in 1 .. Len(q) /\ \A j \in i + 1 .. Len(q) : q[j] = Gap
  BY DEF LastSample
<1> HIDE DEF q
<1>3. i = Len(p) + 1
  BY <1>1, <1>2
<1> QED BY <1>1, <1>3 DEF q

LEMMA DropsFlow ==
    ASSUME Types, Flow, ~raced, ~raced', NEW t \in Threads, Drops(t)
    PROVE  Flow'
<1>1. /\ ~Sending(t) /\ ~Races(t) /\ Others(t)
      /\ UNCHANGED <<last_stamp, refused>>
      /\ repeat.valid => repeat.count = 0
      /\ repeat'.valid = FALSE
      /\ repeat'.was = repeat.was /\ repeat'.stamp = repeat.stamp
      /\ thread'[t].pc = "idle"
      /\ \/ UNCHANGED <<passed, seen>>
         \/ passed' = Append(passed, Gap) /\ seen' = Append(seen, Gap.val)
  BY DEF Drops
<1>2. /\ ~Storing /\ ~Storing'
      /\ ~\E s \in Threads : Sending(s)
      /\ ~\E s \in Threads : Sending(s)'
  <2>1. ~Sending(t)'
    BY <1>1 DEF Sending
  <2> QED BY <1>1, <2>1, NobodySends
<1>3. OnePass'
  <2>1. ~InPass(t)'
    BY <1>1 DEF InPass
  <2> QED BY <1>1, <2>1, OnePassStep DEF Flow
<1>4. passed \in Seq(Samples \cup {Gap}) /\ Told(passed) \in Seq(Symbols)
  BY AccountTypes
<1>5. Account'
  <2> SUFFICES ASSUME refused = {}
               PROVE  Told(passed)' \o Rest' = seen'
    BY <1>1 DEF Account
  <2>1. Told(passed) = seen
    <3>1. Rest = Copies(0, repeat.prev.val)
      BY <1>1, <1>2 DEF Rest
    <3>2. Rest = << >>
      BY <3>1, AccountTypes, CopiesFacts
    <3>3. Told(passed) \o Rest = seen
      BY DEF Flow, Account
    <3> QED BY <1>4, <3>2, <3>3
  <2>2. Rest' = << >>
    <3>1. Rest' = Copies(0, repeat'.prev.val)
      BY <1>1, <1>2 DEF Rest
    <3> QED BY <3>1 DEF Copies
  <2>3. CASE UNCHANGED <<passed, seen>>
    BY <1>4, <2>1, <2>2, <2>3
  <2>4. CASE passed' = Append(passed, Gap) /\ seen' = Append(seen, Gap.val)
    <3>1. Told(passed') = Told(passed) \o Expanded(Gap)
      BY <1>4, <2>4, ToldAppend
    <3>2. Expanded(Gap) = << Gap.val >> /\ Gap.val \in Symbols
      BY DEF Expanded, Gap, Symbols
    <3>3. Told(passed) \o << Gap.val >> = Append(Told(passed), Gap.val)
      BY <1>4, <3>2, Concatenations
    <3>4. seen' \in Seq(Symbols)
      <4>1. seen \in Seq(Symbols)
        BY <1>4, <2>1
      <4> QED BY <2>4, <3>2, <4>1
    <3>5. Told(passed') = seen'
      BY <2>1, <2>4, <3>1, <3>2, <3>3
    <3>6. seen' \o << >> = seen'
      BY <3>4
    <3> QED BY <2>2, <3>5, <3>6
  <2> QED BY <1>1, <2>3, <2>4
<1>6. ASSUME NEW i, LastSample(passed', i)
      PROVE  i \in 1 .. Len(passed) /\ LastSample(passed, i) /\ passed'[i] = passed[i]
  <2>1. CASE passed' = passed
    BY <1>6, <2>1 DEF LastSample
  <2>2. CASE passed' = Append(passed, Gap)
    BY <1>4, <1>6, <2>2, LastBeforeGap
  <2> QED BY <1>1, <2>1, <2>2
<1>7. Stamped'
  <2>1. ASSUME NEW i \in 1 .. Len(passed'), LastSample(passed', i)
        PROVE  last_stamp' = passed'[i].stamp
    BY <1>1, <1>2, <1>6, <2>1 DEF Flow, Stamped
  <2> QED BY <1>2, <2>1 DEF Stamped
<1>8. StampKept'
  <2>1. ASSUME NEW i \in 1 .. Len(passed'), LastSample(passed', i),
               passed'[i].repeats > 0, NoneRefusedSince(i)'
        PROVE  repeat'.was /\ passed'[i].stamp <= repeat'.stamp
    <3>1. /\ i \in 1 .. Len(passed) /\ LastSample(passed, i) /\ passed'[i] = passed[i]
          /\ NoneRefusedSince(i)
      BY <1>1, <1>6, <2>1 DEF NoneRefusedSince
    <3> QED BY <1>1, <1>2, <2>1, <3>1 DEF Flow, StampKept
  <2> QED BY <2>1 DEF StampKept
<1> QED BY <1>3, <1>5, <1>7, <1>8 DEF Flow

\* Where the threads are when one of them gets further with a sample.
LEMMA MovesTo ==
    ASSUME Types, OnePass, ~raced, NEW t \in Threads, Sending(t),
           NEW to \in {"store", "after"}, thread' = [thread EXCEPT ![t].pc = to]
    PROVE  /\ thread'[t].pc = to /\ Others(t)
           /\ repeat.valid /\ repeat.count = 0
           /\ \A s \in Threads : s # t => ~InPass(s)
           /\ Storing' <=> to = "store"
           /\ (\E s \in Threads : Sending(s)') <=> to = "store"
<1>1. thread'[t].pc = to /\ Others(t)
  BY DEF Types, FilterOK, FilterTyped, Tasks, Others
<1>2. InPass(t)
  BY DEF Sending, InPass
<1>3. \A s \in Threads : s # t => ~InPass(s)
  BY <1>2 DEF OnePass
<1>4. repeat.valid /\ repeat.count = 0
  BY <1>2 DEF OnePass
<1>5. \A s \in Threads : s # t => thread'[s].pc \notin {"time", "store"}
  BY <1>1, <1>3 DEF Others, InPass
<1>6. Storing' <=> to = "store"
  BY <1>1, <1>5 DEF Storing
<1>7. (\E s \in Threads : Sending(s)') <=> to = "store"
  BY <1>1, <1>5 DEF Sending
<1> QED BY <1>1, <1>3, <1>4, <1>6, <1>7

LEMMA MovesOnePass ==
    ASSUME OnePass, NEW t \in Threads, Sending(t), Others(t), ~raced, UNCHANGED repeat
    PROVE  OnePass'
<1>1. InPass(t)
  BY DEF Sending, InPass
<1>2. \A s \in Threads : s # t => ~InPass(s)'
  BY <1>1 DEF OnePass, Others, InPass
<1>3. repeat'.valid /\ repeat'.count = 0
  BY <1>1 DEF OnePass
<1> QED BY <1>2, <1>3 DEF OnePass

LEMMA TimeCheckFlow ==
    ASSUME Types, Flow, ~raced, ~raced', NEW t \in Threads, TimeCheck(t)
    PROVE  Flow'
<1> OnePass
  BY DEF Flow
<1>1. thread[t].pc = "time" /\ UNCHANGED <<repeat, passed, seen>> /\ Sending(t)
  BY DEF TimeCheck, Sending
<1>2. CASE /\ refused' = refused \cup {Len(passed)}
           /\ thread' = [thread EXCEPT ![t].pc = "after"] /\ UNCHANGED last_stamp
  <2>1. /\ thread'[t].pc = "after" /\ Others(t) /\ ~Storing'
        /\ \A s \in Threads : s # t => ~InPass(s)
    BY <1>1, <1>2, MovesTo
  <2>2. OnePass'
    BY <1>1, <2>1, MovesOnePass
  <2>3. Account'
    BY <1>2 DEF Account
  <2>4. ~Storing
    BY <1>1, <2>1 DEF Storing, InPass
  <2>5. Stamped'
    BY <1>1, <1>2, <2>1, <2>4 DEF Flow, Stamped
  <2>6. StampKept'
    <3>1. ASSUME NEW i \in 1 .. Len(passed) PROVE ~NoneRefusedSince(i)'
      <4>1. Len(passed) \in refused' /\ Len(passed) \in Nat
        BY <1>2, AccountTypes
      <4> QED BY <4>1 DEF NoneRefusedSince
    <3> QED BY <1>1, <3>1 DEF StampKept
  <2> QED BY <2>2, <2>3, <2>5, <2>6 DEF Flow
<1>3. CASE /\ last_stamp' = repeat.prev.stamp
           /\ thread' = [thread EXCEPT ![t].pc = "store"] /\ UNCHANGED refused
  <2>1. /\ thread'[t].pc = "store" /\ Others(t) /\ Storing'
        /\ \E s \in Threads : Sending(s)'
    BY <1>1, <1>3, MovesTo
  <2>2. OnePass'
    BY <1>1, <2>1, MovesOnePass
  <2>3. Account'
    <3>1. Rest' = Rest
      BY <1>1, <2>1 DEF Rest
    <3> QED BY <1>1, <1>3, <3>1 DEF Flow, Account
  <2>4. Stamped'
    BY <1>1, <1>3, <2>1 DEF Stamped
  <2>5. StampKept'
    BY <1>1, <1>3, <2>1 DEF Flow, StampKept, NoneRefusedSince
  <2> QED BY <2>2, <2>3, <2>4, <2>5 DEF Flow
<1> QED BY <1>2, <1>3 DEF TimeCheck

LEMMA StoreFlow ==
    ASSUME Types, Flow, ~raced, ~raced', NEW t \in Threads, Store(t)
    PROVE  Flow'
<1> OnePass
  BY DEF Flow
<1>1. /\ thread[t].pc = "store" /\ Sending(t)
      /\ passed' = Append(passed, repeat.prev)
      /\ thread' = [thread EXCEPT ![t].pc = "after"]
      /\ UNCHANGED <<repeat, last_stamp, seen, refused>>
  BY DEF Store, Sending, ghosts
<1>2. /\ thread'[t].pc = "after" /\ Others(t) /\ ~Storing'
      /\ repeat.valid /\ repeat.count = 0
      /\ ~\E s \in Threads : Sending(s)'
  BY <1>1, MovesTo
<1>3. OnePass'
  BY <1>1, <1>2, MovesOnePass
<1>4. /\ passed \in Seq(Samples \cup {Gap}) /\ Len(passed) \in Nat
      /\ repeat.prev \in Samples \cup {Gap} /\ repeat.prev # Gap
      /\ Told(passed) \in Seq(Symbols) /\ repeat.prev.val \in Symbols
  BY <1>2, AccountTypes
<1>5. Account'
  <2> SUFFICES ASSUME refused = {}
               PROVE  Told(passed)' \o Rest' = seen'
    BY <1>1 DEF Account
  <2> DEFINE x == Expanded(repeat.prev)
  <2>1. Told(passed) \o x = seen
    <3>1. Rest = x
      BY <1>1 DEF Rest
    <3> QED BY <3>1 DEF Flow, Account
  <2>2. x \in Seq(Symbols)
    BY <1>4, ExpandedFacts
  <2>3. Told(passed') = Told(passed) \o x
    BY <1>1, <1>4, ToldAppend
  <2>4. Rest' = << >>
    <3>1. Rest' = Copies(0, repeat.prev.val)
      BY <1>1, <1>2 DEF Rest
    <3> QED BY <3>1 DEF Copies
  <2> HIDE DEF x
  <2>5. Told(passed) \o x \in Seq(Symbols)
    BY <1>4, <2>2
  <2>6. (Told(passed) \o x) \o << >> = Told(passed) \o x
    BY <2>5
  <2> QED BY <1>1, <2>1, <2>3, <2>4, <2>6
<1>6. ASSUME NEW i, LastSample(passed', i)
      PROVE  i = Len(passed) + 1 /\ passed'[i] = repeat.prev
  BY <1>1, <1>4, <1>6, LastIsNew
<1>7. Stamped'
  <2>1. last_stamp = repeat.prev.stamp
    BY <1>1 DEF Flow, Stamped, Storing
  <2> QED BY <1>1, <1>2, <1>6, <2>1 DEF Stamped
<1>8. StampKept'
  <2>1. ASSUME NEW i \in 1 .. Len(passed'), LastSample(passed', i),
               passed'[i].repeats > 0
        PROVE  repeat'.was /\ passed'[i].stamp <= repeat'.stamp
    <3>1. passed'[i] = repeat.prev /\ repeat.prev.repeats > 0
      BY <1>6, <2>1
    <3>2. repeat.was /\ repeat.stamp = repeat.prev.stamp
      BY <1>2, <3>1 DEF Types, FilterOK, Marked
    <3> QED BY <1>1, <3>1, <3>2, StampNumbers
  <2> QED BY <2>1 DEF StampKept
<1> QED BY <1>3, <1>5, <1>7, <1>8 DEF Flow

LEMMA RestsFlow ==
    ASSUME Flow, ~raced, Rests
    PROVE  Flow'
<1>1. /\ repeat'.valid = repeat.valid /\ repeat'.prev = repeat.prev
      /\ repeat'.was = repeat.was /\ repeat'.stamp = repeat.stamp
      /\ repeat'.count = repeat.count
      /\ \A s \in Threads : (InPass(s)' <=> InPass(s)) /\ (Sending(s)' <=> Sending(s))
      /\ UNCHANGED <<seen, passed, last_stamp, refused>>
  BY DEF Rests, NothingPasses
<1>2. Storing' <=> Storing
  BY DEF Rests, Storing
<1>3. (\E s \in Threads : Sending(s)') <=> (\E s \in Threads : Sending(s))
  BY <1>1
<1>4. OnePass'
  BY <1>1 DEF Flow, OnePass
<1>5. Account'
  <2>1. Rest' = Rest
    BY <1>1, <1>3 DEF Rest
  <2> QED BY <1>1, <2>1 DEF Flow, Account
<1>6. Stamped'
  BY <1>1, <1>2 DEF Flow, Stamped
<1>7. StampKept'
  BY <1>1, <1>3 DEF Flow, StampKept, NoneRefusedSince
<1> QED BY <1>4, <1>5, <1>6, <1>7 DEF Flow

-----------------------------------------------------------------------------
(* The theorems.                                                           *)

\* The model ends at a race.
LEMMA RaceStays == raced /\ [Next]_vars => raced'
<1> SUFFICES ASSUME raced, [Next]_vars PROVE raced'
  OBVIOUS
<1>1. CASE UNCHANGED vars \/ Tick
  BY <1>1 DEF vars, ghosts, Tick
<1>2. CASE Next
  BY <1>2, <1>1 DEF Next, PvValue, Enable, Disable, Connected, PvDisconnected, Scan,
                    Update, Stop, StopPV, Start, Begin
<1> QED BY <1>1, <1>2

LEMMA InitInv == Init => IInv
<1> SUFFICES ASSUME Init PROVE IInv
  OBVIOUS
<1>1. Types
  BY InitTypes
<1>2. \A t \in Threads : ~InPass(t) /\ ~Sending(t) /\ thread[t].pc # "store"
  BY DEF Init, Idle, InPass, Sending
<1>3. OnePass
  BY <1>2 DEF OnePass
<1>4. OfConnected
  BY DEF Init, OfConnected, Idle
<1>5. Account
  <2>1. Told(passed) = << >>
    <3>1. [i \in 1 .. Len(passed) |-> Expanded(passed[i])] = << >>
      BY DEF Init
    <3> QED BY <3>1, FlattenEmpty DEF Told
  <2>2. Rest = << >>
    BY <1>2 DEF Rest, Init, Copies
  <2>3. seen = << >>
    BY DEF Init
  <2>4. << >> \o << >> = << >>
    OBVIOUS
  <2> QED BY <2>1, <2>2, <2>3, <2>4 DEF Account
<1>6. Stamped
  BY <1>2 DEF Init, Stamped, Storing, LastSample
<1>7. StampKept
  BY DEF Init, StampKept, LastSample
<1> QED BY <1>1, <1>3, <1>4, <1>5, <1>6, <1>7 DEF IInv, Flow, Types

LEMMA InvStep == IInv /\ [Next]_vars => IInv'
<1> SUFFICES ASSUME IInv, [Next]_vars PROVE IInv'
  OBVIOUS
<1>1. Types /\ OfConnected /\ Flow /\ OnePass
  BY DEF IInv, Types, Flow
<1>2. Types'
  BY <1>1, TypesStep
<1>3. CASE raced'
  <2>1. OfConnected' /\ Flow'
    BY <1>3 DEF OfConnected, Flow, OnePass, Account, Stamped, StampKept
  <2> QED BY <1>2, <2>1 DEF IInv, Types
<1>4. CASE ~raced'
  <2>1. ~raced
    BY <1>4, RaceStays
  <2>2. OfConnected'
    BY <1>1, <1>4, <2>1, ConnectedStep
  <2>3. FilterStep
    BY <1>1, <1>4, <2>1, EveryStep
  <2>4. Flow'
    <3>1. CASE Rests
      BY <1>1, <2>1, <3>1, RestsFlow
    <3>2. ASSUME NEW t \in Threads, Flushes(t) PROVE Flow'
      BY <1>1, <1>2, <1>4, <2>1, <3>2, FlushesFlow
    <3>3. ASSUME NEW t \in Threads, Renews(t) PROVE Flow'
      BY <1>1, <1>2, <1>4, <2>1, <3>3, RenewsFlow
    <3>4. ASSUME NEW t \in Threads, Counts(t) PROVE Flow'
      BY <1>1, <1>4, <2>1, <3>4, CountsFlow
    <3>5. ASSUME NEW t \in Threads, Drops(t) PROVE Flow'
      BY <1>1, <1>4, <2>1, <3>5, DropsFlow
    <3>6. ASSUME NEW t \in Threads, TimeCheck(t) PROVE Flow'
      BY <1>1, <1>4, <2>1, <3>6, TimeCheckFlow
    <3>7. ASSUME NEW t \in Threads, Store(t) PROVE Flow'
      BY <1>1, <1>4, <2>1, <3>7, StoreFlow
    <3> QED BY <2>3, <3>1, <3>2, <3>3, <3>4, <3>5, <3>6, <3>7 DEF FilterStep
  <2> QED BY <1>2, <2>2, <2>4 DEF IInv, Types
<1> QED BY <1>3, <1>4

\* Counting repeats loses nothing, in whatever order RepeatFilter::update(),
\* stop(), pvDisconnected() and pvValue() come, as long as the two threads do
\* not meet in a pass: from the archive one gets back every value that the
\* RepeatFilter was given or has counted.
THEOREM CountingLosesNothing == Spec => []RepeatsTellAll
<1>1. IInv => RepeatsTellAll
  <2> SUFFICES ASSUME IInv, Resting, ~raced, refused = {}
               PROVE  Told(passed) \o
                        Copies(IF repeat.valid THEN repeat.count ELSE 0, repeat.prev.val)
                      = seen
    BY DEF RepeatsTellAll, Told, Copies
  <2>1. \A t \in Threads : ~Sending(t)
    BY DEF Resting, Sending
  <2> QED BY <2>1 DEF IInv, Flow, Account, Rest
<1> QED BY <1>1, InitInv, InvStep, PTL DEF Spec

\* The stamp that RepeatFilter::pvValue() moves is late enough: TimeFilter
\* does not refuse the first value after a repeat as going back in time.
THEOREM ValueAfterRepeatPasses == Spec => []NewValueFollowsRepeat
<1>1. IInv => NewValueFollowsRepeat
  <2> SUFFICES ASSUME IInv, NEW i \in 1 .. Len(passed),
                      ~raced, thread["ca"].pc = "time", repeat.prev.repeats = 0,
                      passed[i].repeats > 0,
                      \A j \in i + 1 .. Len(passed) : passed[j] = Gap,
                      \A k \in refused : k < i
               PROVE  last_stamp <= repeat.prev.stamp
    BY DEF NewValueFollowsRepeat
  <2>1. Types /\ Stamped /\ StampKept /\ OnePass
    BY DEF IInv, Types, Flow
  <2>2. LastSample(passed, i) /\ NoneRefusedSince(i)
    BY DEF LastSample, NoneRefusedSince, Gap
  <2>3. InPass("ca") /\ "ca" \in Threads
    BY <2>1, Basics DEF InPass
  <2>4. ~Storing
    BY <2>1, <2>3 DEF OnePass, Storing, InPass
  <2>5. last_stamp = passed[i].stamp
    BY <2>1, <2>2, <2>4 DEF Stamped
  <2>6. ~repeat.was
    <3>1. repeat.valid
      BY <2>1, <2>3 DEF OnePass
    <3> QED BY <2>1, <3>1 DEF Types, FilterOK, Marked
  <2> QED BY <2>1, <2>2, <2>5, <2>6 DEF StampKept
<1> QED BY <1>1, InitInv, InvStep, PTL DEF Spec
=============================================================================
