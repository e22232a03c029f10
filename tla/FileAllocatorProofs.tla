------------------------- MODULE FileAllocatorProofs -------------------------
(***************************************************************************)
(* What allocate() and free() do to an index file, whatever blocks it has  *)
(* and whatever their sizes: both lists stay sorted and linked in both     *)
(* directions, the blocks follow each other without a gap or an overlap up *)
(* to the end of the file, the sums in the heads are right, no free block  *)
(* follows a free block, and no block but the one in question is touched.  *)
(***************************************************************************)
EXTENDS FileAllocator, SequenceTheorems, WellFoundedInduction, TLAPS

(* What fails for some number does so for a least one.                     *)
LEMMA HasLeast ==
    ASSUME NEW S \in SUBSET Nat, S # {}
    PROVE  \E m \in S : \A n \in S : m <= n
<1> DEFINE Less == {ss \in Nat \X Nat : ss[1] < ss[2]}
<1>1. Less = OpToRel(<, Nat)
  BY DEF OpToRel
<1> HIDE DEF Less
<1>2. IsWellFoundedOn(Less, Nat)
  BY <1>1, NatLessThanWellFounded, Zenon
<1>3. PICK m \in S : \A n \in S : <<n, m>> \notin Less
  BY <1>2, WFMin
<1>4. ASSUME NEW n \in S PROVE m <= n
  <2>1. n < m => <<n, m>> \in Less
    BY DEF Less
  <2> QED
    BY <1>3, <2>1
<1> QED
  BY <1>4

-----------------------------------------------------------------------------
(* Following pointers from one offset to another.                          *)

\* Each step from an offset in D leads to 0 or to one in D of lower rank.
Descends(next, D, rank, m) ==
    /\ DOMAIN next = D /\ 0 \notin D
    /\ \A o \in D : rank[o] \in 0 .. m - 1
    /\ \A o \in D : next[o] # 0 => next[o] \in D /\ rank[next[o]] < rank[o]

Walk(f, next, S) ==
    f = [o \in S |-> IF o = 0 THEN << >> ELSE << o >> \o f[next[o]]]

\* The recursive function of Followed, on the offsets of a rank below n.
LEMMA WalkBelow ==
    ASSUME NEW next, NEW D, NEW rank, NEW m \in Nat, Descends(next, D, rank, m)
    PROVE  \A n \in Nat : \E f : Walk(f, next, {o \in D : rank[o] < n} \cup {0})
<1> DEFINE Below(n) == {o \in D : rank[o] < n} \cup {0}
<1> DEFINE Bad == {n \in Nat : ~ \E f : Walk(f, next, Below(n))}
<1>1. SUFFICES ASSUME Bad # {} PROVE FALSE
  OBVIOUS
<1>2. PICK n \in Bad : \A k \in Bad : n <= k
  BY <1>1, HasLeast
<1>3. n \in Nat /\ ~ \E f : Walk(f, next, Below(n))
  OBVIOUS
<1>4. n # 0
  <2> DEFINE e == [o \in {0} |-> << >>]
  <2>1. Below(0) = {0}
    BY DEF Descends
  <2>2. Walk(e, next, {0})
    BY DEF Walk
  <2> QED BY <2>1, <2>2, <1>3
<1>5. n - 1 \in Nat /\ n - 1 \notin Bad
  <2> HIDE DEF Bad
  <2> QED BY <1>2, <1>3, <1>4
<1>6. PICK g : Walk(g, next, Below(n - 1))
  BY <1>5
<1> DEFINE h == [o \in Below(n) |-> IF o = 0 THEN << >> ELSE << o >> \o g[next[o]]]
<1>7. ASSUME NEW x \in Below(n - 1)
      PROVE  h[x] = g[x]
  <2>1. x \in Below(n)
    BY <1>3 DEF Descends
  <2>2. g[x] = IF x = 0 THEN << >> ELSE << x >> \o g[next[x]]
    BY <1>6 DEF Walk
  <2> QED BY <2>1, <2>2
<1>8. ASSUME NEW o \in Below(n), o # 0
      PROVE  next[o] \in Below(n - 1)
  BY <1>3, <1>8 DEF Descends
<1>9. \A o \in Below(n) : h[o] = IF o = 0 THEN << >> ELSE << o >> \o h[next[o]]
  BY <1>7, <1>8
<1>10. h = [o \in Below(n) |-> h[o]]
  OBVIOUS
<1> HIDE DEF h
<1>11. Walk(h, next, Below(n))
  BY <1>9, <1>10 DEF Walk
<1> QED BY <1>11, <1>3

\* The same on all offsets.
LEMMA WalkExists ==
    ASSUME NEW next, NEW D, NEW rank, NEW m \in Nat, Descends(next, D, rank, m)
    PROVE  \E f : Walk(f, next, D \cup {0})
<1>1. {o \in D : rank[o] < m} = D
  BY DEF Descends
<1>2. \E f : Walk(f, next, {o \in D : rank[o] < m} \cup {0})
  BY WalkBelow
<1> QED BY <1>1, <1>2

\* A way through D to its end; ranks fall along it.
IsPath(L, next, D) ==
    /\ L \in Seq(D)
    /\ \A i \in 1 .. Len(L) : next[L[i]] = IF i = Len(L) THEN 0 ELSE L[i + 1]
Falls(L, rank) == \A i, j \in 1 .. Len(L) : i < j => rank[L[j]] < rank[L[i]]
Leads(L, next, D, rank, o) ==
    /\ IsPath(L, next, D) /\ Falls(L, rank)
    /\ L = << >> <=> o = 0
    /\ o # 0 => L[1] = o

\* An offset in front of a way that it leads to.
LEMMA OneMore ==
    ASSUME NEW next, NEW D, NEW rank, NEW m \in Nat, Descends(next, D, rank, m),
           NEW o \in D, NEW L, Leads(L, next, D, rank, next[o])
    PROVE  Leads(<< o >> \o L, next, D, rank, o)
<1> DEFINE M == << o >> \o L
<1>1. L \in Seq(D) /\ o # 0
  BY DEF Leads, IsPath, Descends
<1>2. M \in Seq(D) /\ Len(M) = Len(L) + 1 /\ M[1] = o /\ Len(L) \in Nat
  BY <1>1
<1>3. \A i \in 1 .. Len(L) : M[i + 1] = L[i]
  BY <1>1
<1>4. \A i \in 2 .. Len(M) : i - 1 \in 1 .. Len(L) /\ M[i] = L[i - 1]
  BY <1>1, <1>2, <1>3
<1> HIDE DEF M
<1>5. ASSUME NEW i \in 1 .. Len(M)
      PROVE  next[M[i]] = IF i = Len(M) THEN 0 ELSE M[i + 1]
  <2>1. CASE i = 1
    <3>1. CASE next[o] = 0
      BY <2>1, <3>1, <1>2 DEF Leads
    <3>2. CASE next[o] # 0
      <4>1. Len(L) # 0 /\ L[1] = next[o]
        BY <3>2, <1>1 DEF Leads
      <4> QED BY <4>1, <2>1, <1>2, <1>3
    <3> QED BY <3>1, <3>2
  <2>2. CASE i # 1
    <3>1. i - 1 \in 1 .. Len(L) /\ M[i] = L[i - 1]
      BY <2>2, <1>2, <1>4
    <3>2. next[L[i - 1]] = IF i - 1 = Len(L) THEN 0 ELSE L[i]
      BY <3>1 DEF Leads, IsPath
    <3>3. i < Len(M) => M[i + 1] = L[i]
      BY <1>2, <1>3, <2>2
    <3> QED BY <3>1, <3>2, <3>3, <1>2
  <2> QED BY <2>1, <2>2
<1>6. ASSUME NEW j \in 1 .. Len(L)
      PROVE  rank[L[j]] < rank[o] /\ rank[L[j]] \in Nat
  <2>1. next[o] # 0 /\ L[1] = next[o] /\ 1 \in 1 .. Len(L) /\ L[j] \in D /\ L[1] \in D
    BY <1>1, <1>6 DEF Leads
  <2>2. rank[L[1]] < rank[o]
    BY <2>1 DEF Descends
  <2>3. j # 1 => rank[L[j]] < rank[L[1]]
    BY <2>1, <1>6 DEF Leads, Falls
  <2>4. {rank[L[j]], rank[L[1]], rank[o]} \subseteq Nat
    BY <2>1 DEF Descends
  <2> QED BY <2>2, <2>3, <2>4
<1>7. ASSUME NEW i \in 1 .. Len(M), NEW j \in 1 .. Len(M), i < j
      PROVE  rank[M[j]] < rank[M[i]]
  <2>1. j - 1 \in 1 .. Len(L) /\ M[j] = L[j - 1]
    BY <1>7, <1>2, <1>4
  <2>2. CASE i = 1
    BY <2>1, <2>2, <1>2, <1>6
  <2>3. CASE i # 1
    <3>1. i - 1 \in 1 .. Len(L) /\ M[i] = L[i - 1] /\ i - 1 < j - 1
      BY <2>3, <1>2, <1>4, <1>7
    <3> QED BY <2>1, <3>1 DEF Leads, Falls
  <2> QED BY <2>2, <2>3
<1>8. M # << >>
  BY <1>2
<1> QED BY <1>1, <1>2, <1>5, <1>7, <1>8 DEF Leads, IsPath, Falls, M

\* What the recursive function returns is a way to the end.
LEMMA WalkLeads ==
    ASSUME NEW next, NEW D, NEW rank, NEW m \in Nat, Descends(next, D, rank, m),
           NEW f, Walk(f, next, D \cup {0})
    PROVE  \A o \in D \cup {0} : Leads(f[o], next, D, rank, o)
<1>1. f[0] = << >>
  BY DEF Walk
<1>2. Leads(f[0], next, D, rank, 0)
  BY <1>1 DEF Leads, IsPath, Falls
<1> DEFINE Bad == {rank[o] : o \in {x \in D : ~Leads(f[x], next, D, rank, x)}}
<1>3. SUFFICES ASSUME Bad # {} PROVE FALSE
  BY <1>2
<1>4. PICK n \in Bad : \A k \in Bad : n <= k
  <2>1. Bad \in SUBSET Nat
    BY DEF Descends
  <2> QED BY <1>3, <2>1, HasLeast
<1>5. PICK o \in D : rank[o] = n /\ ~Leads(f[o], next, D, rank, o)
  OBVIOUS
<1>6. f[o] = << o >> \o f[next[o]]
  BY <1>5 DEF Walk, Descends
<1>7. Leads(f[next[o]], next, D, rank, next[o])
  <2>1. CASE next[o] = 0
    BY <2>1, <1>2
  <2>2. CASE next[o] # 0
    <3>1. next[o] \in D /\ rank[next[o]] < n /\ rank[next[o]] \in Nat /\ n \in Nat
      BY <2>2, <1>5 DEF Descends
    <3>2. rank[next[o]] \notin Bad
      BY <3>1, <1>4
    <3> QED BY <3>1, <3>2
  <2> QED BY <2>1, <2>2
<1> QED BY <1>5, <1>6, <1>7, OneMore

\* What Followed returns.
LEMMA FollowedLeads ==
    ASSUME NEW next, NEW D, NEW rank, NEW m \in Nat, Descends(next, D, rank, m),
           NEW first \in D \cup {0}
    PROVE  Leads(Followed(next, first), next, D, rank, first)
<1> DEFINE f == CHOOSE g : Walk(g, next, D \cup {0})
<1>1. Walk(f, next, D \cup {0})
  BY WalkExists
<1>2. Followed(next, first) = f[first]
  BY DEF Followed, Walk, Descends
<1> HIDE DEF f
<1> QED BY <1>1, <1>2, WalkLeads

-----------------------------------------------------------------------------
(* Sums over offsets.                                                      *)
Sums(g, w, n) == g = [k \in 0 .. n |-> IF k = 0 THEN 0 ELSE g[k - 1] + w[k]]

\* There are such sums.
LEMMA SumsExist ==
    ASSUME NEW w
    PROVE  \A n \in Nat : \E g : Sums(g, w, n)
<1> DEFINE Bad == {n \in Nat : ~ \E g : Sums(g, w, n)}
<1>1. SUFFICES ASSUME Bad # {} PROVE FALSE
  OBVIOUS
<1>2. PICK n \in Bad : \A k \in Bad : n <= k
  BY <1>1, HasLeast
<1>3. n \in Nat /\ ~ \E g : Sums(g, w, n)
  OBVIOUS
<1>4. n # 0
  <2> DEFINE e == [k \in 0 .. 0 |-> 0]
  <2>1. Sums(e, w, 0)
    BY DEF Sums
  <2> QED BY <2>1, <1>3
<1>5. n - 1 \in Nat /\ n - 1 \notin Bad
  <2> HIDE DEF Bad
  <2> QED BY <1>2, <1>3, <1>4
<1>6. PICK g : Sums(g, w, n - 1)
  BY <1>5
<1> DEFINE h == [k \in 0 .. n |-> IF k = n THEN g[n - 1] + w[n] ELSE g[k]]
<1>7. ASSUME NEW k \in 0 .. n
      PROVE  h[k] = IF k = 0 THEN 0 ELSE h[k - 1] + w[k]
  <2>1. k # 0 => k - 1 \in 0 .. n - 1 /\ h[k - 1] = g[k - 1]
    BY <1>3
  <2>2. CASE k = n
    BY <2>1, <2>2, <1>4
  <2>3. CASE k # n
    <3>1. k \in 0 .. n - 1
      BY <2>3, <1>3
    <3>2. g[k] = IF k = 0 THEN 0 ELSE g[k - 1] + w[k]
      BY <3>1, <1>6 DEF Sums
    <3> QED BY <2>1, <2>3, <3>2
  <2> QED BY <2>2, <2>3
<1>8. h = [k \in 0 .. n |-> h[k]]
  OBVIOUS
<1> HIDE DEF h
<1>9. Sums(h, w, n)
  BY <1>7, <1>8 DEF Sums
<1> QED BY <1>9, <1>3

\* There is one sum only.
LEMMA SumsAgree ==
    ASSUME NEW w, NEW m \in Nat, NEW n \in Nat, m <= n,
           NEW g, Sums(g, w, m), NEW h, Sums(h, w, n)
    PROVE  g[m] = h[m]
<1> DEFINE Bad == {k \in 0 .. m : g[k] # h[k]}
<1>1. SUFFICES ASSUME Bad # {} PROVE FALSE
  OBVIOUS
<1>2. PICK k \in Bad : \A j \in Bad : k <= j
  <2>1. Bad \in SUBSET Nat
    OBVIOUS
  <2> QED BY <1>1, <2>1, HasLeast
<1>3. k \in 0 .. m /\ k \in 0 .. n /\ g[k] # h[k]
  OBVIOUS
<1>4. g[k] = IF k = 0 THEN 0 ELSE g[k - 1] + w[k]
  BY <1>3 DEF Sums
<1>5. h[k] = IF k = 0 THEN 0 ELSE h[k - 1] + w[k]
  BY <1>3 DEF Sums
<1>6. k # 0 => g[k - 1] = h[k - 1]
  BY <1>2, <1>3
<1> QED BY <1>3, <1>4, <1>5, <1>6

\* SumTo is it.
LEMMA SumToIsSum ==
    ASSUME NEW w, NEW n \in Nat
    PROVE  \E g : Sums(g, w, n) /\ SumTo(w, n) = g[n]
<1> DEFINE f == CHOOSE g : Sums(g, w, n)
<1>1. Sums(f, w, n)
  BY SumsExist
<1>2. SumTo(w, n) = f[n]
  BY DEF SumTo, Sums
<1> QED BY <1>1, <1>2

\* SumTo, one term after the other.
LEMMA SumToEquations ==
    ASSUME NEW w, NEW n \in Nat
    PROVE  /\ SumTo(w, 0) = 0
           /\ SumTo(w, n + 1) = SumTo(w, n) + w[n + 1]
<1>1. SumTo(w, 0) = 0
  <2>1. PICK g : Sums(g, w, 0) /\ SumTo(w, 0) = g[0]
    BY SumToIsSum
  <2> QED BY <2>1 DEF Sums
<1>2. PICK g : Sums(g, w, n) /\ SumTo(w, n) = g[n]
  BY SumToIsSum
<1>3. PICK h : Sums(h, w, n + 1) /\ SumTo(w, n + 1) = h[n + 1]
  BY SumToIsSum
<1>4. g[n] = h[n]
  <2>1. n + 1 \in Nat /\ n <= n + 1
    OBVIOUS
  <2> QED BY <2>1, <1>2, <1>3, SumsAgree
<1>5. h[n + 1] = h[n] + w[n + 1]
  <2>1. n + 1 \in 0 .. n + 1 /\ n + 1 # 0 /\ (n + 1) - 1 = n
    OBVIOUS
  <2> QED BY <2>1, <1>3 DEF Sums
<1> QED BY <1>1, <1>2, <1>3, <1>4, <1>5

\* A sum of numbers is a number.
LEMMA SumType ==
    ASSUME NEW w \in [Nat -> Nat]
    PROVE  \A n \in Nat : SumTo(w, n) \in Nat
<1> DEFINE Bad == {n \in Nat : SumTo(w, n) \notin Nat}
<1>1. SUFFICES ASSUME Bad # {} PROVE FALSE
  OBVIOUS
<1>2. PICK n \in Bad : \A k \in Bad : n <= k
  BY <1>1, HasLeast
<1>3. n # 0 /\ n \in Nat
  BY SumToEquations
<1>4. n - 1 \in Nat /\ SumTo(w, n - 1) \in Nat
  BY <1>2, <1>3
<1>5. SumTo(w, (n - 1) + 1) = SumTo(w, n - 1) + w[(n - 1) + 1]
  BY <1>4, SumToEquations
<1>6. (n - 1) + 1 = n
  BY <1>3
<1> QED BY <1>3, <1>4, <1>5, <1>6

\* Two sums whose terms differ at o at most.
LEMMA SumDiffers ==
    ASSUME NEW w \in [Nat -> Nat], NEW v \in [Nat -> Nat], NEW o \in Nat \ {0},
           \A k \in Nat : k # o => v[k] = w[k]
    PROVE  \A n \in Nat : SumTo(v, n) = SumTo(w, n) + IF o <= n THEN v[o] - w[o] ELSE 0
<1> DEFINE P(n) == SumTo(v, n) = SumTo(w, n) + IF o <= n THEN v[o] - w[o] ELSE 0
<1> DEFINE Bad == {n \in Nat : ~P(n)}
<1>1. SUFFICES ASSUME Bad # {} PROVE FALSE
  OBVIOUS
<1>2. PICK n \in Bad : \A k \in Bad : n <= k
  BY <1>1, HasLeast
<1>3. n # 0 /\ n \in Nat
  <2>1. P(0)
    BY SumToEquations
  <2> QED BY <2>1
<1>4. n - 1 \in Nat /\ P(n - 1)
  BY <1>2, <1>3
<1>5. /\ SumTo(w, (n - 1) + 1) = SumTo(w, n - 1) + w[(n - 1) + 1]
      /\ SumTo(v, (n - 1) + 1) = SumTo(v, n - 1) + v[(n - 1) + 1]
  BY <1>4, SumToEquations
<1>6. (n - 1) + 1 = n
  BY <1>3
<1>7. {SumTo(w, n - 1), SumTo(v, n - 1), w[n], v[n], w[o], v[o]} \subseteq Nat
  BY <1>3, <1>4, SumType
<1>8. n # o => v[n] = w[n]
  BY <1>3
<1>9. P(n)
  BY <1>3, <1>4, <1>5, <1>6, <1>7, <1>8
<1> QED BY <1>9

\* Terms that are 0 do not count.
LEMMA SumLonger ==
    ASSUME NEW w \in [Nat -> Nat], NEW n \in Nat, \A k \in Nat : n < k => w[k] = 0
    PROVE  \A m \in Nat : n <= m => SumTo(w, m) = SumTo(w, n)
<1> DEFINE Bad == {m \in Nat : n <= m /\ SumTo(w, m) # SumTo(w, n)}
<1>1. SUFFICES ASSUME Bad # {} PROVE FALSE
  OBVIOUS
<1>2. PICK m \in Bad : \A k \in Bad : m <= k
  BY <1>1, HasLeast
<1>3. n < m /\ m \in Nat
  OBVIOUS
<1>4. m - 1 \in Nat /\ SumTo(w, m - 1) = SumTo(w, n)
  BY <1>2, <1>3
<1>5. SumTo(w, (m - 1) + 1) = SumTo(w, m - 1) + w[(m - 1) + 1]
  BY <1>4, SumToEquations
<1>6. (m - 1) + 1 = m /\ w[m] = 0 /\ SumTo(w, m - 1) \in Nat
  BY <1>3, <1>4, SumType
<1> QED BY <1>3, <1>4, <1>5, <1>6

\* Blocks, each with some bytes in front, that do not overlap have no more
\* bytes than there is room for.
LEMMA SumFits ==
    ASSUME NEW S \in SUBSET Nat, NEW w \in [Nat -> Nat], NEW gap \in Nat,
           \A k \in Nat : k \notin S => w[k] = 0,
           \A o, p \in S : o < p => o + gap + w[o] <= p
    PROVE  \A n \in Nat : \A e \in Nat :
               n <= e /\ (\A o \in S : o <= n => o + gap + w[o] <= e) => SumTo(w, n) <= e
<1> DEFINE P(n) == \A e \in Nat :
               n <= e /\ (\A o \in S : o <= n => o + gap + w[o] <= e) => SumTo(w, n) <= e
<1> DEFINE Bad == {n \in Nat : ~P(n)}
<1>1. SUFFICES ASSUME Bad # {} PROVE FALSE
  OBVIOUS
<1>2. PICK n \in Bad : \A k \in Bad : n <= k
  BY <1>1, HasLeast
<1>3. n # 0 /\ n \in Nat /\ ~P(n)
  <2>1. P(0)
    BY SumToEquations
  <2> QED BY <2>1
<1>4. n - 1 \in Nat /\ P(n - 1)
  BY <1>2, <1>3
<1>5. (n - 1) + 1 = n
  BY <1>3
<1>6. SumTo(w, n) = SumTo(w, n - 1) + w[n]
  BY <1>4, <1>5, SumToEquations
<1>7. SumTo(w, n - 1) \in Nat /\ w[n] \in Nat
  BY <1>3, <1>4, SumType
<1>8. PICK e \in Nat : n <= e /\ (\A o \in S : o <= n => o + gap + w[o] <= e) /\ ~(SumTo(w, n) <= e)
  BY <1>3
<1>9. CASE n \in S
  <2>1. \A o \in S : o <= n - 1 => o + gap + w[o] <= n
    BY <1>9, <1>3
  <2>2. SumTo(w, n - 1) <= n
    BY <2>1, <1>3, <1>4
  <2>3. n + gap + w[n] <= e
    BY <1>8, <1>9
  <2> QED BY <2>2, <2>3, <1>3, <1>6, <1>7, <1>8
<1>10. CASE n \notin S
  <2>1. \A o \in S : o <= n - 1 => o + gap + w[o] <= e
    BY <1>8, <1>3
  <2>2. SumTo(w, n - 1) <= e
    BY <2>1, <1>3, <1>4, <1>8
  <2> QED BY <2>2, <1>3, <1>6, <1>7, <1>8, <1>10
<1> QED BY <1>9, <1>10

\* The totals of two sets of blocks that differ at o at most, of a file and
\* of the same file as it has changed.
TotalsDiffer(s, S, r, T, o) ==
    /\ Total(s, S) \in Nat
    /\ Total(r, T) \in Nat
    /\ Total(r, T) = Total(s, S) - (IF o \in S THEN s.node[o].bytes ELSE 0)
                                 + (IF o \in T THEN r.node[o].bytes ELSE 0)

\* One block more, or one of another size.
LEMMA TotalDiffers ==
    ASSUME NEW s, NEW r, s.size \in Nat, r.size \in Nat, s.size <= r.size,
           NEW S \in SUBSET (0 .. s.size), NEW T \in SUBSET Nat,
           \A x \in S : s.node[x].bytes \in Nat,
           \A x \in T : r.node[x].bytes \in Nat,
           NEW o \in 1 .. r.size,
           S \ {o} = T \ {o}, \A x \in S \ {o} : r.node[x].bytes = s.node[x].bytes
    PROVE  TotalsDiffer(s, S, r, T, o)
<1> DEFINE w == Weight(s, S)
           v == Weight(r, T)
<1>1. w \in [Nat -> Nat] /\ v \in [Nat -> Nat]
  BY DEF Weight
<1>2. \A k \in Nat : k # o => v[k] = w[k]
  BY DEF Weight
<1>3. o \in Nat \ {0} /\ o <= r.size
  OBVIOUS
<1>4. \A k \in Nat : s.size < k => w[k] = 0
  BY DEF Weight
<1>5. /\ w[o] = IF o \in S THEN s.node[o].bytes ELSE 0
      /\ v[o] = IF o \in T THEN r.node[o].bytes ELSE 0
  BY <1>3 DEF Weight
<1>6. Total(s, S) = SumTo(w, s.size) /\ Total(r, T) = SumTo(v, r.size)
  BY DEF Total
<1> HIDE DEF w, v
<1>7. SumTo(w, r.size) = SumTo(w, s.size)
  BY <1>1, <1>4, SumLonger
<1>8. SumTo(v, r.size) = SumTo(w, r.size) + (v[o] - w[o])
  BY <1>1, <1>2, <1>3, SumDiffers
<1>9. SumTo(w, s.size) \in Nat /\ SumTo(v, r.size) \in Nat /\ w[o] \in Nat /\ v[o] \in Nat
  BY <1>1, <1>3, SumType
<1> QED BY <1>5, <1>6, <1>7, <1>8, <1>9 DEF TotalsDiffer

\* The blocks of a file are not larger than the file.
LEMMA TotalFits ==
    ASSUME NEW s, s.size \in Nat, NEW S \in SUBSET (0 .. s.size),
           \A x \in S : s.node[x].bytes \in Nat /\ x + NodeSize + s.node[x].bytes <= s.size,
           \A x, y \in S : x < y => x + NodeSize + s.node[x].bytes <= y
    PROVE  Total(s, S) \in 0 .. s.size
<1> DEFINE w == Weight(s, S)
<1>1. w \in [Nat -> Nat] /\ S \in SUBSET Nat /\ NodeSize \in Nat
  BY SizesAssumption DEF Weight
<1>2. \A k \in Nat : k \notin S => w[k] = 0
  BY DEF Weight
<1>3. \A x \in S : w[x] = s.node[x].bytes
  BY DEF Weight
<1> HIDE DEF w
<1>4. \A x, y \in S : x < y => x + NodeSize + w[x] <= y
  BY <1>3
<1>5. \A x \in S : x <= s.size => x + NodeSize + w[x] <= s.size
  BY <1>3
<1>6. SumTo(w, s.size) <= s.size
  <2>1. \A n \in Nat : \A e \in Nat :
            n <= e /\ (\A x \in S : x <= n => x + NodeSize + w[x] <= e) => SumTo(w, n) <= e
    BY <1>1, <1>2, <1>4, SumFits
  <2> QED BY <2>1, <1>5
<1>7. SumTo(w, s.size) \in Nat
  BY <1>1, SumType
<1> QED BY <1>6, <1>7 DEF Total, w

-----------------------------------------------------------------------------
(* The lists, as sets of offsets.                                          *)
NodeType == [bytes : Nat, prev : Nat, next : Nat]
Heads == {HeadAt[l] : l \in Lists}

\* x is the neighbour of o in S: the next one, the previous one; the last of
\* all.  0 says that there is none.
IsNext(x, o, S) ==
    IF x = 0 THEN \A y \in S : y <= o
    ELSE x \in S /\ o < x /\ \A y \in S : y <= o \/ x <= y
IsPrev(x, o, S) ==
    IF x = 0 THEN \A y \in S : o <= y
    ELSE x \in S /\ x < o /\ \A y \in S : o <= y \/ y <= x
IsLast(x, S) ==
    IF x = 0 THEN S = {} ELSE x \in S /\ \A y \in S : y <= x

\* A store with nodes at D, beside the heads; pointers lead to nodes behind.
StoreOK(s, D) ==
    /\ s \in [node : [Heads \cup D -> NodeType], head : [Lists -> NodeType], size : Nat]
    /\ HeapStart <= s.size /\ D \subseteq HeapStart .. s.size - 1
    /\ \A l \in Lists : s.node[HeadAt[l]] = s.head[l]
    /\ \A o \in Heads \cup D :
          s.node[o].next # 0 => s.node[o].next \in D /\ o < s.node[o].next

\* The nodes at S are linked to a list in the order of their offsets.
Linking(s, h, S) ==
    /\ IsNext(h.next, 0, S)
    /\ IsLast(h.prev, S)
    /\ \A o \in S : /\ IsNext(s.node[o].next, o, S)
                    /\ IsPrev(s.node[o].prev, o, S)
\* The sum in the head is that of the blocks.
ListOK(s, l, S) ==
    /\ Linking(s, s.head[l], S)
    /\ s.head[l].bytes = Total(s, S)

\* The two heads are in front of the heap.
LEMMA Places ==
    /\ Lists = {"allocated", "free"}
    /\ HeadAt["allocated"] = Reserved /\ HeadAt["free"] = Reserved + NodeSize
    /\ Heads = {Reserved, Reserved + NodeSize}
    /\ HeapStart = Reserved + 2 * NodeSize
    /\ NodeSize \in Nat \ {0} /\ Reserved \in Nat \ {0}
<1>1. Lists = {"allocated", "free"}
  BY DEF Lists, HeadAt
<1>2. HeadAt["allocated"] = Reserved /\ HeadAt["free"] = Reserved + NodeSize
  BY DEF HeadAt
<1>3. NodeSize \in Nat \ {0} /\ Reserved \in Nat \ {0}
  BY SizesAssumption
<1> QED BY <1>1, <1>2, <1>3 DEF Heads, HeapStart

\* No block is where a head is.
LEMMA HeadsInFront ==
    /\ \A l \in Lists : HeadAt[l] \in Nat \ {0} /\ HeadAt[l] < HeapStart
    /\ \A l, m \in Lists : l # m => HeadAt[l] # HeadAt[m]
    /\ \A o \in Heads : o \in Nat \ {0} /\ o < HeapStart
    /\ HeapStart \in Nat \ {0}
  BY Places

\* What follows from StoreOK for each field.
LEMMA StoreFields ==
    ASSUME NEW s, NEW D, StoreOK(s, D)
    PROVE  /\ s.size \in Nat /\ HeapStart <= s.size
           /\ D \subseteq Nat \ {0} /\ D \cap Heads = {}
           /\ \A o \in D : HeapStart <= o /\ o < s.size
           /\ DOMAIN s.node = Heads \cup D
           /\ \A o \in Heads \cup D :
                 /\ s.node[o] \in NodeType
                 /\ s.node[o].bytes \in Nat /\ s.node[o].prev \in Nat /\ s.node[o].next \in Nat
           /\ \A l \in Lists :
                 /\ HeadAt[l] \in Heads
                 /\ s.head[l] \in NodeType
                 /\ s.head[l].bytes \in Nat /\ s.head[l].prev \in Nat /\ s.head[l].next \in Nat
<1>1. s.size \in Nat /\ HeapStart <= s.size /\ DOMAIN s.node = Heads \cup D
  BY DEF StoreOK
<1>2. \A o \in D : o \in Nat /\ HeapStart <= o /\ o < s.size
  BY HeadsInFront DEF StoreOK
<1>3. D \subseteq Nat \ {0} /\ D \cap Heads = {}
  BY <1>2, HeadsInFront
<1>4. \A o \in Heads \cup D : s.node[o] \in NodeType
  BY DEF StoreOK
<1>5. \A l \in Lists : s.head[l] \in NodeType /\ HeadAt[l] \in Heads
  BY DEF StoreOK, Heads
<1>6. \A n \in NodeType : n.bytes \in Nat /\ n.prev \in Nat /\ n.next \in Nat
  BY DEF NodeType
<1> QED BY <1>1, <1>2, <1>3, <1>4, <1>5, <1>6

\* Pointers to the next of a set lead through all of it in order.
Increasing(L) == \A i, j \in 1 .. Len(L) : i < j => L[i] < L[j]

\* Pointers to the next of a set lead through all of it.
LEMMA ListedInOrder ==
    ASSUME NEW next, NEW D \in SUBSET (Nat \ {0}), NEW rank, NEW first, NEW L,
           Leads(L, next, D, rank, first), NEW S \in SUBSET D, IsNext(first, 0, S), \A o \in S : IsNext(next[o], o, S)
    PROVE  L \in Seq(S) /\ ToSet(L) = S
<1>1. L \in Seq(D) /\ Len(L) \in Nat /\ \A i \in 1 .. Len(L) : L[i] \in D /\ L[i] \in Nat /\ L[i] # 0
  <2>1. L \in Seq(D)
    BY DEF Leads, IsPath
  <2>2. Len(L) \in Nat /\ \A i \in 1 .. Len(L) : L[i] \in D
    BY <2>1
  <2> QED BY <2>1, <2>2
<1>2. \A i \in 1 .. Len(L) : next[L[i]] = IF i = Len(L) THEN 0 ELSE L[i + 1]
  BY DEF Leads, IsPath
<1>3. L # << >> => 1 \in 1 .. Len(L) /\ L[1] = first /\ first # 0
  BY <1>1 DEF Leads
<1>4. ASSUME NEW k \in 1 .. Len(L) PROVE L[k] \in S
  <2> DEFINE Bad == {i \in 1 .. Len(L) : L[i] \notin S}
  <2>1. SUFFICES ASSUME Bad # {} PROVE FALSE
    OBVIOUS
  <2>2. PICK i \in Bad : \A j \in Bad : i <= j
    <3>1. Bad \in SUBSET Nat
      OBVIOUS
    <3> QED BY <2>1, <3>1, HasLeast
  <2>3. i \in 1 .. Len(L) /\ L[i] \notin S
    OBVIOUS
  <2>4. i # 1
    <3>1. L # << >>
      BY <2>3, <1>1
    <3> QED BY <3>1, <2>3, <1>3 DEF IsNext
  <2>5. i - 1 \in 1 .. Len(L) /\ i - 1 \notin Bad
    <3> HIDE DEF Bad
    <3> QED BY <2>2, <2>3, <2>4, <1>1
  <2>6. L[i - 1] \in S /\ next[L[i - 1]] = L[i] /\ L[i] # 0
    <3>1. L[i - 1] \in S
      BY <2>5
    <3>2. next[L[i - 1]] = L[i]
      BY <2>5, <2>3, <1>2
    <3>3. L[i] # 0
      BY <2>3, <1>1
    <3> QED BY <3>1, <3>2, <3>3
  <2> QED BY <2>6, <2>3 DEF IsNext
<1>5. L \in Seq(S)
  BY <1>1, <1>4
<1>6. ASSUME NEW x \in S PROVE x \in ToSet(L)
  <2> DEFINE Behind == {k \in 1 .. Len(L) + 1 : k = Len(L) + 1 \/ x <= L[k]}
  <2>1. PICK k \in Behind : \A j \in Behind : k <= j
    <3>1. Behind \in SUBSET Nat /\ Len(L) + 1 \in Behind
      BY <1>1
    <3> QED BY <3>1, HasLeast
  <2>2. k \in 1 .. Len(L) + 1 /\ (k = Len(L) + 1 \/ x <= L[k])
    OBVIOUS
  <2>3. x \in Nat \ {0}
    OBVIOUS
  <2>4. L # << >> /\ L[1] <= x
    <3>1. first # 0
      BY <2>3 DEF IsNext
    <3> QED BY <3>1, <2>3, <1>3 DEF Leads, IsNext
  <2>5. CASE k = 1
    <3>1. Len(L) # 0 /\ 1 \in 1 .. Len(L) /\ L[1] \in Nat
      <4>1. 1 \in 1 .. Len(L)
        BY <1>3, <2>4
      <4> QED BY <4>1, <1>1
    <3>2. L[1] = x
      BY <3>1, <2>2, <2>3, <2>4, <2>5, <1>1
    <3> QED BY <3>1, <3>2 DEF ToSet
  <2>6. CASE k # 1
    <3>1. k - 1 \in 1 .. Len(L) /\ k - 1 \notin Behind
      <4> HIDE DEF Behind
      <4> QED BY <2>1, <2>2, <2>6, <1>1
    <3>2. L[k - 1] \in S /\ L[k - 1] \in Nat /\ L[k - 1] < x
      <4>1. L[k - 1] \in S /\ L[k - 1] \in Nat
        BY <3>1, <1>4, <1>1
      <4>2. k - 1 \in 1 .. Len(L) + 1 /\ ~(x <= L[k - 1])
        BY <3>1, <1>1
      <4> QED BY <4>1, <4>2, <2>3
    <3>3. IsNext(next[L[k - 1]], L[k - 1], S)
      BY <3>2
    <3>4. next[L[k - 1]] # 0
      BY <3>2, <3>3, <2>3 DEF IsNext
    <3>5. k - 1 # Len(L) /\ next[L[k - 1]] = L[k]
      <4>1. next[L[k - 1]] = IF k - 1 = Len(L) THEN 0 ELSE L[(k - 1) + 1]
        BY <3>1, <1>2
      <4>2. k - 1 # Len(L)
        BY <4>1, <3>4
      <4>3. (k - 1) + 1 = k
        BY <2>2, <1>1
      <4> QED BY <4>1, <4>2, <4>3
    <3>6. k \in 1 .. Len(L) /\ L[k] \in Nat
      <4>1. k \in 1 .. Len(L)
        BY <3>1, <3>5, <2>2, <1>1
      <4> QED BY <4>1, <1>1
    <3>7. x <= L[k - 1] \/ L[k] <= x
      BY <3>3, <3>4, <3>5 DEF IsNext
    <3>8. L[k] = x
      BY <3>7, <3>6, <3>2, <2>2, <2>3
    <3> QED BY <3>6, <3>8 DEF ToSet
  <2> QED BY <2>5, <2>6
<1>7. ToSet(L) \subseteq S
  BY <1>4 DEF ToSet
<1> QED BY <1>5, <1>6, <1>7

\* What reading a list returns.
LEMMA BlocksOfList ==
    ASSUME NEW s, NEW D, StoreOK(s, D), NEW l \in Lists, NEW S \in SUBSET D,
           Linking(s, s.head[l], S)
    PROVE  LET L == Blocks(s, l)
           IN  /\ L \in Seq(S) /\ ToSet(L) = S /\ Increasing(L)
               /\ \A i \in 1 .. Len(L) : s.node[L[i]].next = IF i = Len(L) THEN 0 ELSE L[i + 1]
               /\ L = << >> <=> S = {}
               /\ L # << >> => L[1] = s.head[l].next
<1> DEFINE E == Heads \cup D
           next == [o \in DOMAIN s.node |-> s.node[o].next]
           rank == [o \in E |-> s.size - o]
           first == s.head[l].next
           L == Blocks(s, l)
<1>1. /\ DOMAIN s.node = E /\ DOMAIN next = E /\ s.size \in Nat /\ 0 \notin E /\ E \subseteq Nat
      /\ \A o \in E : o \in 1 .. s.size /\ next[o] = s.node[o].next /\ next[o] \in Nat
  <2>1. \A o \in D : HeapStart <= o /\ o < s.size /\ o \in Nat \ {0}
    BY StoreFields
  <2>2. \A o \in E : o \in Nat \ {0} /\ s.node[o].next \in Nat
    BY StoreFields, HeadsInFront
  <2>3. \A o \in E : o <= s.size
    BY <2>1, <2>2, StoreFields, HeadsInFront
  <2>4. DOMAIN s.node = E /\ s.size \in Nat
    BY StoreFields
  <2> QED BY <2>2, <2>3, <2>4
<1>2. Descends(next, E, rank, s.size + 1) /\ s.size + 1 \in Nat
  <2>1. \A o \in E : rank[o] = s.size - o
    OBVIOUS
  <2> HIDE DEF rank
  <2>0. \A o \in E : rank[o] \in 0 .. (s.size + 1) - 1
    <3>1. ASSUME NEW o \in E PROVE rank[o] \in 0 .. (s.size + 1) - 1
      <4>1. rank[o] = s.size - o /\ o \in 1 .. s.size /\ s.size \in Nat
        BY <1>1, <2>1
      <4> HIDE DEF E
      <4> QED BY <4>1
    <3> QED BY <3>1
  <2>2. ASSUME NEW o \in E PROVE next[o] # 0 => next[o] \in E /\ rank[next[o]] < rank[o]
    <3>1. next[o] # 0 => next[o] \in E /\ o < next[o]
      BY <1>1 DEF StoreOK
    <3> QED BY <3>1, <1>1, <2>1
  <2> HIDE DEF E, next
  <2> QED BY <2>0, <2>2, <1>1 DEF Descends
<1>3. first \in E \cup {0}
  BY DEF Linking, IsNext
<1>4. Leads(L, next, E, rank, first)
  <2>1. L = Followed(next, first)
    BY DEF Blocks
  <2> HIDE DEF E, next, rank, first, L
  <2> QED BY <2>1, <1>2, <1>3, FollowedLeads
<1>5. /\ S \in SUBSET E /\ IsNext(first, 0, S) /\ E \in SUBSET (Nat \ {0})
      /\ \A o \in S : IsNext(next[o], o, S)
  BY <1>1 DEF Linking
<1>6. L \in Seq(S) /\ ToSet(L) = S
  <2> HIDE DEF E, next, rank, first, L
  <2> QED BY <1>4, <1>5, ListedInOrder
<1>7. \A i \in 1 .. Len(L) : L[i] \in S /\ L[i] \in E
  BY <1>6
<1>8. Increasing(L)
  <2>1. ASSUME NEW i \in 1 .. Len(L), NEW j \in 1 .. Len(L), i < j PROVE L[i] < L[j]
    <3>1. rank[L[j]] < rank[L[i]]
      BY <1>4, <2>1 DEF Leads, Falls
    <3>2. L[i] \in E /\ L[j] \in E
      BY <1>7
    <3> HIDE DEF L
    <3> QED BY <3>1, <3>2, <1>1
  <2> HIDE DEF L
  <2> QED BY <2>1 DEF Increasing
<1>9. \A i \in 1 .. Len(L) : s.node[L[i]].next = IF i = Len(L) THEN 0 ELSE L[i + 1]
  <2>1. \A i \in 1 .. Len(L) : next[L[i]] = IF i = Len(L) THEN 0 ELSE L[i + 1]
    BY <1>4 DEF Leads, IsPath
  <2> HIDE DEF L
  <2> QED BY <2>1, <1>7, <1>1
<1>10. (L = << >> <=> S = {}) /\ (L # << >> => L[1] = first)
  <2>1. L = << >> <=> first = 0
    BY <1>4 DEF Leads
  <2>2. first = 0 <=> S = {}
    BY <1>5, <1>1 DEF IsNext
  <2>3. L # << >> => L[1] = first
    BY <1>4, <2>1 DEF Leads
  <2> QED BY <2>1, <2>2, <2>3
<1> QED BY <1>6, <1>8, <1>9, <1>10

-----------------------------------------------------------------------------
(* A list without one of its blocks, or with one more.                     *)
StoreType(D) == [node : [Heads \cup D -> NodeType], head : [Lists -> NodeType], size : Nat]

\* r is s with h in the head l and in its copy.
HeadWritten(r, s, D, l, h) ==
    /\ r \in StoreType(D) /\ r.size = s.size
    /\ r.head[l] = h /\ \A m \in Lists \ {l} : r.head[m] = s.head[m]
    /\ r.node[HeadAt[l]] = h
    /\ \A x \in (Heads \cup D) \ {HeadAt[l]} : r.node[x] = s.node[x]

\* What WriteHead does.
LEMMA WriteHeadFields ==
    ASSUME NEW D, NEW s \in StoreType(D), NEW l \in Lists, NEW h \in NodeType
    PROVE  HeadWritten(WriteHead(s, l, h), s, D, l, h)
  BY DEF HeadWritten, WriteHead, StoreType, Heads

\* The neighbours of those that stay.
LEMMA NeighboursLess ==
    ASSUME NEW S \in SUBSET (Nat \ {0}), NEW o \in S
    PROVE  /\ \A q \in Nat, x \in Nat : x # o /\ IsNext(x, q, S) => IsNext(x, q, S \ {o})
           /\ \A q \in Nat, x \in Nat : x # o /\ IsPrev(x, q, S) => IsPrev(x, q, S \ {o})
           /\ \A q \in Nat, x \in Nat : IsNext(o, q, S) /\ IsNext(x, o, S) => IsNext(x, q, S \ {o})
           /\ \A q \in Nat, x \in Nat : IsPrev(o, q, S) /\ IsPrev(x, o, S) => IsPrev(x, q, S \ {o})
           /\ \A x \in Nat : x # o /\ IsLast(x, S) => IsLast(x, S \ {o})
           /\ \A x \in Nat : IsLast(o, S) /\ IsPrev(x, o, S) => IsLast(x, S \ {o})
<1>1. \A y \in S : y \in Nat /\ y > 0
  OBVIOUS
<1>2. ASSUME NEW q \in Nat, NEW x \in Nat, x # o, IsNext(x, q, S) PROVE IsNext(x, q, S \ {o})
  BY <1>1, <1>2 DEF IsNext
<1>3. ASSUME NEW q \in Nat, NEW x \in Nat, x # o, IsPrev(x, q, S) PROVE IsPrev(x, q, S \ {o})
  BY <1>1, <1>3 DEF IsPrev
<1>4. ASSUME NEW q \in Nat, NEW x \in Nat, IsNext(o, q, S), IsNext(x, o, S) PROVE IsNext(x, q, S \ {o})
  <2>1. o \in Nat \ {0} /\ q < o /\ \A y \in S : y <= q \/ o <= y
    BY <1>4, <1>1 DEF IsNext
  <2>2. CASE x = 0
    BY <2>1, <2>2, <1>1, <1>4 DEF IsNext
  <2>3. CASE x # 0
    <3>1. x \in S /\ o < x /\ \A y \in S : y <= o \/ x <= y
      BY <2>3, <1>4 DEF IsNext
    <3>2. \A y \in S \ {o} : y <= q \/ x <= y
      BY <2>1, <3>1, <1>1
    <3> QED BY <2>1, <2>3, <3>1, <3>2, <1>1 DEF IsNext
  <2> QED BY <2>2, <2>3
<1>5. ASSUME NEW q \in Nat, NEW x \in Nat, IsPrev(o, q, S), IsPrev(x, o, S) PROVE IsPrev(x, q, S \ {o})
  <2>1. o \in Nat \ {0} /\ o < q /\ \A y \in S : q <= y \/ y <= o
    BY <1>5, <1>1 DEF IsPrev
  <2>2. CASE x = 0
    BY <2>1, <2>2, <1>1, <1>5 DEF IsPrev
  <2>3. CASE x # 0
    <3>1. x \in S /\ x < o /\ \A y \in S : o <= y \/ y <= x
      BY <2>3, <1>5 DEF IsPrev
    <3>2. \A y \in S \ {o} : q <= y \/ y <= x
      BY <2>1, <3>1, <1>1
    <3> QED BY <2>1, <2>3, <3>1, <3>2, <1>1 DEF IsPrev
  <2> QED BY <2>2, <2>3
<1>6. ASSUME NEW x \in Nat, x # o, IsLast(x, S) PROVE IsLast(x, S \ {o})
  BY <1>1, <1>6 DEF IsLast
<1>7. ASSUME NEW x \in Nat, IsLast(o, S), IsPrev(x, o, S) PROVE IsLast(x, S \ {o})
  BY <1>1, <1>7 DEF IsLast, IsPrev
<1> QED BY <1>2, <1>3, <1>4, <1>5, <1>6, <1>7

\* The neighbours once o is there too, between p and n.
Parted(S, o, p, n) ==
    LET U == S \cup {o}
    IN  /\ IsPrev(p, o, U) /\ IsNext(n, o, U)
        /\ p # 0 => IsNext(n, p, S) /\ IsNext(o, p, U)
        /\ p = 0 => IsNext(n, 0, S) /\ IsNext(o, 0, U)
        /\ n # 0 => IsPrev(p, n, S) /\ IsPrev(o, n, U)
        /\ n = 0 => IsLast(p, S) /\ IsLast(o, U)
        /\ \A q \in S, x \in Nat : q # p /\ IsNext(x, q, S) => IsNext(x, q, U)
        /\ p # 0 => \A x \in Nat : IsNext(x, 0, S) => IsNext(x, 0, U)
        /\ \A q \in S, x \in Nat : q # n /\ IsPrev(x, q, S) => IsPrev(x, q, U)
        /\ n # 0 => \A x \in Nat : IsLast(x, S) => IsLast(x, U)

\* The neighbours once o is there too.
LEMMA NeighboursMore ==
    ASSUME NEW S \in SUBSET (Nat \ {0}), NEW o \in Nat \ {0}, o \notin S,
           NEW p \in Nat, NEW n \in Nat, IsPrev(p, o, S), IsNext(n, o, S)
    PROVE  Parted(S, o, p, n)
<1> DEFINE U == S \cup {o}
<1>1. \A y \in S : y \in Nat /\ y > 0 /\ y # o
  OBVIOUS
<1>2. IsPrev(p, o, U) /\ IsNext(n, o, U)
  BY <1>1 DEF IsPrev, IsNext
<1>3. p # 0 => IsNext(n, p, S) /\ IsNext(o, p, U)
  BY <1>1 DEF IsPrev, IsNext
<1>4. p = 0 => IsNext(n, 0, S) /\ IsNext(o, 0, U)
  BY <1>1 DEF IsPrev, IsNext
<1>5. n # 0 => IsPrev(p, n, S) /\ IsPrev(o, n, U)
  BY <1>1 DEF IsPrev, IsNext
<1>6. n = 0 => IsLast(p, S) /\ IsLast(o, U)
  BY <1>1 DEF IsPrev, IsNext, IsLast
<1>7. ASSUME NEW q \in S, NEW x \in Nat, q # p, IsNext(x, q, S) PROVE IsNext(x, q, U)
  <2>1. p = 0 => o < q
    BY <1>1, <1>7 DEF IsPrev
  <2>2. p # 0 => o < q \/ q < p
    BY <1>1, <1>7 DEF IsPrev
  <2>3. p # 0 => p < o /\ p \in S
    BY <1>1 DEF IsPrev
  <2>4. CASE o < q
    BY <2>4, <1>1, <1>7 DEF IsNext
  <2>5. CASE p # 0 /\ q < p
    BY <2>5, <2>3, <1>1, <1>7 DEF IsNext
  <2> QED BY <2>1, <2>2, <2>4, <2>5
<1>8. ASSUME NEW x \in Nat, p # 0, IsNext(x, 0, S) PROVE IsNext(x, 0, U)
  BY <1>1, <1>8 DEF IsNext, IsPrev
<1>9. ASSUME NEW q \in S, NEW x \in Nat, q # n, IsPrev(x, q, S) PROVE IsPrev(x, q, U)
  <2>1. n = 0 => q < o
    BY <1>1, <1>9 DEF IsNext
  <2>2. n # 0 => q < o \/ n < q
    BY <1>1, <1>9 DEF IsNext
  <2>3. n # 0 => o < n /\ n \in S
    BY <1>1 DEF IsNext
  <2>4. CASE q < o
    BY <2>4, <1>1, <1>9 DEF IsPrev
  <2>5. CASE n # 0 /\ n < q
    BY <2>5, <2>3, <1>1, <1>9 DEF IsPrev
  <2> QED BY <2>1, <2>2, <2>4, <2>5
<1>10. ASSUME NEW x \in Nat, n # 0, IsLast(x, S) PROVE IsLast(x, U)
  BY <1>1, <1>10 DEF IsLast, IsNext
<1> HIDE DEF U
<1> QED BY <1>2, <1>3, <1>4, <1>5, <1>6, <1>7, <1>8, <1>9, <1>10 DEF U, Parted

\* What is in the nodes and the heads.
Neighbours(s, h, S) ==
    /\ h \in NodeType /\ h.bytes \in Nat /\ h.prev \in S \cup {0} /\ h.next \in S \cup {0}
    /\ h.prev \in Nat /\ h.next \in Nat
    /\ h.next = 0 <=> S = {}
    /\ h.prev = 0 <=> S = {}
    /\ \A o \in S : /\ s.node[o].prev \in S \cup {0} /\ s.node[o].next \in S \cup {0}
                    /\ s.node[o].prev \in Nat /\ s.node[o].next \in Nat
                    /\ s.node[o].prev = 0 <=> h.next = o
                    /\ s.node[o].next = 0 <=> h.prev = o
                    /\ s.node[o].prev # 0 => /\ s.node[s.node[o].prev].next = o
                                             /\ s.node[o].prev < o
                    /\ \A q \in S : s.node[q].next = o => q = s.node[o].prev
                    /\ s.node[o].next # 0 => s.node[s.node[o].next].prev = o
                    /\ \A q \in S : s.node[q].prev = o => q = s.node[o].next

\* They are neighbours in the list, and 0 at its ends.
LEMMA ListFields ==
    ASSUME NEW s, NEW D, StoreOK(s, D), NEW l \in Lists, NEW S \in SUBSET D, Linking(s, s.head[l], S)
    PROVE  Neighbours(s, s.head[l], S)
<1> DEFINE h == s.head[l]
<1>1. S \subseteq Nat \ {0} /\ 0 \notin S /\ \A y \in S : y \in Nat /\ y > 0
  BY StoreFields
<1>2. h \in NodeType /\ h.bytes \in Nat /\ h.prev \in Nat /\ h.next \in Nat
  BY StoreFields
<1>3. IsNext(h.next, 0, S) /\ IsLast(h.prev, S)
  BY DEF Linking
<1>4. h.next \in S \cup {0} /\ h.prev \in S \cup {0} /\ (h.next = 0 <=> S = {}) /\ (h.prev = 0 <=> S = {})
  <2>1. h.next \in S \cup {0} /\ h.prev \in S \cup {0}
    BY <1>3 DEF IsNext, IsLast
  <2>2. h.next = 0 <=> S = {}
    <3> HIDE DEF h
    <3>1. h.next = 0 => \A y \in S : y <= 0
      BY <1>3 DEF IsNext
    <3>2. h.next = 0 => S = {}
      BY <3>1, <1>1
    <3> QED BY <2>1, <3>2
  <2>3. h.prev = 0 <=> S = {}
    <3> HIDE DEF h
    <3> QED BY <2>1, <1>1, <1>3 DEF IsLast
  <2> QED BY <2>1, <2>2, <2>3
<1>5. ASSUME NEW o \in S
      PROVE  /\ s.node[o].prev \in S \cup {0} /\ s.node[o].next \in S \cup {0}
             /\ s.node[o].prev \in Nat /\ s.node[o].next \in Nat
             /\ IsNext(s.node[o].next, o, S) /\ IsPrev(s.node[o].prev, o, S)
  <2>1. IsNext(s.node[o].next, o, S) /\ IsPrev(s.node[o].prev, o, S)
    BY DEF Linking
  <2>2. s.node[o].prev \in Nat /\ s.node[o].next \in Nat
    BY StoreFields
  <2> QED BY <2>1, <2>2 DEF IsNext, IsPrev
<1>6. ASSUME NEW o \in S PROVE s.node[o].prev = 0 <=> h.next = o
  <2> DEFINE x == s.node[o].prev
             f == h.next
  <2>1. /\ x \in S \cup {0} /\ x \in Nat /\ IsPrev(x, o, S)
        /\ f \in S /\ f \in Nat /\ f # 0 /\ IsNext(f, 0, S)
    BY <1>1, <1>2, <1>3, <1>4, <1>5
  <2> HIDE DEF x, f
  <2>2. \A y \in S : f <= y
    BY <2>1, <1>1 DEF IsNext
  <2>3. ASSUME x = 0 PROVE f = o
    BY <2>1, <2>2, <2>3, <1>1 DEF IsPrev
  <2>4. ASSUME x # 0 PROVE f # o
    BY <2>1, <2>2, <2>4, <1>1 DEF IsPrev
  <2>5. x = 0 <=> f = o
    BY <2>3, <2>4
  <2> QED BY <2>5 DEF x, f
<1>7. ASSUME NEW o \in S PROVE s.node[o].next = 0 <=> h.prev = o
  <2> DEFINE x == s.node[o].next
             z == h.prev
  <2>1. /\ x \in S \cup {0} /\ x \in Nat /\ IsNext(x, o, S)
        /\ z \in S /\ z \in Nat /\ z # 0 /\ IsLast(z, S)
    BY <1>1, <1>2, <1>3, <1>4, <1>5
  <2> HIDE DEF x, z
  <2>2. \A y \in S : y <= z
    BY <2>1, <1>1 DEF IsLast
  <2>3. ASSUME x = 0 PROVE z = o
    BY <2>1, <2>2, <2>3, <1>1 DEF IsNext
  <2>4. ASSUME x # 0 PROVE z # o
    BY <2>1, <2>2, <2>4, <1>1 DEF IsNext
  <2>5. x = 0 <=> z = o
    BY <2>3, <2>4
  <2> QED BY <2>5 DEF x, z
<1>8. ASSUME NEW o \in S, NEW q \in S, s.node[q].next = o PROVE q = s.node[o].prev
  <2>1. IsNext(o, q, S) /\ IsPrev(s.node[o].prev, o, S)
    BY <1>5, <1>8
  <2> DEFINE x == s.node[o].prev
  <2>2. x \in S \cup {0} /\ x \in Nat /\ IsPrev(x, o, S)
    BY <1>5
  <2> HIDE DEF x
  <2>3. o # 0 /\ q < o /\ q \in Nat \ {0} /\ \A y \in S : y <= q \/ o <= y
    BY <2>1, <1>1 DEF IsNext
  <2>4. x # 0
    BY <2>2, <2>3, <1>1 DEF IsPrev
  <2>5. q = x
    BY <2>2, <2>3, <2>4, <1>1 DEF IsPrev
  <2> QED BY <2>5 DEF x
<1>9. ASSUME NEW o \in S, NEW q \in S, s.node[q].prev = o PROVE q = s.node[o].next
  <2>1. IsPrev(o, q, S) /\ IsNext(s.node[o].next, o, S)
    BY <1>5, <1>9
  <2> DEFINE x == s.node[o].next
  <2>2. x \in S \cup {0} /\ x \in Nat /\ IsNext(x, o, S)
    BY <1>5
  <2> HIDE DEF x
  <2>3. o # 0 /\ o < q /\ q \in Nat \ {0} /\ \A y \in S : q <= y \/ y <= o
    BY <2>1, <1>1 DEF IsPrev
  <2>4. x # 0
    BY <2>2, <2>3, <1>1 DEF IsNext
  <2>5. q = x
    BY <2>2, <2>3, <2>4, <1>1 DEF IsNext
  <2> QED BY <2>5 DEF x
<1>10. ASSUME NEW o \in S, s.node[o].prev # 0
       PROVE  s.node[s.node[o].prev].next = o /\ s.node[o].prev < o
  <2> DEFINE q == s.node[o].prev
             x == s.node[q].next
  <2>1. q \in S /\ q \in Nat /\ IsPrev(q, o, S)
    BY <1>10, <1>5
  <2>2. x \in Nat /\ IsNext(x, q, S) /\ x \in S \cup {0}
    BY <2>1, <1>5
  <2> HIDE DEF q, x
  <2>3. q < o /\ \A y \in S : o <= y \/ y <= q
    BY <2>1, <1>1 DEF IsPrev
  <2>4. x # 0
    BY <2>2, <2>3, <2>1, <1>1 DEF IsNext
  <2>5. x = o
    BY <2>2, <2>3, <2>4, <2>1, <1>1 DEF IsNext
  <2> QED BY <2>3, <2>5 DEF x, q
<1>11. ASSUME NEW o \in S, s.node[o].next # 0 PROVE s.node[s.node[o].next].prev = o
  <2> DEFINE q == s.node[o].next
             x == s.node[q].prev
  <2>1. q \in S /\ q \in Nat /\ IsNext(q, o, S)
    BY <1>11, <1>5
  <2>2. x \in Nat /\ IsPrev(x, q, S) /\ x \in S \cup {0}
    BY <2>1, <1>5
  <2> HIDE DEF q, x
  <2>3. o < q /\ \A y \in S : y <= o \/ q <= y
    BY <2>1, <1>1 DEF IsNext
  <2>4. x # 0
    BY <2>2, <2>3, <2>1, <1>1 DEF IsPrev
  <2>5. x = o
    BY <2>2, <2>3, <2>4, <2>1, <1>1 DEF IsPrev
  <2> QED BY <2>3, <2>5 DEF x, q
<1> HIDE DEF h
<1> QED BY <1>2, <1>4, <1>5, <1>6, <1>7, <1>8, <1>9, <1>10, <1>11 DEF h, Neighbours

\* What RemoveNode does to each node and to the head.
LEMMA RemoveFields ==
    ASSUME NEW s, NEW D, StoreOK(s, D), NEW l \in Lists, NEW S \in SUBSET D, ListOK(s, l, S),
           NEW o \in S
    PROVE  LET r == RemoveNode(s, l, o)
               n == s.node[o]
               h == s.head[l]
           IN  /\ r \in StoreType(D) /\ r.size = s.size
               /\ h.bytes - n.bytes \in Nat
               /\ \A m \in Lists \ {l} : r.head[m] = s.head[m] /\ r.node[HeadAt[m]] = s.node[HeadAt[m]]
               /\ r.node[HeadAt[l]] = r.head[l]
               /\ r.head[l] = [bytes |-> h.bytes - n.bytes,
                               next  |-> IF n.prev = 0 THEN n.next ELSE h.next,
                               prev  |-> IF n.next = 0 THEN n.prev ELSE h.prev]
               /\ \A x \in D : r.node[x] =
                     [bytes |-> s.node[x].bytes,
                      prev  |-> IF x = n.next THEN n.prev ELSE s.node[x].prev,
                      next  |-> IF x = n.prev THEN n.next ELSE s.node[x].next]
<1> DEFINE n == s.node[o]
           h == s.head[l]
           first == h.next = o
           c == CHOOSE q \in ToSet(Blocks(s, l)) : s.node[q].next = o
           p == IF first THEN 0 ELSE c
           skipped == [x \in DOMAIN s.node |->
                          CASE x = p -> [s.node[x] EXCEPT !.next = n.next]
                            [] x = n.next -> [s.node[x] EXCEPT !.prev = p]
                            [] OTHER -> s.node[x]]
           t == [s EXCEPT !.node = skipped]
           g == [bytes |-> h.bytes - n.bytes,
                 next  |-> IF first THEN n.next ELSE h.next,
                 prev  |-> IF h.next = o /\ n.next = 0 THEN 0
                           ELSE IF ~first /\ h.prev = o THEN n.prev
                           ELSE h.prev]
<1>1. RemoveNode(s, l, o) = WriteHead(t, l, g)
  BY DEF RemoveNode
<1>2. Linking(s, h, S) /\ h.bytes = Total(s, S) /\ o \in D
  BY DEF ListOK
<1>3. /\ h \in NodeType /\ h.bytes \in Nat /\ h.prev \in Nat /\ h.next \in Nat
      /\ n.prev \in S \cup {0} /\ n.next \in S \cup {0} /\ n.prev \in Nat /\ n.next \in Nat
      /\ n.prev = 0 <=> first
      /\ n.next = 0 <=> h.prev = o
      /\ n.prev # 0 => s.node[n.prev].next = o /\ n.prev < o
      /\ \A q \in S : s.node[q].next = o => q = n.prev
  <2> HIDE DEF n, h
  <2> QED BY <1>2, ListFields DEF Neighbours, n, h
<1>4. p = n.prev
  <2>1. ToSet(Blocks(s, l)) = S
    BY <1>2, BlocksOfList
  <2>2. ~first => c \in S /\ s.node[c].next = o
    <3>1. ~first => \E q \in ToSet(Blocks(s, l)) : s.node[q].next = o
      BY <2>1, <1>3
    <3> QED BY <2>1, <3>1
  <2>3. ~first => c = n.prev
    BY <2>2, <1>3
  <2> QED BY <2>3, <1>3
<1>5. /\ s.size \in Nat /\ D \subseteq Nat \ {0} /\ D \cap Heads = {} /\ DOMAIN s.node = Heads \cup D
      /\ \A x \in Heads \cup D : s.node[x] \in NodeType
      /\ \A x \in D : x < s.size /\ s.node[x].bytes \in Nat
  BY StoreFields
<1>6. h.bytes - n.bytes \in Nat
  <2>1. Total(s, S \ {o}) \in Nat /\ Total(s, S \ {o}) = Total(s, S) - n.bytes + 0
    <3>1. S \in SUBSET (0 .. s.size) /\ S \ {o} \in SUBSET Nat /\ o \in 1 .. s.size
      BY <1>5
    <3>2. /\ S \ {o} = (S \ {o}) \ {o}
          /\ \A x \in S : s.node[x].bytes \in Nat
      BY <1>5
    <3> HIDE DEF n
    <3> QED BY <3>1, <3>2, <1>5, TotalDiffers DEF n, TotalsDiffer
  <2>2. n.bytes \in Nat
    BY <1>5
  <2> QED BY <2>1, <2>2, <1>2, <1>3
<1>7. g = [bytes |-> h.bytes - n.bytes,
           next  |-> IF n.prev = 0 THEN n.next ELSE h.next,
           prev  |-> IF n.next = 0 THEN n.prev ELSE h.prev]
  <2>1. (IF first THEN n.next ELSE h.next) = (IF n.prev = 0 THEN n.next ELSE h.next)
    BY <1>3
  <2>2. (IF h.next = o /\ n.next = 0 THEN 0 ELSE IF ~first /\ h.prev = o THEN n.prev ELSE h.prev)
        = (IF n.next = 0 THEN n.prev ELSE h.prev)
    BY <1>3
  <2> HIDE DEF n, h
  <2> QED BY <2>1, <2>2
<1>8. g \in NodeType
  <2> HIDE DEF n, h, g
  <2> QED BY <1>3, <1>6, <1>7 DEF NodeType
<1>9. \A x \in Heads : x # p /\ x # n.next
  BY <1>3, <1>4, <1>5, HeadsInFront
<1>10. /\ \A x \in Heads : skipped[x] = s.node[x]
       /\ \A x \in D : skipped[x] = [bytes |-> s.node[x].bytes,
                          prev  |-> IF x = n.next THEN n.prev ELSE s.node[x].prev,
                          next  |-> IF x = n.prev THEN n.next ELSE s.node[x].next]
  <2>1. \A x \in Heads : skipped[x] = s.node[x]
    BY <1>5, <1>9
  <2>2. ASSUME NEW x \in D
        PROVE  skipped[x] = [bytes |-> s.node[x].bytes,
                          prev  |-> IF x = n.next THEN n.prev ELSE s.node[x].prev,
                          next  |-> IF x = n.prev THEN n.next ELSE s.node[x].next]
    <3>1. skipped[x] = CASE x = p -> [s.node[x] EXCEPT !.next = n.next]
                            [] x = n.next -> [s.node[x] EXCEPT !.prev = p]
                            [] OTHER -> s.node[x]
      BY <1>5
    <3>2. s.node[x] \in NodeType
      BY <1>5
    <3>3. x = p => x # n.next
      <4>1. n.prev # 0 => n.prev < o
        BY <1>3
      <4>2. n.next # 0 => o < n.next
        BY <1>2 DEF Linking, IsNext
      <4>3. x # 0 /\ o \in Nat
        BY <1>5
      <4> QED BY <1>3, <1>4, <4>1, <4>2, <4>3
    <3> DEFINE m == s.node[x]
    <3>4. m \in NodeType /\ skipped[x] = CASE x = p -> [m EXCEPT !.next = n.next]
                            [] x = n.next -> [m EXCEPT !.prev = p]
                            [] OTHER -> m
      BY <3>1, <3>2
    <3> HIDE DEF skipped, n, h, p, m
    <3> SUFFICES skipped[x] = [bytes |-> m.bytes,
                               prev  |-> IF x = n.next THEN n.prev ELSE m.prev,
                               next  |-> IF x = n.prev THEN n.next ELSE m.next]
      BY DEF m
    <3> QED BY <3>3, <3>4, <1>4 DEF NodeType
  <2> QED BY <2>1, <2>2
<1>11. t \in StoreType(D) /\ t.size = s.size /\ t.node = skipped /\ t.head = s.head
  <2>1. s \in StoreType(D)
    BY DEF StoreOK, StoreType
  <2>2. \A x \in D : skipped[x] \in NodeType
    <3>1. TAKE x \in D
    <3>2. s.node[x].bytes \in Nat /\ s.node[x].prev \in Nat /\ s.node[x].next \in Nat
      BY StoreFields
    <3>3. skipped[x] = [bytes |-> s.node[x].bytes,
                        prev  |-> IF x = n.next THEN n.prev ELSE s.node[x].prev,
                        next  |-> IF x = n.prev THEN n.next ELSE s.node[x].next]
      BY <1>10
    <3> HIDE DEF skipped, n
    <3> QED BY <3>2, <3>3, <1>3 DEF NodeType
  <2>3. skipped \in [Heads \cup D -> NodeType]
    <3>1. \A x \in Heads : skipped[x] \in NodeType
      BY <1>5, <1>10
    <3>2. skipped = [x \in Heads \cup D |-> skipped[x]]
      BY <1>5
    <3> HIDE DEF skipped
    <3> QED BY <2>2, <3>1, <3>2
  <2> HIDE DEF skipped
  <2> QED BY <2>1, <2>3 DEF StoreType
<1> HIDE DEF t, g, skipped, n, h, p, c
<1> DEFINE r == RemoveNode(s, l, o)
<1> HIDE DEF r
<1>12. /\ r \in StoreType(D) /\ r.size = t.size
       /\ r.head[l] = g /\ \A m \in Lists \ {l} : r.head[m] = t.head[m]
       /\ r.node[HeadAt[l]] = g
       /\ \A x \in (Heads \cup D) \ {HeadAt[l]} : r.node[x] = t.node[x]
  <2>1. r = WriteHead(t, l, g)
    BY <1>1 DEF r
  <2>2. HeadWritten(r, t, D, l, g)
    BY <2>1, <1>1, <1>8, <1>11, WriteHeadFields
  <2> QED BY <2>2 DEF HeadWritten
<1>13. \A m \in Lists \ {l} : HeadAt[m] \in Heads /\ HeadAt[m] # HeadAt[l]
  BY HeadsInFront DEF Heads
<1>14. HeadAt[l] \in Heads /\ HeadAt[l] \notin D
  BY <1>5 DEF Heads
<1>15. \A m \in Lists \ {l} : r.head[m] = s.head[m] /\ r.node[HeadAt[m]] = s.node[HeadAt[m]]
  BY <1>10, <1>11, <1>12, <1>13
<1>16. \A x \in D : r.node[x] = skipped[x]
  BY <1>11, <1>12, <1>14
<1> QED BY <1>6, <1>7, <1>10, <1>11, <1>12, <1>15, <1>16 DEF r, n, h

\* A list whose nodes stay as they are stays a list.
LEMMA UnchangedList ==
    ASSUME NEW s, NEW r, NEW l \in Lists, NEW S, ListOK(s, l, S),
           r.head[l] = s.head[l], r.size = s.size,
           \A x \in S : /\ r.node[x].bytes = s.node[x].bytes
                        /\ r.node[x].prev = s.node[x].prev
                        /\ r.node[x].next = s.node[x].next
    PROVE  ListOK(r, l, S)
<1>1. Weight(r, S) = Weight(s, S)
  BY DEF Weight
<1>2. Total(r, S) = Total(s, S)
  BY <1>1 DEF Total
<1>3. Linking(r, r.head[l], S)
  BY DEF ListOK, Linking
<1> QED BY <1>2, <1>3 DEF ListOK

\* r is s without the node o in its list.
HasShrunk(s, r, D, l, S, m, T, o) ==
    /\ StoreOK(r, D) /\ r.size = s.size
    /\ ListOK(r, l, S \ {o}) /\ ListOK(r, m, T)
    /\ \A x \in D : r.node[x].bytes = s.node[x].bytes

\* A list from which a node has been removed.
LEMMA RemoveKeeps ==
    ASSUME NEW s, NEW D, StoreOK(s, D), NEW l \in Lists, NEW S \in SUBSET D, ListOK(s, l, S),
           NEW m \in Lists \ {l}, NEW T \in SUBSET D, ListOK(s, m, T), S \cap T = {},
           NEW o \in S
    PROVE  HasShrunk(s, RemoveNode(s, l, o), D, l, S, m, T, o)
<1> DEFINE r == RemoveNode(s, l, o)
           n == s.node[o]
           h == s.head[l]
<1>1. /\ r \in StoreType(D) /\ r.size = s.size
      /\ h.bytes - n.bytes \in Nat
      /\ \A k \in Lists \ {l} : r.head[k] = s.head[k] /\ r.node[HeadAt[k]] = s.node[HeadAt[k]]
      /\ r.node[HeadAt[l]] = r.head[l]
      /\ r.head[l] = [bytes |-> h.bytes - n.bytes,
                      next  |-> IF n.prev = 0 THEN n.next ELSE h.next,
                      prev  |-> IF n.next = 0 THEN n.prev ELSE h.prev]
      /\ \A x \in D : r.node[x] =
            [bytes |-> s.node[x].bytes,
             prev  |-> IF x = n.next THEN n.prev ELSE s.node[x].prev,
             next  |-> IF x = n.prev THEN n.next ELSE s.node[x].next]
  <2> HIDE DEF r, n, h
  <2> QED BY RemoveFields DEF r, n, h
<1>2. /\ s.size \in Nat /\ HeapStart <= s.size /\ D \subseteq Nat \ {0} /\ D \cap Heads = {}
      /\ \A x \in D : /\ x \in Nat /\ HeapStart <= x /\ x < s.size /\ s.node[x].bytes \in Nat
                      /\ s.node[x].prev \in Nat /\ s.node[x].next \in Nat
  BY StoreFields
<1>3. Linking(s, h, S) /\ h.bytes = Total(s, S) /\ o \in D
  BY DEF ListOK
<1>4. /\ h.prev \in S \cup {0} /\ h.next \in S \cup {0} /\ h.prev \in Nat /\ h.next \in Nat
      /\ n.prev \in S \cup {0} /\ n.next \in S \cup {0} /\ n.prev \in Nat /\ n.next \in Nat
      /\ n.prev = 0 <=> h.next = o
      /\ n.next = 0 <=> h.prev = o
      /\ n.prev # 0 => n.prev < o /\ s.node[n.prev].next = o
      /\ n.next # 0 => s.node[n.next].prev = o
      /\ \A q \in S : s.node[q].next = o => q = n.prev
      /\ \A q \in S : s.node[q].prev = o => q = n.next
      /\ \A q \in S : s.node[q].next \in S \cup {0} /\ s.node[q].prev \in S \cup {0}
  <2> HIDE DEF n, h
  <2> QED BY <1>3, ListFields DEF Neighbours, n, h
<1>5. n.next # 0 => o < n.next
  BY <1>3 DEF Linking, IsNext
<1>6. /\ \A x \in D : /\ r.node[x].bytes = s.node[x].bytes
                      /\ r.node[x].prev = IF x = n.next THEN n.prev ELSE s.node[x].prev
                      /\ r.node[x].next = IF x = n.prev THEN n.next ELSE s.node[x].next
      /\ r.head[l].bytes = h.bytes - n.bytes
      /\ r.head[l].next = IF n.prev = 0 THEN n.next ELSE h.next
      /\ r.head[l].prev = IF n.next = 0 THEN n.prev ELSE h.prev
  <2> HIDE DEF r, n, h
  <2>1. ASSUME NEW x \in D
        PROVE  /\ r.node[x].bytes = s.node[x].bytes
               /\ r.node[x].prev = IF x = n.next THEN n.prev ELSE s.node[x].prev
               /\ r.node[x].next = IF x = n.prev THEN n.next ELSE s.node[x].next
    <3>1. r.node[x] =
            [bytes |-> s.node[x].bytes,
             prev  |-> IF x = n.next THEN n.prev ELSE s.node[x].prev,
             next  |-> IF x = n.prev THEN n.next ELSE s.node[x].next]
      BY <1>1
    <3> QED BY <3>1
  <2>2. /\ r.head[l].bytes = h.bytes - n.bytes
        /\ r.head[l].next = IF n.prev = 0 THEN n.next ELSE h.next
        /\ r.head[l].prev = IF n.next = 0 THEN n.prev ELSE h.prev
    <3>1. r.head[l] = [bytes |-> h.bytes - n.bytes,
                      next  |-> IF n.prev = 0 THEN n.next ELSE h.next,
                      prev  |-> IF n.next = 0 THEN n.prev ELSE h.prev]
      BY <1>1
    <3> QED BY <3>1
  <2> QED BY <2>1, <2>2
<1> HIDE DEF r, n, h
<1>7. S \in SUBSET (Nat \ {0})
  BY <1>2
<1>8. IsNext(n.next, o, S) /\ IsPrev(n.prev, o, S) /\ IsNext(h.next, 0, S) /\ IsLast(h.prev, S)
  BY <1>3 DEF Linking, n
<1>9. IsNext(r.head[l].next, 0, S \ {o})
  <2>1. CASE n.prev = 0
    <3>1. IsNext(o, 0, S) /\ r.head[l].next = n.next /\ 0 \in Nat
      BY <2>1, <1>4, <1>6, <1>8
    <3> QED BY <3>1, <1>4, <1>7, <1>8, NeighboursLess
  <2>2. CASE n.prev # 0
    BY <2>2, <1>4, <1>6, <1>7, <1>8, NeighboursLess
  <2> QED BY <2>1, <2>2
<1>10. IsLast(r.head[l].prev, S \ {o})
  <2>1. CASE n.next = 0
    <3>1. IsLast(o, S) /\ r.head[l].prev = n.prev
      BY <2>1, <1>4, <1>6, <1>8
    <3> QED BY <3>1, <1>4, <1>7, <1>8, NeighboursLess
  <2>2. CASE n.next # 0
    BY <2>2, <1>4, <1>6, <1>7, <1>8, NeighboursLess
  <2> QED BY <2>1, <2>2
<1>11. ASSUME NEW q \in S \ {o}
       PROVE  IsNext(r.node[q].next, q, S \ {o}) /\ IsPrev(r.node[q].prev, q, S \ {o})
  <2>1. /\ q \in D /\ q \in Nat /\ s.node[q].next \in Nat /\ s.node[q].prev \in Nat
        /\ IsNext(s.node[q].next, q, S) /\ IsPrev(s.node[q].prev, q, S)
    BY <1>2, <1>3 DEF Linking
  <2>2. IsNext(r.node[q].next, q, S \ {o})
    <3>1. CASE q = n.prev
      <4>1. IsNext(o, q, S) /\ r.node[q].next = n.next
        BY <3>1, <2>1, <1>2, <1>4, <1>6
      <4> QED BY <4>1, <2>1, <1>4, <1>7, <1>8, NeighboursLess
    <3>2. CASE q # n.prev
      <4>1. r.node[q].next = s.node[q].next /\ s.node[q].next # o
        BY <3>2, <2>1, <1>4, <1>6
      <4> QED BY <4>1, <2>1, <1>7, NeighboursLess
    <3> QED BY <3>1, <3>2
  <2>3. IsPrev(r.node[q].prev, q, S \ {o})
    <3>1. CASE q = n.next
      <4>1. IsPrev(o, q, S) /\ r.node[q].prev = n.prev
        BY <3>1, <2>1, <1>2, <1>4, <1>6
      <4> QED BY <4>1, <2>1, <1>4, <1>7, <1>8, NeighboursLess
    <3>2. CASE q # n.next
      <4>1. r.node[q].prev = s.node[q].prev /\ s.node[q].prev # o
        BY <3>2, <2>1, <1>4, <1>6
      <4> QED BY <4>1, <2>1, <1>7, NeighboursLess
    <3> QED BY <3>1, <3>2
  <2> QED BY <2>2, <2>3
<1>12. r.head[l].bytes = Total(r, S \ {o})
  <2>1. S \in SUBSET (0 .. s.size) /\ S \ {o} \in SUBSET Nat /\ o \in 1 .. r.size /\ r.size \in Nat
    BY <1>1, <1>2
  <2>2. S \ {o} = (S \ {o}) \ {o} /\ o \notin S \ {o} /\ s.size <= r.size
    BY <1>1, <1>2
  <2>3. /\ \A x \in S : s.node[x].bytes \in Nat
        /\ \A x \in S \ {o} : r.node[x].bytes \in Nat /\ r.node[x].bytes = s.node[x].bytes
    BY <1>2, <1>6
  <2>4. /\ Total(s, S) \in Nat /\ Total(r, S \ {o}) \in Nat
        /\ Total(r, S \ {o}) = Total(s, S) - (IF o \in S THEN s.node[o].bytes ELSE 0)
                                          + (IF o \in S \ {o} THEN r.node[o].bytes ELSE 0)
    <3> DEFINE U == S \ {o}
    <3>1. U \in SUBSET Nat /\ S \ {o} = U \ {o} /\ s.size <= r.size
      BY <2>1, <2>2
    <3>2. \A x \in U : r.node[x].bytes \in Nat
      BY <2>3
    <3>3. s.size \in Nat
      BY <1>2
    <3> HIDE DEF U
    <3>4. TotalsDiffer(s, S, r, U, o)
      BY <2>1, <2>3, <3>1, <3>2, <3>3, TotalDiffers
    <3> QED BY <3>4 DEF U, TotalsDiffer
  <2>5. s.node[o].bytes \in Nat
    BY <2>3
  <2> QED BY <2>4, <2>5, <1>3, <1>6 DEF n
<1>13. ListOK(r, l, S \ {o})
  BY <1>9, <1>10, <1>11, <1>12 DEF ListOK, Linking
<1>14. ListOK(r, m, T)
  <2>1. \A x \in T : x \in D /\ x # n.prev /\ x # n.next
    BY <1>2, <1>4
  <2>2. \A x \in T : /\ r.node[x].bytes = s.node[x].bytes
                     /\ r.node[x].prev = s.node[x].prev
                     /\ r.node[x].next = s.node[x].next
    BY <2>1, <1>6
  <2>3. m \in Lists /\ r.head[m] = s.head[m] /\ r.size = s.size
    BY <1>1
  <2> HIDE DEF r
  <2> QED BY <2>2, <2>3, UnchangedList
<1>15. \A k \in Lists : r.node[HeadAt[k]] = r.head[k]
  BY <1>1 DEF StoreOK
<1>16. ASSUME NEW x \in D PROVE r.node[x].next # 0 => r.node[x].next \in D /\ x < r.node[x].next
  <2>1. s.node[x].next # 0 => s.node[x].next \in D /\ x < s.node[x].next
    BY DEF StoreOK
  <2>2. CASE x = n.prev
    <3>1. x < o /\ o \in Nat /\ x \in Nat
      BY <2>2, <1>2, <1>3, <1>4
    <3>2. r.node[x].next = n.next /\ n.next \in D \cup {0}
      BY <2>2, <1>4, <1>6
    <3>3. n.next # 0 => x < n.next
      BY <3>1, <1>4, <1>5
    <3> QED BY <3>2, <3>3
  <2>3. CASE x # n.prev
    BY <2>1, <2>3, <1>6
  <2> QED BY <2>2, <2>3
<1>17. ASSUME NEW k \in Lists
       PROVE  LET x == HeadAt[k] IN r.node[x].next # 0 => r.node[x].next \in D /\ x < r.node[x].next
  <2>1. CASE k = l
    <3>1. r.node[HeadAt[k]].next \in S \cup {0} /\ S \subseteq D
      BY <2>1, <1>1, <1>4, <1>6
    <3>2. \A y \in D : HeadAt[k] < y
      BY <1>2, HeadsInFront
    <3> DEFINE y == r.node[HeadAt[k]].next
    <3>3. y \in D \cup {0}
      BY <3>1
    <3> HIDE DEF y
    <3>4. y # 0 => y \in D /\ HeadAt[k] < y
      BY <3>2, <3>3
    <3> QED BY <3>4 DEF y
  <2>2. CASE k # l
    BY <2>2, <1>1 DEF StoreOK, Heads
  <2> QED BY <2>1, <2>2
<1>18. StoreOK(r, D)
  <2>1. D \subseteq HeapStart .. r.size - 1 /\ HeapStart <= r.size
    BY <1>1 DEF StoreOK
  <2>2. r \in [node : [Heads \cup D -> NodeType], head : [Lists -> NodeType], size : Nat]
    BY <1>1 DEF StoreType
  <2>3. \A x \in Heads \cup D : r.node[x].next # 0 => r.node[x].next \in D /\ x < r.node[x].next
    BY <1>16, <1>17 DEF Heads
  <2> QED BY <2>1, <2>2, <2>3, <1>15 DEF StoreOK
<1>19. \A x \in D : r.node[x].bytes = s.node[x].bytes
  BY <1>6
<1>20. HasShrunk(s, r, D, l, S, m, T, o)
  BY <1>1, <1>13, <1>14, <1>18, <1>19 DEF HasShrunk
<1> QED BY <1>20 DEF r

\* Where InsertNode puts a node.
LEMMA Place ==
    ASSUME NEW s, NEW D, StoreOK(s, D), NEW l \in Lists, NEW S \in SUBSET D, Linking(s, s.head[l], S),
           NEW o \in Nat \ {0}, o \notin S
    PROVE  LET L == Blocks(s, l)
               h == s.head[l]
               first == L = << >> \/ o < h.next
               i == SelectInSeq(L, LAMBDA q : \/ s.node[q].next = 0
                                              \/ s.node[q].next >= o)
               p == IF first THEN 0 ELSE L[i]
               n == IF first THEN h.next ELSE s.node[p].next
           IN  /\ p \in S \cup {0} /\ n \in S \cup {0} /\ p \in Nat /\ n \in Nat
               /\ IsPrev(p, o, S) /\ IsNext(n, o, S)
               /\ first <=> p = 0
               /\ L = << >> \/ h.prev = p <=> n = 0
<1> DEFINE L == Blocks(s, l)
           h == s.head[l]
           first == L = << >> \/ o < h.next
           I == {j \in 1 .. Len(L) : s.node[L[j]].next = 0 \/ s.node[L[j]].next >= o}
           i == SelectInSeq(L, LAMBDA q : s.node[q].next = 0 \/ s.node[q].next >= o)
           p == IF first THEN 0 ELSE L[i]
           n == IF first THEN h.next ELSE s.node[p].next
<1>1. /\ L \in Seq(S) /\ ToSet(L) = S /\ Increasing(L) /\ Len(L) \in Nat
      /\ \A j \in 1 .. Len(L) : s.node[L[j]].next = IF j = Len(L) THEN 0 ELSE L[j + 1]
      /\ L = << >> <=> S = {}
      /\ L # << >> => L[1] = h.next
  <2>1. L \in Seq(S)
    BY BlocksOfList
  <2> QED BY <2>1, BlocksOfList
<1>2. /\ \A y \in S : y \in Nat /\ y > 0
      /\ \A y \in S : s.node[y].next \in Nat /\ IsNext(s.node[y].next, y, S)
      /\ \A j \in 1 .. Len(L) : L[j] \in S
  <2>1. \A y \in S : y \in Nat /\ y > 0 /\ s.node[y].next \in Nat
    BY StoreFields
  <2>2. \A y \in S : IsNext(s.node[y].next, y, S)
    BY DEF Linking
  <2>3. \A j \in 1 .. Len(L) : L[j] \in S
    <3> HIDE DEF L
    <3> QED BY <1>1
  <2> QED BY <2>1, <2>2, <2>3
<1>3. /\ h.next \in S \cup {0} /\ h.prev \in S \cup {0} /\ h.next \in Nat /\ h.prev \in Nat
      /\ h.next = 0 <=> S = {}
      /\ h.prev = 0 <=> S = {}
      /\ IsNext(h.next, 0, S) /\ IsLast(h.prev, S)
      /\ \A y \in S : s.node[y].next = 0 <=> h.prev = y
  <2>1. IsNext(h.next, 0, S) /\ IsLast(h.prev, S)
    BY DEF Linking
  <2> HIDE DEF h
  <2> QED BY <2>1, ListFields DEF Neighbours, h
<1>4. i = IF I # {} THEN Min(I) ELSE 0
  BY DEF SelectInSeq
<1> HIDE DEF L, h, i
<1>5. CASE first
  <2>1. p = 0 /\ n = h.next
    BY <1>5
  <2>2. \A y \in S : h.next # 0 /\ h.next <= y /\ o < h.next
    <3>1. S # {} => h.next # 0 /\ o < h.next
      BY <1>1, <1>3, <1>5
    <3>2. h.next # 0 => \A y \in S : y <= 0 \/ h.next <= y
      BY <1>3 DEF IsNext
    <3> QED BY <3>1, <3>2, <1>2
  <2>3. IsPrev(0, o, S)
    BY <2>2, <1>2, <1>3 DEF IsPrev
  <2>4. IsNext(h.next, o, S)
    BY <2>2, <1>2, <1>3 DEF IsNext
  <2>5. L = << >> \/ h.prev = 0 <=> h.next = 0
    BY <1>1, <1>3
  <2> QED BY <1>3, <1>5, <2>1, <2>3, <2>4, <2>5 DEF L, h, i
<1>6. CASE ~first
  <2>1. L # << >> /\ S # {} /\ Len(L) \in 1 .. Len(L) /\ 1 \in 1 .. Len(L) /\ L[1] = h.next
    BY <1>1, <1>6
  <2>2. h.next < o /\ h.next \in S
    BY <2>1, <1>3, <1>6
  <2>3. Len(L) \in I /\ I \in SUBSET Nat /\ I # {}
    BY <2>1, <1>1
  <2>4. i \in I /\ \A j \in I : i <= j
    <3>1. \E j \in I : \A k \in I : j <= k
      BY <2>3, HasLeast
    <3>2. i = Min(I)
      BY <1>4, <2>3
    <3> HIDE DEF I
    <3> QED BY <3>1, <3>2 DEF Min
  <2>5. p = L[i] /\ n = s.node[p].next /\ i \in 1 .. Len(L) /\ p \in S /\ p \in Nat /\ p # 0
    BY <1>2, <1>6, <2>4
  <2>6. /\ n \in Nat /\ IsNext(n, p, S) /\ n \in S \cup {0}
        /\ n = 0 \/ n >= o
    <3>1. n \in Nat /\ IsNext(n, p, S)
      BY <1>2, <2>5
    <3> QED BY <3>1, <2>4, <2>5 DEF IsNext
  <2>7. p < o
    <3>1. CASE i = 1
      BY <3>1, <2>1, <2>2, <2>5
    <3>2. CASE i # 1
      <4>1. i - 1 \in 1 .. Len(L) /\ i - 1 \notin I
        <5> HIDE DEF I
        <5> QED BY <3>2, <2>4, <2>5, <1>1
      <4>2. s.node[L[i - 1]].next = L[i]
        <5>1. i - 1 # Len(L) /\ (i - 1) + 1 = i
          BY <2>5, <1>1
        <5> QED BY <4>1, <5>1, <1>1
      <4>3. ~(L[i] >= o)
        BY <4>1, <4>2
      <4> QED BY <4>3, <2>5
    <3> QED BY <3>1, <3>2
  <2> HIDE DEF p, n, I
  <2>8. n # 0 => o < n
    BY <2>6
  <2>9. IsPrev(p, o, S)
    <3>1. \A y \in S : y <= p \/ o <= y
      BY <2>6, <2>8, <1>2 DEF IsNext
    <3> QED BY <3>1, <2>5, <2>7 DEF IsPrev
  <2>10. IsNext(n, o, S)
    BY <2>5, <2>6, <2>7, <2>8, <1>2 DEF IsNext
  <2>11. L = << >> \/ h.prev = p <=> n = 0
    BY <2>1, <2>5, <1>3
  <2> QED BY <1>6, <2>5, <2>6, <2>9, <2>10, <2>11 DEF L, h, i, p, n
<1> QED BY <1>5, <1>6

\* The node o has been put between p and n.
IsLinked(linked, nodes, D, p, o, n, bytes) ==
    /\ linked \in [Heads \cup (D \cup {o}) -> NodeType]
    /\ \A x \in Heads : linked[x] = nodes[x]
    /\ linked[o].bytes = bytes /\ linked[o].prev = p /\ linked[o].next = n
    /\ \A x \in D \ {o} :
          /\ linked[x].bytes = nodes[x].bytes
          /\ linked[x].prev = IF x = n THEN o ELSE nodes[x].prev
          /\ linked[x].next = IF x = p THEN o ELSE nodes[x].next

\* What Linked does to each node.
LEMMA LinkedFields ==
    ASSUME NEW D, NEW s \in StoreType(D), NEW o \in Nat \ Heads, NEW p \in Nat, NEW n \in Nat,
           p # n \/ p = 0, p # o, n # o, NEW bytes \in Nat, D \subseteq Nat \ {0},
           p \notin Heads, n \notin Heads
    PROVE  IsLinked(Linked(s.node, p, o, n, bytes), s.node, D, p, o, n, bytes)
<1> DEFINE linked == Linked(s.node, p, o, n, bytes)
<1>1. DOMAIN s.node = Heads \cup D /\ \A x \in Heads \cup D : s.node[x] \in NodeType
  BY DEF StoreType
<1>2. \A x \in Heads \cup D \cup {o} : linked[x] =
         CASE x = o -> [bytes |-> bytes, prev |-> p, next |-> n]
           [] x = p -> [s.node[x] EXCEPT !.next = o]
           [] x = n -> [s.node[x] EXCEPT !.prev = o]
           [] OTHER -> s.node[x]
  BY <1>1 DEF Linked
<1>3. linked = [x \in Heads \cup D \cup {o} |-> linked[x]]
  BY <1>1 DEF Linked
<1> HIDE DEF linked
<1>4. linked[o] = [bytes |-> bytes, prev |-> p, next |-> n]
  BY <1>2
<1>5. \A x \in Heads : linked[x] = s.node[x]
  BY <1>2
<1>6. ASSUME NEW x \in D \ {o}
      PROVE  linked[x] = [bytes |-> s.node[x].bytes,
                          prev  |-> IF x = n THEN o ELSE s.node[x].prev,
                          next  |-> IF x = p THEN o ELSE s.node[x].next]
  <2> DEFINE m == s.node[x]
  <2>1. m \in NodeType /\ x # 0
    BY <1>1
  <2>2. linked[x] = CASE x = p -> [m EXCEPT !.next = o]
                      [] x = n -> [m EXCEPT !.prev = o]
                      [] OTHER -> m
    BY <1>2
  <2> HIDE DEF m
  <2>3. linked[x] = [bytes |-> m.bytes, prev |-> IF x = n THEN o ELSE m.prev,
                     next |-> IF x = p THEN o ELSE m.next]
    BY <2>1, <2>2 DEF NodeType
  <2> QED BY <2>3 DEF m
<1>7. ASSUME NEW x \in Heads \cup D \cup {o} PROVE linked[x] \in NodeType
  <2>1. CASE x = o
    BY <2>1, <1>4 DEF NodeType
  <2>2. CASE x \in Heads
    BY <2>2, <1>1, <1>5
  <2>3. CASE x \in D \ {o}
    <3>1. s.node[x].bytes \in Nat /\ s.node[x].prev \in Nat /\ s.node[x].next \in Nat
      BY <2>3, <1>1 DEF NodeType
    <3>2. linked[x] = [bytes |-> s.node[x].bytes,
                          prev  |-> IF x = n THEN o ELSE s.node[x].prev,
                          next  |-> IF x = p THEN o ELSE s.node[x].next]
      BY <2>3, <1>6
    <3> QED BY <3>1, <3>2 DEF NodeType
  <2> QED BY <2>1, <2>2, <2>3
<1>8. linked \in [Heads \cup (D \cup {o}) -> NodeType]
  BY <1>3, <1>7
<1>9. linked[o].bytes = bytes /\ linked[o].prev = p /\ linked[o].next = n
  BY <1>4
<1>10. ASSUME NEW x \in D \ {o}
       PROVE  /\ linked[x].bytes = s.node[x].bytes
              /\ linked[x].prev = IF x = n THEN o ELSE s.node[x].prev
              /\ linked[x].next = IF x = p THEN o ELSE s.node[x].next
  <2>1. linked[x] = [bytes |-> s.node[x].bytes,
                     prev  |-> IF x = n THEN o ELSE s.node[x].prev,
                     next  |-> IF x = p THEN o ELSE s.node[x].next]
    BY <1>6
  <2> QED BY <2>1
<1>11. IsLinked(linked, s.node, D, p, o, n, bytes)
  BY <1>5, <1>8, <1>9, <1>10 DEF IsLinked
<1> QED BY <1>11 DEF linked

\* r is s with the node o put between p and n.
IsInserted(r, s, D, S, l, o, bytes, p, n) ==
    /\ p \in Nat /\ n \in Nat /\ IsPrev(p, o, S) /\ IsNext(n, o, S)
    /\ r \in StoreType(D \cup {o})
    /\ \A k \in Lists \ {l} : r.head[k] = s.head[k] /\ r.node[HeadAt[k]] = s.node[HeadAt[k]]
    /\ r.node[HeadAt[l]] = r.head[l]
    /\ r.head[l].bytes = s.head[l].bytes + bytes
    /\ r.head[l].next = IF p = 0 THEN o ELSE s.head[l].next
    /\ r.head[l].prev = IF n = 0 THEN o ELSE s.head[l].prev
    /\ r.node[o].bytes = bytes /\ r.node[o].prev = p /\ r.node[o].next = n
    /\ \A x \in D \ {o} :
          /\ r.node[x].bytes = s.node[x].bytes
          /\ r.node[x].prev = IF x = n THEN o ELSE s.node[x].prev
          /\ r.node[x].next = IF x = p THEN o ELSE s.node[x].next

\* What InsertNode does to each node and to the head.
LEMMA InsertFields ==
    ASSUME NEW s, NEW D, StoreOK(s, D), NEW l \in Lists, NEW S \in SUBSET D, Linking(s, s.head[l], S),
           NEW o \in Nat, HeapStart <= o, o \notin S, NEW bytes \in Nat
    PROVE  /\ InsertNode(s, l, o, bytes).size = s.size
           /\ \E p, n \in S \cup {0} : IsInserted(InsertNode(s, l, o, bytes), s, D, S, l, o, bytes, p, n)
<1> DEFINE h == s.head[l]
           L == Blocks(s, l)
           first == L = << >> \/ o < h.next
           p == IF first THEN 0
                ELSE L[SelectInSeq(L, LAMBDA q : \/ s.node[q].next = 0
                                                 \/ s.node[q].next >= o)]
           n == IF first THEN h.next ELSE s.node[p].next
           linked == Linked(s.node, p, o, n, bytes)
           t == [s EXCEPT !.node = linked]
           g == [bytes |-> h.bytes + bytes,
                 next  |-> IF first THEN o ELSE h.next,
                 prev  |-> IF L = << >> \/ h.prev = p THEN o ELSE h.prev]
<1>1. InsertNode(s, l, o, bytes) = WriteHead(t, l, g)
  BY DEF InsertNode
<1>2. o \in Nat \ {0} /\ o \notin Heads
  BY HeadsInFront
<1>3. /\ p \in S \cup {0} /\ n \in S \cup {0} /\ p \in Nat /\ n \in Nat
      /\ IsPrev(p, o, S) /\ IsNext(n, o, S)
      /\ first <=> p = 0
      /\ L = << >> \/ h.prev = p <=> n = 0
  BY <1>2, Place
<1>4. h.bytes \in Nat /\ h.next \in Nat /\ h.prev \in Nat
  BY StoreFields
<1>5. /\ s.size \in Nat /\ D \subseteq Nat \ {0} /\ D \cap Heads = {} /\ \A x \in D : x \in Nat /\ x > 0
      /\ 0 \notin Heads
  BY StoreFields, HeadsInFront
<1>6. s \in StoreType(D)
  BY DEF StoreOK, StoreType
<1>7. g = [bytes |-> h.bytes + bytes,
           next  |-> IF p = 0 THEN o ELSE h.next,
           prev  |-> IF n = 0 THEN o ELSE h.prev]
  BY <1>3
<1> HIDE DEF first, p, n, L
<1>8. p # o /\ n # o /\ (p # n \/ p = 0) /\ p \notin Heads /\ n \notin Heads
  <2>1. p # 0 => p < o
    BY <1>3 DEF IsPrev
  <2>2. n # 0 => o < n
    BY <1>3 DEF IsNext
  <2> QED BY <2>1, <2>2, <1>2, <1>3, <1>5
<1>9. /\ linked \in [Heads \cup (D \cup {o}) -> NodeType]
      /\ \A x \in Heads : linked[x] = s.node[x]
      /\ linked[o].bytes = bytes /\ linked[o].prev = p /\ linked[o].next = n
      /\ \A x \in D \ {o} :
            /\ linked[x].bytes = s.node[x].bytes
            /\ linked[x].prev = IF x = n THEN o ELSE s.node[x].prev
            /\ linked[x].next = IF x = p THEN o ELSE s.node[x].next
  <2>1. o \in Nat \ Heads
    BY <1>2
  <2>2. /\ p # n \/ p = 0
        /\ p # o /\ n # o /\ p \notin Heads /\ n \notin Heads /\ p \in Nat /\ n \in Nat
        /\ D \subseteq Nat \ {0}
    BY <1>3, <1>5, <1>8
  <2>3. IsLinked(linked, s.node, D, p, o, n, bytes)
    BY <2>1, <2>2, <1>6, LinkedFields
  <2> HIDE DEF linked
  <2> QED BY <2>3 DEF IsLinked
<1> HIDE DEF linked
<1>10. t \in StoreType(D \cup {o}) /\ t.size = s.size /\ t.head = s.head /\ t.node = linked
  BY <1>6, <1>9 DEF StoreType
<1>11. g \in NodeType
  <2> HIDE DEF h, g
  <2> QED BY <1>2, <1>4, <1>7 DEF NodeType
<1> HIDE DEF t, g, h
<1> DEFINE r == InsertNode(s, l, o, bytes)
<1> HIDE DEF r
<1>12. /\ r \in StoreType(D \cup {o}) /\ r.size = t.size
       /\ r.head[l] = g /\ \A m \in Lists \ {l} : r.head[m] = t.head[m]
       /\ r.node[HeadAt[l]] = g
       /\ \A x \in (Heads \cup (D \cup {o})) \ {HeadAt[l]} : r.node[x] = t.node[x]
  <2>1. r = WriteHead(t, l, g)
    BY <1>1 DEF r
  <2>2. HeadWritten(r, t, D \cup {o}, l, g)
    BY <2>1, <1>1, <1>10, <1>11, WriteHeadFields
  <2> QED BY <2>2 DEF HeadWritten
<1>13. \A m \in Lists \ {l} : HeadAt[m] \in Heads /\ HeadAt[m] # HeadAt[l]
  BY HeadsInFront DEF Heads
<1>14. HeadAt[l] \in Heads /\ HeadAt[l] \notin D /\ HeadAt[l] # o
  BY <1>2, <1>5 DEF Heads
<1>15. \A m \in Lists \ {l} : r.head[m] = s.head[m] /\ r.node[HeadAt[m]] = s.node[HeadAt[m]]
  BY <1>9, <1>10, <1>12, <1>13
<1>16. \A x \in D \cup {o} : r.node[x] = linked[x]
  BY <1>10, <1>12, <1>14
<1>17. /\ r.node[o].bytes = bytes /\ r.node[o].prev = p /\ r.node[o].next = n
       /\ \A x \in D \ {o} :
             /\ r.node[x].bytes = s.node[x].bytes
             /\ r.node[x].prev = IF x = n THEN o ELSE s.node[x].prev
             /\ r.node[x].next = IF x = p THEN o ELSE s.node[x].next
  BY <1>9, <1>16
<1>18. /\ r.head[l].bytes = h.bytes + bytes
       /\ r.head[l].next = IF p = 0 THEN o ELSE h.next
       /\ r.head[l].prev = IF n = 0 THEN o ELSE h.prev
  BY <1>7, <1>12
<1>19. IsInserted(r, s, D, S, l, o, bytes, p, n)
  BY <1>3, <1>10, <1>12, <1>15, <1>17, <1>18 DEF h, IsInserted
<1> QED BY <1>3, <1>10, <1>12, <1>19 DEF r

\* The pointers are what they were.
LEMMA SameLinks ==
    ASSUME NEW s, NEW r, NEW h, NEW g, NEW S, Linking(s, h, S), g.next = h.next, g.prev = h.prev,
           \A x \in S : r.node[x].next = s.node[x].next /\ r.node[x].prev = s.node[x].prev
    PROVE  Linking(r, g, S)
  BY DEF Linking

\* r is s with the node o in its list.
HasGrown(s, r, D, l, S, m, T, o, bytes) ==
    /\ StoreOK(r, D \cup {o})
    /\ ListOK(r, l, S \cup {o}) /\ ListOK(r, m, T)
    /\ r.node[o].bytes = bytes
    /\ \A x \in D \ {o} : r.node[x].bytes = s.node[x].bytes

\* A list with a node that has been put into it.
LEMMA InsertedKeeps ==
    ASSUME NEW s, NEW D, StoreOK(s, D), NEW l \in Lists, NEW S \in SUBSET D, ListOK(s, l, S),
           NEW m \in Lists \ {l}, NEW T \in SUBSET D, ListOK(s, m, T), S \cap T = {},
           NEW o \in Nat, HeapStart <= o, o \notin S \cup T, NEW bytes \in Nat,
           NEW r, s.size <= r.size, o < r.size,
           \E p, n \in S \cup {0} : IsInserted(r, s, D, S, l, o, bytes, p, n)
    PROVE  HasGrown(s, r, D, l, S, m, T, o, bytes)
<1> DEFINE h == s.head[l]
           U == S \cup {o}
<1>1. Linking(s, h, S) /\ h.bytes = Total(s, S) /\ o \notin S
  BY DEF ListOK
<1>2. PICK p \in S \cup {0}, n \in S \cup {0} :
         /\ p \in Nat /\ n \in Nat /\ IsPrev(p, o, S) /\ IsNext(n, o, S)
         /\ r \in StoreType(D \cup {o}) /\ r.size \in Nat
         /\ \A k \in Lists \ {l} : r.head[k] = s.head[k] /\ r.node[HeadAt[k]] = s.node[HeadAt[k]]
         /\ r.node[HeadAt[l]] = r.head[l]
         /\ r.head[l].bytes = h.bytes + bytes
         /\ r.head[l].next = IF p = 0 THEN o ELSE h.next
         /\ r.head[l].prev = IF n = 0 THEN o ELSE h.prev
         /\ r.node[o].bytes = bytes /\ r.node[o].prev = p /\ r.node[o].next = n
         /\ \A x \in D \ {o} :
               /\ r.node[x].bytes = s.node[x].bytes
               /\ r.node[x].prev = IF x = n THEN o ELSE s.node[x].prev
               /\ r.node[x].next = IF x = p THEN o ELSE s.node[x].next
  <2>1. r \in StoreType(D \cup {o}) => r.size \in Nat
    BY DEF StoreType
  <2> QED BY <2>1 DEF IsInserted
<1>3. /\ s.size \in Nat /\ HeapStart <= s.size /\ D \subseteq Nat \ {0} /\ D \cap Heads = {}
      /\ \A x \in D : /\ x \in Nat /\ HeapStart <= x /\ x < s.size /\ s.node[x].bytes \in Nat
                      /\ s.node[x].prev \in Nat /\ s.node[x].next \in Nat
      /\ h.next \in Nat /\ h.prev \in Nat
  BY StoreFields
<1> HIDE DEF h
<1>4. S \in SUBSET (Nat \ {0}) /\ o \in Nat \ {0}
  BY <1>3, HeadsInFront
<1>5. IsNext(h.next, 0, S) /\ IsLast(h.prev, S)
  BY <1>1 DEF Linking
<1>6. /\ IsPrev(p, o, U) /\ IsNext(n, o, U)
      /\ p # 0 => IsNext(n, p, S) /\ IsNext(o, p, U)
      /\ p = 0 => IsNext(n, 0, S) /\ IsNext(o, 0, U)
      /\ n # 0 => IsPrev(p, n, S) /\ IsPrev(o, n, U)
      /\ n = 0 => IsLast(p, S) /\ IsLast(o, U)
      /\ \A q \in S, x \in Nat : q # p /\ IsNext(x, q, S) => IsNext(x, q, U)
      /\ p # 0 => \A x \in Nat : IsNext(x, 0, S) => IsNext(x, 0, U)
      /\ \A q \in S, x \in Nat : q # n /\ IsPrev(x, q, S) => IsPrev(x, q, U)
      /\ n # 0 => \A x \in Nat : IsLast(x, S) => IsLast(x, U)
  <2>1. Parted(S, o, p, n)
    BY <1>1, <1>2, <1>4, NeighboursMore
  <2> QED BY <2>1 DEF Parted
<1>7. o # p /\ o # n
  BY <1>2, <1>4 DEF IsPrev, IsNext
<1>8. IsNext(r.head[l].next, 0, U) /\ IsLast(r.head[l].prev, U)
  <2>1. IsNext(r.head[l].next, 0, U)
    <3>1. CASE p = 0
      BY <3>1, <1>2, <1>6
    <3>2. CASE p # 0
      <4>1. r.head[l].next = h.next
        BY <3>2, <1>2
      <4> QED BY <3>2, <4>1, <1>3, <1>5, <1>6
    <3> QED BY <3>1, <3>2
  <2>2. IsLast(r.head[l].prev, U)
    <3>1. CASE n = 0
      BY <3>1, <1>2, <1>6
    <3>2. CASE n # 0
      <4>1. r.head[l].prev = h.prev
        BY <3>2, <1>2
      <4> QED BY <3>2, <4>1, <1>3, <1>5, <1>6
    <3> QED BY <3>1, <3>2
  <2> QED BY <2>1, <2>2
<1>9. ASSUME NEW q \in S
      PROVE  IsNext(r.node[q].next, q, U) /\ IsPrev(r.node[q].prev, q, U)
  <2>1. /\ q \in D \ {o} /\ s.node[q].next \in Nat /\ s.node[q].prev \in Nat
        /\ IsNext(s.node[q].next, q, S) /\ IsPrev(s.node[q].prev, q, S)
    BY <1>1, <1>3 DEF Linking
  <2>2. IsNext(r.node[q].next, q, U)
    <3>1. CASE q = p
      <4>1. r.node[q].next = o /\ q # 0
        BY <3>1, <2>1, <1>2, <1>3
      <4> QED BY <3>1, <4>1, <1>6
    <3>2. CASE q # p
      <4>1. r.node[q].next = s.node[q].next
        BY <3>2, <2>1, <1>2
      <4> QED BY <4>1, <3>2, <2>1, <1>6
    <3> QED BY <3>1, <3>2
  <2>3. IsPrev(r.node[q].prev, q, U)
    <3>1. CASE q = n
      <4>1. r.node[q].prev = o /\ q # 0
        BY <3>1, <2>1, <1>2, <1>3
      <4> QED BY <3>1, <4>1, <1>6
    <3>2. CASE q # n
      <4>1. r.node[q].prev = s.node[q].prev
        BY <3>2, <2>1, <1>2
      <4> QED BY <4>1, <3>2, <2>1, <1>6
    <3> QED BY <3>1, <3>2
  <2> QED BY <2>2, <2>3
<1>10. Linking(r, r.head[l], U)
  <2>1. IsNext(r.node[o].next, o, U) /\ IsPrev(r.node[o].prev, o, U)
    BY <1>2, <1>6
  <2> QED BY <2>1, <1>8, <1>9 DEF Linking
<1>11. r.head[l].bytes = Total(r, U)
  <2>1. S \in SUBSET (0 .. s.size) /\ U \in SUBSET Nat /\ o \in 1 .. r.size /\ r.size \in Nat
    BY <1>2, <1>3, <1>4
  <2>2. S \ {o} = U \ {o} /\ s.size <= r.size /\ s.size \in Nat
    BY <1>2, <1>3
  <2>3. \A x \in S : s.node[x].bytes \in Nat
    BY <1>3
  <2>4. \A x \in S \ {o} : r.node[x].bytes = s.node[x].bytes
    BY <1>2
  <2>5. \A x \in U : r.node[x].bytes \in Nat
    BY <2>3, <2>4, <1>2
  <2> HIDE DEF U
  <2>6. TotalsDiffer(s, S, r, U, o)
    BY <2>1, <2>2, <2>3, <2>4, <2>5, TotalDiffers
  <2>7. o \in U
    BY DEF U
  <2> QED BY <2>6, <2>7, <1>1, <1>2 DEF TotalsDiffer
<1>12. ListOK(r, l, U)
  BY <1>10, <1>11 DEF ListOK
<1>13. ListOK(r, m, T)
  <2>1. \A x \in T : x \in D \ {o} /\ x # p /\ x # n
    BY <1>2, <1>3
  <2>2. \A x \in T : /\ r.node[x].bytes = s.node[x].bytes
                     /\ r.node[x].prev = s.node[x].prev
                     /\ r.node[x].next = s.node[x].next
    BY <2>1, <1>2
  <2>3. r.head[m] = s.head[m]
    BY <1>2
  <2>4. Linking(s, s.head[m], T) /\ s.head[m].bytes = Total(s, T)
    BY DEF ListOK
  <2>5. Linking(r, r.head[m], T)
    BY <2>2, <2>3, <2>4, SameLinks
  <2>6. TotalsDiffer(s, T, r, T, o)
    <3>1. T \in SUBSET (0 .. s.size) /\ T \in SUBSET Nat /\ o \in 1 .. r.size
      BY <1>2, <1>3, <1>4
    <3>2. /\ \A x \in T : s.node[x].bytes \in Nat
          /\ \A x \in T : r.node[x].bytes \in Nat
          /\ \A x \in T \ {o} : r.node[x].bytes = s.node[x].bytes
      BY <2>1, <2>2, <1>3
    <3> QED BY <3>1, <3>2, <1>2, <1>3, TotalDiffers
  <2>7. Total(r, T) = Total(s, T)
    BY <2>6 DEF TotalsDiffer
  <2> QED BY <2>3, <2>4, <2>5, <2>7 DEF ListOK
<1>14. \A k \in Lists : r.node[HeadAt[k]] = r.head[k]
  BY <1>2 DEF StoreOK
<1>15. ASSUME NEW x \in D \cup {o}
       PROVE  r.node[x].next # 0 => r.node[x].next \in D \cup {o} /\ x < r.node[x].next
  <2>1. CASE x = o
    <3>1. n # 0 => o < n /\ n \in S
      BY <1>2 DEF IsNext
    <3> QED BY <2>1, <3>1, <1>2
  <2>2. CASE x # o
    <3>1. x \in D /\ (s.node[x].next # 0 => s.node[x].next \in D /\ x < s.node[x].next)
      BY <2>2 DEF StoreOK
    <3>2. CASE x = p
      <4>1. p # 0 /\ p < o
        BY <3>1, <3>2, <1>2, <1>3 DEF IsPrev
      <4> QED BY <3>1, <3>2, <4>1, <2>2, <1>2
    <3>3. CASE x # p
      BY <3>1, <3>3, <2>2, <1>2
    <3> QED BY <3>2, <3>3
  <2> QED BY <2>1, <2>2
<1>16. ASSUME NEW k \in Lists
       PROVE  /\ r.node[HeadAt[k]].next # 0 => /\ r.node[HeadAt[k]].next \in D \cup {o}
                                              /\ HeadAt[k] < r.node[HeadAt[k]].next
  <2> DEFINE y == r.node[HeadAt[k]].next
  <2>1. y \in D \cup {o} \cup {0}
    <3>1. CASE k = l
      <4>1. h.next \in S \cup {0}
        BY <1>5 DEF IsNext
      <4>2. y = IF p = 0 THEN o ELSE h.next
        BY <3>1, <1>2
      <4> QED BY <4>1, <4>2
    <3>2. CASE k # l
      <4>1. y = s.node[HeadAt[k]].next /\ HeadAt[k] \in Heads
        BY <3>2, <1>2 DEF Heads
      <4> QED BY <4>1 DEF StoreOK
    <3> QED BY <3>1, <3>2
  <2>2. \A x \in D \cup {o} : HeadAt[k] < x
    BY <1>3, HeadsInFront
  <2> HIDE DEF y
  <2>3. y # 0 => y \in D \cup {o} /\ HeadAt[k] < y
    BY <2>1, <2>2
  <2> QED BY <2>3 DEF y
<1>17. StoreOK(r, D \cup {o})
  <2>1. D \cup {o} \subseteq HeapStart .. r.size - 1 /\ HeapStart <= r.size
    BY <1>2, <1>3, HeadsInFront DEF StoreOK
  <2>2. r \in [node : [Heads \cup (D \cup {o}) -> NodeType], head : [Lists -> NodeType], size : Nat]
    BY <1>2 DEF StoreType
  <2>3. \A x \in Heads \cup (D \cup {o}) : r.node[x].next # 0 => r.node[x].next \in D \cup {o} /\ x < r.node[x].next
    BY <1>15, <1>16 DEF Heads
  <2> QED BY <2>1, <2>2, <2>3, <1>14 DEF StoreOK
<1> QED BY <1>2, <1>12, <1>13, <1>17 DEF U, HasGrown

\* InsertNode keeps both lists.
LEMMA InsertKeeps ==
    ASSUME NEW s, NEW D, StoreOK(s, D), NEW l \in Lists, NEW S \in SUBSET D, ListOK(s, l, S),
           NEW m \in Lists \ {l}, NEW T \in SUBSET D, ListOK(s, m, T), S \cap T = {},
           NEW o \in Nat, HeapStart <= o, o < s.size, o \notin S \cup T, NEW bytes \in Nat
    PROVE  /\ InsertNode(s, l, o, bytes).size = s.size
           /\ HasGrown(s, InsertNode(s, l, o, bytes), D, l, S, m, T, o, bytes)
<1> DEFINE r == InsertNode(s, l, o, bytes)
<1>1. r.size = s.size /\ \E p, n \in S \cup {0} : IsInserted(r, s, D, S, l, o, bytes, p, n)
  BY InsertFields DEF ListOK
<1>2. s.size <= r.size /\ o < r.size
  BY <1>1, StoreFields
<1> HIDE DEF r
<1>3. HasGrown(s, r, D, l, S, m, T, o, bytes)
  BY <1>1, <1>2, InsertedKeeps
<1> QED BY <1>1, <1>3 DEF r

-----------------------------------------------------------------------------
(* allocate().                                                             *)

\* Both lists, of allocated blocks at A and of free ones at F.
ListsOK(s, A, F) ==
    /\ StoreOK(s, A \cup F) /\ A \cap F = {}
    /\ ListOK(s, "allocated", A) /\ ListOK(s, "free", F)

\* The block o has shrunk to rest bytes, and nothing else has changed.
HasCut(s, r, A, F, o, rest) ==
    /\ ListsOK(r, A, F) /\ r.size = s.size
    /\ r.node[o].bytes = rest
    /\ \A x \in (A \cup F) \ {o} : r.node[x].bytes = s.node[x].bytes

\* A free block that gives its tail away stays in its list.
LEMMA CutKeeps ==
    ASSUME NEW s, NEW A, NEW F, ListsOK(s, A, F), NEW o \in F, NEW rest \in Nat, NEW num \in Nat,
           rest = s.node[o].bytes - NodeSize - num
    PROVE  HasCut(s, WriteHead([s EXCEPT !.node[o].bytes = rest], "free",
                               [s.head["free"] EXCEPT !.bytes = @ - NodeSize - num]),
                  A, F, o, rest)
<1> DEFINE D == A \cup F
           h == s.head["free"]
           t == [s EXCEPT !.node[o].bytes = rest]
           g == [h EXCEPT !.bytes = @ - NodeSize - num]
           r == WriteHead(t, "free", g)
<1>1. /\ StoreOK(s, D) /\ A \cap F = {} /\ F \subseteq D /\ A \subseteq D
      /\ ListOK(s, "allocated", A) /\ ListOK(s, "free", F) /\ o \in D
      /\ "free" \in Lists /\ "allocated" \in Lists \ {"free"} /\ NodeSize \in Nat
  BY Places DEF ListsOK
<1>2. /\ s.size \in Nat /\ D \subseteq Nat \ {0} /\ D \cap Heads = {} /\ DOMAIN s.node = Heads \cup D
      /\ \A x \in D : x \in Nat /\ x > 0 /\ x < s.size /\ s.node[x].bytes \in Nat
      /\ s.node[o] \in NodeType /\ h \in NodeType /\ h.bytes \in Nat
      /\ HeadAt["free"] \in Heads
  <2> HIDE DEF D
  <2> QED BY <1>1, StoreFields
<1>3. s \in StoreType(D)
  BY <1>1 DEF StoreOK, StoreType
<1>4. /\ t \in StoreType(D) /\ t.size = s.size /\ t.head = s.head
      /\ \A x \in (Heads \cup D) \ {o} : t.node[x] = s.node[x]
      /\ t.node[o] \in NodeType
      /\ t.node[o].bytes = rest /\ t.node[o].next = s.node[o].next /\ t.node[o].prev = s.node[o].prev
  <2> DEFINE n == [s.node[o] EXCEPT !.bytes = rest]
             nodes == [s.node EXCEPT ![o] = n]
  <2>1. n \in NodeType /\ n.bytes = rest /\ n.next = s.node[o].next /\ n.prev = s.node[o].prev
    BY <1>2 DEF NodeType
  <2>2. t = [s EXCEPT !.node = nodes]
    BY <1>2, <1>3 DEF StoreType
  <2> HIDE DEF n
  <2>3. s.node \in [Heads \cup D -> NodeType] /\ o \in Heads \cup D
    BY <1>1, <1>3 DEF StoreType
  <2>4. /\ nodes \in [Heads \cup D -> NodeType] /\ nodes[o] = n
        /\ \A x \in (Heads \cup D) \ {o} : nodes[x] = s.node[x]
    BY <2>1, <2>3
  <2> HIDE DEF nodes, t, D
  <2>5. t \in StoreType(D) /\ t.size = s.size /\ t.head = s.head /\ t.node = nodes
    BY <2>2, <2>4, <1>3 DEF StoreType
  <2> QED BY <2>1, <2>4, <2>5
<1>5. g.bytes = h.bytes - NodeSize - num /\ g.next = h.next /\ g.prev = h.prev
  BY <1>2 DEF NodeType
<1> HIDE DEF t, D
\* The sum in the head is right, so it is no less than 0.
<1>6. h.bytes = Total(s, F)
  BY <1>1 DEF ListOK
<1>7. TotalsDiffer(s, F, t, F, o)
  <2>1. F \in SUBSET (0 .. s.size) /\ F \in SUBSET Nat /\ o \in 1 .. t.size /\ t.size \in Nat /\ s.size <= t.size
    BY <1>1, <1>2, <1>4
  <2>2. \A x \in F \ {o} : t.node[x].bytes = s.node[x].bytes
    BY <1>1, <1>4
  <2>3. (\A x \in F : s.node[x].bytes \in Nat) /\ \A x \in F : t.node[x].bytes \in Nat
    BY <1>1, <1>2, <1>4
  <2> QED BY <2>1, <2>2, <2>3, <1>2, TotalDiffers
<1>8. g.bytes = Total(t, F) /\ g.bytes \in Nat
  BY <1>1, <1>2, <1>4, <1>5, <1>6, <1>7 DEF TotalsDiffer
<1>9. g \in NodeType
  BY <1>2, <1>8 DEF NodeType
<1> HIDE DEF g
<1> HIDE DEF r
<1>10. /\ r \in StoreType(D) /\ r.size = t.size
       /\ r.head["free"] = g /\ \A m \in Lists \ {"free"} : r.head[m] = t.head[m]
       /\ r.node[HeadAt["free"]] = g
       /\ \A x \in (Heads \cup D) \ {HeadAt["free"]} : r.node[x] = t.node[x]
  <2>1. r = WriteHead(t, "free", g)
    BY DEF r
  <2>2. HeadWritten(r, t, D, "free", g)
    BY <2>1, <1>1, <1>4, <1>9, WriteHeadFields
  <2> QED BY <2>2 DEF HeadWritten
<1>11. \A x \in D : r.node[x] = t.node[x]
  BY <1>2, <1>10
<1>12. \A x \in D : r.node[x].next = s.node[x].next /\ r.node[x].prev = s.node[x].prev
  BY <1>4, <1>11
<1>13. \A x \in D \ {o} : r.node[x].bytes = s.node[x].bytes
  BY <1>4, <1>11
<1>14. \A m \in Lists \ {"free"} : r.head[m] = s.head[m] /\ r.node[HeadAt[m]] = s.node[HeadAt[m]]
  <2>1. \A m \in Lists \ {"free"} : HeadAt[m] \in Heads /\ HeadAt[m] # HeadAt["free"] /\ HeadAt[m] # o
    BY <1>1, <1>2, HeadsInFront DEF Heads
  <2> QED BY <2>1, <1>4, <1>10
<1>15. ListOK(r, "free", F)
  <2>1. Linking(s, h, F)
    BY <1>1 DEF ListOK
  <2>2. r.head["free"].next = h.next /\ r.head["free"].prev = h.prev
    BY <1>5, <1>10
  <2>3. \A x \in F : r.node[x].next = s.node[x].next /\ r.node[x].prev = s.node[x].prev
    BY <1>1, <1>12
  <2>4. Linking(r, r.head["free"], F)
    BY <2>1, <2>2, <2>3, SameLinks
  <2>5. Weight(r, F) = Weight(t, F)
    BY <1>1, <1>11 DEF Weight
  <2>6. Total(r, F) = Total(t, F)
    BY <2>5, <1>10 DEF Total
  <2> QED BY <2>4, <2>6, <1>8, <1>10 DEF ListOK
<1>16. ListOK(r, "allocated", A)
  <2>1. \A x \in A : x \in D \ {o}
    BY <1>1
  <2>2. \A x \in A : /\ r.node[x].bytes = s.node[x].bytes
                     /\ r.node[x].prev = s.node[x].prev
                     /\ r.node[x].next = s.node[x].next
    BY <2>1, <1>12, <1>13
  <2>3. r.head["allocated"] = s.head["allocated"] /\ r.size = s.size
    BY <1>1, <1>4, <1>10, <1>14
  <2> QED BY <2>2, <2>3, <1>1, UnchangedList
<1>17. StoreOK(r, D)
  <2>1. r \in [node : [Heads \cup D -> NodeType], head : [Lists -> NodeType], size : Nat]
    BY <1>10 DEF StoreType
  <2>2. HeapStart <= r.size /\ D \subseteq HeapStart .. r.size - 1
    BY <1>1, <1>4, <1>10 DEF StoreOK
  <2>3. \A l \in Lists : r.node[HeadAt[l]] = r.head[l]
    BY <1>1, <1>10, <1>14 DEF StoreOK
  <2>4. \A l \in Lists : r.node[HeadAt[l]].next = s.node[HeadAt[l]].next
    <3>1. s.node[HeadAt["free"]].next = h.next
      BY <1>1 DEF StoreOK
    <3> QED BY <3>1, <1>5, <1>10, <1>14
  <2>5. \A x \in Heads \cup D : r.node[x].next = s.node[x].next
    BY <2>4, <1>12 DEF Heads
  <2>6. \A x \in Heads \cup D : s.node[x].next # 0 => s.node[x].next \in D /\ x < s.node[x].next
    BY <1>1 DEF StoreOK
  <2> QED BY <2>1, <2>2, <2>3, <2>5, <2>6 DEF StoreOK
<1>18. r.node[o].bytes = rest
  BY <1>1, <1>4, <1>11
<1>19. ListsOK(r, A, F) /\ r.size = s.size /\ \A x \in (A \cup F) \ {o} : r.node[x].bytes = s.node[x].bytes
  BY <1>1, <1>4, <1>10, <1>13, <1>15, <1>16, <1>17 DEF D, ListsOK
<1>20. HasCut(s, r, A, F, o, rest)
  BY <1>18, <1>19 DEF HasCut
<1> QED BY <1>20 DEF r, t, g

\* r is s with a block of num bytes at its end.
HasAppended(s, r, A, F, num) ==
    /\ ListsOK(r, A \cup {s.size}, F) /\ r.size = s.size + NodeSize + num
    /\ r.node[s.size].bytes = num
    /\ \A x \in A \cup F : r.node[x].bytes = s.node[x].bytes

\* The file has grown by a block.
LEMMA AppendKeeps ==
    ASSUME NEW s, NEW A, NEW F, ListsOK(s, A, F), NEW num \in Nat
    PROVE  HasAppended(s, AppendBlock(s, num).store, A, F, num)
<1> DEFINE D == A \cup F
           h == s.head["allocated"]
           o == s.size
           linked == Linked(s.node, h.prev, o, 0, num)
           t == [s EXCEPT !.node = linked, !.size = @ + NodeSize + num]
           g == [bytes |-> h.bytes + num,
                 next  |-> IF h.next = 0 THEN o ELSE h.next,
                 prev  |-> o]
           r == WriteHead(t, "allocated", g)
<1>1. AppendBlock(s, num).store = r
  BY DEF AppendBlock
<1>2. /\ StoreOK(s, D) /\ A \cap F = {} /\ F \subseteq D /\ A \subseteq D
      /\ ListOK(s, "allocated", A) /\ ListOK(s, "free", F)
      /\ "allocated" \in Lists /\ "free" \in Lists \ {"allocated"} /\ NodeSize \in Nat \ {0}
  BY Places DEF ListsOK
<1>3. /\ s.size \in Nat /\ HeapStart <= s.size /\ D \subseteq Nat \ {0} /\ D \cap Heads = {}
      /\ \A x \in D : x \in Nat /\ x > 0 /\ x < s.size
      /\ h.bytes \in Nat /\ h.next \in Nat /\ h.prev \in Nat
      /\ HeadAt["allocated"] \in Heads
  <2> HIDE DEF D
  <2> QED BY <1>2, StoreFields
<1>4. o \in Nat \ {0} /\ o \notin Heads /\ o \notin D /\ 0 \notin Heads /\ HeapStart <= o
  BY <1>3, HeadsInFront
<1>5. /\ Linking(s, h, A) /\ h.bytes = Total(s, A)
      /\ h.next = 0 <=> A = {}
      /\ h.prev = 0 <=> A = {}
      /\ h.prev \in A \cup {0}
  <2>1. Linking(s, h, A) /\ h.bytes = Total(s, A)
    BY <1>2 DEF ListOK
  <2> HIDE DEF D
  <2> QED BY <2>1, <1>2, ListFields DEF Neighbours
<1>6. IsPrev(h.prev, o, A) /\ IsNext(0, o, A)
  <2>1. IsLast(h.prev, A)
    BY <1>5 DEF Linking
  <2>2. \A x \in A : x < o /\ x \in Nat
    BY <1>2, <1>3
  <2>3. IsNext(0, o, A)
    BY <2>2, <1>3 DEF IsNext
  <2>4. IsPrev(h.prev, o, A)
    BY <2>1, <2>2, <1>3, <1>5 DEF IsLast, IsPrev
  <2> QED BY <2>3, <2>4
<1>7. s \in StoreType(D)
  BY <1>2 DEF StoreOK, StoreType
<1>8. IsLinked(linked, s.node, D, h.prev, o, 0, num)
  <2>1. o \in Nat \ Heads /\ h.prev # o /\ h.prev \notin Heads
    BY <1>2, <1>3, <1>4, <1>5
  <2>2. 0 # o /\ 0 \notin Heads /\ (h.prev # 0 \/ h.prev = 0) /\ D \subseteq Nat \ {0} /\ h.prev \in Nat /\ 0 \in Nat
    BY <1>3, <1>4
  <2> HIDE DEF h, o, D
  <2> QED BY <2>1, <2>2, <1>7, LinkedFields
<1> HIDE DEF linked
<1>9. /\ t \in StoreType(D \cup {o}) /\ t.size = s.size + NodeSize + num /\ t.head = s.head
      /\ t.node = linked
  <2>1. linked \in [Heads \cup (D \cup {o}) -> NodeType] /\ s.size + NodeSize + num \in Nat
    BY <1>2, <1>3, <1>8 DEF IsLinked
  <2> QED BY <2>1, <1>7 DEF StoreType
<1>10. g \in NodeType /\ g.bytes = h.bytes + num /\ g.prev = o
       /\ g.next = IF h.prev = 0 THEN o ELSE h.next
  BY <1>3, <1>5 DEF NodeType
<1> HIDE DEF t, g, r
<1>11. /\ r \in StoreType(D \cup {o}) /\ r.size = t.size
       /\ r.head["allocated"] = g /\ \A m \in Lists \ {"allocated"} : r.head[m] = t.head[m]
       /\ r.node[HeadAt["allocated"]] = g
       /\ \A x \in (Heads \cup (D \cup {o})) \ {HeadAt["allocated"]} : r.node[x] = t.node[x]
  <2>1. r = WriteHead(t, "allocated", g)
    BY DEF r
  <2>2. HeadWritten(r, t, D \cup {o}, "allocated", g)
    BY <2>1, <1>2, <1>9, <1>10, WriteHeadFields
  <2> QED BY <2>2 DEF HeadWritten
<1> HIDE DEF D, h
<1>12. \A x \in D \cup {o} : r.node[x] = linked[x]
  BY <1>3, <1>4, <1>9, <1>11
<1>13. \A m \in Lists \ {"allocated"} : r.head[m] = s.head[m] /\ r.node[HeadAt[m]] = s.node[HeadAt[m]]
  <2>1. \A m \in Lists \ {"allocated"} : HeadAt[m] \in Heads /\ HeadAt[m] # HeadAt["allocated"]
    BY <1>2, HeadsInFront DEF Heads
  <2> QED BY <2>1, <1>8, <1>9, <1>11 DEF IsLinked
<1>14. IsInserted(r, s, D, A, "allocated", o, num, h.prev, 0)
  <2>1. /\ r.head["allocated"].bytes = s.head["allocated"].bytes + num
        /\ r.head["allocated"].next = IF h.prev = 0 THEN o ELSE s.head["allocated"].next
        /\ r.head["allocated"].prev = o
        /\ r.node[HeadAt["allocated"]] = r.head["allocated"]
    BY <1>10, <1>11 DEF h
  <2>2. /\ r.node[o].bytes = num /\ r.node[o].prev = h.prev /\ r.node[o].next = 0
        /\ \A x \in D \ {o} :
              /\ r.node[x].bytes = s.node[x].bytes
              /\ r.node[x].prev = IF x = 0 THEN o ELSE s.node[x].prev
              /\ r.node[x].next = IF x = h.prev THEN o ELSE s.node[x].next
    BY <1>8, <1>12 DEF IsLinked
  <2> HIDE DEF o
  <2> QED BY <2>1, <2>2, <1>3, <1>6, <1>11, <1>13 DEF IsInserted
<1>15. HasGrown(s, r, D, "allocated", A, "free", F, o, num)
  <2>1. s.size <= r.size /\ o < r.size /\ r.size = s.size + NodeSize + num
    BY <1>2, <1>3, <1>9, <1>11
  <2>2. o \notin A \cup F /\ A \in SUBSET D /\ F \in SUBSET D
    BY <1>2, <1>4
  <2>3. \E p, n \in A \cup {0} : IsInserted(r, s, D, A, "allocated", o, num, p, n)
    BY <1>5, <1>14
  <2> HIDE DEF o
  <2> QED BY <2>1, <2>2, <2>3, <1>2, <1>4, InsertedKeeps
<1>16. D \cup {o} = (A \cup {o}) \cup F /\ (A \cup {o}) \cap F = {} /\ D \ {o} = A \cup F
  BY <1>2, <1>4 DEF D
<1>17. HasAppended(s, r, A, F, num)
  BY <1>9, <1>11, <1>15, <1>16 DEF HasGrown, ListsOK, HasAppended, D
<1> QED BY <1>1, <1>17

\* No block of D has another size in r than in s.
SameBytes(s, r, D) == \A x \in D : r.node[x].bytes = s.node[x].bytes

\* A block goes from one list to the other.
HasMoved(s, r, D, l, S, m, T, o) ==
    /\ StoreOK(r, D) /\ r.size = s.size
    /\ ListOK(r, l, S \ {o}) /\ ListOK(r, m, T \cup {o})
    /\ SameBytes(s, r, D)

\* RemoveNode and InsertNode bring a block from one list to the other.
LEMMA MoveKeeps ==
    ASSUME NEW s, NEW D, StoreOK(s, D), NEW l \in Lists, NEW S \in SUBSET D, ListOK(s, l, S),
           NEW m \in Lists \ {l}, NEW T \in SUBSET D, ListOK(s, m, T), S \cap T = {},
           NEW o \in S
    PROVE  HasMoved(s, InsertNode(RemoveNode(s, l, o), m, o, s.node[o].bytes), D, l, S, m, T, o)
<1> DEFINE q == RemoveNode(s, l, o)
           bytes == s.node[o].bytes
           r == InsertNode(q, m, o, bytes)
           V == S \ {o}
<1>1. /\ StoreOK(q, D) /\ q.size = s.size
      /\ ListOK(q, l, V) /\ ListOK(q, m, T)
      /\ SameBytes(s, q, D)
  <2>1. HasShrunk(s, q, D, l, S, m, T, o)
    BY RemoveKeeps
  <2> HIDE DEF q, V
  <2> QED BY <2>1 DEF HasShrunk, SameBytes, V
<1>2. /\ o \in D /\ o \in Nat /\ HeapStart <= o /\ o < s.size /\ bytes \in Nat
  BY StoreFields
<1>3. /\ o \notin T \cup V /\ V \in SUBSET D /\ T \cap V = {} /\ D \cup {o} = D
      /\ m \in Lists /\ l \in Lists \ {m}
  BY <1>2
<1> HIDE DEF q, bytes, V
<1>4. r.size = q.size /\ HasGrown(q, r, D, m, T, l, V, o, bytes)
  <2>1. o < q.size
    BY <1>1, <1>2
  <2> QED BY <2>1, <1>1, <1>2, <1>3, InsertKeeps
<1> HIDE DEF r
<1>5. SameBytes(s, r, D)
  <2>1. r.node[o].bytes = bytes /\ \A x \in D \ {o} : r.node[x].bytes = q.node[x].bytes
    BY <1>4 DEF HasGrown
  <2> QED BY <2>1, <1>1 DEF SameBytes, bytes
<1>6. StoreOK(r, D) /\ ListOK(r, l, V) /\ ListOK(r, m, T \cup {o})
  BY <1>3, <1>4 DEF HasGrown
<1>7. HasMoved(s, r, D, l, S, m, T, o)
  BY <1>1, <1>4, <1>5, <1>6 DEF HasMoved, V
<1> QED BY <1>7 DEF r, q, bytes

\* The blocks follow each other without a gap up to the end of the file.
Tiles(s, D) ==
    /\ \A o, p \in D : o < p => BlockEnd(s, o) <= p
    /\ {BlockEnd(s, o) : o \in D} \cup {HeapStart} = D \cup {s.size}

\* No free block follows a free block.
Parting(s, F) == \A o \in F : BlockEnd(s, o) \notin F

\* A file with allocated blocks at A and free ones at F.
FileOK(s, A, F) ==
    /\ ListsOK(s, A, F) /\ Tiles(s, A \cup F) /\ Parting(s, F)
    /\ s.size < MaxFileSize

\* The blocks lie as they lay if their sizes are the same.
LEMMA SameTiles ==
    ASSUME NEW s, NEW r, NEW D, Tiles(s, D), r.size = s.size, SameBytes(s, r, D)
    PROVE  Tiles(r, D)
<1>1. \A o \in D : BlockEnd(r, o) = BlockEnd(s, o)
  BY DEF SameBytes, BlockEnd
<1>2. {BlockEnd(r, o) : o \in D} = {BlockEnd(s, o) : o \in D}
  BY <1>1
<1> QED BY <1>1, <1>2 DEF Tiles

\* Blocks end where others begin or at the end of the file.
LEMMA BlockFields ==
    ASSUME NEW s, NEW D, StoreOK(s, D), Tiles(s, D)
    PROVE  \A o \in D : /\ o \in Nat /\ HeapStart <= o /\ o < s.size
                        /\ s.node[o].bytes \in Nat
                        /\ BlockEnd(s, o) \in D \cup {s.size}
                        /\ BlockEnd(s, o) \in Nat /\ o + NodeSize + s.node[o].bytes = BlockEnd(s, o)
                        /\ o < BlockEnd(s, o) /\ BlockEnd(s, o) <= s.size
<1>1. TAKE o \in D
<1>2. o \in Nat /\ HeapStart <= o /\ o < s.size /\ s.node[o].bytes \in Nat /\ s.size \in Nat
  BY StoreFields
<1>3. BlockEnd(s, o) \in D \cup {s.size}
  BY DEF Tiles
<1>4. \A x \in D : x < s.size
  BY StoreFields
<1>5. BlockEnd(s, o) \in Nat /\ o + NodeSize + s.node[o].bytes = BlockEnd(s, o) /\ o < BlockEnd(s, o)
  BY <1>2, Places DEF BlockEnd
<1> QED BY <1>2, <1>3, <1>4, <1>5

\* TakeWhole makes an allocated block of a free one.
LEMMA TakeWholeKeeps ==
    ASSUME NEW s, NEW A, NEW F, FileOK(s, A, F), NEW o \in F
    PROVE  LET r == TakeWhole(s, o).store
           IN  FileOK(r, A \cup {o}, F \ {o}) /\ r.size = s.size /\ SameBytes(s, r, A \cup F)
<1> DEFINE D == A \cup F
           r == TakeWhole(s, o).store
<1>1. r = InsertNode(RemoveNode(s, "free", o), "allocated", o, s.node[o].bytes)
  BY DEF TakeWhole
<1>2. HasMoved(s, r, D, "free", F, "allocated", A, o)
  <2>1. /\ StoreOK(s, D) /\ ListOK(s, "free", F) /\ ListOK(s, "allocated", A) /\ F \cap A = {}
        /\ "free" \in Lists /\ "allocated" \in Lists \ {"free"}
    BY Places DEF FileOK, ListsOK
  <2> HIDE DEF r
  <2> QED BY <1>1, <2>1, MoveKeeps
<1> HIDE DEF r
<1>3. D = (A \cup {o}) \cup (F \ {o}) /\ (A \cup {o}) \cap (F \ {o}) = {}
  BY DEF FileOK, ListsOK
<1>4. ListsOK(r, A \cup {o}, F \ {o}) /\ SameBytes(s, r, D) /\ r.size = s.size
  BY <1>2, <1>3 DEF HasMoved, ListsOK
<1>5. Tiles(r, D)
  BY <1>4, SameTiles DEF FileOK
<1>6. Parting(r, F \ {o})
  <2>1. \A x \in F : BlockEnd(r, x) = BlockEnd(s, x)
    BY <1>4 DEF SameBytes, BlockEnd
  <2> QED BY <2>1 DEF Parting, FileOK
<1> QED BY <1>3, <1>4, <1>5, <1>6 DEF FileOK, r

\* A new block has been cut from a free one.
HasTakenTail(s, A, F, num, a) ==
    LET tail == a.at - NodeSize
        r == a.store
    IN  /\ tail \in Nat /\ HeapStart <= tail /\ tail \notin A \cup F
        /\ FileOK(r, A \cup {tail}, F) /\ r.size = s.size
        /\ r.node[tail].bytes = num
        /\ SameBytes(s, r, A)

\* TakeTail cuts a block from a free one.
LEMMA TakeTailKeeps ==
    ASSUME NEW s, NEW A, NEW F, FileOK(s, A, F), NEW o \in F, NEW num \in Nat,
           s.node[o].bytes >= num + NodeSize
    PROVE  HasTakenTail(s, A, F, num, TakeTail(s, o, num))
<1> DEFINE D == A \cup F
           rest == s.node[o].bytes - NodeSize - num
           tail == o + NodeSize + rest
           cut == WriteHead([s EXCEPT !.node[o].bytes = rest], "free",
                            [s.head["free"] EXCEPT !.bytes = @ - NodeSize - num])
           r == InsertNode(cut, "allocated", tail, num)
<1>1. TakeTail(s, o, num) = [store |-> r, at |-> tail + NodeSize]
  BY DEF TakeTail
<1>2. /\ StoreOK(s, D) /\ ListsOK(s, A, F) /\ Tiles(s, D) /\ Parting(s, F) /\ s.size < MaxFileSize
      /\ A \cap F = {} /\ o \in D /\ NodeSize \in Nat \ {0}
      /\ "free" \in Lists \ {"allocated"} /\ "allocated" \in Lists
  BY Places DEF FileOK, ListsOK
<1>3. /\ \A x \in D : /\ x \in Nat /\ HeapStart <= x /\ x < s.size
                      /\ s.node[x].bytes \in Nat
                      /\ BlockEnd(s, x) \in D \cup {s.size}
                      /\ BlockEnd(s, x) \in Nat /\ x + NodeSize + s.node[x].bytes = BlockEnd(s, x)
                      /\ x < BlockEnd(s, x) /\ BlockEnd(s, x) <= s.size
      /\ s.size \in Nat /\ HeapStart \in Nat
  BY <1>2, BlockFields, StoreFields, HeadsInFront
<1>4. rest \in Nat /\ tail \in Nat /\ o < tail /\ HeapStart <= tail /\ tail + NodeSize + num = BlockEnd(s, o)
      /\ rest = s.node[o].bytes - NodeSize - num /\ tail = o + NodeSize + rest
  <2>1. rest \in Nat
    BY <1>2, <1>3
  <2>2. rest = s.node[o].bytes - NodeSize - num /\ tail = o + NodeSize + rest
    OBVIOUS
  <2> HIDE DEF rest
  <2> QED BY <2>1, <2>2, <1>2, <1>3
<1>5. \A x, y \in D : x < y => BlockEnd(s, x) <= y
  BY <1>2 DEF Tiles
<1>6. tail \notin D
  <2>1. SUFFICES ASSUME tail \in D PROVE FALSE
    OBVIOUS
  <2>2. BlockEnd(s, o) <= tail
    BY <2>1, <1>2, <1>4, <1>5
  <2> HIDE DEF tail
  <2> QED BY <2>2, <1>2, <1>4
<1>7. /\ ListsOK(cut, A, F) /\ cut.size = s.size
      /\ cut.node[o].bytes = rest
      /\ \A x \in D \ {o} : cut.node[x].bytes = s.node[x].bytes
  <2>1. HasCut(s, cut, A, F, o, rest)
    <3> HIDE DEF rest
    <3> QED BY <1>2, <1>4, CutKeeps
  <2> HIDE DEF cut, rest
  <2> QED BY <2>1 DEF HasCut
<1> HIDE DEF cut, rest, tail
<1>8. r.size = cut.size /\ HasGrown(cut, r, D, "allocated", A, "free", F, tail, num)
  <2>1. /\ StoreOK(cut, D) /\ ListOK(cut, "allocated", A) /\ ListOK(cut, "free", F)
        /\ A \in SUBSET D /\ F \in SUBSET D
    BY <1>7 DEF ListsOK
  <2>2. tail < cut.size /\ tail \notin A \cup F
    BY <1>2, <1>3, <1>4, <1>6, <1>7
  <2> HIDE DEF r, D
  <2> QED BY <2>1, <2>2, <1>2, <1>4, InsertKeeps DEF r
<1> HIDE DEF r
<1>9. D \cup {tail} = (A \cup {tail}) \cup F /\ (A \cup {tail}) \cap F = {}
  BY <1>2, <1>6
<1>10. /\ r.node[tail].bytes = num /\ r.node[o].bytes = rest
       /\ \A x \in D \ {o} : r.node[x].bytes = s.node[x].bytes
  <2>1. /\ r.node[tail].bytes = num
        /\ \A x \in D \ {tail} : r.node[x].bytes = cut.node[x].bytes
    BY <1>8 DEF HasGrown
  <2> QED BY <2>1, <1>2, <1>6, <1>7
<1>11. /\ BlockEnd(r, tail) = BlockEnd(s, o) /\ BlockEnd(r, o) = tail
       /\ \A x \in D \ {o} : BlockEnd(r, x) = BlockEnd(s, x)
  BY <1>4, <1>10 DEF BlockEnd
<1>12. Tiles(r, D \cup {tail})
  <2>1. ASSUME NEW x \in D \cup {tail}, NEW y \in D \cup {tail}, x < y PROVE BlockEnd(r, x) <= y
    <3>1. CASE x = tail
      <4>1. y \in D /\ o < y
        BY <2>1, <3>1, <1>2, <1>3, <1>4
      <4> QED BY <4>1, <3>1, <1>2, <1>5, <1>11
    <3>2. CASE x = o
      <4>1. y # tail => y \in D /\ BlockEnd(s, o) <= y
        BY <2>1, <3>2, <1>5, <1>2
      <4>2. y # tail => tail <= y
        BY <4>1, <1>2, <1>3, <1>4
      <4> QED BY <4>2, <3>2, <1>11, <1>4
    <3>3. CASE x \in D \ {o} /\ y = tail
      <4>1. x < o
        <5>1. o < x => BlockEnd(s, o) <= x
          BY <3>3, <1>2, <1>5
        <5> QED BY <5>1, <2>1, <3>3, <1>2, <1>3, <1>4
      <4>2. BlockEnd(s, x) <= o /\ BlockEnd(s, x) \in Nat
        BY <4>1, <3>3, <1>2, <1>3, <1>5
      <4> QED BY <4>2, <3>3, <1>2, <1>3, <1>4, <1>11
    <3>4. CASE x \in D \ {o} /\ y \in D
      BY <2>1, <3>4, <1>5, <1>11
    <3> QED BY <3>1, <3>2, <3>3, <3>4
  <2>2. {BlockEnd(r, x) : x \in D \cup {tail}} \cup {HeapStart} = (D \cup {tail}) \cup {s.size}
    <3>1. {BlockEnd(r, x) : x \in D \cup {tail}} = {BlockEnd(s, x) : x \in D} \cup {tail}
      BY <1>2, <1>6, <1>11
    <3> QED BY <3>1, <1>2 DEF Tiles
  <2> QED BY <2>1, <2>2, <1>7, <1>8 DEF Tiles
<1>13. Parting(r, F)
  BY <1>2, <1>6, <1>11 DEF Parting
<1>14. ListsOK(r, A \cup {tail}, F)
  BY <1>8, <1>9 DEF HasGrown, ListsOK
<1>15. FileOK(r, A \cup {tail}, F)
  BY <1>2, <1>7, <1>8, <1>9, <1>12, <1>13, <1>14 DEF FileOK
<1>16. SameBytes(s, r, A)
  BY <1>2, <1>10 DEF SameBytes
<1>17. TakeTail(s, o, num).store = r /\ TakeTail(s, o, num).at - NodeSize = tail
  BY <1>1, <1>2, <1>4
<1> QED BY <1>4, <1>6, <1>7, <1>8, <1>10, <1>15, <1>16, <1>17 DEF HasTakenTail

\* AppendBlock adds a block at the end of the file.
LEMMA AppendFits ==
    ASSUME NEW s, NEW A, NEW F, FileOK(s, A, F), NEW num \in Nat, MayGrow(s, num)
    PROVE  LET r == AppendBlock(s, num).store
           IN  /\ s.size \in Nat /\ HeapStart <= s.size /\ s.size \notin A \cup F
               /\ FileOK(r, A \cup {s.size}, F) /\ r.size = s.size + NodeSize + num
               /\ r.node[s.size].bytes = num
               /\ SameBytes(s, r, A)
<1> DEFINE D == A \cup F
           r == AppendBlock(s, num).store
           o == s.size
<1>1. /\ StoreOK(s, D) /\ ListsOK(s, A, F) /\ Tiles(s, D) /\ Parting(s, F) /\ s.size < MaxFileSize
      /\ A \cap F = {} /\ NodeSize \in Nat \ {0} /\ MaxFileSize \in Nat
  BY Places, SizesAssumption DEF FileOK, ListsOK
<1>2. /\ \A x \in D : /\ x \in Nat /\ HeapStart <= x /\ x < o
                      /\ BlockEnd(s, x) \in D \cup {o}
                      /\ BlockEnd(s, x) \in Nat /\ BlockEnd(s, x) <= o
      /\ o \in Nat /\ HeapStart \in Nat /\ HeapStart <= o
  BY <1>1, BlockFields, StoreFields, HeadsInFront
<1>3. o \notin D
  <2> HIDE DEF o
  <2> QED BY <1>2
<1>4. /\ ListsOK(r, A \cup {o}, F) /\ r.size = o + NodeSize + num
      /\ r.node[o].bytes = num
      /\ \A x \in D : r.node[x].bytes = s.node[x].bytes
  <2>1. HasAppended(s, r, A, F, num)
    BY <1>1, AppendKeeps
  <2> HIDE DEF r
  <2> QED BY <2>1 DEF HasAppended
<1> HIDE DEF r
<1>5. /\ BlockEnd(r, o) = r.size
      /\ \A x \in D : BlockEnd(r, x) = BlockEnd(s, x)
  BY <1>4 DEF BlockEnd
<1> HIDE DEF o
<1>6. Tiles(r, D \cup {o})
  <2>1. ASSUME NEW x \in D \cup {o}, NEW y \in D \cup {o}, x < y PROVE BlockEnd(r, x) <= y
    <3>1. x \in D
      BY <2>1, <1>2
    <3>2. CASE y = o
      BY <3>1, <3>2, <1>2, <1>5
    <3>3. CASE y # o
      <4>1. y \in D /\ BlockEnd(s, x) <= y
        BY <2>1, <3>1, <3>3, <1>1 DEF Tiles
      <4> QED BY <3>1, <4>1, <1>5
    <3> QED BY <3>2, <3>3
  <2>2. {BlockEnd(r, x) : x \in D \cup {o}} \cup {HeapStart} = (D \cup {o}) \cup {r.size}
    <3>1. {BlockEnd(r, x) : x \in D \cup {o}} = {BlockEnd(s, x) : x \in D} \cup {r.size}
      BY <1>3, <1>5
    <3> QED BY <3>1, <1>1 DEF Tiles, o
  <2> QED BY <2>1, <2>2 DEF Tiles
<1>7. Parting(r, F)
  BY <1>1, <1>5 DEF Parting
<1>8. r.size < MaxFileSize
  BY <1>4 DEF MayGrow, o
<1>9. D \cup {o} = (A \cup {o}) \cup F
  OBVIOUS
<1>10. FileOK(r, A \cup {o}, F)
  BY <1>4, <1>6, <1>7, <1>8, <1>9 DEF FileOK
<1>11. SameBytes(s, r, A)
  BY <1>4 DEF SameBytes
<1> QED BY <1>2, <1>3, <1>4, <1>10, <1>11 DEF r, o

\* allocate() returns nothing, or a new block that is large enough.
IsAllocated(s, A, wanted, a) ==
    \/ a.at = 0 /\ a.store = s
    \/ /\ a.at \in Nat /\ HeapStart + NodeSize <= a.at /\ a.at - NodeSize \notin A
       /\ \E F : FileOK(a.store, A \cup {a.at - NodeSize}, F)
       /\ wanted <= a.store.node[a.at - NodeSize].bytes
       /\ SameBytes(s, a.store, A)

\* The larger of two numbers.
LEMMA LargerOf ==
    ASSUME NEW m \in Nat, NEW n \in Nat
    PROVE  Max({m, n}) \in Nat /\ m <= Max({m, n}) /\ n <= Max({m, n})
<1>1. \E x \in {m, n} : \A y \in {m, n} : x >= y
  <2>1. CASE m <= n
    BY <2>1
  <2>2. CASE n <= m
    BY <2>2
  <2> QED BY <2>1, <2>2
<1>2. Max({m, n}) \in {m, n} /\ \A y \in {m, n} : Max({m, n}) >= y
  BY <1>1 DEF Max
<1> QED BY <1>2

\* allocate() of any size, whatever blocks there are: the file is what it
\* should be, no allocated block is touched, and the block it returns is none
\* of them and is large enough (FileAllocator.cpp:170-268).
THEOREM AllocateKeeps ==
    ASSUME NEW s, NEW A, NEW F, FileOK(s, A, F), NEW wanted \in Nat
    PROVE  IsAllocated(s, A, wanted, Allocate(s, wanted))
<1> DEFINE num == Max({wanted, MinimumSize})
           L == Blocks(s, "free")
           i == SelectInSeq(L, LAMBDA q : Holds(s, q, num))
           I == {j \in 1 .. Len(L) : Holds(s, L[j], num)}
<1>1. num \in Nat /\ wanted <= num /\ MinimumSize \in Nat /\ NodeSize \in Nat \ {0} /\ HeapStart \in Nat
  BY SizesAssumption, LargerOf, HeadsInFront
<1>2. Allocate(s, wanted) =
         IF i # 0
         THEN IF s.node[L[i]].bytes < num + NodeSize + MinimumSize
              THEN TakeWhole(s, L[i])
              ELSE TakeTail(s, L[i], num)
         ELSE IF MayGrow(s, num) THEN AppendBlock(s, num)
         ELSE [store |-> s, at |-> 0]
  BY DEF Allocate
<1>3. StoreOK(s, A \cup F) /\ ListsOK(s, A, F) /\ Tiles(s, A \cup F) /\ A \cap F = {}
  BY DEF FileOK, ListsOK
<1>4. L \in Seq(F) /\ Len(L) \in Nat /\ \A j \in 1 .. Len(L) : L[j] \in F
  <2>1. L \in Seq(F)
    <3>1. Linking(s, s.head["free"], F) /\ "free" \in Lists /\ F \in SUBSET (A \cup F)
      BY <1>3, Places DEF ListsOK, ListOK
    <3> QED BY <3>1, <1>3, BlocksOfList
  <2> HIDE DEF L
  <2> QED BY <2>1
<1>5. i = IF I # {} THEN Min(I) ELSE 0
  BY DEF SelectInSeq
<1> HIDE DEF i, L
<1>6. i # 0 => L[i] \in F /\ num <= s.node[L[i]].bytes
  <2>1. SUFFICES ASSUME I # {} PROVE i \in I
    <3>1. \A j \in I : s.node[L[j]].bytes >= num /\ L[j] \in F /\ s.node[L[j]].bytes \in Nat
      BY <1>3, <1>4, BlockFields DEF Holds
    <3>2. i # 0 => I # {}
      BY <1>5
    <3> HIDE DEF num, I
    <3> QED BY <3>1, <3>2, <2>1, <1>1
  <2>2. I \in SUBSET Nat
    BY <1>4
  <2>3. \E m \in I : \A n \in I : m <= n
    <3> HIDE DEF I
    <3> QED BY <2>1, <2>2, HasLeast
  <2> HIDE DEF I
  <2> QED BY <2>1, <2>3, <1>5 DEF Min
<1> HIDE DEF num, I
<1>7. CASE i # 0 /\ s.node[L[i]].bytes < num + NodeSize + MinimumSize
  <2> DEFINE o == L[i]
             a == TakeWhole(s, o)
  <2>1. o \in F /\ num <= s.node[o].bytes
    BY <1>6, <1>7
  <2>2. Allocate(s, wanted) = a
    BY <1>2, <1>7
  <2> HIDE DEF o
  <2>3. a.at = o + NodeSize
    BY DEF TakeWhole
  <2>4. FileOK(a.store, A \cup {o}, F \ {o}) /\ SameBytes(s, a.store, A \cup F)
    <3> HIDE DEF a
    <3> QED BY <2>1, TakeWholeKeeps DEF a
  <2>5. o \in Nat /\ HeapStart <= o /\ s.node[o].bytes \in Nat /\ o \notin A
    BY <2>1, <1>3, BlockFields
  <2> HIDE DEF a
  <2>6. a.at \in Nat /\ HeapStart + NodeSize <= a.at /\ a.at - NodeSize = o
    BY <2>3, <2>5, <1>1
  <2>7. a.store.node[o].bytes = s.node[o].bytes /\ SameBytes(s, a.store, A)
    BY <2>1, <2>4 DEF SameBytes
  <2>8. wanted <= a.store.node[o].bytes
    BY <2>1, <2>5, <2>7, <1>1
  <2> QED BY <2>2, <2>4, <2>5, <2>6, <2>7, <2>8 DEF IsAllocated
<1>8. CASE i # 0 /\ ~(s.node[L[i]].bytes < num + NodeSize + MinimumSize)
  <2> DEFINE o == L[i]
             a == TakeTail(s, o, num)
  <2>1. o \in F /\ ~(s.node[o].bytes < num + NodeSize + MinimumSize)
    BY <1>6, <1>8
  <2>2. Allocate(s, wanted) = a
    BY <1>2, <1>8
  <2> HIDE DEF o
  <2>3. s.node[o].bytes >= num + NodeSize
    <3>1. s.node[o].bytes \in Nat
      BY <2>1, <1>3, BlockFields
    <3> QED BY <2>1, <3>1, <1>1
  <2>4. a.at = (o + NodeSize + (s.node[o].bytes - NodeSize - num)) + NodeSize
    BY DEF TakeTail
  <2> HIDE DEF a
  <2>5. /\ a.at - NodeSize \in Nat /\ HeapStart <= a.at - NodeSize /\ a.at - NodeSize \notin A \cup F
        /\ FileOK(a.store, A \cup {a.at - NodeSize}, F)
        /\ a.store.node[a.at - NodeSize].bytes = num
        /\ SameBytes(s, a.store, A)
    <3>1. HasTakenTail(s, A, F, num, a)
      BY <2>1, <2>3, <1>1, TakeTailKeeps DEF a
    <3> QED BY <3>1 DEF HasTakenTail
  <2>6. a.at \in Nat /\ HeapStart + NodeSize <= a.at
    <3>1. o \in Nat /\ s.node[o].bytes \in Nat
      BY <2>1, <1>3, BlockFields
    <3>2. a.at \in Int
      BY <3>1, <2>4, <1>1
    <3> QED BY <3>2, <2>5, <1>1
  <2> QED BY <2>2, <2>5, <2>6, <1>1 DEF IsAllocated
<1>9. CASE i = 0 /\ MayGrow(s, num)
  <2> DEFINE a == AppendBlock(s, num)
  <2>1. Allocate(s, wanted) = a
    BY <1>2, <1>9
  <2>2. a.at = s.size + NodeSize
    BY DEF AppendBlock
  <2> HIDE DEF a
  <2>3. /\ s.size \in Nat /\ HeapStart <= s.size /\ s.size \notin A \cup F
        /\ FileOK(a.store, A \cup {s.size}, F)
        /\ a.store.node[s.size].bytes = num
        /\ SameBytes(s, a.store, A)
    BY <1>1, <1>9, AppendFits DEF a
  <2>4. a.at \in Nat /\ HeapStart + NodeSize <= a.at /\ a.at - NodeSize = s.size
    BY <2>2, <2>3, <1>1
  <2> QED BY <2>1, <2>3, <2>4, <1>1 DEF IsAllocated
<1>10. CASE i = 0 /\ ~MayGrow(s, num)
  <2>1. Allocate(s, wanted) = [store |-> s, at |-> 0]
    BY <1>2, <1>10
  <2> QED BY <2>1 DEF IsAllocated
<1> QED BY <1>7, <1>8, <1>9, <1>10

-----------------------------------------------------------------------------
(* free().                                                                 *)

\* The free blocks that another one follows.
Near(s, F) == {x \in F : BlockEnd(s, x) \in F}

\* Adjacent finds the free blocks that another one follows.
LEMMA AdjacentIsNear ==
    ASSUME NEW s, NEW A, NEW F, ListsOK(s, A, F), Tiles(s, A \cup F), NEW x \in F
    PROVE  /\ Adjacent(s, x) <=> x \in Near(s, F)
           /\ x \in Near(s, F) => s.node[x].next = BlockEnd(s, x)
<1> DEFINE D == A \cup F
           n == s.node[x].next
           e == BlockEnd(s, x)
<1>1. StoreOK(s, D) /\ ListOK(s, "free", F) /\ "free" \in Lists /\ x \in D /\ F \subseteq D
  BY Places DEF ListsOK
<1>2. /\ \A y \in D : y \in Nat /\ y > 0
      /\ x < e /\ e \in Nat /\ e = x + NodeSize + s.node[x].bytes
  BY <1>1, BlockFields, StoreFields
<1>3. n \in Nat /\ IsNext(n, x, F)
  BY <1>1, StoreFields DEF ListOK, Linking
<1>4. Adjacent(s, x) <=> n # 0 /\ e = n
  BY <1>2 DEF Adjacent
<1>5. n # 0 => n \in F /\ e <= n
  BY <1>1, <1>3 DEF IsNext, Tiles
<1>6. e \in F => n = e
  <2> HIDE DEF n, e
  <2>1. e \in F => n # 0
    BY <1>1, <1>2, <1>3 DEF IsNext
  <2>2. e \in F => n <= e
    BY <1>1, <1>2, <1>3, <2>1 DEF IsNext
  <2> QED BY <2>1, <2>2, <1>2, <1>3, <1>5
<1> QED BY <1>1, <1>2, <1>4, <1>5, <1>6 DEF Near

\* The block a and the free block behind it have become one.
HasMerged(s, r, A, F, a, b) ==
    /\ ListsOK(r, A, F \ {b}) /\ Tiles(r, (A \cup F) \ {b}) /\ r.size = s.size
    /\ BlockEnd(r, a) = BlockEnd(s, b)
    /\ \A x \in (A \cup F) \ {a, b} : r.node[x].bytes = s.node[x].bytes

\* MergeNext joins a free block and the free block behind it.
LEMMA MergeKeeps ==
    ASSUME NEW s, NEW A, NEW F, ListsOK(s, A, F), Tiles(s, A \cup F), NEW a \in Near(s, F)
    PROVE  HasMerged(s, MergeNext(s, a), A, F, a, BlockEnd(s, a))
<1> DEFINE D == A \cup F
           b == s.node[a].next
           n == s.node[b].next
           h == s.head["free"]
           joined == [x \in DOMAIN s.node \ {b} |->
                         CASE x = a -> [s.node[a] EXCEPT
                                           !.bytes = @ + NodeSize + s.node[b].bytes,
                                           !.next = n]
                           [] x = n -> [s.node[x] EXCEPT !.prev = a]
                           [] OTHER -> s.node[x]]
           t == [s EXCEPT !.node = joined]
           g == MergedHead(h, a, n)
           r == WriteHead(t, "free", g)
           E == D \ {b}
           G == F \ {b}
           size == s.node[a].bytes + NodeSize + s.node[b].bytes
<1>1. /\ StoreOK(s, D) /\ Tiles(s, D) /\ A \cap F = {} /\ F \subseteq D /\ A \subseteq D /\ a \in F /\ a \in D
      /\ ListOK(s, "allocated", A) /\ ListOK(s, "free", F)
      /\ "free" \in Lists /\ "allocated" \in Lists \ {"free"} /\ NodeSize \in Nat \ {0}
  BY Places DEF ListsOK, Near
<1>2. Adjacent(s, a) /\ b = BlockEnd(s, a) /\ b \in F
  BY <1>1, AdjacentIsNear DEF Near
<1>3. MergeNext(s, a) = r
  BY <1>2 DEF MergeNext
<1>4. /\ s.size \in Nat /\ D \subseteq Nat \ {0} /\ D \cap Heads = {} /\ DOMAIN s.node = Heads \cup D
      /\ \A x \in D : /\ x \in Nat /\ x > 0 /\ HeapStart <= x /\ x < s.size /\ s.node[x].bytes \in Nat
                      /\ s.node[x] \in NodeType
                      /\ s.node[x].next \in Nat /\ s.node[x].prev \in Nat
                      /\ BlockEnd(s, x) \in Nat /\ x < BlockEnd(s, x) /\ BlockEnd(s, x) <= s.size
                      /\ BlockEnd(s, x) = x + NodeSize + s.node[x].bytes
      /\ \A x \in Heads : s.node[x] \in NodeType
      /\ h \in NodeType /\ h.bytes \in Nat /\ h.next \in Nat /\ h.prev \in Nat
      /\ HeadAt["free"] \in Heads
  <2> HIDE DEF D, h
  <2> QED BY <1>1, StoreFields, BlockFields DEF h
<1>5. /\ Linking(s, h, F) /\ h.bytes = Total(s, F)
      /\ IsNext(b, a, F) /\ IsPrev(a, b, F) /\ IsNext(n, b, F)
      /\ IsNext(h.next, 0, F) /\ IsLast(h.prev, F)
      /\ n \in F \cup {0} /\ n \in Nat /\ a < b /\ b \in D /\ b \in Nat
      /\ s.node[b].prev = a
      /\ n = 0 <=> h.prev = b
      /\ n # 0 => IsPrev(b, n, F) /\ b < n
      /\ \A q \in F : s.node[q].next = b => q = a
      /\ \A q \in F : s.node[q].prev = b => q = n
  <2>1. Linking(s, h, F) /\ h.bytes = Total(s, F)
    BY <1>1 DEF ListOK
  <2>2. /\ IsNext(b, a, F) /\ IsNext(n, b, F) /\ IsNext(h.next, 0, F) /\ IsLast(h.prev, F)
        /\ a < b /\ b \in D /\ b \in Nat
    BY <2>1, <1>1, <1>2, <1>4 DEF Linking
  <2>3. b # 0
    BY <1>4, <2>2
  <2>4. s.node[b].prev = a /\ (n = 0 <=> h.prev = b) /\ (n # 0 => s.node[n].prev = b)
        /\ n \in F \cup {0} /\ n \in Nat
        /\ (\A q \in F : s.node[q].next = b => q = s.node[b].prev)
        /\ \A q \in F : s.node[q].prev = b => q = n
    <3> HIDE DEF D, h
    <3> QED BY <2>1, <1>1, <1>2, <2>3, ListFields DEF Neighbours, h
  <2>5. IsPrev(a, b, F) /\ (n # 0 => IsPrev(b, n, F) /\ b < n)
    <3>1. IsPrev(s.node[b].prev, b, F) /\ (n # 0 => IsPrev(s.node[n].prev, n, F))
      BY <2>1, <2>4, <1>2 DEF Linking
    <3>2. n # 0 => b < n
      BY <2>2 DEF IsNext
    <3> QED BY <2>4, <3>1, <3>2
  <2> QED BY <2>1, <2>2, <2>4, <2>5
<1>6. a # b /\ a # n /\ b # n /\ a \in E /\ E \subseteq D /\ G \subseteq E /\ A \subseteq E /\ E = A \cup G
  BY <1>1, <1>2, <1>4, <1>5
<1>7. s \in StoreType(D)
  BY <1>1 DEF StoreOK, StoreType
<1>8. size \in Nat
  BY <1>1, <1>2, <1>4
<1> HIDE DEF b, n, h, size
<1>9. /\ joined[a].bytes = size /\ joined[a].next = n /\ joined[a].prev = s.node[a].prev
      /\ joined[a] \in NodeType
      /\ \A x \in E \ {a} : /\ joined[x].bytes = s.node[x].bytes /\ joined[x].next = s.node[x].next
                            /\ joined[x].prev = IF x = n THEN a ELSE s.node[x].prev
                            /\ joined[x] \in NodeType
      /\ \A x \in Heads : joined[x] = s.node[x] /\ joined[x] \in NodeType
  <2>1. joined[a] = [s.node[a] EXCEPT !.bytes = @ + NodeSize + s.node[b].bytes, !.next = n]
    BY <1>1, <1>4, <1>6
  <2>2. s.node[a] \in NodeType /\ a \in Nat
    BY <1>1, <1>4
  <2>3. /\ joined[a].bytes = size /\ joined[a].next = n /\ joined[a].prev = s.node[a].prev
        /\ joined[a] \in NodeType
    <3> DEFINE m == s.node[a]
    <3>1. joined[a] = [bytes |-> size, prev |-> m.prev, next |-> n]
      <4>1. joined[a] = [m EXCEPT !.bytes = size, !.next = n]
        BY <2>1, <2>2 DEF size, NodeType
      <4>2. m \in NodeType
        BY <2>2
      <4> HIDE DEF joined, m
      <4> QED BY <4>1, <4>2 DEF NodeType
    <3>2. m.prev \in Nat
      BY <1>1, <1>4
    <3> HIDE DEF joined, m
    <3>3. joined[a].bytes = size /\ joined[a].next = n /\ joined[a].prev = m.prev /\ joined[a] \in NodeType
      BY <3>1, <3>2, <1>5, <1>8 DEF NodeType
    <3> QED BY <3>3 DEF m
  <2>4. ASSUME NEW x \in E \ {a}
        PROVE  /\ joined[x].bytes = s.node[x].bytes /\ joined[x].next = s.node[x].next
               /\ joined[x].prev = IF x = n THEN a ELSE s.node[x].prev
               /\ joined[x] \in NodeType
    <3> DEFINE m == s.node[x]
    <3>1. joined[x] = IF x = n THEN [m EXCEPT !.prev = a] ELSE m
      BY <1>4, <1>6
    <3>2. m \in NodeType
      BY <1>4
    <3> HIDE DEF joined, m
    <3>3. /\ joined[x].bytes = m.bytes /\ joined[x].next = m.next
          /\ joined[x].prev = IF x = n THEN a ELSE m.prev
          /\ joined[x] \in NodeType
      BY <3>1, <3>2, <2>2 DEF NodeType
    <3> QED BY <3>3 DEF m
  <2>5. ASSUME NEW x \in Heads PROVE joined[x] = s.node[x] /\ joined[x] \in NodeType
    <3>1. x # a /\ x # b /\ x # n
      BY <1>1, <1>2, <1>4, <1>5, HeadsInFront
    <3> QED BY <3>1, <1>4
  <2> QED BY <2>3, <2>4, <2>5
<1>10. t \in StoreType(E) /\ t.size = s.size /\ t.head = s.head /\ t.node = joined
  <2>1. DOMAIN s.node \ {b} = Heads \cup E
    BY <1>2, <1>4
  <2>2. joined \in [Heads \cup E -> NodeType]
    <3>1. \A x \in Heads \cup E : joined[x] \in NodeType
      BY <1>9
    <3>2. joined = [x \in Heads \cup E |-> joined[x]]
      BY <2>1
    <3> HIDE DEF joined
    <3> QED BY <3>1, <3>2
  <2> HIDE DEF joined, E
  <2> QED BY <2>2, <1>7 DEF StoreType
<1> HIDE DEF joined
<1>11. /\ g \in NodeType /\ g.bytes = h.bytes + NodeSize /\ g.next = h.next
       /\ g.prev = IF n = 0 THEN a ELSE h.prev
  <2>1. a \in Nat
    BY <1>1, <1>4
  <2>2. g = [h EXCEPT !.bytes = @ + NodeSize, !.prev = IF n = 0 THEN a ELSE @]
    BY DEF MergedHead
  <2> HIDE DEF g
  <2>3. g = [bytes |-> h.bytes + NodeSize, prev |-> IF n = 0 THEN a ELSE h.prev, next |-> h.next]
    BY <2>2, <1>4 DEF NodeType
  <2>4. h.bytes + NodeSize \in Nat /\ (IF n = 0 THEN a ELSE h.prev) \in Nat /\ h.next \in Nat
    BY <2>1, <1>1, <1>4
  <2> QED BY <2>3, <2>4 DEF NodeType
<1> HIDE DEF t, g, r, D, E, G
<1>12. /\ r \in StoreType(E) /\ r.size = s.size
       /\ r.head["free"] = g /\ \A m \in Lists \ {"free"} : r.head[m] = s.head[m]
       /\ r.node[HeadAt["free"]] = g
       /\ \A x \in (Heads \cup E) \ {HeadAt["free"]} : r.node[x] = joined[x]
  <2>1. r = WriteHead(t, "free", g)
    BY DEF r
  <2>2. HeadWritten(r, t, E, "free", g)
    BY <2>1, <1>1, <1>10, <1>11, WriteHeadFields
  <2> QED BY <2>2, <1>10 DEF HeadWritten
<1>13. /\ r.node[a].bytes = size /\ r.node[a].next = n /\ r.node[a].prev = s.node[a].prev
       /\ \A x \in E \ {a} : /\ r.node[x].bytes = s.node[x].bytes /\ r.node[x].next = s.node[x].next
                             /\ r.node[x].prev = IF x = n THEN a ELSE s.node[x].prev
  <2>1. \A x \in E : r.node[x] = joined[x]
    BY <1>4, <1>6, <1>12
  <2> QED BY <2>1, <1>6, <1>9
<1>14. \A m \in Lists \ {"free"} : r.node[HeadAt[m]] = s.node[HeadAt[m]]
  <2>1. \A m \in Lists \ {"free"} : HeadAt[m] \in Heads /\ HeadAt[m] # HeadAt["free"]
    BY <1>1, HeadsInFront DEF Heads
  <2> QED BY <2>1, <1>9, <1>12
\* The lists.
<1>15. F \in SUBSET (Nat \ {0}) /\ h.next # b
  BY <1>1, <1>4, <1>5 DEF IsNext
<1>16. Linking(r, r.head["free"], G)
  <2>0. b \in F /\ 0 \in Nat /\ a \in Nat
    BY <1>1, <1>2, <1>4
  <2>1. IsNext(r.head["free"].next, 0, G)
    BY <2>0, <1>4, <1>5, <1>11, <1>12, <1>15, NeighboursLess DEF G
  <2>2. IsLast(r.head["free"].prev, G)
    <3>1. CASE n = 0
      <4>1. IsLast(b, F) /\ r.head["free"].prev = a
        BY <3>1, <1>5, <1>11, <1>12
      <4> QED BY <4>1, <2>0, <1>5, <1>15, NeighboursLess DEF G
    <3>2. CASE n # 0
      <4>1. h.prev # b /\ r.head["free"].prev = h.prev
        BY <3>2, <1>5, <1>11, <1>12
      <4> QED BY <4>1, <2>0, <1>4, <1>5, <1>15, NeighboursLess DEF G
    <3> QED BY <3>1, <3>2
  <2>3. ASSUME NEW x \in G PROVE IsNext(r.node[x].next, x, G) /\ IsPrev(r.node[x].prev, x, G)
    <3>1. /\ x \in F /\ x \in E /\ x # b /\ x \in Nat
          /\ s.node[x].next \in Nat /\ s.node[x].prev \in Nat
          /\ IsNext(s.node[x].next, x, F) /\ IsPrev(s.node[x].prev, x, F)
      BY <1>1, <1>4, <1>5, <1>6 DEF G, Linking
    <3>2. IsNext(r.node[x].next, x, G)
      <4>1. CASE x = a
        BY <4>1, <3>1, <2>0, <1>5, <1>13, <1>15, NeighboursLess DEF G
      <4>2. CASE x # a
        <5>1. r.node[x].next = s.node[x].next /\ s.node[x].next # b
          BY <4>2, <3>1, <1>5, <1>13
        <5> QED BY <5>1, <3>1, <2>0, <1>15, NeighboursLess DEF G
      <4> QED BY <4>1, <4>2
    <3>3. IsPrev(r.node[x].prev, x, G)
      <4>1. CASE x = n
        <5>1. r.node[x].prev = a /\ n # 0 /\ x # a
          BY <4>1, <3>1, <1>4, <1>6, <1>13, <1>15
        <5> QED BY <5>1, <4>1, <3>1, <2>0, <1>5, <1>15, NeighboursLess DEF G
      <4>2. CASE x # n
        <5>1. r.node[x].prev = s.node[x].prev /\ s.node[x].prev # b
          BY <4>2, <3>1, <1>5, <1>13
        <5> QED BY <5>1, <3>1, <2>0, <1>15, NeighboursLess DEF G
      <4> QED BY <4>1, <4>2
    <3> QED BY <3>2, <3>3
  <2> QED BY <2>1, <2>2, <2>3 DEF Linking
<1>17. r.head["free"].bytes = Total(r, G)
  <2>1. /\ F \in SUBSET (0 .. s.size) /\ G \in SUBSET (0 .. s.size) /\ G \in SUBSET Nat
        /\ a \in 1 .. s.size /\ b \in 1 .. s.size /\ r.size = s.size /\ s.size \in Nat
        /\ s.size <= r.size /\ s.size <= s.size
    BY <1>1, <1>2, <1>4, <1>5, <1>12 DEF G
  <2>2. /\ \A x \in F : s.node[x].bytes \in Nat
        /\ \A x \in G : s.node[x].bytes \in Nat
        /\ \A x \in G : r.node[x].bytes \in Nat
        /\ \A x \in F \ {b} : s.node[x].bytes = s.node[x].bytes
        /\ \A x \in G \ {a} : r.node[x].bytes = s.node[x].bytes
    BY <1>1, <1>4, <1>6, <1>8, <1>13 DEF G
  <2>3. F \ {b} = G \ {b} /\ a \in G /\ b \in F /\ b \notin G
    BY <1>1, <1>2, <1>6 DEF G
  <2>4. TotalsDiffer(s, F, s, G, b)
    BY <2>1, <2>2, <2>3, TotalDiffers
  <2>5. TotalsDiffer(s, G, r, G, a)
    BY <2>1, <2>2, <2>3, TotalDiffers
  <2>6. s.node[a].bytes \in Nat /\ s.node[b].bytes \in Nat
    BY <1>1, <1>4, <1>5
  <2> QED BY <2>3, <2>4, <2>5, <2>6, <1>1, <1>5, <1>11, <1>12, <1>13 DEF TotalsDiffer, size
<1>18. ListOK(r, "free", G)
  BY <1>16, <1>17 DEF ListOK
<1>19. ListOK(r, "allocated", A)
  <2>1. \A x \in A : x \in E \ {a} /\ x # n
    BY <1>1, <1>4, <1>5, <1>6
  <2>2. \A x \in A : /\ r.node[x].bytes = s.node[x].bytes
                     /\ r.node[x].prev = s.node[x].prev
                     /\ r.node[x].next = s.node[x].next
    BY <2>1, <1>13
  <2>3. r.head["allocated"] = s.head["allocated"] /\ r.size = s.size
    BY <1>1, <1>12
  <2> QED BY <2>2, <2>3, <1>1, UnchangedList
<1>20. ASSUME NEW x \in E PROVE r.node[x].next # 0 => r.node[x].next \in E /\ x < r.node[x].next
  <2>1. x \in D /\ x # b /\ (s.node[x].next # 0 => s.node[x].next \in D /\ x < s.node[x].next)
    BY <1>1 DEF StoreOK, E
  <2>2. CASE x = a
    <3>1. n # 0 => n \in E /\ a < n
      BY <1>1, <1>4, <1>5, <1>6 DEF E
    <3> QED BY <2>2, <3>1, <1>13
  <2>3. CASE x # a /\ x \in F
    BY <2>1, <2>3, <1>5, <1>13 DEF E
  <2>4. CASE x \in A
    <3>1. s.node[x].next \in A \cup {0}
      BY <2>4, <1>1 DEF ListOK, Linking, IsNext
    <3>2. x # a
      BY <2>4, <1>1
    <3> QED BY <3>1, <3>2, <2>1, <1>6, <1>13
  <2> QED BY <2>1, <2>2, <2>3, <2>4 DEF D
<1>21. ASSUME NEW l \in Lists
       PROVE  /\ r.node[HeadAt[l]] = r.head[l]
              /\ r.head[l].next # 0 => r.head[l].next \in E /\ HeadAt[l] < r.head[l].next
  <2>1. r.node[HeadAt[l]] = r.head[l]
    BY <1>1, <1>12, <1>14 DEF StoreOK
  <2>2. r.head[l].next \in E \cup {0}
    <3>1. CASE l = "free"
      BY <3>1, <1>5, <1>11, <1>12, <1>15 DEF IsNext, E, D
    <3>2. CASE l # "free"
      <4>1. r.head[l] = s.head[l] /\ l = "allocated"
        BY <3>2, <1>12, Places
      <4>2. s.head[l].next \in A \cup {0}
        BY <4>1, <1>1 DEF ListOK, Linking, IsNext
      <4> QED BY <4>1, <4>2, <1>6
    <3> QED BY <3>1, <3>2
  <2>3. \A x \in E : HeadAt[l] < x
    <3>1. HeadAt[l] \in Nat /\ HeadAt[l] < HeapStart /\ HeapStart \in Nat
      BY HeadsInFront
    <3>2. \A x \in E : x \in Nat /\ HeapStart <= x
      BY <1>4, <1>6
    <3> QED BY <3>1, <3>2
  <2> DEFINE y == r.head[l].next
  <2>4. y \in E \cup {0}
    BY <2>2
  <2> HIDE DEF y
  <2>5. y # 0 => y \in E /\ HeadAt[l] < y
    BY <2>3, <2>4
  <2> QED BY <2>1, <2>5 DEF y
<1>22. StoreOK(r, E)
  <2>1. r \in [node : [Heads \cup E -> NodeType], head : [Lists -> NodeType], size : Nat]
    BY <1>12 DEF StoreType
  <2>2. HeapStart <= r.size /\ E \subseteq HeapStart .. r.size - 1
    BY <1>1, <1>6, <1>12 DEF StoreOK
  <2>3. \A x \in Heads \cup E : r.node[x].next # 0 => r.node[x].next \in E /\ x < r.node[x].next
    BY <1>20, <1>21 DEF Heads
  <2>4. \A l \in Lists : r.node[HeadAt[l]] = r.head[l]
    BY <1>21
  <2> QED BY <2>1, <2>2, <2>3, <2>4 DEF StoreOK
<1>23. ListsOK(r, A, G)
  BY <1>1, <1>6, <1>18, <1>19, <1>22 DEF ListsOK, G
\* The blocks.
<1>24. /\ BlockEnd(r, a) = BlockEnd(s, b)
       /\ \A x \in E \ {a} : BlockEnd(r, x) = BlockEnd(s, x)
  <2>1. BlockEnd(r, a) = a + NodeSize + size
    BY <1>13 DEF BlockEnd
  <2>2. b = a + NodeSize + s.node[a].bytes /\ BlockEnd(s, b) = b + NodeSize + s.node[b].bytes
    BY <1>2 DEF BlockEnd
  <2>3. a \in Nat /\ s.node[a].bytes \in Nat /\ s.node[b].bytes \in Nat /\ b \in Nat
    BY <1>1, <1>4, <1>5
  <2>4. \A x \in E \ {a} : BlockEnd(r, x) = BlockEnd(s, x)
    BY <1>13 DEF BlockEnd
  <2> QED BY <2>1, <2>2, <2>3, <2>4, <1>1 DEF size
<1>25. \A x, y \in D : x < y => BlockEnd(s, x) <= y
  BY <1>1 DEF Tiles
<1>26. \A x \in E \ {a} : BlockEnd(s, x) # b
  <2>1. TAKE x \in E \ {a}
  <2>2. x \in D /\ x \in Nat /\ x # a /\ a \in Nat
    BY <1>1, <1>4, <1>6
  <2>3. x < a => BlockEnd(s, x) <= a
    BY <2>2, <1>1, <1>25
  <2>4. a < x => b <= x
    BY <2>2, <1>1, <1>2, <1>25
  <2> QED BY <2>2, <2>3, <2>4, <1>4, <1>5
<1>27. Tiles(r, E)
  <2>1. ASSUME NEW x \in E, NEW y \in E, x < y PROVE BlockEnd(r, x) <= y
    <3>1. x \in D /\ y \in D /\ y # b /\ BlockEnd(s, x) <= y /\ x \in Nat /\ y \in Nat
      BY <2>1, <1>4, <1>6, <1>25 DEF E
    <3>2. CASE x = a
      <4>1. b < y
        BY <3>1, <3>2, <1>2, <1>5
      <4>2. BlockEnd(s, b) <= y
        BY <4>1, <3>1, <1>5, <1>25
      <4> QED BY <4>2, <3>2, <1>24
    <3>3. CASE x # a
      BY <3>1, <3>3, <1>24
    <3> QED BY <3>2, <3>3
  <2>2. {BlockEnd(r, x) : x \in E} \cup {HeapStart} = E \cup {r.size}
    <3>1. {BlockEnd(s, x) : x \in D} \cup {HeapStart} = D \cup {s.size}
      BY <1>1 DEF Tiles
    <3>2. BlockEnd(s, b) # b /\ b # HeapStart /\ b # s.size /\ b \in D
      BY <1>1, <1>4, <1>5
    <3>3. {BlockEnd(r, x) : x \in E} = {BlockEnd(s, x) : x \in D} \ {b}
      <4>1. ASSUME NEW x \in E PROVE BlockEnd(r, x) \in {BlockEnd(s, y) : y \in D} \ {b}
        <5>1. CASE x = a
          BY <5>1, <3>2, <1>24
        <5>2. CASE x # a
          BY <5>2, <1>6, <1>24, <1>26
        <5> QED BY <5>1, <5>2
      <4>2. ASSUME NEW y \in D, BlockEnd(s, y) # b PROVE \E x \in E : BlockEnd(r, x) = BlockEnd(s, y)
        <5>1. y # a
          BY <4>2, <1>2
        <5>2. CASE y = b
          BY <5>2, <1>6, <1>24
        <5>3. CASE y # b
          <6>1. y \in E \ {a}
            BY <5>1, <5>3 DEF E
          <6> QED BY <6>1, <1>24
        <5> QED BY <5>2, <5>3
      <4> QED BY <4>1, <4>2
    <3> QED BY <3>1, <3>2, <3>3, <1>12 DEF E
  <2> QED BY <2>1, <2>2 DEF Tiles
<1>28. \A x \in D \ {a, b} : r.node[x].bytes = s.node[x].bytes
  BY <1>13 DEF E
<1>29. HasMerged(s, r, A, F, a, b)
  BY <1>12, <1>23, <1>24, <1>27, <1>28 DEF HasMerged, D, E, G
<1> QED BY <1>2, <1>3, <1>29

\* No free block but a may be followed by a free one: then none is afterwards.
IsSettled(s, r, A, F) ==
    /\ ListsOK(r, A, F) /\ Tiles(r, A \cup F) /\ Parting(r, F)
    /\ r.size = s.size /\ SameBytes(s, r, A)

\* Which free blocks are followed by a free one then.
LEMMA NearAfterMerge ==
    ASSUME NEW s, NEW A, NEW F, ListsOK(s, A, F), Tiles(s, A \cup F), NEW a \in Near(s, F),
           NEW r, NEW b, b = BlockEnd(s, a), HasMerged(s, r, A, F, a, b)
    PROVE  /\ a # b /\ b \in F /\ a \in F
           /\ \A x \in Near(r, F \ {b}) : x # a => x \in Near(s, F) /\ BlockEnd(s, x) # b /\ x # b
           /\ a \in Near(r, F \ {b}) => b \in Near(s, F)
<1>1. a \in F /\ b \in F /\ a \in A \cup F /\ b \in A \cup F
  BY DEF Near
<1>2. StoreOK(s, A \cup F)
  BY DEF ListsOK
<1>3. a # b
  BY <1>1, <1>2, BlockFields
<1>4. ASSUME NEW x \in F \ {b}, x # a PROVE BlockEnd(r, x) = BlockEnd(s, x)
  BY <1>4 DEF HasMerged, BlockEnd
<1>5. BlockEnd(r, a) = BlockEnd(s, b)
  BY DEF HasMerged
<1> QED BY <1>1, <1>3, <1>4, <1>5 DEF Near

\* MergeNext where it may find something to merge.
LEMMA MergeSettles ==
    ASSUME NEW s, NEW A, NEW F, ListsOK(s, A, F), Tiles(s, A \cup F), NEW a \in F,
           Near(s, F) \subseteq {a}
    PROVE  \E G \in SUBSET F : IsSettled(s, MergeNext(s, a), A, G)
<1> DEFINE r == MergeNext(s, a)
           b == BlockEnd(s, a)
<1>1. CASE a \in Near(s, F)
  <2>1. HasMerged(s, r, A, F, a, b)
    BY <1>1, MergeKeeps
  <2> HIDE DEF r, b
  <2>2. /\ a # b /\ b \in F
        /\ \A x \in Near(r, F \ {b}) : x # a => x \in Near(s, F)
        /\ a \in Near(r, F \ {b}) => b \in Near(s, F)
    BY <1>1, <2>1, NearAfterMerge DEF b
  <2>3. Near(r, F \ {b}) = {}
    <3>1. a \notin Near(r, F \ {b})
      BY <2>2
    <3> QED BY <3>1, <2>2
  <2>4. Parting(r, F \ {b})
    BY <2>3 DEF Near, Parting
  <2>5. (A \cup F) \ {b} = A \cup (F \ {b}) /\ A \subseteq (A \cup F) \ {a, b}
    BY <2>2 DEF ListsOK
  <2>6. SameBytes(s, r, A)
    BY <2>1, <2>5 DEF HasMerged, SameBytes
  <2>7. IsSettled(s, r, A, F \ {b})
    BY <2>1, <2>4, <2>5, <2>6 DEF HasMerged, IsSettled
  <2> QED BY <2>7 DEF r
<1>2. CASE a \notin Near(s, F)
  <2>1. ~Adjacent(s, a)
    BY <1>2, AdjacentIsNear
  <2>2. r = s
    BY <2>1 DEF MergeNext
  <2>3. Parting(s, F)
    BY <1>2 DEF Near, Parting
  <2> HIDE DEF r
  <2>4. IsSettled(s, r, A, F)
    BY <2>2, <2>3 DEF IsSettled, SameBytes
  <2> QED BY <2>4 DEF r
<1> QED BY <1>1, <1>2

\* The block o is given back and no other is touched.
IsFreed(s, r, A, o) ==
    /\ \E F : FileOK(r, A \ {o}, F)
    /\ r.size = s.size /\ SameBytes(s, r, A \ {o})

\* free() of any allocated block: the file is what it should be, no other
\* block is touched, and no two free blocks are left side by side
\* (FileAllocator.cpp:271-322).
THEOREM FreeKeeps ==
    ASSUME NEW s, NEW A, NEW F, FileOK(s, A, F), NEW at \in Nat, at - NodeSize \in A
    PROVE  IsFreed(s, Free(s, at), A, at - NodeSize)
<1> DEFINE o == at - NodeSize
           D == A \cup F
           B == A \ {o}
           V == F \cup {o}
           freed == InsertNode(RemoveNode(s, "allocated", o), "free", o, s.node[o].bytes)
           p == freed.node[o].prev
           r == Free(s, at)
<1>1. /\ StoreOK(s, D) /\ ListsOK(s, A, F) /\ Tiles(s, D) /\ Parting(s, F) /\ s.size < MaxFileSize
      /\ A \cap F = {} /\ o \in A /\ o \in D
      /\ ListOK(s, "allocated", A) /\ ListOK(s, "free", F)
      /\ "allocated" \in Lists /\ "free" \in Lists \ {"allocated"} /\ "free" \in Lists
  BY Places DEF FileOK, ListsOK
<1>2. r = IF p # 0 /\ Adjacent(freed, p) THEN MergeNext(MergeNext(freed, p), p)
          ELSE MergeNext(freed, o)
  BY DEF Free
<1>3. HasMoved(s, freed, D, "allocated", A, "free", F, o)
  BY <1>1, MoveKeeps
<1>4. D = B \cup V /\ B \cap V = {} /\ o \in V
  BY <1>1
<1> HIDE DEF o, freed, r, B, V, D
<1>5. ListsOK(freed, B, V) /\ Tiles(freed, D) /\ freed.size = s.size /\ SameBytes(s, freed, D)
  BY <1>1, <1>3, <1>4, SameTiles DEF HasMoved, ListsOK, B, V
<1>6. \A x \in D : BlockEnd(freed, x) = BlockEnd(s, x)
  BY <1>5 DEF SameBytes, BlockEnd
<1>7. \A x \in Near(freed, V) : x # o => BlockEnd(freed, x) = o
  BY <1>1, <1>6 DEF Near, V, D, Parting
<1>8. StoreOK(freed, D) /\ ListOK(freed, "free", V) /\ Linking(freed, freed.head["free"], V) /\ V \in SUBSET D
  BY <1>4, <1>5 DEF ListsOK, ListOK
<1>9. /\ p \in V \cup {0}
      /\ p # 0 => freed.node[p].next = o /\ p < o
      /\ \A q \in V : freed.node[q].next = o => q = p
  <2>1. StoreOK(freed, D) /\ "free" \in Lists /\ V \in SUBSET D /\ Linking(freed, freed.head["free"], V)
    BY <1>1, <1>8
  <2>2. freed.node[o].prev \in V \cup {0}
    BY <2>1, <1>4, ListFields DEF Neighbours
  <2>3. freed.node[o].prev # 0 => /\ freed.node[freed.node[o].prev].next = o
                                  /\ freed.node[o].prev < o
    <3>1. \A x \in V : freed.node[x].prev # 0 => /\ freed.node[freed.node[x].prev].next = x
                                                 /\ freed.node[x].prev < x
      BY <2>1, ListFields DEF Neighbours
    <3> QED BY <3>1, <1>4
  <2>4. \A q \in V : freed.node[q].next = o => q = freed.node[o].prev
    BY <2>1, <1>4, ListFields DEF Neighbours
  <2> QED BY <2>2, <2>3, <2>4
<1>10. \E G : IsSettled(freed, r, B, G)
  <2>1. CASE p # 0 /\ Adjacent(freed, p)
    <3> DEFINE q == MergeNext(freed, p)
    <3>1. p \in Near(freed, V) /\ BlockEnd(freed, p) = o
      BY <2>1, <1>4, <1>5, <1>9, AdjacentIsNear
    <3>2. HasMerged(freed, q, B, V, p, o)
      BY <3>1, <1>4, <1>5, MergeKeeps
    <3> HIDE DEF q, p
    <3>3. /\ p # o /\ p \in V
          /\ \A x \in Near(q, V \ {o}) : x # p => x \in Near(freed, V) /\ BlockEnd(freed, x) # o /\ x # o
      BY <3>1, <3>2, <1>4, <1>5, NearAfterMerge
    <3>4. Near(q, V \ {o}) \subseteq {p} /\ p \in V \ {o}
      BY <3>3, <1>7
    <3>5. ListsOK(q, B, V \ {o}) /\ Tiles(q, B \cup (V \ {o})) /\ q.size = freed.size
      <4>1. D \ {o} = B \cup (V \ {o})
        BY <1>4 DEF B
      <4> QED BY <4>1, <3>2, <1>4 DEF HasMerged
    <3>6. PICK G \in SUBSET (V \ {o}) : IsSettled(q, MergeNext(q, p), B, G)
      BY <3>4, <3>5, MergeSettles
    <3>7. r = MergeNext(q, p)
      BY <2>1, <1>2 DEF q, p
    <3>8. SameBytes(freed, q, B)
      <4>1. B \subseteq (B \cup V) \ {p, o}
        BY <3>3, <1>4
      <4> QED BY <4>1, <3>2 DEF HasMerged, SameBytes
    <3>9. IsSettled(freed, r, B, G)
      BY <3>5, <3>6, <3>7, <3>8 DEF IsSettled, SameBytes
    <3> QED BY <3>9
  <2>2. CASE ~(p # 0 /\ Adjacent(freed, p))
    <3>1. r = MergeNext(freed, o)
      BY <2>2, <1>2
    <3>2. \A x \in Near(freed, V) : BlockEnd(freed, x) # o
      <4>1. SUFFICES ASSUME NEW x \in Near(freed, V), BlockEnd(freed, x) = o PROVE FALSE
        OBVIOUS
      <4>2. x \in V /\ Adjacent(freed, x) /\ freed.node[x].next = o
        BY <4>1, <1>4, <1>5, AdjacentIsNear DEF Near
      <4>3. x = p
        BY <4>2, <1>9
      <4>4. x # 0
        BY <4>2, <1>8, StoreFields
      <4> QED BY <4>2, <4>3, <4>4, <2>2
    <3>3. Near(freed, V) \subseteq {o}
      BY <3>2, <1>7
    <3>4. \E G \in SUBSET V : IsSettled(freed, MergeNext(freed, o), B, G)
      BY <3>3, <1>4, <1>5, MergeSettles
    <3> QED BY <3>1, <3>4
  <2> QED BY <2>1, <2>2
<1>11. PICK G : IsSettled(freed, r, B, G)
  BY <1>10
<1>12. r.size = s.size /\ SameBytes(s, r, B)
  BY <1>4, <1>5, <1>11 DEF IsSettled, SameBytes
<1>13. FileOK(r, B, G)
  BY <1>1, <1>11, <1>12 DEF IsSettled, FileOK
<1>14. IsFreed(s, r, A, o)
  BY <1>12, <1>13 DEF IsFreed, B
<1> QED BY <1>14 DEF r, o

-----------------------------------------------------------------------------
(* A file that is all right has what dump() and TypeOK ask for.            *)
LEMMA ListOKSound ==
    ASSUME NEW s, NEW D, StoreOK(s, D), NEW l \in Lists, NEW S \in SUBSET D, ListOK(s, l, S)
    PROVE  ListIsSound(s, l) /\ ToSet(Blocks(s, l)) = S
<1> DEFINE L == Blocks(s, l)
           h == s.head[l]
<1>1. Linking(s, h, S) /\ h.bytes = Total(s, S)
  BY DEF ListOK
<1>2. /\ L \in Seq(S) /\ ToSet(L) = S /\ Increasing(L)
      /\ \A i \in 1 .. Len(L) : s.node[L[i]].next = IF i = Len(L) THEN 0 ELSE L[i + 1]
      /\ L = << >> <=> S = {}
      /\ L # << >> => L[1] = h.next
  <2> HIDE DEF h
  <2> QED BY <1>1, BlocksOfList DEF h
<1>3. Neighbours(s, h, S)
  <2> HIDE DEF h
  <2> QED BY <1>1, ListFields DEF h
<1> HIDE DEF L, h
<1>4. Len(L) \in Nat /\ \A i \in 1 .. Len(L) : L[i] \in S
  BY <1>2
<1>5. ASSUME NEW i \in 1 .. Len(L)
      PROVE  s.node[L[i]].prev = IF i = 1 THEN 0 ELSE L[i - 1]
  <2>1. CASE i = 1
    <3>1. L # << >> /\ L[1] = h.next /\ L[1] \in S
      BY <2>1, <1>2, <1>4
    <3> QED BY <3>1, <2>1, <1>3 DEF Neighbours
  <2>2. CASE i # 1
    <3>1. i - 1 \in 1 .. Len(L) /\ i - 1 # Len(L) /\ (i - 1) + 1 = i
      BY <2>2, <1>4
    <3>2. s.node[L[i - 1]].next = L[i] /\ L[i - 1] \in S /\ L[i] \in S
      BY <3>1, <1>2, <1>4
    <3> QED BY <3>2, <2>2, <1>3 DEF Neighbours
  <2> QED BY <2>1, <2>2
<1>6. ASSUME NEW i \in 1 .. Len(L), i > 1 PROVE L[i - 1] < L[i]
  BY <1>2, <1>4, <1>6 DEF Increasing
<1>7. h.prev = IF L = << >> THEN 0 ELSE Last(L)
  <2>1. CASE L = << >>
    BY <2>1, <1>2, <1>3 DEF Neighbours
  <2>2. CASE L # << >>
    <3>1. Len(L) \in 1 .. Len(L)
      BY <2>2, <1>2, <1>4
    <3>2. s.node[L[Len(L)]].next = 0 /\ L[Len(L)] \in S
      BY <3>1, <1>2, <1>4
    <3> QED BY <3>2, <2>2, <1>3 DEF Neighbours, Last
  <2> QED BY <2>1, <2>2
<1> QED BY <1>1, <1>2, <1>5, <1>6, <1>7 DEF ListIsSound, L, h

\* dump() finds no error in a file that is all right, and reading its lists
\* returns the blocks (FileAllocator.cpp:474-529).
THEOREM FileIsSound ==
    ASSUME NEW s, NEW A, NEW F, FileOK(s, A, F)
    PROVE  /\ Sound(s)
           /\ ToSet(Blocks(s, "allocated")) = A /\ ToSet(Blocks(s, "free")) = F
           /\ \A o \in F : ~Adjacent(s, o)
<1>1. /\ StoreOK(s, A \cup F) /\ ListsOK(s, A, F) /\ Tiles(s, A \cup F) /\ A \cap F = {}
      /\ Lists = {"allocated", "free"}
      /\ ListOK(s, "allocated", A) /\ ListOK(s, "free", F)
      /\ A \in SUBSET (A \cup F) /\ F \in SUBSET (A \cup F)
  BY Places DEF FileOK, ListsOK
<1>2. /\ ListIsSound(s, "allocated") /\ ToSet(Blocks(s, "allocated")) = A
      /\ ListIsSound(s, "free") /\ ToSet(Blocks(s, "free")) = F
  BY <1>1, ListOKSound
<1>3. Sound(s)
  BY <1>1, <1>2 DEF Sound, Tiles
<1>4. \A o \in F : o \notin Near(s, F)
  BY DEF Near, FileOK, Parting
<1>5. \A o \in F : ~Adjacent(s, o)
  BY <1>1, <1>4, AdjacentIsNear
<1> QED BY <1>2, <1>3, <1>5

\* The fields of such a file have their types.
LEMMA FileHasTypes ==
    ASSUME NEW s, NEW A, NEW F, FileOK(s, A, F)
    PROVE  /\ s.size \in HeapStart .. MaxFileSize - 1
           /\ DOMAIN s.node \subseteq Reserved .. s.size
           /\ \A o \in DOMAIN s.node :
                 /\ s.node[o].bytes \in 0 .. s.size
                 /\ {s.node[o].prev, s.node[o].next} \subseteq {0} \cup DOMAIN s.node
           /\ \A l \in Lists : DOMAIN s.head[l] = {"bytes", "prev", "next"}
<1> DEFINE D == A \cup F
           block == [l \in Lists |-> IF l = "free" THEN F ELSE A]
<1>1. /\ StoreOK(s, D) /\ ListsOK(s, A, F) /\ Tiles(s, D) /\ s.size < MaxFileSize /\ MaxFileSize \in Nat
      /\ Lists = {"allocated", "free"} /\ NodeSize \in Nat \ {0} /\ Reserved \in Nat \ {0}
      /\ HeapStart = Reserved + 2 * NodeSize /\ Heads = {Reserved, Reserved + NodeSize}
      /\ \A l \in Lists : block[l] \in SUBSET D /\ ListOK(s, l, block[l])
  BY Places, SizesAssumption DEF FileOK, ListsOK
<1>2. /\ s.size \in Nat /\ HeapStart <= s.size /\ DOMAIN s.node = Heads \cup D
      /\ \A l \in Lists : s.head[l] \in NodeType /\ s.node[HeadAt[l]] = s.head[l]
  BY <1>1, StoreFields DEF StoreOK
<1>3. \A o \in D : /\ o \in Nat /\ HeapStart <= o /\ o < s.size
                   /\ s.node[o].bytes \in Nat
                   /\ o + NodeSize + s.node[o].bytes = BlockEnd(s, o)
                   /\ BlockEnd(s, o) \in Nat /\ BlockEnd(s, o) <= s.size
  BY <1>1, BlockFields
<1>4. D = UNION {block[l] : l \in Lists}
  BY <1>1
<1> HIDE DEF block, D
<1>5. \A l \in Lists : Neighbours(s, s.head[l], block[l]) /\ s.head[l].bytes = Total(s, block[l])
  BY <1>1, ListFields DEF ListOK
<1>6. s.size \in HeapStart .. MaxFileSize - 1
  BY <1>1, <1>2, HeadsInFront
<1>7. DOMAIN s.node \subseteq Reserved .. s.size
  <2>1. \A o \in Heads : o \in Reserved .. s.size
    BY <1>1, <1>2
  <2>2. \A o \in D : o \in Reserved .. s.size
    BY <1>1, <1>2, <1>3
  <2> QED BY <2>1, <2>2, <1>2
<1>8. ASSUME NEW o \in D
      PROVE  /\ s.node[o].bytes \in 0 .. s.size
             /\ {s.node[o].prev, s.node[o].next} \subseteq {0} \cup DOMAIN s.node
  <2>1. s.node[o].bytes \in 0 .. s.size
    BY <1>1, <1>2, <1>3
  <2>2. PICK l \in Lists : o \in block[l]
    BY <1>4
  <2>3. s.node[o].prev \in block[l] \cup {0} /\ s.node[o].next \in block[l] \cup {0}
    BY <2>2, <1>5 DEF Neighbours
  <2> QED BY <2>1, <2>3, <1>1, <1>2
<1>9. ASSUME NEW l \in Lists
      PROVE  /\ s.head[l].bytes \in 0 .. s.size
             /\ {s.head[l].prev, s.head[l].next} \subseteq {0} \cup DOMAIN s.node
             /\ DOMAIN s.head[l] = {"bytes", "prev", "next"}
  <2>1. Total(s, block[l]) \in 0 .. s.size
    <3> DEFINE S == block[l]
    <3>1. S \in SUBSET D
      BY <1>1
    <3>2. S \in SUBSET (0 .. s.size)
      BY <3>1, <1>2, <1>3
    <3>3. \A x \in S : s.node[x].bytes \in Nat /\ x + NodeSize + s.node[x].bytes <= s.size
      BY <3>1, <1>3
    <3>4. \A x, y \in S : x < y => x + NodeSize + s.node[x].bytes <= y
      BY <3>1, <1>1 DEF Tiles, BlockEnd
    <3> HIDE DEF S
    <3>5. Total(s, S) \in 0 .. s.size
      BY <3>2, <3>3, <3>4, <1>2, TotalFits
    <3> QED BY <3>5 DEF S
  <2>2. s.head[l].prev \in block[l] \cup {0} /\ s.head[l].next \in block[l] \cup {0}
    BY <1>5 DEF Neighbours
  <2>3. DOMAIN s.head[l] = {"bytes", "prev", "next"}
    BY <1>2 DEF NodeType
  <2> QED BY <2>1, <2>2, <2>3, <1>1, <1>2, <1>5
<1>10. ASSUME NEW o \in DOMAIN s.node
       PROVE  /\ s.node[o].bytes \in 0 .. s.size
              /\ {s.node[o].prev, s.node[o].next} \subseteq {0} \cup DOMAIN s.node
  <2>1. CASE o \in D
    BY <2>1, <1>8
  <2>2. CASE o \in Heads
    <3>1. PICK l \in Lists : o = HeadAt[l]
      BY <2>2 DEF Heads
    <3> QED BY <3>1, <1>2, <1>9
  <2> QED BY <2>1, <2>2, <1>2
<1> QED BY <1>6, <1>7, <1>9, <1>10

\* The file that attach() initialises.
LEMMA EmptyFile ==
    ASSUME HeapStart < MaxFileSize
    PROVE  FileOK(Created, {}, {})
<1>1. HeapStart < MaxFileSize /\ MaxFileSize \in Nat
  BY SizesAssumption
<1>2. HeapStart \in Nat
  BY HeadsInFront
<1>3. EmptyNode \in NodeType
  BY DEF EmptyNode, NodeType
<1>4. /\ Created.size = HeapStart /\ \A l \in Lists : Created.head[l] = EmptyNode
      /\ \A o \in Heads : Created.node[o] = EmptyNode
      /\ Created \in [node : [Heads \cup {} -> NodeType], head : [Lists -> NodeType], size : Nat]
  BY <1>2, <1>3 DEF Created, Heads
<1>5. StoreOK(Created, {})
  <2>1. \A l \in Lists : Created.node[HeadAt[l]] = Created.head[l]
    BY <1>4 DEF Heads
  <2>2. \A o \in Heads \cup {} : Created.node[o].next = 0
    BY <1>4 DEF EmptyNode
  <2> QED BY <1>2, <1>4, <2>1, <2>2 DEF StoreOK
<1>6. Total(Created, {}) = 0
  <2>1. Total(Created, {}) \in 0 .. HeapStart
    BY <1>2, <1>4, TotalFits
  <2>2. Weight(Created, {}) \in [Nat -> Nat] /\ \A k \in Nat : Weight(Created, {})[k] = 0
    BY DEF Weight
  <2>3. SumTo(Weight(Created, {}), HeapStart) = SumTo(Weight(Created, {}), 0)
    BY <2>2, <1>2, SumLonger
  <2> QED BY <2>3, <1>2, <1>4, SumToEquations DEF Total
<1>7. \A l \in Lists : ListOK(Created, l, {})
  BY <1>4, <1>6 DEF ListOK, Linking, IsNext, IsLast, EmptyNode
<1>8. Tiles(Created, {}) /\ Parting(Created, {})
  BY <1>4 DEF Tiles, Parting
<1>9. {} \cup {} = {} /\ "allocated" \in Lists /\ "free" \in Lists
  BY Places
<1> QED BY <1>1, <1>4, <1>5, <1>7, <1>8, <1>9 DEF FileOK, ListsOK

\* The heads in memory are those on file.
LEMMA AttachedIsSame ==
    ASSUME NEW s, NEW A, NEW F, FileOK(s, A, F)
    PROVE  Attached(s) = s
<1>1. StoreOK(s, A \cup F)
  BY DEF FileOK, ListsOK
<1>2. [l \in Lists |-> s.node[HeadAt[l]]] = s.head
  BY <1>1 DEF StoreOK
<1> QED BY <1>1, <1>2 DEF StoreOK, Attached
==============================================================================
