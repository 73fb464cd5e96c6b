------------------------ MODULE PromisingQueueProofs ------------------------
(***************************************************************************)
(* The candidate queue, for any number of threads and candidates: its      *)
(* array is a heap, and the most urgent candidate leaves first.            *)
(*                                                                         *)
(* The loops of the heap are recursive functions.  A function that is      *)
(* defined by what it goes on with exists because the natural numbers are  *)
(* well founded, and what it returns follows from an invariant of the      *)
(* loop; that is the first part.                                           *)
(***************************************************************************)
EXTENDS PromisingQueue, WellFoundedInduction, SequenceTheorems, TLAPS

-----------------------------------------------------------------------------
(* Loops. *)

\* The natural numbers are well founded, ...
Below == {p \in Nat \X Nat : p[1] < p[2]}

LEMMA BelowIsWellFounded == IsWellFoundedOn(Below, Nat)
BY NatLessThanWellFounded DEF Below, OpToRel

\* ... so every set of them has a least one.
LEMMA Least ==
  ASSUME NEW S \in SUBSET Nat, S # {}
  PROVE  \E x \in S : \A y \in S : x <= y
<1>1. PICK x \in S : \A y \in S : <<y, x>> \notin Below
  BY BelowIsWellFounded, WFMin
<1>2. ASSUME NEW y \in S
      PROVE  x <= y
  <2>1. x \in Nat /\ y \in Nat
    OBVIOUS
  <2>2. ~(y < x)
    BY <1>1, <2>1 DEF Below
  <2> QED
    BY <2>1, <2>2
<1> QED
  BY <1>2

\* A loop from D into V: it goes on to next[x] in G, where m decreases, and
\* ends elsewhere with out[x].
Loop(f, D, G, next, out) ==
  \A x \in D : f[x] = IF x \in G THEN f[next[x]] ELSE out[x]

\* Its measure m decreases, so that it ends.
Ending(D, G, next, m) ==
  /\ G \in SUBSET D /\ next \in [G -> D] /\ m \in [D -> Nat]
  /\ \A x \in G : m[next[x]] < m[x]

\* What is in I stays there.
Closed(I, G, next) == \A x \in I : x \in G => next[x] \in I

Part(D, m, n) == {x \in D : m[x] < n}

\* Two that follow the loop up to some measure agree.
LEMMA LoopsAgree ==
  ASSUME NEW D, NEW G, NEW next, NEW out, NEW m, Ending(D, G, next, m),
         NEW a \in Nat, NEW b \in Nat, NEW f, NEW g,
         Loop(f, Part(D, m, a), G, next, out), Loop(g, Part(D, m, b), G, next, out)
  PROVE  \A x \in D : m[x] < a /\ m[x] < b => f[x] = g[x]
<1> USE DEF Ending
<1> DEFINE Bad == {x \in D : m[x] < a /\ m[x] < b /\ f[x] # g[x]}
           S == {m[x] : x \in Bad}
<1> SUFFICES ASSUME Bad # {} PROVE FALSE
  OBVIOUS
<1>1. PICK n \in S : \A k \in S : n <= k
  <2>1. S \in SUBSET Nat /\ S # {}
    OBVIOUS
  <2> QED
    BY <2>1, Least
<1>2. PICK x \in Bad : m[x] = n
  OBVIOUS
<1>3. x \in Part(D, m, a) /\ x \in Part(D, m, b) /\ x \in D /\ f[x] # g[x] /\ n \in Nat
  BY <1>2 DEF Part
<1>4. x \in G
  BY <1>3 DEF Loop
<1>5. next[x] \in D /\ m[next[x]] \in Nat /\ m[next[x]] < n
  BY <1>2, <1>4
<1>6. next[x] \notin Bad
  <2>1. next[x] \in Bad => m[next[x]] \in S
    OBVIOUS
  <2> HIDE DEF S, Bad
  <2> QED
    BY <2>1, <1>1, <1>3, <1>5
<1>7. f[next[x]] = g[next[x]]
  BY <1>2, <1>3, <1>5, <1>6
<1> QED
  BY <1>3, <1>4, <1>7 DEF Loop

\* Some function follows the loop everywhere.
LEMMA LoopEnds ==
  ASSUME NEW D, NEW V, NEW G, NEW next, NEW out \in [D -> V], NEW m, Ending(D, G, next, m)
  PROVE  \E f \in [D -> V] : Loop(f, D, G, next, out)
<1> USE DEF Ending
<1> DEFINE Sol(f, n) == f \in [Part(D, m, n) -> V] /\ Loop(f, Part(D, m, n), G, next, out)
           S == {n \in Nat : ~\E f : Sol(f, n)}
<1>1. S = {}
  <2> SUFFICES ASSUME S # {} PROVE FALSE
    OBVIOUS
  <2>1. PICK n \in S : \A k \in S : n <= k
    BY Least
  <2>2. CASE n = 0
    <3>1. Part(D, m, 0) = {}
      BY DEF Part
    <3>2. [x \in {} |-> x] \in [{} -> V]
      OBVIOUS
    <3>3. Sol([x \in {} |-> x], 0)
      BY <3>1, <3>2 DEF Loop
    <3> QED
      BY <2>2, <3>3
  <2>3. CASE n # 0
    <3>1. n - 1 \in Nat /\ n - 1 \notin S /\ n \in Nat
      BY <2>1, <2>3
    <3>2. PICK g : Sol(g, n - 1)
      BY <3>1
    <3> DEFINE f == [x \in Part(D, m, n) |-> IF x \in G THEN g[next[x]] ELSE out[x]]
    <3>3. ASSUME NEW x \in Part(D, m, n), x \in G
          PROVE  next[x] \in Part(D, m, n - 1) /\ next[x] \in Part(D, m, n)
      BY <3>1, <3>3 DEF Part
    <3>4. \A x \in Part(D, m, n) : x \in D
      BY DEF Part
    <3>5. f \in [Part(D, m, n) -> V]
      BY <3>2, <3>3, <3>4
    <3>6. ASSUME NEW x \in Part(D, m, n)
          PROVE  f[x] = IF x \in G THEN f[next[x]] ELSE out[x]
      <4>1. CASE x \in G
        <5>1. next[x] \in Part(D, m, n - 1) /\ next[x] \in Part(D, m, n)
          BY <3>3, <4>1
        <5>2. f[next[x]] = g[next[x]]
          BY <3>2, <5>1 DEF Loop
        <5> QED
          BY <4>1, <5>2
      <4>2. CASE x \notin G
        BY <4>2
      <4> QED
        BY <4>1, <4>2
    <3> HIDE DEF f
    <3>7. Sol(f, n)
      BY <3>5, <3>6 DEF Loop
    <3> QED
      BY <3>1, <3>7
  <2> QED
    BY <2>2, <2>3
<1> DEFINE at == [x \in D |-> CHOOSE g : Sol(g, m[x] + 1)]
           f == [x \in D |-> at[x][x]]
<1> HIDE DEF Sol
<1>2. ASSUME NEW x \in D
      PROVE  Sol(at[x], m[x] + 1) /\ x \in Part(D, m, m[x] + 1)
  <2>1. m[x] + 1 \in Nat /\ m[x] < m[x] + 1
    OBVIOUS
  <2>2. \E g : Sol(g, m[x] + 1)
    BY <1>1, <2>1
  <2>3. at[x] = CHOOSE g : Sol(g, m[x] + 1)
    OBVIOUS
  <2>4. Sol(at[x], m[x] + 1)
    BY <2>2, <2>3
  <2> QED
    BY <2>1, <2>4 DEF Part
<1> HIDE DEF at
<1>3. f \in [D -> V]
  BY <1>2 DEF Sol
<1>4. ASSUME NEW x \in D
      PROVE  f[x] = IF x \in G THEN f[next[x]] ELSE out[x]
  <2>1. at[x][x] = IF x \in G THEN at[x][next[x]] ELSE out[x]
    BY <1>2 DEF Sol, Loop
  <2>2. ASSUME x \in G
        PROVE  at[x][next[x]] = at[next[x]][next[x]]
    <3>1. /\ next[x] \in D /\ m[next[x]] < m[x] /\ m[next[x]] \in Nat /\ m[x] \in Nat
          /\ m[next[x]] + 1 \in Nat /\ m[x] + 1 \in Nat
      BY <2>2
    <3>2. /\ Loop(at[x], Part(D, m, m[x] + 1), G, next, out)
          /\ Loop(at[next[x]], Part(D, m, m[next[x]] + 1), G, next, out)
      BY <1>2, <3>1 DEF Sol
    <3>3. m[next[x]] < m[x] + 1 /\ m[next[x]] < m[next[x]] + 1
      BY <3>1
    <3> HIDE DEF f
    <3> QED
      BY <3>1, <3>2, <3>3, LoopsAgree
  <2>3. x \in G => next[x] \in D
    OBVIOUS
  <2> QED
    BY <2>1, <2>2, <2>3
<1> QED
  BY <1>3, <1>4 DEF Loop

\* What such a function returns, by an invariant of the loop.
LEMMA LoopReturns ==
  ASSUME NEW D, NEW G, NEW next, NEW out, NEW m, Ending(D, G, next, m),
         NEW f, Loop(f, D, G, next, out),
         NEW I \in SUBSET D, Closed(I, G, next), NEW x \in I
  PROVE  \E y \in I \ G : f[x] = out[y]
<1> USE DEF Ending, Closed
<1> DEFINE Bad == {z \in I : ~ \E y \in I \ G : f[z] = out[y]}
           S == {m[z] : z \in Bad}
<1> SUFFICES ASSUME Bad # {} PROVE FALSE
  OBVIOUS
<1>1. PICK n \in S : \A k \in S : n <= k
  <2>1. S \in SUBSET Nat /\ S # {}
    OBVIOUS
  <2> QED
    BY <2>1, Least
<1>2. PICK z \in Bad : m[z] = n
  OBVIOUS
<1>3. z \in G
  BY <1>2 DEF Loop
<1>4. next[z] \in I /\ m[next[z]] < n /\ m[next[z]] \in Nat /\ n \in Nat
  BY <1>2, <1>3
<1>5. next[z] \notin Bad
  <2>1. next[z] \in Bad => m[next[z]] \in S
    OBVIOUS
  <2> HIDE DEF S, Bad
  <2> QED
    BY <2>1, <1>1, <1>4
<1>6. f[z] = f[next[z]]
  BY <1>2, <1>3 DEF Loop
<1> QED
  BY <1>2, <1>4, <1>5, <1>6

-----------------------------------------------------------------------------
(* The heap. *)

\* Priorities are the numbers they are compared as.
Prio == [Candidates -> Nat]

\* The candidate at j does not precede its parent's.
InOrder(prio, h, j) == prio[h[j \div 2]] <= prio[h[j]]

Heap(prio, h) == \A j \in 2 .. Len(h) : InOrder(prio, h, j)

\* A heap but for the candidate at i.
Gap(prio, h, i) ==
  /\ \A j \in 2 .. Len(h) : j \div 2 # i /\ j # i => InOrder(prio, h, j)
  /\ \A j \in 2 .. Len(h) : j \div 2 = i /\ i > 1 => prio[h[i \div 2]] <= prio[h[j]]

\* ... which may have to move up only, or down only.
MayRise(prio, h, i) ==
  Gap(prio, h, i) /\ \A j \in 2 .. Len(h) : j \div 2 = i => InOrder(prio, h, j)
MaySink(prio, h, i) == Gap(prio, h, i) /\ (i > 1 => InOrder(prio, h, i))

\* The same candidates, each as often.
OneToOne(h) == \A i, j \in 1 .. Len(h) : h[i] = h[j] => i = j
Elements(h) == {h[i] : i \in 1 .. Len(h)}
Rearranged(g, h) == Len(g) = Len(h) /\ Elements(g) = Elements(h) /\ OneToOne(g)

\* What the swap of two candidates leaves.
LEMMA SwapEffect ==
  ASSUME NEW h \in Seq(Candidates), NEW i \in 1 .. Len(h), NEW j \in 1 .. Len(h), i # j
  PROVE  /\ Swap(h, i, j) \in Seq(Candidates)
         /\ Len(Swap(h, i, j)) = Len(h)
         /\ Swap(h, i, j)[i] = h[j] /\ Swap(h, i, j)[j] = h[i]
         /\ \A k \in 1 .. Len(h) : k # i /\ k # j => Swap(h, i, j)[k] = h[k]
BY DEF Swap

\* A swap loses no candidate and doubles none.
LEMMA SwapRearranges ==
  ASSUME NEW h \in Seq(Candidates), NEW i \in 1 .. Len(h), NEW j \in 1 .. Len(h), i # j,
         NEW g, Rearranged(h, g)
  PROVE  Rearranged(Swap(h, i, j), g)
<1> DEFINE s == Swap(h, i, j)
<1>1. /\ s \in Seq(Candidates) /\ Len(s) = Len(h)
      /\ s[i] = h[j] /\ s[j] = h[i]
      /\ \A k \in 1 .. Len(h) : k # i /\ k # j => s[k] = h[k]
  BY SwapEffect
<1> HIDE DEF s
<1>2. Elements(s) = Elements(h)
  <2>1. \A k \in 1 .. Len(h) : \E l \in 1 .. Len(h) : s[k] = h[l]
    BY <1>1
  <2>2. \A k \in 1 .. Len(h) : \E l \in 1 .. Len(h) : h[k] = s[l]
    BY <1>1
  <2>3. ASSUME NEW e \in Elements(s) PROVE e \in Elements(h)
    <3>1. PICK k \in 1 .. Len(s) : e = s[k]
      BY DEF Elements
    <3>2. k \in 1 .. Len(h)
      BY <3>1, <1>1
    <3> QED
      BY <3>1, <3>2, <2>1 DEF Elements
  <2>4. ASSUME NEW e \in Elements(h) PROVE e \in Elements(s)
    <3>1. PICK k \in 1 .. Len(h) : e = h[k]
      BY DEF Elements
    <3>2. PICK l \in 1 .. Len(h) : e = s[l]
      BY <3>1, <2>2
    <3>3. l \in 1 .. Len(s)
      BY <1>1
    <3> QED
      BY <3>2, <3>3 DEF Elements
  <2> QED
    BY <2>3, <2>4
<1>3. OneToOne(s)
  BY <1>1 DEF OneToOne, Rearranged
<1> QED
  BY <1>1, <1>2, <1>3 DEF Rearranged, s

\* A child index has one parent, which is smaller.
LEMMA Parents ==
  /\ \A j \in Nat \ {0, 1} : j \div 2 \in Nat /\ j \div 2 \in 1 .. j - 1
  /\ \A i \in Nat \ {0}, j \in Nat : j \div 2 = i <=> (j = 2 * i \/ j = 2 * i + 1)
<1>1. ASSUME NEW j \in Nat \ {0, 1} PROVE j \div 2 \in Nat /\ j \div 2 \in 1 .. j - 1
  BY SMT
<1>2. ASSUME NEW i \in Nat \ {0}, NEW j \in Nat PROVE j \div 2 = i <=> (j = 2 * i \/ j = 2 * i + 1)
  BY SMT
<1> QED
  BY <1>1, <1>2

\* A step of heapify_up.
LEMMA RiseStep ==
  ASSUME NEW prio \in Prio, NEW h \in Seq(Candidates), NEW i \in 2 .. Len(h),
         MayRise(prio, h, i), prio[h[i]] < prio[h[i \div 2]]
  PROVE  /\ i \div 2 \in 1 .. Len(h) /\ i \div 2 < i
         /\ MayRise(prio, Swap(h, i, i \div 2), i \div 2)
<1> DEFINE p == i \div 2
           s == Swap(h, i, p)
<1>1. p \in 1 .. Len(h) /\ p < i
  BY Parents
<1>2. /\ s \in Seq(Candidates) /\ Len(s) = Len(h)
      /\ s[i] = h[p] /\ s[p] = h[i]
      /\ \A k \in 1 .. Len(h) : k # i /\ k # p => s[k] = h[k]
  <2>1. i \in 1 .. Len(h) /\ i # p
    BY <1>1
  <2> HIDE DEF p
  <2> QED
    BY <2>1, <1>1, SwapEffect
<1>3. \A k \in 1 .. Len(h) : prio[h[k]] \in Nat
  BY DEF Prio
<1>4. \A j \in 2 .. Len(h) : j \div 2 \in 1 .. Len(h) /\ j \div 2 < j
  BY Parents
<1>5. \A j \in 2 .. Len(h) : j # i => prio[h[j \div 2]] <= prio[h[j]]
  BY DEF MayRise, Gap, InOrder
<1>6. prio[h[i]] < prio[h[p]]
  OBVIOUS
<1>7. \A j \in 2 .. Len(h) : j \div 2 = i => prio[h[p]] <= prio[h[j]]
  BY DEF MayRise, Gap
<1> HIDE DEF p, s
<1>8. ASSUME NEW j \in 2 .. Len(h), j # p
      PROVE  prio[s[j \div 2]] <= prio[s[j]]
  <2>1. CASE j = i
    BY <2>1, <1>2, <1>6, <1>1, <1>3 DEF p
  <2>2. CASE j # i /\ j \div 2 = i
    BY <2>2, <1>8, <1>2, <1>7, <1>1, <1>3
  <2>3. CASE j # i /\ j \div 2 = p
    BY <2>3, <1>8, <1>2, <1>5, <1>6, <1>1, <1>3
  <2>4. CASE j # i /\ j \div 2 # i /\ j \div 2 # p
    BY <2>4, <1>8, <1>2, <1>5, <1>4, <1>1, <1>3
  <2> QED
    BY <2>1, <2>2, <2>3, <2>4
<1>9. ASSUME NEW j \in 2 .. Len(h), j \div 2 = p, p > 1
      PROVE  prio[s[p \div 2]] <= prio[s[j]]
  <2>1. p \in 2 .. Len(h) /\ p \div 2 \in 1 .. Len(h) /\ p \div 2 < p
    BY <1>9, <1>1, <1>4
  <2>2. s[p \div 2] = h[p \div 2] /\ prio[h[p \div 2]] <= prio[h[p]]
    BY <2>1, <1>1, <1>2, <1>5
  <2>3. prio[h[p]] <= prio[s[j]]
    <3>1. CASE j = i
      BY <3>1, <1>2, <1>1, <1>3
    <3>2. CASE j # i
      <4>1. j # p
        BY <1>9, <1>4
      <4> QED
        BY <3>2, <4>1, <1>2, <1>5, <1>9
    <3> QED
      BY <3>1, <3>2
  <2>4. prio[h[p \div 2]] \in Nat /\ prio[h[p]] \in Nat /\ prio[s[j]] \in Nat
    <3>1. \A k \in 1 .. Len(h) : s[k] \in Candidates
      BY <1>2
    <3> QED
      BY <3>1, <2>1, <1>1, <1>3 DEF Prio
  <2> QED
    BY <2>2, <2>3, <2>4
<1>10. MayRise(prio, s, p)
  <2>1. \A j \in 2 .. Len(s) : j \div 2 = p => j # p
    BY <1>2, <1>4
  <2> QED
    BY <1>2, <1>8, <1>9, <2>1 DEF MayRise, Gap, InOrder
<1> QED
  BY <1>1, <1>10 DEF p, s

\* A step of heapify_down.  The index it finds is that of the child to go on
\* with, ...
LEMMA SmallestChild ==
  ASSUME NEW prio \in Prio, NEW h \in Seq(Candidates), NEW i \in 1 .. Len(h),
         NEW s, s = Smaller(prio, h, Smaller(prio, h, i, 2 * i), 2 * i + 1)
  PROVE  \/ s = i /\ \A j \in 2 .. Len(h) : j \div 2 = i => InOrder(prio, h, j)
         \/ /\ s \in 2 .. Len(h) /\ s \div 2 = i /\ i < s
            /\ prio[h[s]] < prio[h[i]]
            /\ \A j \in 2 .. Len(h) : j \div 2 = i => prio[h[s]] <= prio[h[j]]
<1> DEFINE l == 2 * i
           r == 2 * i + 1
           t == Smaller(prio, h, i, l)
<1>1. /\ i \in Nat \ {0} /\ l \in Nat /\ r \in Nat /\ Len(h) \in Nat
      /\ l >= 2 /\ r >= 2 /\ i < l /\ i < r
  OBVIOUS
<1>2. l \div 2 = i /\ r \div 2 = i /\ \A j \in Nat : j \div 2 = i => j \in {l, r}
  BY Parents, <1>1
<1>3. \A k \in 1 .. Len(h) : prio[h[k]] \in Nat
  BY DEF Prio
<1>4. /\ l <= Len(h) => l \in 1 .. Len(h) /\ l \in 2 .. Len(h)
      /\ r <= Len(h) => r \in 1 .. Len(h) /\ r \in 2 .. Len(h)
  BY <1>1
<1>5. s = Smaller(prio, h, t, r)
  OBVIOUS
<1>6. t = IF l <= Len(h) /\ prio[h[l]] < prio[h[i]] THEN l ELSE i
  BY DEF Smaller
<1>7. s = IF r <= Len(h) /\ prio[h[r]] < prio[h[t]] THEN r ELSE t
  BY <1>5 DEF Smaller
<1>8. \A j \in 2 .. Len(h) : j \div 2 = i => (j = l \/ j = r) /\ j <= Len(h)
  BY <1>2
<1> HIDE DEF l, r, t
<1>9. CASE s = i
  <2>1. i # l /\ i # r
    BY <1>1
  <2>2. s = t
    BY <2>1, <1>9, <1>7
  <2>3. t = i
    BY <2>2, <1>9
  <2>4. /\ l <= Len(h) => prio[h[i]] <= prio[h[l]]
        /\ r <= Len(h) => prio[h[i]] <= prio[h[r]]
    <3>1. ~ (l <= Len(h) /\ prio[h[l]] < prio[h[i]])
      BY <2>3, <2>1, <1>6
    <3>2. ~ (r <= Len(h) /\ prio[h[r]] < prio[h[i]])
      BY <2>3, <2>1, <1>7, <1>9
    <3> QED
      BY <3>1, <3>2, <1>3, <1>4
  <2> QED
    BY <2>4, <1>9, <1>8 DEF InOrder
<1>10. CASE s # i
  <2>1. /\ s \in 2 .. Len(h) /\ s \in {l, r}
        /\ prio[h[s]] < prio[h[i]]
        /\ l <= Len(h) => prio[h[s]] <= prio[h[l]]
        /\ r <= Len(h) => prio[h[s]] <= prio[h[r]]
    <3>1. CASE t = l /\ l <= Len(h) /\ prio[h[l]] < prio[h[i]]
      <4>1. CASE s = r /\ r <= Len(h) /\ prio[h[r]] < prio[h[l]]
        BY <3>1, <4>1, <1>1, <1>3, <1>4
      <4>2. CASE s = l /\ ~ (r <= Len(h) /\ prio[h[r]] < prio[h[l]])
        BY <3>1, <4>2, <1>1, <1>3, <1>4
      <4> QED
        BY <3>1, <4>1, <4>2, <1>7
    <3>2. CASE t = i /\ ~ (l <= Len(h) /\ prio[h[l]] < prio[h[i]])
      <4>1. s = r /\ r <= Len(h) /\ prio[h[r]] < prio[h[i]]
        BY <3>2, <1>10, <1>7
      <4> QED
        BY <3>2, <4>1, <1>1, <1>3, <1>4
    <3> QED
      BY <3>1, <3>2, <1>6
  <2> QED
    BY <2>1, <1>1, <1>2, <1>8
<1> QED
  BY <1>9, <1>10

\* ... and the gap moves there.
LEMMA SinkStep ==
  ASSUME NEW prio \in Prio, NEW h \in Seq(Candidates), NEW i \in 1 .. Len(h), Gap(prio, h, i),
         NEW s \in 2 .. Len(h), s \div 2 = i, i < s, prio[h[s]] < prio[h[i]],
         \A j \in 2 .. Len(h) : j \div 2 = i => prio[h[s]] <= prio[h[j]]
  PROVE  MaySink(prio, Swap(h, i, s), s)
<1> DEFINE g == Swap(h, i, s)
<1>1. /\ g \in Seq(Candidates) /\ Len(g) = Len(h)
      /\ g[i] = h[s] /\ g[s] = h[i]
      /\ \A k \in 1 .. Len(h) : k # i /\ k # s => g[k] = h[k]
  BY SwapEffect
<1>2. \A k \in 1 .. Len(h) : prio[h[k]] \in Nat
  BY DEF Prio
<1>3. \A j \in 2 .. Len(h) : j \div 2 \in 1 .. Len(h) /\ j \div 2 < j
  BY Parents
<1>4. /\ \A j \in 2 .. Len(h) : j \div 2 # i /\ j # i => prio[h[j \div 2]] <= prio[h[j]]
      /\ \A j \in 2 .. Len(h) : j \div 2 = i /\ i > 1 => prio[h[i \div 2]] <= prio[h[j]]
  BY DEF Gap, InOrder
<1> HIDE DEF g
<1>5. ASSUME NEW j \in 2 .. Len(h), j \div 2 # s
      PROVE  prio[g[j \div 2]] <= prio[g[j]]
  <2>1. CASE j = s
    BY <2>1, <1>1, <1>2
  <2>2. CASE j # s /\ j \div 2 = i
    BY <2>2, <1>1, <1>3
  <2>3. CASE j = i
    <3>1. j \div 2 \in 1 .. Len(h) /\ j \div 2 < i /\ i > 1
      BY <2>3, <1>3
    <3>2. g[j \div 2] = h[i \div 2] /\ g[j] = h[s]
      BY <2>3, <3>1, <1>1
    <3>3. prio[h[i \div 2]] <= prio[h[s]]
      BY <3>1, <1>4
    <3> QED
      BY <3>2, <3>3
  <2>4. CASE j # s /\ j # i /\ j \div 2 # i
    BY <2>4, <1>5, <1>1, <1>3, <1>4
  <2> QED
    BY <2>1, <2>2, <2>3, <2>4
<1>6. ASSUME NEW j \in 2 .. Len(h), j \div 2 = s
      PROVE  prio[g[s \div 2]] <= prio[g[j]]
  <2>1. j # i /\ j # s /\ j \div 2 # i
    BY <1>6, <1>3
  <2>2. g[j] = h[j] /\ g[s \div 2] = h[s]
    BY <2>1, <1>1
  <2> QED
    BY <2>1, <2>2, <1>4, <1>6
<1>7. MaySink(prio, g, s)
  <2>1. s \div 2 # s
    OBVIOUS
  <2> QED
    BY <2>1, <1>1, <1>5, <1>6 DEF MaySink, Gap, InOrder
<1> QED
  BY <1>7 DEF g

\* Where heapify_up stops, the whole array is a heap.
LEMMA RisenIsHeap ==
  ASSUME NEW prio \in Prio, NEW h \in Seq(Candidates), NEW i \in 1 .. Len(h),
         MayRise(prio, h, i), ~ (i \in 2 .. Len(h) /\ prio[h[i]] < prio[h[i \div 2]])
  PROVE  Heap(prio, h)
<1> SUFFICES ASSUME NEW j \in 2 .. Len(h) PROVE InOrder(prio, h, j)
  BY DEF Heap
<1>1. CASE j = i
  <2>1. i \div 2 \in 1 .. Len(h) /\ i \in 2 .. Len(h)
    BY <1>1, Parents
  <2>2. prio[h[i]] \in Nat /\ prio[h[i \div 2]] \in Nat
    BY <2>1 DEF Prio
  <2> QED
    BY <1>1, <2>1, <2>2 DEF InOrder
<1>2. CASE j # i
  BY <1>2 DEF MayRise, Gap
<1> QED
  BY <1>1, <1>2

\* Where heapify_down stops, only the candidate it started at may have to move,
\* and only up.
LEMMA SunkMayRise ==
  ASSUME NEW prio \in Prio, NEW h \in Seq(Candidates), NEW i \in 1 .. Len(h), NEW k \in 1 .. Len(h),
         Gap(prio, h, i), i # k => MaySink(prio, h, i),
         \A j \in 2 .. Len(h) : j \div 2 = i => InOrder(prio, h, j)
  PROVE  MayRise(prio, h, k)
<1>1. CASE i = k
  BY <1>1 DEF MayRise
<1>2. CASE i # k
  <2>1. \A j \in 2 .. Len(h) : InOrder(prio, h, j)
    BY <1>2 DEF MaySink, Gap
  <2>2. ASSUME NEW j \in 2 .. Len(h), j \div 2 = k, k > 1
        PROVE  prio[h[k \div 2]] <= prio[h[j]]
    <3>1. k \in 2 .. Len(h) /\ k \div 2 \in 1 .. Len(h)
      BY <2>2, Parents
    <3>2. prio[h[k \div 2]] \in Nat /\ prio[h[k]] \in Nat /\ prio[h[j]] \in Nat
      BY <3>1 DEF Prio
    <3>3. InOrder(prio, h, j) /\ InOrder(prio, h, k)
      BY <2>1, <3>1
    <3> QED
      BY <2>2, <3>2, <3>3 DEF InOrder
  <2> QED
    BY <2>1, <2>2 DEF MayRise, Gap
<1> QED
  BY <1>1, <1>2

-----------------------------------------------------------------------------
(* The loops of the heap. *)

\* heapify_up goes on while this holds, ...
Rises(prio, p) ==
  p[2] \in 2 .. Len(p[1]) /\ prio[p[1][p[2]]] < prio[p[1][p[2] \div 2]]
Risen(p) == <<Swap(p[1], p[2], p[2] \div 2), p[2] \div 2>>
UpBody(prio, f) == [p \in Positions |-> IF Rises(prio, p) THEN f[Risen(p)] ELSE p[1]]
UpLoop(prio) == CHOOSE f : f = UpBody(prio, f)

\* ... and heapify_down while this one does.
Smallest(prio, p) == Smaller(prio, p[1], Smaller(prio, p[1], p[2], 2 * p[2]), 2 * p[2] + 1)
Sinks(prio, p) == Smallest(prio, p) # p[2]
Sunk(prio, p) == <<Swap(p[1], p[2], Smallest(prio, p)), Smallest(prio, p)>>
DownBody(prio, f) == [p \in Positions |-> IF Sinks(prio, p) THEN f[Sunk(prio, p)] ELSE p[1]]
DownLoop(prio) == CHOOSE f : f = DownBody(prio, f)

\* The functions of the model are those loops.
LEMMA LoopsOfTheCode ==
  ASSUME NEW prio, NEW h, NEW i
  PROVE  /\ HeapifyUp(prio, h, i) = UpLoop(prio)[<<h, i>>]
         /\ HeapifyDown(prio, h, i) = DownLoop(prio)[<<h, i>>]
<1>1. HeapifyUp(prio, h, i) = UpLoop(prio)[<<h, i>>]
  BY SMT DEF HeapifyUp, UpLoop, UpBody, Rises, Risen
<1>2. HeapifyDown(prio, h, i) = DownLoop(prio)[<<h, i>>]
  BY SMT DEF HeapifyDown, DownLoop, DownBody, Sinks, Sunk, Smallest
<1> QED
  BY <1>1, <1>2

\* The parts of a position.
LEMMA PositionParts ==
  ASSUME NEW p \in Positions
  PROVE  p[1] \in Seq(Candidates) /\ p[2] \in Nat \ {0} /\ Len(p[1]) \in Nat /\ p = <<p[1], p[2]>>
BY DEF Positions

\* heapify_up goes on to a smaller index of the same array.
LEMMA RisesOn ==
  ASSUME NEW prio, NEW p \in Positions, Rises(prio, p)
  PROVE  Risen(p) \in Positions /\ p[2] \div 2 \in 1 .. p[2] - 1
<1>1. /\ p[1] \in Seq(Candidates) /\ Len(p[1]) \in Nat
      /\ p[2] \in 2 .. Len(p[1]) /\ p[2] \in Nat \ {0, 1}
  BY PositionParts DEF Rises
<1>2. p[2] \div 2 \in Nat /\ p[2] \div 2 \in 1 .. p[2] - 1
  BY <1>1, Parents
<1>3. p[2] \in 1 .. Len(p[1]) /\ p[2] \div 2 \in 1 .. Len(p[1]) /\ p[2] # p[2] \div 2
  BY <1>1, <1>2
<1>4. Swap(p[1], p[2], p[2] \div 2) \in Seq(Candidates)
  BY <1>1, <1>3, SwapEffect
<1> QED
  BY <1>2, <1>4 DEF Risen, Positions

\* heapify_down goes on to a larger index that is still in the array.
LEMMA SinksOn ==
  ASSUME NEW prio, NEW p \in Positions, Sinks(prio, p)
  PROVE  /\ Sunk(prio, p) \in Positions
         /\ p[2] \in 1 .. Len(p[1])
         /\ Smallest(prio, p) \in p[2] + 1 .. Len(p[1])
<1> DEFINE h == p[1]
           i == p[2]
           s == Smallest(prio, p)
<1>1. h \in Seq(Candidates) /\ i \in Nat \ {0} /\ Len(h) \in Nat
  BY PositionParts
<1>2. s # i /\ s \in Nat /\ (s = 2 * i \/ s = 2 * i + 1) /\ s <= Len(h)
  <2>1. s # i
    BY DEF Sinks
  <2> DEFINE t == Smaller(prio, h, i, 2 * i)
  <2>2. t = i \/ (t = 2 * i /\ t <= Len(h))
    BY DEF Smaller
  <2>3. s = t \/ (s = 2 * i + 1 /\ s <= Len(h))
    BY DEF Smallest, Smaller
  <2> HIDE DEF t, s, h, i
  <2> QED
    BY <1>1, <2>1, <2>2, <2>3
<1>3. i \in 1 .. Len(h) /\ s \in 1 .. Len(h) /\ s \in i + 1 .. Len(h)
  BY <1>1, <1>2
<1> HIDE DEF s, h, i
<1>4. Swap(h, i, s) \in Seq(Candidates)
  BY <1>1, <1>2, <1>3, SwapEffect
<1>5. <<Swap(h, i, s), s>> \in Positions
  BY <1>2, <1>3, <1>4 DEF Positions
<1> QED
  BY <1>3, <1>5 DEF Sunk, s, h, i

\* heapify_up ends, and returns what an invariant of the loop says.
LEMMA UpReturns ==
  ASSUME NEW prio, NEW I \in SUBSET Positions,
         \A p \in I : Rises(prio, p) => Risen(p) \in I,
         NEW start \in I
  PROVE  \E p \in I : ~ Rises(prio, p) /\ UpLoop(prio)[start] = p[1]
<1> DEFINE G == {p \in Positions : Rises(prio, p)}
           next == [p \in G |-> Risen(p)]
           out == [p \in Positions |-> p[1]]
           m == [p \in Positions |-> p[2]]
<1>1. next \in [G -> Positions] /\ \A p \in G : m[next[p]] < m[p]
  <2>1. ASSUME NEW p \in G
        PROVE  Risen(p) \in Positions /\ m[Risen(p)] < m[p]
    <3>1. Risen(p) \in Positions /\ p[2] \div 2 \in 1 .. p[2] - 1 /\ p[2] \in Nat
      BY RisesOn, PositionParts
    <3>2. Risen(p)[2] = p[2] \div 2
      BY DEF Risen
    <3> QED
      BY <3>1, <3>2
  <2> QED
    BY <2>1
<1>2. out \in [Positions -> Seq(Candidates)] /\ m \in [Positions -> Nat]
  BY PositionParts
<1>3. G \in SUBSET Positions
  OBVIOUS
<1>4. PICK f \in [Positions -> Seq(Candidates)] : Loop(f, Positions, G, next, out)
  <2> HIDE DEF G, next, out, m
  <2> QED
    BY <1>1, <1>2, <1>3, LoopEnds DEF Ending
<1>5. \A p \in Positions : f[p] = IF Rises(prio, p) THEN f[Risen(p)] ELSE p[1]
  BY <1>4 DEF Loop
<1>6. f = UpBody(prio, f)
  BY <1>5 DEF UpBody
<1>7. UpLoop(prio) = UpBody(prio, UpLoop(prio))
  BY <1>6 DEF UpLoop
<1> DEFINE loop == UpLoop(prio)
<1>8. Loop(loop, Positions, G, next, out)
  <2> HIDE DEF loop
  <2>1. \A p \in Positions : loop[p] = IF Rises(prio, p) THEN loop[Risen(p)] ELSE p[1]
    BY <1>7 DEF UpBody, loop
  <2> QED
    BY <2>1 DEF Loop
<1>9. Closed(I, G, next) /\ Ending(Positions, G, next, m)
  <2>1. Closed(I, G, next)
    BY DEF Closed
  <2> HIDE DEF G, next, m
  <2>2. Ending(Positions, G, next, m)
    BY <1>1, <1>2, <1>3 DEF Ending
  <2> QED
    BY <2>1, <2>2
<1> HIDE DEF loop
<1>10. \E p \in I \ G : loop[start] = out[p]
  <2> HIDE DEF G, next, out, m
  <2> QED
    BY <1>8, <1>9, LoopReturns
<1> QED
  BY <1>10 DEF loop

\* The same of heapify_down.
LEMMA DownReturns ==
  ASSUME NEW prio, NEW I \in SUBSET Positions,
         \A p \in I : Sinks(prio, p) => Sunk(prio, p) \in I,
         NEW start \in I
  PROVE  \E p \in I : ~ Sinks(prio, p) /\ DownLoop(prio)[start] = p[1]
<1> DEFINE G == {p \in Positions : Sinks(prio, p)}
           next == [p \in G |-> Sunk(prio, p)]
           out == [p \in Positions |-> p[1]]
           m == [p \in Positions |-> IF p[2] <= Len(p[1]) THEN Len(p[1]) - p[2] ELSE 0]
<1>1. next \in [G -> Positions] /\ \A p \in G : m[next[p]] < m[p]
  <2>1. ASSUME NEW p \in G
        PROVE  Sunk(prio, p) \in Positions /\ m[Sunk(prio, p)] < m[p]
    <3> DEFINE s == Smallest(prio, p)
    <3>1. /\ Sunk(prio, p) \in Positions /\ p[2] \in 1 .. Len(p[1]) /\ s \in p[2] + 1 .. Len(p[1])
          /\ p[1] \in Seq(Candidates) /\ Len(p[1]) \in Nat
      BY SinksOn, PositionParts
    <3>2. Sunk(prio, p)[1] = Swap(p[1], p[2], s) /\ Sunk(prio, p)[2] = s
      BY DEF Sunk
    <3>3. Len(Sunk(prio, p)[1]) = Len(p[1])
      <4> HIDE DEF s
      <4>1. s \in 1 .. Len(p[1]) /\ s # p[2]
        BY <3>1
      <4> QED
        BY <3>1, <3>2, <4>1, SwapEffect
    <3> HIDE DEF s
    <3> QED
      BY <3>1, <3>2, <3>3
  <2> QED
    BY <2>1
<1>2. out \in [Positions -> Seq(Candidates)] /\ m \in [Positions -> Nat]
  BY PositionParts
<1>3. G \in SUBSET Positions
  OBVIOUS
<1>4. PICK f \in [Positions -> Seq(Candidates)] : Loop(f, Positions, G, next, out)
  <2> HIDE DEF G, next, out, m
  <2> QED
    BY <1>1, <1>2, <1>3, LoopEnds DEF Ending
<1>5. \A p \in Positions : f[p] = IF Sinks(prio, p) THEN f[Sunk(prio, p)] ELSE p[1]
  BY <1>4 DEF Loop
<1>6. f = DownBody(prio, f)
  BY <1>5 DEF DownBody
<1>7. DownLoop(prio) = DownBody(prio, DownLoop(prio))
  BY <1>6 DEF DownLoop
<1> DEFINE loop == DownLoop(prio)
<1>8. Loop(loop, Positions, G, next, out)
  <2> HIDE DEF loop
  <2>1. \A p \in Positions : loop[p] = IF Sinks(prio, p) THEN loop[Sunk(prio, p)] ELSE p[1]
    BY <1>7 DEF DownBody, loop
  <2> QED
    BY <2>1 DEF Loop
<1>9. Closed(I, G, next) /\ Ending(Positions, G, next, m)
  <2>1. Closed(I, G, next)
    BY DEF Closed
  <2> HIDE DEF G, next, m
  <2>2. Ending(Positions, G, next, m)
    BY <1>1, <1>2, <1>3 DEF Ending
  <2> QED
    BY <2>1, <2>2
<1> HIDE DEF loop
<1>10. \E p \in I \ G : loop[start] = out[p]
  <2> HIDE DEF G, next, out, m
  <2> QED
    BY <1>8, <1>9, LoopReturns
<1> QED
  BY <1>10 DEF loop

\* heapify_up makes a heap of an array whose candidate at i may have to rise.
LEMMA HeapifyUpRepairs ==
  ASSUME NEW prio \in Prio, NEW h \in Seq(Candidates), NEW i \in 1 .. Len(h),
         OneToOne(h), MayRise(prio, h, i)
  PROVE  /\ HeapifyUp(prio, h, i) \in Seq(Candidates)
         /\ Rearranged(HeapifyUp(prio, h, i), h)
         /\ Heap(prio, HeapifyUp(prio, h, i))
<1> DEFINE Inside == {p \in Positions : /\ Rearranged(p[1], h) /\ p[2] \in 1 .. Len(p[1])
                                        /\ MayRise(prio, p[1], p[2])}
<1>1. ASSUME NEW p \in Inside, Rises(prio, p)
      PROVE  Risen(p) \in Inside
  <2> DEFINE g == p[1]
             j == p[2]
  <2>1. g \in Seq(Candidates) /\ j \in 2 .. Len(g) /\ prio[g[j]] < prio[g[j \div 2]]
    BY <1>1, PositionParts DEF Rises
  <2>2. Rearranged(g, h) /\ MayRise(prio, g, j)
    OBVIOUS
  <2> HIDE DEF g, j
  <2>3. /\ j \div 2 \in 1 .. Len(g) /\ j \div 2 < j
        /\ MayRise(prio, Swap(g, j, j \div 2), j \div 2)
    BY <2>1, <2>2, RiseStep
  <2>4. j \in 1 .. Len(g) /\ j # j \div 2
    BY <2>1, <2>3
  <2>5. Len(Swap(g, j, j \div 2)) = Len(g) /\ Rearranged(Swap(g, j, j \div 2), h)
    BY <2>1, <2>2, <2>3, <2>4, SwapEffect, SwapRearranges
  <2>6. Risen(p) = <<Swap(g, j, j \div 2), j \div 2>> /\ Risen(p) \in Positions
    BY <1>1, RisesOn DEF Risen, g, j
  <2> QED
    BY <2>3, <2>5, <2>6
<1>2. <<h, i>> \in Inside
  BY DEF Rearranged, Positions
<1>3. PICK p \in Inside : ~ Rises(prio, p) /\ UpLoop(prio)[<<h, i>>] = p[1]
  <2>1. Inside \in SUBSET Positions /\ \A p \in Inside : Rises(prio, p) => Risen(p) \in Inside
    BY <1>1
  <2> HIDE DEF Inside
  <2> QED
    BY <2>1, <1>2, UpReturns
<1>4. HeapifyUp(prio, h, i) = p[1]
  BY <1>3, LoopsOfTheCode
<1>5. Heap(prio, p[1])
  <2>1. /\ p[1] \in Seq(Candidates) /\ p[2] \in 1 .. Len(p[1]) /\ MayRise(prio, p[1], p[2])
        /\ ~ (p[2] \in 2 .. Len(p[1]) /\ prio[p[1][p[2]]] < prio[p[1][p[2] \div 2]])
    BY <1>3, PositionParts DEF Rises
  <2> QED
    BY <2>1, RisenIsHeap
<1> QED
  BY <1>3, <1>4, <1>5, PositionParts

\* heapify_down settles a gap, up to what may still have to rise.
LEMMA HeapifyDownRepairs ==
  ASSUME NEW prio \in Prio, NEW h \in Seq(Candidates), NEW k \in 1 .. Len(h),
         OneToOne(h), Gap(prio, h, k)
  PROVE  /\ HeapifyDown(prio, h, k) \in Seq(Candidates)
         /\ Rearranged(HeapifyDown(prio, h, k), h)
         /\ MayRise(prio, HeapifyDown(prio, h, k), k)
<1> DEFINE Inside == {p \in Positions : /\ Rearranged(p[1], h) /\ p[2] \in 1 .. Len(p[1])
                                        /\ Gap(prio, p[1], p[2])
                                        /\ p[2] # k => MaySink(prio, p[1], p[2])}
<1>1. ASSUME NEW p \in Inside
      PROVE  /\ p[1] \in Seq(Candidates) /\ p[2] \in 1 .. Len(p[1]) /\ Rearranged(p[1], h)
             /\ Gap(prio, p[1], p[2])
             /\ \/ /\ Smallest(prio, p) = p[2]
                   /\ \A j \in 2 .. Len(p[1]) : j \div 2 = p[2] => InOrder(prio, p[1], j)
                \/ /\ Smallest(prio, p) \in 2 .. Len(p[1]) /\ Smallest(prio, p) \div 2 = p[2]
                   /\ p[2] < Smallest(prio, p)
                   /\ prio[p[1][Smallest(prio, p)]] < prio[p[1][p[2]]]
                   /\ \A j \in 2 .. Len(p[1]) :
                        j \div 2 = p[2] => prio[p[1][Smallest(prio, p)]] <= prio[p[1][j]]
  <2>1. /\ p[1] \in Seq(Candidates) /\ p[2] \in 1 .. Len(p[1])
        /\ Rearranged(p[1], h) /\ Gap(prio, p[1], p[2])
    BY PositionParts
  <2> DEFINE g == p[1]
             j == p[2]
             s == Smallest(prio, p)
  <2>2. s = Smaller(prio, g, Smaller(prio, g, j, 2 * j), 2 * j + 1)
    BY DEF Smallest
  <2> HIDE DEF Inside, g, j, s
  <2>3. g \in Seq(Candidates) /\ j \in 1 .. Len(g)
    BY <2>1 DEF g, j
  <2>4. \/ s = j /\ \A c \in 2 .. Len(g) : c \div 2 = j => InOrder(prio, g, c)
        \/ /\ s \in 2 .. Len(g) /\ s \div 2 = j /\ j < s
           /\ prio[g[s]] < prio[g[j]]
           /\ \A c \in 2 .. Len(g) : c \div 2 = j => prio[g[s]] <= prio[g[c]]
    BY <2>2, <2>3, SmallestChild
  <2> QED
    BY <2>1, <2>4 DEF g, j, s
<1>2. ASSUME NEW p \in Inside, Sinks(prio, p)
      PROVE  Sunk(prio, p) \in Inside
  <2> DEFINE g == p[1]
             j == p[2]
             s == Smallest(prio, p)
  <2>1. /\ g \in Seq(Candidates) /\ j \in 1 .. Len(g) /\ Rearranged(g, h) /\ Gap(prio, g, j)
        /\ s \in 2 .. Len(g) /\ s \div 2 = j /\ j < s /\ prio[g[s]] < prio[g[j]]
        /\ \A c \in 2 .. Len(g) : c \div 2 = j => prio[g[s]] <= prio[g[c]]
    BY <1>1, <1>2 DEF Sinks
  <2>2. Sunk(prio, p) = <<Swap(g, j, s), s>> /\ Sunk(prio, p) \in Positions
    BY <1>2, SinksOn DEF Sunk
  <2> HIDE DEF g, j, s
  <2>3. MaySink(prio, Swap(g, j, s), s)
    BY <2>1, SinkStep
  <2>4. s \in 1 .. Len(g) /\ j # s
    BY <2>1
  <2>5. Len(Swap(g, j, s)) = Len(g) /\ Rearranged(Swap(g, j, s), h)
    BY <2>1, <2>4, SwapEffect, SwapRearranges
  <2> QED
    BY <2>2, <2>3, <2>4, <2>5 DEF MaySink
<1>3. <<h, k>> \in Inside
  BY DEF Rearranged, Positions
<1>4. PICK p \in Inside : ~ Sinks(prio, p) /\ DownLoop(prio)[<<h, k>>] = p[1]
  <2>1. Inside \in SUBSET Positions /\ \A p \in Inside : Sinks(prio, p) => Sunk(prio, p) \in Inside
    BY <1>2
  <2> HIDE DEF Inside
  <2> QED
    BY <2>1, <1>3, DownReturns
<1>5. HeapifyDown(prio, h, k) = p[1]
  BY <1>4, LoopsOfTheCode
<1>6. MayRise(prio, p[1], k)
  <2>1. /\ p[1] \in Seq(Candidates) /\ p[2] \in 1 .. Len(p[1]) /\ Gap(prio, p[1], p[2])
        /\ \A j \in 2 .. Len(p[1]) : j \div 2 = p[2] => InOrder(prio, p[1], j)
    BY <1>1, <1>4 DEF Sinks
  <2>2. p[2] # k => MaySink(prio, p[1], p[2])
    OBVIOUS
  <2>3. k \in 1 .. Len(p[1])
    BY DEF Rearranged
  <2> QED
    BY <2>1, <2>2, <2>3, SunkMayRise
<1> QED
  BY <1>1, <1>5, <1>6

\* From the top down there is nothing above to repair.
LEMMA TopMayRise ==
  ASSUME NEW prio, NEW h, MayRise(prio, h, 1)
  PROVE  Heap(prio, h)
<1> SUFFICES ASSUME NEW j \in 2 .. Len(h) PROVE InOrder(prio, h, j)
  BY DEF Heap
<1> QED
  BY DEF MayRise, Gap

\* promising_queue_remove and _update_priority: down, then up.
LEMMA DownUpRepairs ==
  ASSUME NEW prio \in Prio, NEW h \in Seq(Candidates), NEW i \in 1 .. Len(h),
         OneToOne(h), Gap(prio, h, i)
  PROVE  LET g == HeapifyUp(prio, HeapifyDown(prio, h, i), i)
         IN  g \in Seq(Candidates) /\ Rearranged(g, h) /\ Heap(prio, g)
<1> DEFINE d == HeapifyDown(prio, h, i)
           g == HeapifyUp(prio, d, i)
<1>1. d \in Seq(Candidates) /\ Rearranged(d, h) /\ MayRise(prio, d, i)
  BY HeapifyDownRepairs
<1> HIDE DEF d
<1>2. i \in 1 .. Len(d) /\ OneToOne(d)
  BY <1>1 DEF Rearranged
<1>3. g \in Seq(Candidates) /\ Rearranged(g, d) /\ Heap(prio, g)
  BY <1>1, <1>2, HeapifyUpRepairs
<1> HIDE DEF g
<1>4. Rearranged(g, h)
  BY <1>1, <1>3 DEF Rearranged
<1> QED
  BY <1>3, <1>4 DEF g, d

\* The candidate on top precedes every other.
LEMMA TopIsFirst ==
  ASSUME NEW prio \in Prio, NEW h \in Seq(Candidates), Heap(prio, h), NEW i \in 1 .. Len(h)
  PROVE  prio[h[1]] <= prio[h[i]]
<1> DEFINE S == {j \in 1 .. Len(h) : prio[h[j]] < prio[h[1]]}
<1>0. \A j \in 1 .. Len(h) : prio[h[j]] \in Nat
  BY DEF Prio
<1>1. S = {}
  <2> SUFFICES ASSUME S # {} PROVE FALSE
    OBVIOUS
  <2>1. PICK j \in S : \A k \in S : j <= k
    <3>1. S \in SUBSET Nat
      OBVIOUS
    <3> HIDE DEF S
    <3> QED
      BY <3>1, Least
  <2>2. j \in 2 .. Len(h) /\ 1 \in 1 .. Len(h)
    BY <1>0
  <2>3. j \div 2 \in 1 .. Len(h) /\ j \div 2 < j
    BY <2>2, Parents
  <2>4. prio[h[j \div 2]] <= prio[h[j]]
    BY <2>2 DEF Heap, InOrder
  <2>5. j \div 2 \in S
    BY <2>2, <2>3, <2>4, <1>0
  <2> QED
    BY <2>1, <2>2, <2>3, <2>5
<1>2. 1 \in 1 .. Len(h)
  OBVIOUS
<1> QED
  BY <1>0, <1>1, <1>2

-----------------------------------------------------------------------------
(* What is put in, taken out and changed. *)

\* A new candidate at the end may have to rise.
LEMMA AppendMayRise ==
  ASSUME NEW prio \in Prio, NEW h \in Seq(Candidates), OneToOne(h), Heap(prio, h),
         NEW c \in Candidates, c \notin Elements(h)
  PROVE  LET g == Append(h, c)
         IN  /\ g \in Seq(Candidates) /\ Len(h) + 1 \in 1 .. Len(g) /\ Len(g) = Len(h) + 1
             /\ OneToOne(g) /\ Elements(g) = Elements(h) \cup {c}
             /\ MayRise(prio, g, Len(h) + 1)
<1> DEFINE g == Append(h, c)
           n == Len(h) + 1
<1>1. /\ g \in Seq(Candidates) /\ n \in Nat \ {0} /\ n \in 1 .. Len(g) /\ Len(g) = n
      /\ 1 .. Len(g) = 1 .. Len(h) \cup {n} /\ n \notin 1 .. Len(h)
      /\ g[n] = c /\ \A k \in 1 .. Len(h) : g[k] = h[k]
  OBVIOUS
<1> HIDE DEF g
<1>2. OneToOne(g)
  <2> SUFFICES ASSUME NEW i \in 1 .. Len(g), NEW j \in 1 .. Len(g), g[i] = g[j] PROVE i = j
    BY DEF OneToOne
  <2>1. \A k \in 1 .. Len(h) : h[k] # c
    BY DEF Elements
  <2>2. CASE i \in 1 .. Len(h) /\ j \in 1 .. Len(h)
    BY <2>2, <1>1 DEF OneToOne
  <2>3. CASE ~ (i \in 1 .. Len(h) /\ j \in 1 .. Len(h))
    BY <2>3, <2>1, <1>1
  <2> QED
    BY <2>2, <2>3
<1>3. Elements(g) = Elements(h) \cup {c}
  <2>1. ASSUME NEW e \in Elements(g) PROVE e \in Elements(h) \cup {c}
    <3>1. PICK k \in 1 .. Len(g) : e = g[k]
      BY DEF Elements
    <3> QED
      BY <3>1, <1>1 DEF Elements
  <2>2. ASSUME NEW e \in Elements(h) PROVE e \in Elements(g)
    <3>1. PICK k \in 1 .. Len(h) : e = h[k]
      BY DEF Elements
    <3>2. k \in 1 .. Len(g) /\ e = g[k]
      BY <3>1, <1>1
    <3> QED
      BY <3>2 DEF Elements
  <2>3. c \in Elements(g)
    BY <1>1 DEF Elements
  <2> QED
    BY <2>1, <2>2, <2>3
<1>4. \A j \in 2 .. Len(g) : j \div 2 # n /\ j \div 2 \in 1 .. Len(h)
  BY Parents, <1>1
<1>5. ASSUME NEW j \in 2 .. Len(g), j # n
      PROVE  InOrder(prio, g, j)
  <2>1. j \in 2 .. Len(h) /\ j \in 1 .. Len(h) /\ j \div 2 \in 1 .. Len(h)
    BY <1>1, <1>4, <1>5
  <2>2. g[j] = h[j] /\ g[j \div 2] = h[j \div 2]
    BY <2>1, <1>1
  <2> QED
    BY <2>1, <2>2 DEF Heap, InOrder
<1>6. MayRise(prio, g, n)
  BY <1>4, <1>5 DEF MayRise, Gap
<1> QED
  BY <1>1, <1>2, <1>3, <1>6 DEF g

\* Where a candidate is taken out, the one that replaces it may be out of place.
LEMMA WithoutEffect ==
  ASSUME NEW prio \in Prio, NEW h \in Seq(Candidates), OneToOne(h), Heap(prio, h),
         NEW i \in 1 .. Len(h)
  PROVE  LET w == Without(h, i)
         IN  /\ w \in Seq(Candidates) /\ Len(w) = Len(h) - 1
             /\ OneToOne(w) /\ Elements(w) = Elements(h) \ {h[i]}
             /\ i < Len(h) => Gap(prio, w, i)
             /\ i = Len(h) => Heap(prio, w)
<1> DEFINE w == Without(h, i)
           n == Len(h)
<1>1. /\ n \in Nat \ {0} /\ i \in 1 .. n /\ 1 .. n = 1 .. n - 1 \cup {n} /\ n \notin 1 .. n - 1
      /\ w \in Seq(Candidates) /\ Len(w) = n - 1
      /\ i < n => i \in 1 .. n - 1 /\ w[i] = h[n]
      /\ \A k \in 1 .. n - 1 : k # i => w[k] = h[k]
  <2> DEFINE front == SubSeq(h, 1, Len(h) - 1)
  <2>1. /\ n \in Nat \ {0} /\ i \in 1 .. n /\ 1 .. n = (1 .. n - 1) \cup {n}
        /\ n \notin 1 .. n - 1 /\ (i < n => i \in 1 .. n - 1)
    OBVIOUS
  <2>2. front \in Seq(Candidates) /\ Len(front) = n - 1 /\ \A k \in 1 .. n - 1 : front[k] = h[k]
    <3>1. 1 \in Int /\ n - 1 \in Int /\ \A k \in 1 .. n - 1 : h[k] \in Candidates
      BY <2>1
    <3>2. /\ front \in Seq(Candidates)
          /\ Len(front) = IF 1 <= n - 1 THEN n - 1 - 1 + 1 ELSE 0
          /\ \A k \in 1 .. n - 1 - 1 + 1 : front[k] = h[1 + k - 1]
      <4>1. front = SubSeq(h, 1, n - 1)
        OBVIOUS
      <4> HIDE DEF front, n
      <4> QED
        BY <3>1, <4>1, SubSeqProperties
    <3> HIDE DEF front
    <3> HIDE DEF n
    <3>3. /\ n - 1 - 1 + 1 = n - 1 /\ \A k \in 1 .. n - 1 : 1 + k - 1 = k
          /\ (1 <= n - 1 \/ n - 1 = 0)
      <4>1. n \in Nat /\ n # 0
        BY <2>1
      <4> QED
        BY <4>1
    <3>4. Len(front) = n - 1
      BY <3>2, <3>3
    <3>5. \A k \in 1 .. n - 1 : front[k] = h[k]
      BY <3>2, <3>3
    <3> QED
      BY <3>2, <3>4, <3>5
  <2>3. h[n] \in Candidates
    BY <2>1
  <2> HIDE DEF front, n
  <2>4. w = IF i < n THEN [front EXCEPT ![i] = h[n]] ELSE front
    BY DEF Without, front, n
  <2>5. CASE i < n
    BY <2>1, <2>2, <2>3, <2>4, <2>5
  <2>6. CASE ~ (i < n)
    BY <2>1, <2>2, <2>4, <2>6
  <2> QED
    BY <2>1, <2>5, <2>6 DEF n
<1>2. \A j, k \in 1 .. n : h[j] = h[k] => j = k
  BY DEF OneToOne
<1> HIDE DEF w, n
<1>3. OneToOne(w)
  <2> SUFFICES ASSUME NEW j \in 1 .. n - 1, NEW k \in 1 .. n - 1, w[j] = w[k] PROVE j = k
    BY <1>1 DEF OneToOne
  <2>1. j \in 1 .. n /\ k \in 1 .. n /\ n \in 1 .. n /\ j # n /\ k # n
    BY <1>1
  <2>2. j < n /\ k < n
    BY <1>1, <2>1
  <2>3. CASE j = i /\ k # i
    BY <2>1, <2>2, <2>3, <1>1, <1>2
  <2>4. CASE j # i /\ k = i
    BY <2>1, <2>2, <2>4, <1>1, <1>2
  <2>5. CASE j # i /\ k # i
    BY <2>1, <2>5, <1>1, <1>2
  <2> QED
    BY <2>3, <2>4, <2>5
<1>4. Elements(w) = Elements(h) \ {h[i]}
  <2>1. Elements(h) = {h[k] : k \in 1 .. n}
    BY DEF Elements, n
  <2>2. Elements(w) = {w[k] : k \in 1 .. n - 1}
    BY <1>1 DEF Elements
  <2>3. ASSUME NEW e \in Elements(w) PROVE e \in Elements(h) \ {h[i]}
    <3>1. PICK k \in 1 .. n - 1 : e = w[k]
      BY <2>2
    <3>2. k \in 1 .. n /\ k # n /\ k < n /\ n \in 1 .. n
      BY <1>1
    <3>3. CASE k = i
      BY <3>1, <3>2, <3>3, <2>1, <1>1, <1>2
    <3>4. CASE k # i
      BY <3>1, <3>2, <3>4, <2>1, <1>1, <1>2
    <3> QED
      BY <3>3, <3>4
  <2>4. ASSUME NEW e \in Elements(h), e # h[i] PROVE e \in Elements(w)
    <3>1. PICK k \in 1 .. n : e = h[k]
      BY <2>1
    <3>2. k # i
      BY <3>1, <2>4
    <3>3. CASE k = n
      <4>1. i < n
        BY <3>2, <3>3, <1>1
      <4> QED
        BY <4>1, <3>1, <3>3, <2>2, <1>1
    <3>4. CASE k # n
      BY <3>1, <3>2, <3>4, <2>2, <1>1
    <3> QED
      BY <3>3, <3>4
  <2> QED
    BY <2>3, <2>4
<1>5. \A j \in 2 .. n : j \div 2 \in 1 .. n - 1 /\ j \div 2 < j /\ prio[h[j \div 2]] <= prio[h[j]]
  <2>1. \A j \in 2 .. n : j \div 2 \in 1 .. n - 1 /\ j \div 2 < j
    BY Parents, <1>1
  <2> QED
    BY <2>1 DEF Heap, InOrder, n
<1>6. ASSUME NEW j \in 2 .. n - 1, j # i, j \div 2 # i
      PROVE  InOrder(prio, w, j)
  <2>1. j \in 2 .. n /\ j \in 1 .. n - 1
    BY <1>1
  <2>2. w[j] = h[j] /\ w[j \div 2] = h[j \div 2]
    BY <2>1, <1>1, <1>5, <1>6
  <2> QED
    BY <2>1, <2>2, <1>5 DEF InOrder
<1>7. ASSUME NEW j \in 2 .. n - 1, j \div 2 = i, i > 1
      PROVE  prio[w[i \div 2]] <= prio[w[j]]
  <2>1. j \in 2 .. n /\ j \in 1 .. n - 1 /\ i \in 2 .. n /\ i \in 1 .. n - 1
    BY <1>1, <1>5, <1>7
  <2>2. i \div 2 \in 1 .. n - 1 /\ i \div 2 # i /\ j # i
    BY <2>1, <1>1, <1>5, <1>7
  <2>3. w[j] = h[j] /\ w[i \div 2] = h[i \div 2]
    BY <2>1, <2>2, <1>1
  <2>4. prio[h[i \div 2]] <= prio[h[i]] /\ prio[h[i]] <= prio[h[j]]
    BY <2>1, <1>5, <1>7
  <2>5. prio[h[i \div 2]] \in Nat /\ prio[h[i]] \in Nat /\ prio[h[j]] \in Nat
    <3>1. i \div 2 \in 1 .. Len(h) /\ i \in 1 .. Len(h) /\ j \in 1 .. Len(h)
      BY <2>1, <2>2, <1>1 DEF n
    <3> QED
      BY <3>1 DEF Prio
  <2> QED
    BY <2>3, <2>4, <2>5
<1>8. Gap(prio, w, i)
  BY <1>1, <1>6, <1>7 DEF Gap
<1>9. ASSUME i = n
      PROVE  Heap(prio, w)
  <2> SUFFICES ASSUME NEW j \in 2 .. n - 1 PROVE InOrder(prio, w, j)
    BY <1>1 DEF Heap
  <2>1. j # i /\ j \div 2 # i
    <3>1. j \in 2 .. n
      BY <1>1
    <3> QED
      BY <3>1, <1>1, <1>5, <1>9
  <2> QED
    BY <2>1, <1>6
<1> QED
  BY <1>1, <1>3, <1>4, <1>8, <1>9 DEF w, n

\* A candidate whose priority changes may be out of place.
LEMMA NewPriorityGap ==
  ASSUME NEW prio \in Prio, NEW h \in Seq(Candidates), OneToOne(h), Heap(prio, h),
         NEW i \in 1 .. Len(h), NEW new \in Prio,
         \A c \in Candidates : c # h[i] => new[c] = prio[c]
  PROVE  Gap(new, h, i)
<1>1. \A j \in 2 .. Len(h) : /\ j \in 1 .. Len(h) /\ j \div 2 \in 1 .. Len(h) /\ j \div 2 < j
                             /\ prio[h[j \div 2]] <= prio[h[j]]
  <2>1. \A j \in 2 .. Len(h) : j \in 1 .. Len(h) /\ j \div 2 \in 1 .. Len(h) /\ j \div 2 < j
    BY Parents
  <2> QED
    BY <2>1 DEF Heap, InOrder
<1>2. \A j \in 1 .. Len(h) : j # i => new[h[j]] = prio[h[j]]
  BY DEF OneToOne
<1>3. \A j \in 1 .. Len(h) : prio[h[j]] \in Nat
  BY DEF Prio
<1>4. ASSUME NEW j \in 2 .. Len(h), j \div 2 # i, j # i
      PROVE  InOrder(new, h, j)
  BY <1>1, <1>2, <1>4 DEF InOrder
<1>5. ASSUME NEW j \in 2 .. Len(h), j \div 2 = i, i > 1
      PROVE  new[h[i \div 2]] <= new[h[j]]
  <2>1. i \in 2 .. Len(h)
    BY <1>5
  <2>2. /\ j \in 1 .. Len(h) /\ j # i /\ prio[h[i]] <= prio[h[j]]
        /\ i \div 2 \in 1 .. Len(h) /\ i \div 2 # i /\ prio[h[i \div 2]] <= prio[h[i]]
    BY <2>1, <1>1, <1>5
  <2> QED
    BY <2>2, <1>2, <1>3
<1> QED
  BY <1>4, <1>5 DEF Gap

\* heapify_down leaves an array that has become empty.
LEMMA NothingToSink ==
  ASSUME NEW prio, NEW h \in Seq(Candidates), Len(h) = 0
  PROVE  HeapifyDown(prio, h, 1) = h
<1> DEFINE I == {<<h, 1>>}
<1>1. I \in SUBSET Positions /\ <<h, 1>> \in I
  <2>1. 1 \in Nat \ {0}
    OBVIOUS
  <2>2. <<h, 1>> \in Positions
    BY <2>1 DEF Positions
  <2> QED
    BY <2>2
<1>2. \A p \in I : ~ Sinks(prio, p)
  BY DEF Sinks, Smallest, Smaller
<1>3. PICK p \in I : DownLoop(prio)[<<h, 1>>] = p[1]
  <2> HIDE DEF I
  <2> QED
    BY <1>1, <1>2, DownReturns
<1> QED
  BY <1>3, LoopsOfTheCode

-----------------------------------------------------------------------------
(* The invariant. *)

\* HeapOrdered, that the array can double, and that nothing is left in a queue
\* that was destroyed.
QueueInv ==
  /\ TypeOK /\ capacity > 0
  /\ OneToOne(entries) /\ Heap(priority, entries)
  /\ ~ freed => Queued = {c \in Candidates : place[c] = "queue"}
  /\ freed => entries = <<>>

\* The queued candidates are what the array holds, before a step and after it.
LEMMA QueuedIsElements == Queued = Elements(entries)
BY DEF Queued, Elements
LEMMA QueuedNext == Queued' = Elements(entries')
BY DEF Queued, Elements

\* Priorities compare as numbers.
LEMMA PrioritiesAreNumbers ==
  ASSUME TypeOK
  PROVE  priority \in Prio
BY QueueParameters DEF TypeOK, Prio

\* An empty array is a heap.
LEMMA EmptyIsHeap ==
  ASSUME NEW prio, NEW h, h = <<>>
  PROVE  OneToOne(h) /\ Heap(prio, h) /\ Elements(h) = {}
<1>1. Len(h) = 0
  OBVIOUS
<1>2. 1 .. 0 = {} /\ 2 .. 0 = {}
  OBVIOUS
<1> QED
  BY <1>1, <1>2 DEF OneToOne, Heap, Elements

\* Steps that leave the array and the owners of the candidates.
LEMMA WaitingKeeps ==
  ASSUME QueueInv, UNCHANGED <<entries, capacity, priority, place, freed>>,
         pc' \in [Threads -> {"out", "dequeue", "not_empty"}], shutdown' \in BOOLEAN
  PROVE  QueueInv'
<1>1. Queued' = Queued
  BY DEF Queued
<1> QED
  BY <1>1 DEF QueueInv, TypeOK

\* Wakeups send threads to dequeue only.
LEMMA WokenTyped ==
  ASSUME TypeOK
  PROVE  /\ \A t \in Threads : Woken(t) \in [Threads -> {"out", "dequeue", "not_empty"}]
         /\ \A p \in Signalled : p \in [Threads -> {"out", "dequeue", "not_empty"}]
         /\ Released \in [Threads -> {"out", "dequeue", "not_empty"}]
<1>1. \A t \in Threads : Woken(t) \in [Threads -> {"out", "dequeue", "not_empty"}]
  BY DEF TypeOK, Woken
<1>2. \A p \in Signalled : p \in [Threads -> {"out", "dequeue", "not_empty"}]
  BY <1>1 DEF TypeOK, Signalled
<1>3. Released \in [Threads -> {"out", "dequeue", "not_empty"}]
  BY DEF TypeOK, Released
<1> QED
  BY <1>1, <1>2, <1>3

\* promising_queue_enqueue.
LEMMA EnqueueKeeps ==
  ASSUME QueueInv, NEW t \in Threads, NEW c \in Candidates, Enqueue(t, c)
  PROVE  QueueInv'
<1> DEFINE g == Append(entries, c)
           n == Len(entries) + 1
           h == HeapifyUp(priority, g, n)
<1>1. /\ priority \in Prio /\ entries \in Seq(Candidates) /\ OneToOne(entries)
      /\ Heap(priority, entries) /\ Len(entries) \in Nat /\ Len(entries) <= capacity
      /\ capacity \in Nat /\ capacity > 0
  BY PrioritiesAreNumbers DEF QueueInv, TypeOK
<1>2. place[c] = t /\ t # "queue" /\ ~ freed
  BY QueueParameters DEF Enqueue, Idle
<1>3. c \notin Elements(entries)
  BY <1>2, QueuedIsElements DEF QueueInv
<1>4. /\ g \in Seq(Candidates) /\ n \in 1 .. Len(g) /\ Len(g) = n
      /\ OneToOne(g) /\ Elements(g) = Elements(entries) \cup {c} /\ MayRise(priority, g, n)
  BY <1>1, <1>3, AppendMayRise
<1> HIDE DEF g
<1>5. h \in Seq(Candidates) /\ Rearranged(h, g) /\ Heap(priority, h)
  <2> HIDE DEF n
  <2> QED
    BY <1>1, <1>4, HeapifyUpRepairs
<1>6. /\ entries' = h /\ place' = [place EXCEPT ![c] = "queue"]
      /\ UNCHANGED <<shutdown, priority, freed>>
  BY DEF Enqueue, g
<1>7. capacity' \in Nat /\ capacity' > 0 /\ n <= capacity'
  <2>1. capacity' = IF Len(entries) = capacity THEN capacity * 2 ELSE capacity
    BY DEF Enqueue
  <2> QED
    BY <2>1, <1>1
<1> HIDE DEF h
<1>8. pc' \in [Threads -> {"out", "dequeue", "not_empty"}]
  BY WokenTyped DEF Enqueue, QueueInv
<1>9. TypeOK'
  <2>1. entries' \in Seq(Candidates) /\ Len(entries') <= capacity'
    BY <1>4, <1>5, <1>6, <1>7 DEF Rearranged
  <2>2. place' \in [Candidates -> Threads \cup {"queue", "removed"}]
    BY <1>6 DEF QueueInv, TypeOK
  <2> QED
    BY <2>1, <2>2, <1>6, <1>7, <1>8 DEF QueueInv, TypeOK
<1>10. OneToOne(entries') /\ Heap(priority', entries')
  BY <1>5, <1>6 DEF Rearranged
<1>11. Queued' = {d \in Candidates : place'[d] = "queue"}
  <2>1. Queued' = Queued \cup {c}
    BY <1>4, <1>5, <1>6, QueuedIsElements, QueuedNext DEF Rearranged
  <2>2. Queued = {d \in Candidates : place[d] = "queue"}
    BY <1>2 DEF QueueInv
  <2>3. place'[c] = "queue" /\ \A d \in Candidates : d # c => place'[d] = place[d]
    BY <1>6 DEF QueueInv, TypeOK
  <2> QED
    BY <2>1, <2>2, <2>3
<1> QED
  BY <1>2, <1>6, <1>7, <1>9, <1>10, <1>11 DEF QueueInv

\* A candidate leaves: the array holds the others, in a heap.
LEMMA LeavingKeeps ==
  ASSUME QueueInv, ~ freed, NEW c \in Queued, NEW owner \in Threads \cup {"removed"},
         entries' \in Seq(Candidates), Len(entries') = Len(entries) - 1,
         OneToOne(entries'), Heap(priority, entries'), Elements(entries') = Elements(entries) \ {c},
         place' = [place EXCEPT ![c] = owner],
         pc' \in [Threads -> {"out", "dequeue", "not_empty"}],
         UNCHANGED <<capacity, shutdown, priority, freed>>
  PROVE  QueueInv'
<1>1. Len(entries) \in Nat /\ Len(entries) <= capacity /\ capacity \in Nat /\ c \in Candidates
  BY DEF QueueInv, TypeOK
<1>2. Len(entries') <= capacity
  BY <1>1
<1>3. owner # "queue"
  BY QueueParameters
<1>4. place' \in [Candidates -> Threads \cup {"queue", "removed"}]
  BY DEF QueueInv, TypeOK
<1>5. TypeOK'
  BY <1>2, <1>4 DEF QueueInv, TypeOK
<1>6. Queued' = {d \in Candidates : place'[d] = "queue"}
  <2>1. Queued' = Queued \ {c}
    BY QueuedIsElements, QueuedNext
  <2>2. Queued = {d \in Candidates : place[d] = "queue"}
    BY DEF QueueInv
  <2>3. place'[c] = owner /\ \A d \in Candidates : d # c => place'[d] = place[d]
    BY <1>1 DEF QueueInv, TypeOK
  <2> QED
    BY <2>1, <2>2, <2>3, <1>3
<1> QED
  BY <1>5, <1>6 DEF QueueInv

\* promising_queue_dequeue with something to take.
LEMMA DequeueFirstKeeps ==
  ASSUME QueueInv, NEW t \in Threads, DequeueFirst(t)
  PROVE  QueueInv'
<1> DEFINE w == Without(entries, 1)
           h == HeapifyDown(priority, w, 1)
<1>1. /\ priority \in Prio /\ entries \in Seq(Candidates) /\ OneToOne(entries)
      /\ Heap(priority, entries) /\ Len(entries) \in Nat
  BY PrioritiesAreNumbers DEF QueueInv, TypeOK
<1>2. 1 \in 1 .. Len(entries)
  <2>1. entries # <<>>
    BY DEF DequeueFirst
  <2> QED
    BY <2>1, <1>1
<1>3. /\ w \in Seq(Candidates) /\ Len(w) = Len(entries) - 1
      /\ OneToOne(w) /\ Elements(w) = Elements(entries) \ {entries[1]}
      /\ 1 < Len(entries) => Gap(priority, w, 1)
  BY <1>1, <1>2, WithoutEffect
<1> HIDE DEF w
<1>4. /\ h \in Seq(Candidates) /\ Len(h) = Len(w) /\ Elements(h) = Elements(w)
      /\ OneToOne(h) /\ Heap(priority, h)
  <2>1. CASE 1 < Len(entries)
    <3>1. 1 \in 1 .. Len(w) /\ Gap(priority, w, 1)
      BY <2>1, <1>1, <1>3
    <3>2. h \in Seq(Candidates) /\ Rearranged(h, w) /\ MayRise(priority, h, 1)
      BY <1>1, <1>3, <3>1, HeapifyDownRepairs
    <3> HIDE DEF h
    <3> QED
      BY <3>2, TopMayRise DEF Rearranged
  <2>2. CASE ~ (1 < Len(entries))
    <3>1. Len(w) = 0
      BY <2>2, <1>1, <1>2, <1>3
    <3>2. h = w
      BY <3>1, <1>3, NothingToSink
    <3>3. w = <<>>
      BY <3>1, <1>3, EmptySeq
    <3> QED
      BY <3>2, <3>3, <1>3, EmptyIsHeap
  <2> QED
    BY <2>1, <2>2
<1>5. entries' = h /\ ~ freed
  BY DEF DequeueFirst, w
<1> HIDE DEF h
<1>6. entries[1] \in Queued
  BY <1>2 DEF Queued
<1>7. /\ place' = [place EXCEPT ![entries[1]] = t]
      /\ UNCHANGED <<capacity, shutdown, priority, freed>>
      /\ pc' \in [Threads -> {"out", "dequeue", "not_empty"}]
  BY DEF DequeueFirst, QueueInv, TypeOK
<1> QED
  BY <1>3, <1>4, <1>5, <1>6, <1>7, LeavingKeeps

\* A queued candidate is found.
LEMMA IndexOfQueued ==
  ASSUME NEW c \in Queued
  PROVE  IndexOf(c) \in 1 .. Len(entries) /\ entries[IndexOf(c)] = c
<1>1. \E i \in 1 .. Len(entries) : entries[i] = c
  BY DEF Queued
<1> QED
  BY <1>1 DEF IndexOf

\* promising_queue_remove.
LEMMA RemoveKeeps ==
  ASSUME QueueInv, NEW t \in Threads, NEW c \in Candidates, Remove(t, c)
  PROVE  QueueInv'
<1> DEFINE i == IndexOf(c)
           w == Without(entries, i)
           h == RemoveAt(priority, entries, i)
<1>1. /\ priority \in Prio /\ entries \in Seq(Candidates) /\ OneToOne(entries)
      /\ Heap(priority, entries) /\ Len(entries) \in Nat
  BY PrioritiesAreNumbers DEF QueueInv, TypeOK
<1>2. c \in Queued /\ ~ freed /\ i \in 1 .. Len(entries) /\ entries[i] = c
  BY IndexOfQueued DEF Remove, Idle
<1> HIDE DEF i
<1>3. /\ w \in Seq(Candidates) /\ Len(w) = Len(entries) - 1
      /\ OneToOne(w) /\ Elements(w) = Elements(entries) \ {c}
      /\ i < Len(entries) => Gap(priority, w, i)
      /\ i = Len(entries) => Heap(priority, w)
  BY <1>1, <1>2, WithoutEffect
<1>4. h = IF i < Len(entries) THEN HeapifyUp(priority, HeapifyDown(priority, w, i), i) ELSE w
  BY DEF RemoveAt
<1> HIDE DEF w
<1>5. /\ h \in Seq(Candidates) /\ Len(h) = Len(w) /\ Elements(h) = Elements(w)
      /\ OneToOne(h) /\ Heap(priority, h)
  <2>1. CASE i < Len(entries)
    <3>1. i \in 1 .. Len(w) /\ Gap(priority, w, i)
      BY <2>1, <1>1, <1>2, <1>3
    <3>2. h = HeapifyUp(priority, HeapifyDown(priority, w, i), i)
      BY <2>1, <1>4
    <3> HIDE DEF h
    <3>3. h \in Seq(Candidates) /\ Rearranged(h, w) /\ Heap(priority, h)
      BY <1>1, <1>3, <3>1, <3>2, DownUpRepairs
    <3> QED
      BY <3>3 DEF Rearranged
  <2>2. CASE ~ (i < Len(entries))
    <3>1. i = Len(entries) /\ h = w
      BY <2>2, <1>1, <1>2, <1>4
    <3> QED
      BY <3>1, <1>3
  <2> QED
    BY <2>1, <2>2
<1>6. /\ entries' = h /\ place' = [place EXCEPT ![c] = "removed"]
      /\ UNCHANGED <<capacity, shutdown, priority, pc, freed>>
  BY DEF Remove, i
<1> HIDE DEF h
<1>7. pc' \in [Threads -> {"out", "dequeue", "not_empty"}]
  BY <1>6 DEF QueueInv, TypeOK
<1> QED
  BY <1>2, <1>3, <1>5, <1>6, <1>7, LeavingKeeps

\* promising_queue_update_priority.
LEMMA UpdatePriorityKeeps ==
  ASSUME QueueInv, NEW t \in Threads, NEW c \in Candidates, NEW p \in Priorities,
         UpdatePriority(t, c, p)
  PROVE  QueueInv'
<1> DEFINE i == IndexOf(c)
           h == HeapifyUp(priority', HeapifyDown(priority', entries, i), i)
<1>1. /\ priority \in Prio /\ entries \in Seq(Candidates) /\ OneToOne(entries)
      /\ Heap(priority, entries) /\ Len(entries) \in Nat
  BY PrioritiesAreNumbers DEF QueueInv, TypeOK
<1>2. c \in Queued /\ ~ freed /\ i \in 1 .. Len(entries) /\ entries[i] = c
  BY IndexOfQueued DEF UpdatePriority, Idle
<1>3. /\ priority' = [priority EXCEPT ![c] = p] /\ entries' = h
      /\ UNCHANGED <<capacity, shutdown, place, pc, freed>>
  BY DEF UpdatePriority
<1> HIDE DEF i
<1>4. /\ priority' \in [Candidates -> Priorities] /\ priority' \in Prio
      /\ \A d \in Candidates : d # entries[i] => priority'[d] = priority[d]
  BY <1>2, <1>3, QueueParameters DEF QueueInv, TypeOK, Prio
<1>5. Gap(priority', entries, i)
  BY <1>1, <1>2, <1>4, NewPriorityGap
<1>6. h \in Seq(Candidates) /\ Rearranged(h, entries) /\ Heap(priority', h)
  BY <1>1, <1>2, <1>4, <1>5, DownUpRepairs
<1> HIDE DEF h
<1>7. TypeOK'
  BY <1>3, <1>4, <1>6 DEF QueueInv, TypeOK, Rearranged
<1>8. Queued' = Queued
  BY <1>3, <1>6, QueuedIsElements, QueuedNext DEF Rearranged
<1> QED
  BY <1>2, <1>3, <1>6, <1>7, <1>8 DEF QueueInv, Rearranged

\* A priority that changes outside the queue is of no candidate in it.
LEMMA SetPriorityKeeps ==
  ASSUME QueueInv, NEW t \in Threads, NEW c \in Candidates, NEW p \in Priorities,
         SetPriority(t, c, p)
  PROVE  QueueInv'
<1>1. /\ place[c] = t /\ priority' = [priority EXCEPT ![c] = p]
      /\ UNCHANGED <<entries, capacity, shutdown, place, pc, freed>>
  BY DEF SetPriority
<1>2. t # "queue"
  BY QueueParameters
<1>3. TypeOK'
  BY <1>1 DEF QueueInv, TypeOK
<1>4. Queued' = Queued
  BY <1>1 DEF Queued
<1>5. Heap(priority', entries')
  <2>1. CASE freed
    BY <2>1, <1>1, EmptyIsHeap DEF QueueInv
  <2>2. CASE ~ freed
    <3>1. c \notin Queued
      BY <1>1, <1>2, <2>2 DEF QueueInv
    <3>2. \A j \in 1 .. Len(entries) : priority'[entries[j]] = priority[entries[j]]
      BY <3>1, <1>1 DEF Queued, QueueInv, TypeOK
    <3>3. ASSUME NEW j \in 2 .. Len(entries)
          PROVE  InOrder(priority', entries, j)
      <4>1. j \in 1 .. Len(entries) /\ j \div 2 \in 1 .. Len(entries)
        <5>1. Len(entries) \in Nat
          BY DEF QueueInv, TypeOK
        <5> QED
          BY <5>1, Parents
      <4> QED
        BY <4>1, <3>2 DEF InOrder, QueueInv, Heap
    <3> QED
      BY <3>3, <1>1 DEF Heap
  <2> QED
    BY <2>1, <2>2
<1> QED
  BY <1>1, <1>3, <1>4, <1>5 DEF QueueInv

\* promising_queue_destroy.
LEMMA DestroyKeeps ==
  ASSUME QueueInv, Destroy
  PROVE  QueueInv'
<1>1. entries' = <<>> /\ freed' = TRUE /\ shutdown' = TRUE /\ UNCHANGED <<capacity, priority, place>>
  BY DEF Destroy
<1>2. pc' \in [Threads -> {"out", "dequeue", "not_empty"}]
  BY WokenTyped DEF Destroy, QueueInv
<1>3. OneToOne(entries') /\ Heap(priority', entries')
  BY <1>1, EmptyIsHeap
<1>4. TypeOK'
  <2>1. entries' \in Seq(Candidates) /\ Len(entries') <= capacity'
    BY <1>1 DEF QueueInv, TypeOK
  <2> QED
    BY <2>1, <1>1, <1>2 DEF QueueInv, TypeOK
<1> QED
  BY <1>1, <1>3, <1>4 DEF QueueInv

\* A new queue.
LEMMA InitQueueInv == Init => QueueInv
<1> SUFFICES ASSUME Init PROVE QueueInv
  OBVIOUS
<1>1. entries = <<>> /\ capacity = InitialCap /\ ~ freed /\ freed \in BOOLEAN /\ shutdown \in BOOLEAN
  BY DEF Init
<1>2. OneToOne(entries) /\ Heap(priority, entries) /\ Queued = {}
  BY <1>1, EmptyIsHeap, QueuedIsElements
<1>3. capacity \in Nat /\ capacity > 0
  BY <1>1, QueueParameters
<1>4. TypeOK
  <2>1. entries \in Seq(Candidates) /\ Len(entries) <= capacity
    BY <1>1, <1>3
  <2>2. /\ priority \in [Candidates -> Priorities]
        /\ place \in [Candidates -> Threads \cup {"queue", "removed"}]
        /\ pc \in [Threads -> {"out", "dequeue", "not_empty"}]
    BY DEF Init
  <2> QED
    BY <2>1, <2>2, <1>1, <1>3 DEF TypeOK
<1>5. {c \in Candidates : place[c] = "queue"} = {}
  BY QueueParameters DEF Init
<1> QED
  BY <1>1, <1>2, <1>3, <1>4, <1>5 DEF QueueInv

\* Every step keeps the invariant, ...
LEMMA NextQueueInv == QueueInv /\ [Next]_qvars => QueueInv'
<1> SUFFICES ASSUME QueueInv, [Next]_qvars PROVE QueueInv'
  OBVIOUS
<1>1. ASSUME NEW t \in Threads, CallDequeue(t)
      PROVE  QueueInv'
  BY <1>1, WaitingKeeps DEF CallDequeue, QueueInv, TypeOK
<1>2. ASSUME NEW t \in Threads, DequeueNothing(t)
      PROVE  QueueInv'
  BY <1>2, WaitingKeeps DEF DequeueNothing, QueueInv, TypeOK
<1>3. ASSUME NEW t \in Threads, SpuriousWakeup(t)
      PROVE  QueueInv'
  BY <1>3, WaitingKeeps, WokenTyped DEF SpuriousWakeup, QueueInv, TypeOK
<1>4. ASSUME NEW t \in Threads, Shutdown(t)
      PROVE  QueueInv'
  BY <1>4, WaitingKeeps, WokenTyped DEF Shutdown, QueueInv
<1>5. CASE UNCHANGED qvars
  <2>1. UNCHANGED <<entries, capacity, priority, place, freed>> /\ pc' = pc /\ shutdown' = shutdown
    BY <1>5 DEF qvars
  <2> QED
    BY <2>1, WaitingKeeps DEF QueueInv, TypeOK
<1>6. CASE Next
  BY <1>6, <1>1, <1>2, <1>3, <1>4, DequeueFirstKeeps, EnqueueKeeps, RemoveKeeps,
     UpdatePriorityKeeps, SetPriorityKeeps, DestroyKeeps DEF Next, Dequeue
<1> QED
  BY <1>5, <1>6

\* ... so it always holds.
LEMMA QueueInvariant == Spec => []QueueInv
BY InitQueueInv, NextQueueInv, PTL DEF Spec

-----------------------------------------------------------------------------
(* The theorems. *)

\* The array is a heap for the priorities the candidates have now and holds
\* each queued candidate once, however many threads enqueue, dequeue, remove
\* and change priorities.
THEOREM QueueIsHeap == Spec => []HeapOrdered
<1>1. QueueInv => HeapOrdered
  BY DEF QueueInv, HeapOrdered, OneToOne, Heap, InOrder
<1> QED
  BY <1>1, QueueInvariant, PTL

\* promising_queue_dequeue hands out a candidate that no other precedes.
THEOREM FirstIsMostUrgent == Spec => MostUrgentFirst
<1> DEFINE First == \A c \in Queued :
                      place'[c] \in Threads => \A d \in Queued : priority[c] <= priority[d]
<1>1. QueueInv /\ [Next]_qvars => [First]_qvars
  <2> SUFFICES ASSUME QueueInv, Next, NEW c \in Queued, place'[c] \in Threads, NEW d \in Queued
               PROVE  priority[c] <= priority[d]
    OBVIOUS
  <2>1. /\ entries \in Seq(Candidates) /\ priority \in Prio /\ Heap(priority, entries)
        /\ place \in [Candidates -> Threads \cup {"queue", "removed"}]
    BY PrioritiesAreNumbers DEF QueueInv, TypeOK
  <2>2. ~ freed
    <3>1. freed => Queued = {}
      BY EmptyIsHeap, QueuedIsElements DEF QueueInv
    <3> QED
      BY <3>1
  <2>3. c \in Candidates /\ place[c] = "queue"
    BY <2>2 DEF QueueInv
  <2>4. "queue" \notin Threads /\ "removed" \notin Threads
    BY QueueParameters
  <2>5. place'[c] # "queue" /\ place'[c] # "removed"
    BY <2>4
  <2>6. \E t \in Threads : DequeueFirst(t)
    <3>1. ASSUME NEW t \in Threads, NEW e \in Candidates, Enqueue(t, e)
          PROVE  FALSE
      BY <3>1, <2>1, <2>3, <2>5 DEF Enqueue
    <3>2. ASSUME NEW t \in Threads, NEW e \in Candidates, Remove(t, e)
          PROVE  FALSE
      BY <3>2, <2>1, <2>3, <2>5 DEF Remove
    <3>3. place' # place
      BY <2>3, <2>5
    <3> QED
      BY <3>1, <3>2, <3>3 DEF Next, CallDequeue, Dequeue, DequeueNothing, SpuriousWakeup,
         Shutdown, UpdatePriority, SetPriority, Destroy
  <2>7. c = entries[1]
    BY <2>1, <2>3, <2>5, <2>6 DEF DequeueFirst
  <2>8. PICK i \in 1 .. Len(entries) : d = entries[i]
    BY DEF Queued
  <2> QED
    BY <2>1, <2>7, <2>8, TopIsFirst
<1> QED
  BY <1>1, QueueInvariant, PTL DEF Spec, MostUrgentFirst
=============================================================================
