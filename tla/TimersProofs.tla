---------------------------- MODULE TimersProofs ----------------------------
(***************************************************************************)
(* Proofs about module Timers, for any number of timers, any delays and    *)
(* repeats and any length of time.                                         *)
(***************************************************************************)
EXTENDS Timers, FiniteSetTheorems, WellFoundedInduction, TLAPS

USE MaxTimersAssumption, DelaysAssumption, RepeatsAssumption

(* A set that has 0 and the successor of each of its numbers has them all. *)
LEMMA NatSet ==
  ASSUME NEW T, 0 \in T, \A n \in Nat : n \in T => n + 1 \in T
  PROVE  Nat \subseteq T
  <1> DEFINE R == OpToRel(<, Nat)
  <1> SUFFICES ASSUME Nat \ T # {} PROVE FALSE
    OBVIOUS
  <1>1. \A x, y \in Nat : x < y => <<x, y>> \in R
    BY DEF OpToRel
  <1>2. PICK m \in Nat \ T : \A y \in Nat \ T : ~(<<y, m>> \in R)
    <2> HIDE DEF R
    <2>1. IsWellFoundedOn(R, Nat)
      BY NatLessThanWellFounded DEF R
    <2>. QED BY <2>1, WFMin
  <1> HIDE DEF R
  <1>3. m \in Nat /\ m # 0 /\ m - 1 \in Nat /\ m - 1 < m
    OBVIOUS
  <1>4. m - 1 \in T
    <2>1. <<m - 1, m>> \in R
      BY <1>1, <1>3
    <2>. QED BY <1>2, <1>3, <2>1
  <1>. QED BY <1>3, <1>4

(* A set of numbers that is not empty has a least one. *)
LEMMA LeastNumber ==
  ASSUME NEW S \in SUBSET Nat, S # {}
  PROVE  \E m \in S : \A n \in S : m <= n
  <1> DEFINE R == OpToRel(<, Nat)
  <1>1. \A x, y \in Nat : x < y => <<x, y>> \in R
    BY DEF OpToRel
  <1>2. PICK m \in S : \A n \in S : ~(<<n, m>> \in R)
    <2> HIDE DEF R
    <2>1. IsWellFoundedOn(R, Nat)
      BY NatLessThanWellFounded DEF R
    <2>. QED BY <2>1, WFMin
  <1> HIDE DEF R
  <1>3. \A n \in S : ~(n < m)
    BY <1>1, <1>2
  <1>4. \A n \in S : m <= n
    BY <1>3
  <1>. QED BY <1>4

Ordered(list, fire) ==
  \A i, j \in 1 .. Len(list) : i < j => fire[list[i]] <= fire[list[j]]

Once(list) == \A i, j \in 1 .. Len(list) : list[i] = list[j] => i = j

(* The elements of a sequence stand at its indices. *)
LEMMA Elements ==
  ASSUME NEW list \in Seq(Timer)
  PROVE  /\ Len(list) \in Nat
         /\ \A i \in 1 .. Len(list) : list[i] \in Timer /\ list[i] \in ToSet(list)
         /\ \A u \in ToSet(list) : u \in Timer /\ \E i \in 1 .. Len(list) : list[i] = u
  BY DEF ToSet

(* The elements of two sequences in a row. *)
LEMMA Joined ==
  ASSUME NEW T, NEW a \in Seq(T), NEW c \in Seq(T)
  PROVE  /\ a \o c \in Seq(T) /\ Len(a \o c) = Len(a) + Len(c)
         /\ \A k \in 1 .. Len(a) : (a \o c)[k] = a[k]
         /\ \A k \in 1 .. Len(c) : (a \o c)[Len(a) + k] = c[k]
  OBVIOUS

(* Where timer--insert-sorted puts a timer. *)
LEMMA InsertedAt ==
  ASSUME NEW list \in Seq(Timer), NEW fire \in [Timer -> Nat], NEW t \in Timer,
         Ordered(list, fire)
  PROVE  \E i \in 1 .. Len(list) + 1 :
           /\ InsertSorted(t, list, fire) \in Seq(Timer)
           /\ Len(InsertSorted(t, list, fire)) = Len(list) + 1
           /\ InsertSorted(t, list, fire)[i] = t
           /\ \A k \in 1 .. i - 1 :
                InsertSorted(t, list, fire)[k] = list[k] /\ fire[list[k]] <= fire[t]
           /\ \A k \in i .. Len(list) :
                InsertSorted(t, list, fire)[k + 1] = list[k] /\ fire[t] <= fire[list[k]]
<1> DEFINE I == { k \in 1 .. Len(list) : fire[t] <= fire[list[k]] }
           new == InsertSorted(t, list, fire)
<1>0. /\ Len(list) \in Nat /\ fire[t] \in Nat
      /\ \A k \in 1 .. Len(list) : list[k] \in Timer /\ fire[list[k]] \in Nat
  OBVIOUS
<1>1. SelectInSeq(list, LAMBDA u : fire[t] <= fire[u]) = IF I # {} THEN Min(I) ELSE 0
  BY DEF SelectInSeq
<1>2. CASE I = {}
  <2>1. new = Append(list, t)
    BY <1>1, <1>2 DEF InsertSorted
  <2>2. \A k \in 1 .. Len(list) : fire[list[k]] <= fire[t]
    BY <1>0, <1>2
  <2> DEFINE i == Len(list) + 1
  <2>3. i \in 1 .. Len(list) + 1 /\ i - 1 = Len(list)
    BY <1>0
  <2>4. /\ new \in Seq(Timer) /\ Len(new) = Len(list) + 1 /\ new[i] = t
        /\ \A k \in 1 .. i - 1 : new[k] = list[k]
    BY <1>0, <2>1
  <2>5. i .. Len(list) = {}
    BY <1>0
  <2> HIDE DEF new, i
  <2>6. QED
    BY <2>2, <2>3, <2>4, <2>5 DEF new
<1>3. CASE I # {}
  <2> DEFINE i == Min(I)
  <2>1. I \in SUBSET Nat /\ I \subseteq 1 .. Len(list)
    OBVIOUS
  <2> HIDE DEF I
  <2>2. i \in I /\ \A k \in I : i <= k
    <3>1. \E m \in I : \A k \in I : m <= k
      BY <1>3, <2>1, LeastNumber
    <3>2. QED
      BY <3>1 DEF Min
  <2> HIDE DEF i
  <2>3. i \in 1 .. Len(list) /\ fire[t] <= fire[list[i]] /\ i # 0
    BY <2>2 DEF I
  <2>4. new = InsertAt(list, i, t)
    BY <1>1, <1>3, <2>3 DEF InsertSorted, i
  <2>5. new = SubSeq(list, 1, i - 1) \o <<t>> \o SubSeq(list, i, Len(list))
    BY <2>4 DEF InsertAt
  <2>6. /\ new \in Seq(Timer) /\ Len(new) = Len(list) + 1 /\ new[i] = t
        /\ \A k \in 1 .. i - 1 : new[k] = list[k]
        /\ \A k \in i .. Len(list) : new[k + 1] = list[k]
    <3> DEFINE a == SubSeq(list, 1, i - 1)
               c == SubSeq(list, i, Len(list))
    <3>1. /\ a \in Seq(Timer) /\ Len(a) = i - 1 /\ \A k \in 1 .. i - 1 : a[k] = list[k]
      BY <1>0, <2>3
    <3>2. /\ c \in Seq(Timer) /\ Len(c) = Len(list) - i + 1
          /\ \A k \in 1 .. Len(list) - i + 1 : c[k] = list[k + i - 1]
      BY <1>0, <2>3
    <3>3. new = a \o <<t>> \o c
      BY <2>5
    <3> HIDE DEF a, c
    <3> DEFINE b == a \o <<t>>
    <3>4. b \in Seq(Timer) /\ Len(b) = i /\ b[i] = t /\ \A k \in 1 .. i - 1 : b[k] = a[k]
      <4>1. <<t>> \in Seq(Timer) /\ Len(<<t>>) = 1 /\ <<t>>[1] = t
        OBVIOUS
      <4>2. /\ b \in Seq(Timer) /\ Len(b) = Len(a) + 1
            /\ \A k \in 1 .. Len(a) : b[k] = a[k]
            /\ b[Len(a) + 1] = t
        BY <3>1, <4>1, Joined
      <4> HIDE DEF b
      <4>3. QED
        BY <2>3, <3>1, <4>2
    <3>5. new = b \o c
      BY <3>3
    <3> HIDE DEF b
    <3>6. /\ new \in Seq(Timer) /\ Len(new) = Len(list) + 1
          /\ \A k \in 1 .. i : new[k] = b[k]
          /\ \A k \in 1 .. Len(c) : new[i + k] = c[k]
      <4>1. /\ new \in Seq(Timer) /\ Len(new) = Len(b) + Len(c)
            /\ \A k \in 1 .. Len(b) : new[k] = b[k]
            /\ \A k \in 1 .. Len(c) : new[Len(b) + k] = c[k]
        <5>1. b \in Seq(Timer) /\ c \in Seq(Timer)
          BY <3>2, <3>4
        <5>2. /\ b \o c \in Seq(Timer) /\ Len(b \o c) = Len(b) + Len(c)
              /\ \A k \in 1 .. Len(b) : (b \o c)[k] = b[k]
              /\ \A k \in 1 .. Len(c) : (b \o c)[Len(b) + k] = c[k]
          BY <5>1, Joined
        <5> HIDE DEF new
        <5>3. QED
          BY <3>5, <5>2
      <4> HIDE DEF new
      <4>2. QED
        BY <1>0, <2>3, <3>2, <3>4, <4>1
    <3>7. \A k \in i .. Len(list) : new[k + 1] = list[k]
      <4> SUFFICES ASSUME NEW k \in i .. Len(list)
                   PROVE  new[k + 1] = list[k]
        OBVIOUS
      <4> DEFINE j == k + 1 - i
      <4>1. /\ i + j = k + 1
            /\ j \in 1 .. Len(list) - i + 1 /\ j + i - 1 = k
        BY <1>0, <2>3
      <4> HIDE DEF j
      <4>2. QED
        BY <3>2, <3>6, <4>1
    <3>8. new[i] = t /\ \A k \in 1 .. i - 1 : new[k] = list[k]
      BY <2>3, <3>1, <3>4, <3>6
    <3>9. QED
      BY <3>6, <3>7, <3>8
  <2>7. \A k \in i .. Len(list) : fire[t] <= fire[list[k]]
    <3> SUFFICES ASSUME NEW k \in i .. Len(list)
                 PROVE  fire[t] <= fire[list[k]]
      OBVIOUS
    <3>1. fire[list[i]] <= fire[list[k]]
      BY <1>0, <2>3 DEF Ordered
    <3>2. k \in 1 .. Len(list)
      BY <1>0, <2>3
    <3>3. QED
      BY <1>0, <2>3, <3>1, <3>2
  <2>8. \A k \in 1 .. i - 1 : fire[list[k]] <= fire[t]
    <3> SUFFICES ASSUME NEW k \in 1 .. i - 1
                 PROVE  fire[list[k]] <= fire[t]
      OBVIOUS
    <3>1. k \in 1 .. Len(list) /\ ~(i <= k)
      BY <1>0, <2>3
    <3>2. k \notin I
      BY <2>2, <3>1
    <3>3. QED
      BY <1>0, <3>1, <3>2 DEF I
  <2>9. i \in 1 .. Len(list) + 1
    BY <1>0, <2>3
  <2> HIDE DEF new
  <2>10. QED
    BY <2>6, <2>7, <2>8, <2>9 DEF new
<1>4. QED
  BY <1>2, <1>3

(* Inserted in its place, a new timer leaves the list in order and each    *)
(* timer in it once.                                                       *)
LEMMA Inserted ==
  ASSUME NEW list \in Seq(Timer), NEW fire \in [Timer -> Nat], NEW t \in Timer,
         Ordered(list, fire), Once(list), t \notin ToSet(list)
  PROVE  /\ InsertSorted(t, list, fire) \in Seq(Timer)
         /\ Ordered(InsertSorted(t, list, fire), fire)
         /\ Once(InsertSorted(t, list, fire))
         /\ ToSet(InsertSorted(t, list, fire)) = ToSet(list) \cup {t}
<1> DEFINE new == InsertSorted(t, list, fire)
           n == Len(list)
<1>1. PICK i \in 1 .. n + 1 :
        /\ new \in Seq(Timer) /\ Len(new) = n + 1
        /\ new[i] = t
        /\ \A k \in 1 .. i - 1 : new[k] = list[k] /\ fire[list[k]] <= fire[t]
        /\ \A k \in i .. n : new[k + 1] = list[k] /\ fire[t] <= fire[list[k]]
  BY InsertedAt
<1>2. /\ n \in Nat /\ fire[t] \in Nat
      /\ \A k \in 1 .. n : list[k] \in Timer /\ list[k] # t /\ fire[list[k]] \in Nat
  BY Elements
<1> HIDE DEF new, n
<1> DEFINE old(a) == IF a < i THEN a ELSE a - 1
           time == [k \in 1 .. n |-> fire[list[k]]]
<1>3. ASSUME NEW a \in 1 .. n + 1, a # i
      PROVE  /\ old(a) \in 1 .. n /\ new[a] = list[old(a)]
             /\ fire[new[a]] = time[old(a)]
             /\ IF a < i THEN time[old(a)] <= fire[t] ELSE fire[t] <= time[old(a)]
  <2>1. CASE a < i
    <3>1. a \in 1 .. i - 1 /\ a \in 1 .. n
      BY <1>2, <2>1
    <3>2. QED
      BY <1>1, <2>1, <3>1
  <2>2. CASE ~(a < i)
    <3> DEFINE b == a - 1
    <3>1. b \in i .. n /\ b \in 1 .. n /\ a = b + 1
      BY <1>2, <1>3, <2>2
    <3> HIDE DEF b
    <3>2. new[a] = list[b] /\ fire[t] <= fire[list[b]]
      BY <1>1, <3>1
    <3>3. old(a) = b
      BY <2>2, <3>1
    <3>4. QED
      BY <2>2, <3>1, <3>2, <3>3
  <2>3. QED
    BY <2>1, <2>2
<1>4. \A j, k \in 1 .. n : j < k => time[j] <= time[k]
  BY DEF Ordered, n
<1>5. time \in [1 .. n -> Nat]
  BY <1>2
<1> HIDE DEF time
<1>6. Ordered(new, fire)
  <2> SUFFICES ASSUME NEW a \in 1 .. n + 1, NEW b \in 1 .. n + 1, a < b
               PROVE  fire[new[a]] <= fire[new[b]]
    BY <1>1 DEF Ordered
  <2>1. CASE a # i /\ b # i
    <3>1. old(a) < old(b)
      BY <1>2, <2>1
    <3>2. time[old(a)] <= time[old(b)]
      BY <1>3, <1>4, <2>1, <3>1
    <3>3. fire[new[a]] = time[old(a)] /\ fire[new[b]] = time[old(b)]
      BY <1>3, <2>1
    <3>4. QED
      BY <3>2, <3>3
  <2>2. CASE a = i
    <3>1. b # i /\ ~(b < i)
      BY <1>2, <2>2
    <3>2. fire[t] <= time[old(b)] /\ fire[new[b]] = time[old(b)]
      BY <1>3, <3>1
    <3>3. QED
      BY <1>1, <2>2, <3>2
  <2>3. CASE b = i
    <3>1. a # i /\ a < i
      BY <1>2, <2>3
    <3>2. time[old(a)] <= fire[t] /\ fire[new[a]] = time[old(a)]
      BY <1>3, <3>1
    <3>3. QED
      BY <1>1, <2>3, <3>2
  <2>4. QED
    BY <2>1, <2>2, <2>3
<1>7. Once(new)
  <2> SUFFICES ASSUME NEW a \in 1 .. n + 1, NEW b \in 1 .. n + 1, new[a] = new[b]
               PROVE  a = b
    BY <1>1 DEF Once
  <2>1. CASE a # i /\ b # i
    <3>1. list[old(a)] = list[old(b)] /\ old(a) \in 1 .. n /\ old(b) \in 1 .. n
      BY <1>3, <2>1
    <3>2. old(a) = old(b)
      BY <3>1 DEF Once, n
    <3>3. QED
      BY <1>2, <2>1, <3>2
  <2>2. CASE a = i /\ b # i
    BY <1>1, <1>2, <1>3, <2>2
  <2>3. CASE a # i /\ b = i
    BY <1>1, <1>2, <1>3, <2>3
  <2>4. QED
    BY <2>1, <2>2, <2>3
<1>8. ToSet(new) = ToSet(list) \cup {t}
  <2>1. ASSUME NEW u \in ToSet(new)
        PROVE  u \in ToSet(list) \cup {t}
    <3>1. PICK k \in 1 .. n + 1 : new[k] = u
      BY <1>1, Elements
    <3>2. CASE k = i
      BY <1>1, <3>1, <3>2
    <3>3. CASE k # i
      <4>1. old(k) \in 1 .. n /\ u = list[old(k)]
        BY <1>3, <3>1, <3>3
      <4>2. QED
        BY <4>1, Elements DEF n
    <3>4. QED
      BY <3>2, <3>3
  <2>2. t \in ToSet(new)
    BY <1>1, Elements
  <2>3. ASSUME NEW u \in ToSet(list)
        PROVE  u \in ToSet(new)
    <3>1. PICK k \in 1 .. n : list[k] = u
      BY Elements DEF n
    <3>2. \E j \in 1 .. n + 1 : new[j] = u
      <4>1. CASE k < i
        <5>1. k \in 1 .. i - 1 /\ k \in 1 .. n + 1
          BY <1>2, <4>1
        <5>2. QED
          BY <1>1, <3>1, <5>1
      <4>2. CASE ~(k < i)
        <5>1. k \in i .. n /\ k + 1 \in 1 .. n + 1
          BY <1>2, <4>2
        <5>2. QED
          BY <1>1, <3>1, <5>1
      <4>3. QED
        BY <4>1, <4>2
    <3>3. QED
      BY <1>1, <3>2, Elements
  <2>4. QED
    BY <2>1, <2>2, <2>3
<1>9. QED
  BY <1>1, <1>6, <1>7, <1>8 DEF new

(* A function on 0 .. n, with values in D, given by its first value and by *)
(* how each value follows from the one before.                             *)
Steps(G, n, D) == n \in Nat /\ G \in [1 .. n -> [D -> D]]

Follows(f, base, G, n, D) ==
  /\ f \in [0 .. n -> D]
  /\ f[0] = base /\ \A i \in 1 .. n : f[i] = G[i][f[i - 1]]

(* Such a function exists.                                                 *)
LEMMA Recursion ==
  ASSUME NEW D, NEW base \in D, NEW n, NEW G, Steps(G, n, D)
  PROVE  \E f : Follows(f, base, G, n, D)
<1> USE DEF Steps
<1> DEFINE Good(f, m) == f[0] = base /\ \A i \in 1 .. m : f[i] = G[i][f[i - 1]]
           T == {m \in Nat : m <= n => \E f \in [0 .. m -> D] : Good(f, m)}
<1>1. 0 \in T
  <2> DEFINE f == [i \in 0 .. 0 |-> base]
  <2>1. f \in [0 .. 0 -> D] /\ Good(f, 0)
    OBVIOUS
  <2> HIDE DEF f, Good
  <2>2. QED
    BY <2>1
<1>2. \A m \in Nat : m \in T => m + 1 \in T
  <2> SUFFICES ASSUME NEW m \in Nat, m \in T, m + 1 <= n
               PROVE  \E f \in [0 .. m + 1 -> D] : Good(f, m + 1)
    OBVIOUS
  <2> HIDE DEF Good
  <2>1. PICK f \in [0 .. m -> D] : Good(f, m)
    OBVIOUS
  <2> DEFINE g == [i \in 0 .. m + 1 |-> IF i = m + 1 THEN G[m + 1][f[m]] ELSE f[i]]
  <2>2. G[m + 1][f[m]] \in D
    <3>1. m + 1 \in 1 .. n /\ m \in 0 .. m
      OBVIOUS
    <3>2. f[m] \in D /\ G[m + 1] \in [D -> D]
      BY <3>1
    <3>3. QED
      BY <3>2
  <2>3. g \in [0 .. m + 1 -> D]
    BY <2>2
  <2>4. /\ \A i \in 0 .. m : g[i] = f[i]
        /\ g[m + 1] = G[m + 1][f[m]]
    OBVIOUS
  <2> HIDE DEF g
  <2>5. Good(g, m + 1)
    <3>1. g[0] = base
      BY <2>1, <2>4 DEF Good
    <3>2. ASSUME NEW i \in 1 .. m + 1
          PROVE  g[i] = G[i][g[i - 1]]
      <4>1. CASE i = m + 1
        BY <2>4, <4>1
      <4>2. CASE i \in 1 .. m
        <5>1. i - 1 \in 0 .. m /\ i \in 0 .. m
          BY <4>2
        <5>2. QED
          BY <2>1, <2>4, <4>2, <5>1 DEF Good
      <4>3. QED
        BY <4>1, <4>2
    <3>3. QED
      BY <3>1, <3>2 DEF Good
  <2>6. QED
    BY <2>3, <2>5
<1> HIDE DEF T
<1>3. n \in T
  BY <1>1, <1>2, NatSet
<1>4. QED
  BY <1>3 DEF T, Follows

(* A timer that is not earlier than the others goes to the end.            *)
LEMMA Appended ==
  ASSUME NEW list \in Seq(Timer), NEW fire \in [Timer -> Nat], NEW t \in Timer,
         Ordered(list, fire), Once(list),
         \A u \in ToSet(list) : u # t /\ fire[u] <= fire[t]
  PROVE  /\ Append(list, t) \in Seq(Timer)
         /\ Ordered(Append(list, t), fire)
         /\ Once(Append(list, t))
         /\ ToSet(Append(list, t)) = ToSet(list) \cup {t}
<1> DEFINE n == Len(list)
           new == Append(list, t)
<1>1. /\ n \in Nat /\ new \in Seq(Timer) /\ Len(new) = n + 1
      /\ new[n + 1] = t
      /\ \A k \in 1 .. n : new[k] = list[k]
  OBVIOUS
<1>2. \A k \in 1 .. n : list[k] # t /\ fire[list[k]] <= fire[t]
  BY Elements
<1> HIDE DEF new, n
<1>3. Ordered(new, fire)
  <2> SUFFICES ASSUME NEW a \in 1 .. n + 1, NEW b \in 1 .. n + 1, a < b
               PROVE  fire[new[a]] <= fire[new[b]]
    BY <1>1 DEF Ordered
  <2>1. a \in 1 .. n /\ (b \in 1 .. n \/ b = n + 1)
    BY <1>1
  <2>2. CASE b \in 1 .. n
    <3>1. fire[list[a]] <= fire[list[b]]
      BY <2>1, <2>2 DEF Ordered, n
    <3>2. QED
      BY <1>1, <2>1, <2>2, <3>1
  <2>3. CASE b = n + 1
    BY <1>1, <1>2, <2>1, <2>3
  <2>4. QED
    BY <2>1, <2>2, <2>3
<1>4. Once(new)
  <2> SUFFICES ASSUME NEW a \in 1 .. n + 1, NEW b \in 1 .. n + 1, new[a] = new[b]
               PROVE  a = b
    BY <1>1 DEF Once
  <2>1. (a \in 1 .. n \/ a = n + 1) /\ (b \in 1 .. n \/ b = n + 1)
    BY <1>1
  <2>2. CASE a \in 1 .. n /\ b \in 1 .. n
    BY <1>1, <2>2 DEF Once, n
  <2>3. CASE ~(a \in 1 .. n /\ b \in 1 .. n)
    BY <1>1, <1>2, <2>1, <2>3
  <2>4. QED
    BY <2>2, <2>3
<1>5. ToSet(new) = ToSet(list) \cup {t}
  <2>1. ASSUME NEW u \in ToSet(new)
        PROVE  u \in ToSet(list) \cup {t}
    <3>1. PICK k \in 1 .. n + 1 : new[k] = u
      BY <1>1, Elements
    <3>2. k \in 1 .. n \/ k = n + 1
      BY <1>1
    <3>3. QED
      BY <1>1, <3>1, <3>2, Elements DEF n
  <2>2. ASSUME NEW u \in ToSet(list)
        PROVE  u \in ToSet(new)
    <3>1. PICK k \in 1 .. n : list[k] = u
      BY Elements DEF n
    <3>2. k \in 1 .. n + 1 /\ new[k] = u
      BY <1>1, <3>1
    <3>3. QED
      BY <1>1, <3>2, Elements
  <2>3. n + 1 \in 1 .. n + 1
    BY <1>1
  <2>4. t \in ToSet(new)
    BY <1>1, <2>3, Elements
  <2>5. QED
    BY <2>1, <2>2, <2>4
<1>6. QED
  BY <1>1, <1>3, <1>4, <1>5 DEF new

(* cancel-timer takes one timer from the list and leaves the others in     *)
(* their order.                                                            *)
LEMMA Removed ==
  ASSUME timer_list \in Seq(Timer), fire_time \in [Timer -> Nat], NEW t \in Timer,
         Ordered(timer_list, fire_time), Once(timer_list)
  PROVE  /\ Without(t) \in Seq(Timer)
         /\ Ordered(Without(t), fire_time)
         /\ Once(Without(t))
         /\ ToSet(Without(t)) = ToSet(timer_list) \ {t}
<1> DEFINE n == Len(timer_list)
           D == Seq(Timer)
           Step(i, s) == IF timer_list[i] = t THEN s ELSE Append(s, timer_list[i])
           G == [i \in 1 .. n |-> [s \in D |-> Step(i, s)]]
           Good(f) == f = [i \in 0 .. n |-> IF i = 0 THEN <<>>
                             ELSE IF timer_list[i] = t THEN f[i - 1]
                             ELSE Append(f[i - 1], timer_list[i])]
<1>1. n \in Nat /\ \A i \in 1 .. n : timer_list[i] \in Timer
  OBVIOUS
<1>2. \E f : Good(f)
  <2>1. <<>> \in D
    OBVIOUS
  <2>2. G \in [1 .. n -> [D -> D]]
    <3>1. \A i \in 1 .. n, s \in D : Step(i, s) \in D
      BY <1>1
    <3> HIDE DEF D, Step, n
    <3>2. QED
      BY <3>1
  <2>3. \A i \in 1 .. n, s \in D : G[i][s] = Step(i, s)
    <3> HIDE DEF D, Step, n
    <3>. QED OBVIOUS
  <2> HIDE DEF D, G, n
  <2>4. PICK f \in [0 .. n -> D] : f[0] = <<>> /\ \A i \in 1 .. n : f[i] = G[i][f[i - 1]]
    <3>1. n \in Nat
      BY <1>1
    <3>2. Steps(G, n, D)
      BY <2>2, <3>1 DEF Steps
    <3>3. PICK f : Follows(f, <<>>, G, n, D)
      BY <2>1, <3>2, Recursion
    <3>4. QED
      BY <3>3 DEF Follows
  <2>5. \A i \in 1 .. n : f[i] = Step(i, f[i - 1])
    <3> HIDE DEF Step
    <3> SUFFICES ASSUME NEW i \in 1 .. n
                 PROVE  f[i] = Step(i, f[i - 1])
      OBVIOUS
    <3>1. f[i - 1] \in D
      BY <1>1, <2>4
    <3>2. QED
      BY <2>3, <2>4, <3>1
  <2>6. Good(f)
    <3>1. \A i \in 0 .. n : f[i] = IF i = 0 THEN <<>>
                             ELSE IF timer_list[i] = t THEN f[i - 1]
                             ELSE Append(f[i - 1], timer_list[i])
      <4> SUFFICES ASSUME NEW i \in 0 .. n
                   PROVE  f[i] = IF i = 0 THEN <<>>
                             ELSE IF timer_list[i] = t THEN f[i - 1]
                             ELSE Append(f[i - 1], timer_list[i])
        OBVIOUS
      <4>1. i = 0 \/ i \in 1 .. n
        BY <1>1
      <4>2. QED
        BY <1>1, <2>4, <2>5, <4>1
    <3>2. f = [i \in 0 .. n |-> f[i]]
      BY <2>4
    <3>3. QED
      BY <3>1, <3>2
  <2> HIDE DEF Good
  <2>7. QED
    BY <2>6
<1> DEFINE c == CHOOSE f : Good(f)
<1>3. Good(c)
  <2> HIDE DEF Good
  <2>1. QED
    BY <1>2
<1>4. Without(t) = c[n]
  BY Zenon DEF Without
<1> HIDE DEF c
<1>5. c[0] = <<>> /\ \A i \in 1 .. n : c[i] = Step(i, c[i - 1])
  <2>1. \A i \in 0 .. n : c[i] = IF i = 0 THEN <<>> ELSE Step(i, c[i - 1])
    BY <1>3
  <2> HIDE DEF Step, n
  <2>2. \A i \in 1 .. n : i \in 0 .. n /\ i # 0
    BY <1>1
  <2>3. 0 \in 0 .. n
    BY <1>1
  <2>4. QED
    BY <2>1, <2>2, <2>3
<1> HIDE DEF Good, n, D, G
<1> DEFINE Kept(s, i) ==
             /\ s \in Seq(Timer) /\ Ordered(s, fire_time) /\ Once(s)
             /\ ToSet(s) = {timer_list[k] : k \in 1 .. i} \ {t}
           T == {i \in Nat : i <= n => Kept(c[i], i)}
<1>6. 0 \in T
  <2>1. Kept(<<>>, 0)
    BY DEF Ordered, Once, ToSet
  <2>2. QED
    BY <1>5, <2>1
<1>7. \A i \in Nat : i \in T => i + 1 \in T
  <2> HIDE DEF Kept
  <2> SUFFICES ASSUME NEW i \in Nat, Kept(c[i], i), i + 1 \in 1 .. n
               PROVE  Kept(c[i + 1], i + 1)
    BY <1>1
  <2> USE DEF Kept
  <2> DEFINE u == timer_list[i + 1]
  <2>1. c[i + 1] = IF u = t THEN c[i] ELSE Append(c[i], u)
    <3>1. (i + 1) - 1 = i
      OBVIOUS
    <3>2. QED
      BY <1>5, <3>1
  <2>2. u \in Timer
    BY <1>1
  <2>3. {timer_list[k] : k \in 1 .. i + 1} = {timer_list[k] : k \in 1 .. i} \cup {u}
    <3>1. 1 .. i + 1 = (1 .. i) \cup {i + 1}
      OBVIOUS
    <3> HIDE DEF u
    <3>2. QED
      BY <3>1 DEF u
  <2>4. CASE u = t
    BY <2>1, <2>3, <2>4
  <2>5. CASE u # t
    <3>1. ASSUME NEW v \in ToSet(c[i])
          PROVE  v # u /\ fire_time[v] <= fire_time[u]
      <4>1. PICK k \in 1 .. i : v = timer_list[k]
        BY <3>1
      <4>2. k \in 1 .. n /\ k < i + 1
        BY <1>1
      <4>3. fire_time[timer_list[k]] <= fire_time[timer_list[i + 1]]
        BY <4>2 DEF Ordered, n
      <4>4. timer_list[k] # timer_list[i + 1]
        BY <4>2 DEF Once, n
      <4>5. QED
        BY <4>1, <4>3, <4>4
    <3> HIDE DEF u
    <3>2. /\ Append(c[i], u) \in Seq(Timer)
          /\ Ordered(Append(c[i], u), fire_time)
          /\ Once(Append(c[i], u))
          /\ ToSet(Append(c[i], u)) = ToSet(c[i]) \cup {u}
      BY <2>2, <3>1, Appended
    <3>3. QED
      BY <2>1, <2>3, <2>5, <3>2
  <2>6. QED
    BY <2>4, <2>5
<1> HIDE DEF T
<1>8. n \in T
  BY <1>1, <1>6, <1>7, NatSet
<1>9. Kept(c[n], n)
  BY <1>1, <1>8 DEF T
<1>10. ToSet(timer_list) = {timer_list[k] : k \in 1 .. n}
  BY DEF ToSet, n
<1>11. QED
  BY <1>4, <1>9, <1>10

(* After a run the repeating timers are inserted into the timers that were *)
(* not due, or into those that callbacks scheduled.                        *)
LEMMA Merged ==
  ASSUME timer_list \in Seq(Timer), remaining \in Seq(Timer), repeaters \in Seq(Timer),
         fire_time \in [Timer -> Nat],
         Ordered(timer_list, fire_time), Once(timer_list),
         Ordered(remaining, fire_time), Once(remaining), Once(repeaters),
         ToSet(timer_list) \cap ToSet(repeaters) = {},
         ToSet(remaining) \cap ToSet(repeaters) = {}
  PROVE  /\ ListAfterRun \in Seq(Timer)
         /\ Ordered(ListAfterRun, fire_time)
         /\ Once(ListAfterRun)
         /\ ToSet(ListAfterRun) =
              ToSet(IF remaining # <<>> THEN remaining ELSE timer_list) \cup ToSet(repeaters)
<1> DEFINE n == Len(repeaters)
           D == Seq(Timer)
           base == IF remaining # <<>> THEN remaining ELSE timer_list
           Step(i, s) == InsertSorted(repeaters[i], s, fire_time)
           G == [i \in 1 .. n |-> [s \in D |-> IF Step(i, s) \in D THEN Step(i, s) ELSE <<>>]]
           Good(f) == f = [i \in 0 .. n |-> IF i = 0 THEN IF remaining # <<>> THEN remaining ELSE timer_list
                             ELSE InsertSorted(repeaters[i], f[i - 1], fire_time)]
           Kept(s, i) ==
             /\ s \in Seq(Timer) /\ Ordered(s, fire_time) /\ Once(s)
             /\ ToSet(s) = ToSet(base) \cup {repeaters[k] : k \in 1 .. i}
<1>1. n \in Nat /\ \A i \in 1 .. n : repeaters[i] \in Timer
  OBVIOUS
<1>2. Kept(base, 0)
  BY DEF Ordered, Once
<1>3. ASSUME NEW i \in Nat, NEW s, Kept(s, i), i + 1 \in 1 .. n
      PROVE  Kept(Step(i + 1, s), i + 1)
  <2> DEFINE u == repeaters[i + 1]
  <2>1. u \in Timer /\ u \in ToSet(repeaters)
    BY <1>3, Elements
  <2>2. {repeaters[k] : k \in 1 .. i + 1} = {repeaters[k] : k \in 1 .. i} \cup {u}
    <3>1. 1 .. i + 1 = (1 .. i) \cup {i + 1}
      OBVIOUS
    <3> HIDE DEF u
    <3>2. QED
      BY <3>1 DEF u
  <2>3. u \notin ToSet(s)
    <3>1. u \notin ToSet(base)
      BY <2>1
    <3>2. ASSUME NEW k \in 1 .. i
          PROVE  repeaters[k] # repeaters[i + 1]
      <4>1. k \in 1 .. n /\ k # i + 1
        BY <1>1, <1>3
      <4>2. QED
        BY <1>3, <4>1 DEF Once
    <3>3. QED
      BY <1>3, <3>1, <3>2
  <2> HIDE DEF u
  <2>4. /\ InsertSorted(u, s, fire_time) \in Seq(Timer)
        /\ Ordered(InsertSorted(u, s, fire_time), fire_time)
        /\ Once(InsertSorted(u, s, fire_time))
        /\ ToSet(InsertSorted(u, s, fire_time)) = ToSet(s) \cup {u}
    BY <1>3, <2>1, <2>3, Inserted
  <2>5. QED
    BY <1>3, <2>2, <2>4 DEF u
<1>4. \E f : Good(f)
  <2>1. base \in D
    OBVIOUS
  <2>2. G \in [1 .. n -> [D -> D]]
    <3>1. <<>> \in D
      OBVIOUS
    <3> HIDE DEF D, Step, n
    <3>2. QED
      BY <3>1
  <2>3. \A i \in 1 .. n, s \in D : Step(i, s) \in D => G[i][s] = Step(i, s)
    <3> HIDE DEF D, Step, n
    <3>. QED OBVIOUS
  <2> HIDE DEF D, G, n
  <2>4. PICK f \in [0 .. n -> D] : f[0] = base /\ \A i \in 1 .. n : f[i] = G[i][f[i - 1]]
    <3> HIDE DEF base
    <3>1. n \in Nat
      BY <1>1
    <3>2. Steps(G, n, D)
      BY <2>2, <3>1 DEF Steps
    <3>3. PICK f : Follows(f, base, G, n, D)
      BY <2>1, <3>2, Recursion
    <3>4. QED
      BY <3>3 DEF Follows
  <2> DEFINE U == {i \in Nat : i <= n => Kept(f[i], i) /\ (i # 0 => f[i] = Step(i, f[i - 1]))}
  <2> HIDE DEF Kept, Step, base
  <2>5. 0 \in U
    BY <1>2, <2>4
  <2> HIDE DEF U
  <2>6. \A i \in Nat : i \in U => i + 1 \in U
    <3> SUFFICES ASSUME NEW i \in Nat, Kept(f[i], i), i + 1 \in 1 .. n
                 PROVE  Kept(f[i + 1], i + 1) /\ f[i + 1] = Step(i + 1, f[i])
      <4>1. \A i \in Nat : /\ i + 1 \in Nat /\ (i + 1) - 1 = i
                           /\ i + 1 <= n => i <= n /\ i + 1 \in 1 .. n
        BY <1>1
      <4>2. QED
        BY <4>1, SMT DEF U
    <3>1. Kept(Step(i + 1, f[i]), i + 1)
      BY <1>3
    <3>2. Step(i + 1, f[i]) \in D
      BY <3>1 DEF Kept, D
    <3>3. f[i] \in D /\ (i + 1) - 1 = i
      BY <1>1, <2>4
    <3>4. f[i + 1] = Step(i + 1, f[i])
      BY <2>3, <2>4, <3>2, <3>3
    <3>5. QED
      BY <3>1, <3>4
  <2>7. Nat \subseteq U
    BY <2>5, <2>6, NatSet
  <2>8. \A i \in 1 .. n : f[i] = Step(i, f[i - 1])
    <3>1. \A i \in 1 .. n : i \in Nat /\ i # 0 /\ i <= n
      BY <1>1
    <3>2. \A i \in 1 .. n : i \in U
      BY <2>7, <3>1
    <3>3. QED
      BY <3>1, <3>2, Zenon DEF U
  <2>9. Good(f)
    <3>1. \A i \in 0 .. n : f[i] = IF i = 0 THEN base ELSE Step(i, f[i - 1])
      <4> SUFFICES ASSUME NEW i \in 0 .. n
                   PROVE  f[i] = IF i = 0 THEN base ELSE Step(i, f[i - 1])
        OBVIOUS
      <4>1. i = 0 \/ i \in 1 .. n
        BY <1>1
      <4>2. QED
        BY <2>4, <2>8, <4>1
    <3>2. f = [i \in 0 .. n |-> f[i]]
      BY <2>4
    <3>3. QED
      BY <3>1, <3>2 DEF base, Step
  <2> HIDE DEF Good
  <2>10. QED
    BY <2>9
<1> DEFINE c == CHOOSE f : Good(f)
<1>5. Good(c)
  <2> HIDE DEF Good
  <2>1. QED
    BY <1>4
<1>6. ListAfterRun = c[n]
  BY Zenon DEF ListAfterRun
<1> HIDE DEF c
<1>7. c[0] = base /\ \A i \in 1 .. n : c[i] = Step(i, c[i - 1])
  <2>1. \A i \in 0 .. n : c[i] = IF i = 0 THEN base ELSE Step(i, c[i - 1])
    BY <1>5
  <2> HIDE DEF Step, n, base
  <2>2. \A i \in 1 .. n : i \in 0 .. n /\ i # 0
    BY <1>1
  <2>3. 0 \in 0 .. n
    BY <1>1
  <2>4. QED
    BY <2>1, <2>2, <2>3
<1> HIDE DEF Good, n, D, G, base, Step
<1> DEFINE T == {i \in Nat : i <= n => Kept(c[i], i)}
<1>8. 0 \in T
  <2> HIDE DEF Kept
  <2>1. QED
    BY <1>2, <1>7
<1>9. \A i \in Nat : i \in T => i + 1 \in T
  <2> HIDE DEF Kept
  <2> SUFFICES ASSUME NEW i \in Nat, Kept(c[i], i), i + 1 \in 1 .. n
               PROVE  Kept(c[i + 1], i + 1)
    BY <1>1
  <2>1. c[i + 1] = Step(i + 1, c[i])
    <3>1. (i + 1) - 1 = i
      OBVIOUS
    <3>2. QED
      BY <1>7, <3>1
  <2>2. QED
    BY <1>3, <2>1
<1> HIDE DEF T
<1>10. n \in T
  BY <1>1, <1>8, <1>9, NatSet
<1>11. Kept(c[n], n)
  BY <1>1, <1>10 DEF T
<1>12. ToSet(repeaters) = {repeaters[k] : k \in 1 .. n}
  BY DEF ToSet, n
<1>13. QED
  BY <1>6, <1>11, <1>12 DEF base

-----------------------------------------------------------------------------
(* The invariant.  Each timer is in one of the three lists, once; the      *)
(* lists a run walks from their first element are in order.                *)
ListsInv ==
  /\ Once(timer_list) /\ Once(remaining) /\ Once(repeaters)
  /\ ToSet(timer_list) \cap ToSet(remaining) = {}
  /\ ToSet(timer_list) \cap ToSet(repeaters) = {}
  /\ ToSet(remaining) \cap ToSet(repeaters) = {}
  /\ Ordered(timer_list, fire_time) /\ Ordered(remaining, fire_time)

(* Timers not created yet are nowhere. *)
NewInv ==
  /\ \A t \in ToSet(timer_list) \cup ToSet(remaining) \cup ToSet(repeaters) :
       t < timer_next_id
  /\ \A t \in Timer : t >= timer_next_id => fired[t] = 0

(* The lists of a run are empty between runs, and during one the timers    *)
(* in *timer-list* are those callbacks scheduled.                          *)
RunInv ==
  /\ pc = "loop" => remaining = <<>> /\ repeaters = <<>>
  /\ pc = "callback" => remaining # <<>>
  /\ pc # "loop" => ~failed /\ ToSet(timer_list) \subseteq touched
  /\ run_now <= now

CacheInv ==
  timer_list # <<>> \/ (pc = "loop" /\ ~failed) =>
    next_fire_ms = FirstFire(timer_list, fire_time)

(* A one-shot timer whose function is running has no call to come. *)
Calling == pc = "callback" /\ repeat_ms[Head(remaining)] = 0

Held ==
  (ToSet(timer_list) \cup ToSet(remaining) \cup ToSet(repeaters))
    \ (IF Calling THEN {Head(remaining)} ELSE {})

HeldInv == Held \ touched = active \ touched

(* A timer whose function is running has not been moved on yet. *)
MidPlan ==
  pc = "callback" /\ Head(remaining) \notin touched =>
    LET t == Head(remaining)
    IN fired[t] > 0 /\ fire_time[t] = scheduled[t] + (fired[t] - 1) * repeat_ms[t]

PlanInv == OnPlan /\ MidPlan

IInv == /\ TypeOK /\ ListsInv /\ NewInv /\ RunInv /\ CacheInv
        /\ HeldInv /\ PlanInv

(* A timer's new fire time does not disturb a list it is not in.           *)
LEMMA FireElsewhere ==
  ASSUME NEW list \in Seq(Timer), NEW fire \in [Timer -> Nat], NEW t \in Timer,
         NEW d \in Nat, t \notin ToSet(list)
  PROVE  /\ [fire EXCEPT ![t] = d] \in [Timer -> Nat]
         /\ Ordered(list, fire) => Ordered(list, [fire EXCEPT ![t] = d])
<1> DEFINE new == [fire EXCEPT ![t] = d]
<1>1. new \in [Timer -> Nat] /\ \A u \in Timer : u # t => new[u] = fire[u]
  OBVIOUS
<1>2. \A k \in 1 .. Len(list) : list[k] \in Timer /\ list[k] # t
  BY Elements
<1> HIDE DEF new
<1>3. Ordered(list, fire) => Ordered(list, new)
  BY <1>1, <1>2 DEF Ordered
<1>4. QED
  BY <1>1, <1>3 DEF new

(* The cached time depends on the times of the timers in the list alone.   *)
LEMMA FirstElsewhere ==
  ASSUME NEW list \in Seq(Timer), NEW fire \in [Timer -> Nat], NEW new \in [Timer -> Nat],
         \A u \in ToSet(list) : new[u] = fire[u]
  PROVE  FirstFire(list, new) = FirstFire(list, fire)
<1>1. CASE list = <<>>
  BY <1>1 DEF FirstFire
<1>2. CASE list # <<>>
  <2>1. Head(list) = list[1] /\ 1 \in 1 .. Len(list)
    BY <1>2
  <2>2. list[1] \in ToSet(list)
    BY <2>1, Elements
  <2>3. QED
    BY <1>2, <2>1, <2>2 DEF FirstFire
<1>3. QED
  BY <1>1, <1>2

(* The cache holds a fire time, or none for an empty list.                 *)
LEMMA FirstFireType ==
  ASSUME NEW list \in Seq(Timer), NEW fire \in [Timer -> Nat]
  PROVE  /\ FirstFire(list, fire) \in Nat \cup {None}
         /\ list # <<>> => FirstFire(list, fire) = fire[list[1]] /\ list[1] \in Timer
         /\ list = <<>> => FirstFire(list, fire) = None
<1>1. CASE list = <<>>
  BY <1>1 DEF FirstFire
<1>2. CASE list # <<>>
  <2>1. Head(list) = list[1] /\ list[1] \in Timer
    BY <1>2
  <2>2. QED
    BY <1>2, <2>1 DEF FirstFire
<1>3. QED
  BY <1>1, <1>2

(* The walk takes the first timer from the list.                           *)
LEMMA Walked ==
  ASSUME NEW list \in Seq(Timer), NEW fire \in [Timer -> Nat], list # <<>>,
         Once(list), Ordered(list, fire)
  PROVE  /\ Head(list) \in Timer /\ Head(list) \in ToSet(list)
         /\ Tail(list) \in Seq(Timer)
         /\ Once(Tail(list)) /\ Ordered(Tail(list), fire)
         /\ ToSet(Tail(list)) = ToSet(list) \ {Head(list)}
<1> DEFINE n == Len(list)
           rest == Tail(list)
<1>1. /\ n \in Nat /\ n >= 1 /\ Head(list) = list[1]
      /\ rest \in Seq(Timer) /\ Len(rest) = n - 1
      /\ \A k \in 1 .. n - 1 : rest[k] = list[k + 1]
  OBVIOUS
<1>2. list[1] \in Timer /\ list[1] \in ToSet(list)
  <2>1. 1 \in 1 .. Len(list)
    BY <1>1
  <2>2. QED
    BY <2>1, Elements
<1> HIDE DEF n, rest
<1>3. \A k \in 1 .. n - 1 : k + 1 \in 1 .. n /\ k + 1 # 1
  BY <1>1
<1>4. Once(rest)
  <2> SUFFICES ASSUME NEW a \in 1 .. n - 1, NEW b \in 1 .. n - 1, rest[a] = rest[b]
               PROVE  a = b
    BY <1>1 DEF Once
  <2>1. list[a + 1] = list[b + 1]
    BY <1>1
  <2>2. a + 1 = b + 1
    BY <1>3, <2>1 DEF Once, n
  <2>3. QED
    BY <1>1, <2>2
<1>5. Ordered(rest, fire)
  <2> SUFFICES ASSUME NEW a \in 1 .. n - 1, NEW b \in 1 .. n - 1, a < b
               PROVE  fire[rest[a]] <= fire[rest[b]]
    BY <1>1 DEF Ordered
  <2>1. a + 1 < b + 1
    BY <1>1
  <2>2. fire[list[a + 1]] <= fire[list[b + 1]]
    BY <1>3, <2>1 DEF Ordered, n
  <2>3. QED
    BY <1>1, <2>2
<1>6. ToSet(rest) = ToSet(list) \ {list[1]}
  <2>1. ASSUME NEW u \in ToSet(rest)
        PROVE  u \in ToSet(list) /\ u # list[1]
    <3>1. PICK k \in 1 .. n - 1 : rest[k] = u
      BY <1>1, Elements
    <3>2. u = list[k + 1] /\ k + 1 \in 1 .. n /\ k + 1 # 1 /\ 1 \in 1 .. n
      BY <1>1, <1>3, <3>1
    <3>3. u \in ToSet(list)
      BY <3>2, Elements DEF n
    <3>4. u # list[1]
      BY <3>2 DEF Once, n
    <3>5. QED
      BY <3>3, <3>4
  <2>2. ASSUME NEW u \in ToSet(list), u # list[1]
        PROVE  u \in ToSet(rest)
    <3>1. PICK k \in 1 .. n : list[k] = u
      BY Elements DEF n
    <3> DEFINE j == k - 1
    <3>2. j \in 1 .. n - 1 /\ j + 1 = k
      BY <1>1, <2>2, <3>1
    <3> HIDE DEF j
    <3>3. rest[j] = u /\ j \in 1 .. Len(rest)
      BY <1>1, <3>1, <3>2
    <3>4. QED
      BY <1>1, <3>3, Elements
  <2>3. QED
    BY <2>1, <2>2
<1>7. QED
  BY <1>1, <1>2, <1>4, <1>5, <1>6 DEF rest

(* A repeating timer is set aside in front of the others.                  *)
LEMMA SetAside ==
  ASSUME NEW list \in Seq(Timer), NEW t \in Timer, t \notin ToSet(list), Once(list)
  PROVE  /\ Cons(t, list) \in Seq(Timer) /\ Once(Cons(t, list))
         /\ ToSet(Cons(t, list)) = ToSet(list) \cup {t}
<1> DEFINE n == Len(list)
           new == Cons(t, list)
<1>1. n \in Nat /\ \A k \in 1 .. n : list[k] # t
  BY Elements
<1>2. /\ new \in Seq(Timer) /\ Len(new) = 1 + n /\ new[1] = t
      /\ \A k \in 1 .. n : new[1 + k] = list[k]
  <2> DEFINE a == <<t>>
  <2>1. a \in Seq(Timer) /\ Len(a) = 1 /\ a[1] = t /\ 1 \in 1 .. 1
    OBVIOUS
  <2>2. new = a \o list
    BY DEF Cons
  <2> HIDE DEF a
  <2>3. /\ a \o list \in Seq(Timer) /\ Len(a \o list) = Len(a) + Len(list)
        /\ \A k \in 1 .. Len(a) : (a \o list)[k] = a[k]
        /\ \A k \in 1 .. Len(list) : (a \o list)[Len(a) + k] = list[k]
    BY <2>1, Joined
  <2> HIDE DEF new
  <2>4. QED
    BY <2>1, <2>2, <2>3
<1> HIDE DEF n, new
<1>3. ASSUME NEW a \in 1 .. 1 + n, a # 1
      PROVE  a - 1 \in 1 .. n /\ new[a] = list[a - 1]
  <2> DEFINE b == a - 1
  <2>1. b \in 1 .. n /\ a = 1 + b
    BY <1>1, <1>3
  <2> HIDE DEF b
  <2>2. new[a] = list[b]
    BY <1>2, <2>1
  <2>3. QED
    BY <2>1, <2>2 DEF b
<1>4. Once(new)
  <2> SUFFICES ASSUME NEW a \in 1 .. 1 + n, NEW b \in 1 .. 1 + n, new[a] = new[b]
               PROVE  a = b
    BY <1>2 DEF Once
  <2>1. CASE a # 1 /\ b # 1
    <3>1. a - 1 = b - 1
      BY <1>3, <2>1 DEF Once, n
    <3>2. QED
      BY <1>1, <3>1
  <2>2. CASE ~(a # 1 /\ b # 1)
    BY <1>1, <1>2, <1>3, <2>2
  <2>3. QED
    BY <2>1, <2>2
<1>5. ToSet(new) = ToSet(list) \cup {t}
  <2>1. ASSUME NEW u \in ToSet(new)
        PROVE  u \in ToSet(list) \cup {t}
    <3>1. PICK k \in 1 .. 1 + n : new[k] = u
      BY <1>2, Elements
    <3>2. CASE k = 1
      BY <1>2, <3>1, <3>2
    <3>3. CASE k # 1
      <4>1. k - 1 \in 1 .. Len(list) /\ u = list[k - 1]
        BY <1>3, <3>1, <3>3 DEF n
      <4>2. QED
        BY <4>1, Elements
    <3>4. QED
      BY <3>2, <3>3
  <2>2. t \in ToSet(new)
    <3>1. 1 \in 1 .. Len(new)
      BY <1>1, <1>2
    <3>2. QED
      BY <1>2, <3>1, Elements
  <2>3. ASSUME NEW u \in ToSet(list)
        PROVE  u \in ToSet(new)
    <3>1. PICK k \in 1 .. n : list[k] = u
      BY Elements DEF n
    <3>2. 1 + k \in 1 .. Len(new) /\ new[1 + k] = u
      BY <1>1, <1>2, <3>1
    <3>3. QED
      BY <1>2, <3>2, Elements
  <2>4. QED
    BY <2>1, <2>2, <2>3
<1>6. QED
  BY <1>2, <1>4, <1>5 DEF new

(* What run-at-time does to the lists.                                     *)
LEMMA Scheduling ==
  ASSUME IInv, NEW delay \in Delays, NEW repeat \in Repeats, RunAtTime(delay, repeat)
  PROVE  /\ timer_next_id \in Timer
         /\ timer_next_id \notin ToSet(timer_list) \cup ToSet(remaining) \cup ToSet(repeaters)
         /\ fire_time' = [fire_time EXCEPT ![timer_next_id] = now + delay]
         /\ fire_time' \in [Timer -> Nat]
         /\ timer_list' \in Seq(Timer)
         /\ Ordered(timer_list', fire_time') /\ Once(timer_list')
         /\ ToSet(timer_list') = ToSet(timer_list) \cup {timer_next_id}
         /\ Ordered(remaining, fire_time')
<1> DEFINE t == timer_next_id
           d == now + delay
           fire == [fire_time EXCEPT ![t] = d]
<1>1. t \in Timer
  BY DEF IInv, TypeOK, RunAtTime, Timer
<1>2. t \notin ToSet(timer_list) \cup ToSet(remaining) \cup ToSet(repeaters)
  <2>1. \A u \in ToSet(timer_list) \cup ToSet(remaining) \cup ToSet(repeaters) : u < t
    BY DEF IInv, NewInv
  <2>2. ~(t < t)
    BY <1>1 DEF Timer
  <2>3. QED
    BY <2>1, <2>2
<1>3. /\ timer_list \in Seq(Timer) /\ remaining \in Seq(Timer)
      /\ fire_time \in [Timer -> Nat] /\ now \in Nat
  BY DEF IInv, TypeOK
<1>4. d \in Nat
  <2>1. delay \in Nat
    OBVIOUS
  <2>2. QED
    BY <1>3, <2>1
<1>5. /\ fire_time' = fire
      /\ timer_list' = InsertSorted(t, timer_list, fire)
  BY DEF RunAtTime
<1>6. Ordered(timer_list, fire_time) /\ Ordered(remaining, fire_time) /\ Once(timer_list)
  BY DEF IInv, ListsInv
<1> HIDE DEF t, d, fire
<1>7. fire \in [Timer -> Nat] /\ Ordered(timer_list, fire) /\ Ordered(remaining, fire)
  <2>1. /\ fire \in [Timer -> Nat]
        /\ Ordered(timer_list, fire_time) => Ordered(timer_list, fire)
    BY <1>1, <1>2, <1>3, <1>4, FireElsewhere DEF fire
  <2>2. Ordered(remaining, fire_time) => Ordered(remaining, fire)
    BY <1>1, <1>2, <1>3, <1>4, FireElsewhere DEF fire
  <2>3. QED
    BY <1>6, <2>1, <2>2
<1> DEFINE new == InsertSorted(t, timer_list, fire)
<1>8. /\ new \in Seq(Timer) /\ Ordered(new, fire) /\ Once(new)
      /\ ToSet(new) = ToSet(timer_list) \cup {t}
  BY <1>1, <1>2, <1>3, <1>6, <1>7, Inserted
<1> HIDE DEF new
<1>9. timer_list' = new
  BY <1>5 DEF new
<1>10. QED
  BY <1>1, <1>2, <1>5, <1>7, <1>8, <1>9 DEF t, d, fire

(* What cancel-timer does to the list and its cache.                       *)
LEMMA Cancelling ==
  ASSUME IInv, NEW t \in Timer, CancelTimer(t)
  PROVE  /\ timer_list' \in Seq(Timer)
         /\ Ordered(timer_list', fire_time) /\ Once(timer_list')
         /\ ToSet(timer_list') = ToSet(timer_list) \ {t}
<1>1. /\ timer_list \in Seq(Timer) /\ fire_time \in [Timer -> Nat]
      /\ Ordered(timer_list, fire_time) /\ Once(timer_list)
  BY DEF IInv, TypeOK, ListsInv
<1>2. timer_list' = Without(t)
  BY DEF CancelTimer
<1>3. /\ Without(t) \in Seq(Timer)
      /\ Ordered(Without(t), fire_time)
      /\ Once(Without(t))
      /\ ToSet(Without(t)) = ToSet(timer_list) \ {t}
  BY <1>1, Removed
<1>4. QED
  BY <1>2, <1>3

(* What a callback that returns does to the lists of the run.              *)
LEMMA Returning ==
  ASSUME IInv, CallbackReturns
  PROVE  /\ Head(remaining) \in Timer
         /\ Head(remaining) \in ToSet(remaining)
         /\ remaining' = Tail(remaining) /\ remaining' \in Seq(Timer)
         /\ ToSet(remaining') = ToSet(remaining) \ {Head(remaining)}
         /\ Once(remaining') /\ Ordered(remaining', fire_time')
         /\ fire_time' \in [Timer -> Nat]
         /\ Ordered(timer_list, fire_time')
         /\ FirstFire(timer_list, fire_time') = FirstFire(timer_list, fire_time)
         /\ repeaters' \in Seq(Timer) /\ Once(repeaters')
         /\ ToSet(repeaters') = ToSet(repeaters) \cup
              (IF repeat_ms[Head(remaining)] > 0 THEN {Head(remaining)} ELSE {})
         /\ IF repeat_ms[Head(remaining)] > 0
            THEN fire_time' = [fire_time EXCEPT ![Head(remaining)]
                                 = fire_time[Head(remaining)] + repeat_ms[Head(remaining)]]
            ELSE fire_time' = fire_time
<1> DEFINE t == Head(remaining)
           d == fire_time[t] + repeat_ms[t]
           fire == [fire_time EXCEPT ![t] = d]
<1>1. /\ timer_list \in Seq(Timer) /\ remaining \in Seq(Timer) /\ repeaters \in Seq(Timer)
      /\ fire_time \in [Timer -> Nat] /\ repeat_ms \in [Timer -> Nat]
  BY DEF IInv, TypeOK
<1>2. /\ Once(timer_list) /\ Once(remaining) /\ Once(repeaters)
      /\ ToSet(timer_list) \cap ToSet(remaining) = {}
      /\ ToSet(remaining) \cap ToSet(repeaters) = {}
      /\ Ordered(timer_list, fire_time) /\ Ordered(remaining, fire_time)
  BY DEF IInv, ListsInv
<1>3. remaining # <<>>
  BY DEF IInv, RunInv, CallbackReturns
<1>4. /\ t \in Timer /\ t \in ToSet(remaining)
      /\ Tail(remaining) \in Seq(Timer) /\ Once(Tail(remaining))
      /\ Ordered(Tail(remaining), fire_time)
      /\ ToSet(Tail(remaining)) = ToSet(remaining) \ {t}
  BY <1>1, <1>2, <1>3, Walked
<1>5. /\ remaining' = Tail(remaining)
      /\ \/ /\ repeat_ms[t] > 0
            /\ fire_time' = fire
            /\ repeaters' = Cons(t, repeaters)
         \/ repeat_ms[t] = 0 /\ fire_time' = fire_time /\ repeaters' = repeaters
  BY DEF CallbackReturns, NextTime
<1>6. /\ t \notin ToSet(timer_list) /\ t \notin ToSet(repeaters)
      /\ t \notin ToSet(Tail(remaining))
  BY <1>2, <1>4
<1>7. d \in Nat
  BY <1>1, <1>4
<1> HIDE DEF t, d, fire
<1>8. /\ fire \in [Timer -> Nat] /\ Ordered(timer_list, fire)
      /\ FirstFire(timer_list, fire) = FirstFire(timer_list, fire_time)
  <2>1. /\ fire \in [Timer -> Nat]
        /\ Ordered(timer_list, fire_time) => Ordered(timer_list, fire)
    BY <1>1, <1>4, <1>6, <1>7, FireElsewhere DEF fire
  <2>2. FirstFire(timer_list, fire) = FirstFire(timer_list, fire_time)
    <3>1. \A u \in ToSet(timer_list) : u \in Timer /\ u # t
      BY <1>1, <1>6, Elements
    <3>2. \A u \in ToSet(timer_list) : fire[u] = fire_time[u]
      BY <1>1, <3>1 DEF fire
    <3>3. QED
      BY <1>1, <2>1, <3>2, FirstElsewhere
  <2>3. QED
    BY <1>2, <2>1, <2>2
<1>9. Ordered(Tail(remaining), fire)
  <2> DEFINE rest == Tail(remaining)
  <2>1. rest \in Seq(Timer) /\ t \notin ToSet(rest) /\ Ordered(rest, fire_time)
    BY <1>4, <1>6
  <2> HIDE DEF rest
  <2>2. Ordered(rest, fire_time) => Ordered(rest, fire)
    BY <1>1, <1>4, <1>7, <2>1, FireElsewhere DEF fire
  <2>3. QED
    BY <2>1, <2>2 DEF rest
<1>10. /\ Cons(t, repeaters) \in Seq(Timer) /\ Once(Cons(t, repeaters))
       /\ ToSet(Cons(t, repeaters)) = ToSet(repeaters) \cup {t}
  BY <1>1, <1>2, <1>4, <1>6, SetAside
<1>11. /\ remaining' = Tail(remaining) /\ remaining' \in Seq(Timer)
       /\ ToSet(remaining') = ToSet(remaining) \ {t}
       /\ Once(remaining')
  BY <1>4, <1>5
<1>12. /\ Ordered(remaining', fire_time')
       /\ fire_time' \in [Timer -> Nat]
       /\ Ordered(timer_list, fire_time')
       /\ FirstFire(timer_list, fire_time') = FirstFire(timer_list, fire_time)
  <2>1. CASE fire_time' = fire
    BY <1>5, <1>8, <1>9, <2>1
  <2>2. CASE fire_time' = fire_time
    BY <1>1, <1>2, <1>4, <1>5, <2>2
  <2>3. QED
    BY <1>5, <2>1, <2>2
<1>13. /\ repeaters' \in Seq(Timer) /\ Once(repeaters')
       /\ ToSet(repeaters') = ToSet(repeaters) \cup (IF repeat_ms[t] > 0 THEN {t} ELSE {})
       /\ IF repeat_ms[t] > 0 THEN fire_time' = fire ELSE fire_time' = fire_time
  <2>1. CASE repeat_ms[t] > 0
    BY <1>1, <1>4, <1>5, <1>10, <2>1
  <2>2. CASE ~(repeat_ms[t] > 0)
    BY <1>1, <1>2, <1>4, <1>5, <2>2
  <2>3. QED
    BY <2>1, <2>2
<1>14. QED
  BY <1>4, <1>11, <1>12, <1>13 DEF t, d, fire

(* What the end of a run does to the list.                                 *)
LEMMA Ending ==
  ASSUME IInv, WalkEnds
  PROVE  /\ timer_list' \in Seq(Timer)
         /\ Ordered(timer_list', fire_time) /\ Once(timer_list')
         /\ ToSet(timer_list') =
              ToSet(IF remaining # <<>> THEN remaining ELSE timer_list) \cup ToSet(repeaters)
<1>1. /\ timer_list \in Seq(Timer) /\ remaining \in Seq(Timer) /\ repeaters \in Seq(Timer)
      /\ fire_time \in [Timer -> Nat]
  BY DEF IInv, TypeOK
<1>2. /\ Ordered(timer_list, fire_time) /\ Once(timer_list)
      /\ Ordered(remaining, fire_time) /\ Once(remaining) /\ Once(repeaters)
      /\ ToSet(timer_list) \cap ToSet(repeaters) = {}
      /\ ToSet(remaining) \cap ToSet(repeaters) = {}
  BY DEF IInv, ListsInv
<1>3. /\ ListAfterRun \in Seq(Timer)
      /\ Ordered(ListAfterRun, fire_time)
      /\ Once(ListAfterRun)
      /\ ToSet(ListAfterRun) =
           ToSet(IF remaining # <<>> THEN remaining ELSE timer_list) \cup ToSet(repeaters)
  BY <1>1, <1>2, Merged
<1>4. timer_list' = ListAfterRun
  BY DEF WalkEnds
<1>5. QED
  BY <1>3, <1>4

(* Nothing is scheduled at first.                                          *)
LEMMA InitIInv == Init => IInv
<1> SUFFICES ASSUME Init PROVE IInv
  OBVIOUS
<1>1. TypeOK
  <2>1. /\ now \in Nat /\ timer_next_id \in 1 .. MaxTimers + 1
        /\ next_fire_ms \in Nat \cup {None} /\ run_now \in Nat
    BY DEF Init, None
  <2>2. /\ fire_time \in [Timer -> Nat] /\ repeat_ms \in [Timer -> Nat]
        /\ scheduled \in [Timer -> Nat] /\ fired \in [Timer -> Nat]
    BY DEF Init
  <2>3. /\ timer_list \in Seq(Timer) /\ remaining \in Seq(Timer)
        /\ repeaters \in Seq(Timer)
    BY DEF Init
  <2>4. pc \in {"loop", "walk", "callback"} /\ failed \in BOOLEAN
    BY DEF Init
  <2>5. active \subseteq Timer /\ touched \subseteq Timer
    BY DEF Init
  <2>6. QED
    BY <2>1, <2>2, <2>3, <2>4, <2>5 DEF TypeOK
<1>2. Once(<<>>) /\ ToSet(<<>>) = {} /\ \A fire : Ordered(<<>>, fire)
  BY DEF Once, Ordered, ToSet
<1>3. timer_list = <<>> /\ remaining = <<>> /\ repeaters = <<>>
  BY DEF Init
<1>4. ListsInv
  BY <1>2, <1>3 DEF ListsInv
<1>5. NewInv /\ RunInv /\ CacheInv
  BY <1>2, <1>3 DEF Init, NewInv, RunInv, CacheInv, FirstFire
<1>6. HeldInv
  BY <1>2, <1>3 DEF Init, HeldInv, Held
<1>7. PlanInv
  <2>1. MidPlan
    BY DEF Init, MidPlan
  <2>2. ASSUME NEW t \in Timer, t < timer_next_id
        PROVE  FALSE
    BY <2>2 DEF Init, Timer
  <2>3. QED
    BY <2>1, <2>2 DEF PlanInv, OnPlan
<1>8. QED
  BY <1>1, <1>4, <1>5, <1>6, <1>7 DEF IInv

(* Every step keeps the types.                                             *)
LEMMA StepType == IInv /\ [Next]_vars => TypeOK'
<1> SUFFICES ASSUME IInv, [Next]_vars PROVE TypeOK'
  OBVIOUS
<1>0. TypeOK /\ RunInv
  BY DEF IInv
<1>1. ASSUME NEW delay \in Delays, NEW repeat \in Repeats, RunAtTime(delay, repeat)
      PROVE  TypeOK'
  <2>1. /\ timer_next_id \in Timer /\ timer_list' \in Seq(Timer) /\ fire_time' \in [Timer -> Nat]
    BY <1>1, Scheduling
  <2>2. next_fire_ms' \in Nat \cup {None}
    <3>1. FirstFire(timer_list', fire_time') \in Nat \cup {None}
      BY <2>1, FirstFireType
    <3>2. next_fire_ms' = FirstFire(timer_list', fire_time')
      BY <1>1, Zenon DEF RunAtTime
    <3>3. QED
      BY <3>1, <3>2
  <2>3. /\ timer_next_id' \in 1 .. MaxTimers + 1
        /\ repeat_ms' \in [Timer -> Nat] /\ scheduled' \in [Timer -> Nat]
        /\ active' \subseteq Timer /\ touched' \subseteq Timer
    <3>1. delay \in Nat /\ repeat \in Nat /\ now + delay \in Nat
      BY <1>0 DEF TypeOK
    <3>2. /\ timer_next_id' = timer_next_id + 1
          /\ repeat_ms' = [repeat_ms EXCEPT ![timer_next_id] = repeat]
          /\ scheduled' = [scheduled EXCEPT ![timer_next_id] = now + delay]
          /\ active' = active \cup {timer_next_id}
          /\ touched' \subseteq touched \cup {timer_next_id}
      BY <1>1 DEF RunAtTime, Touch
    <3>3. timer_next_id' \in 1 .. MaxTimers + 1
      BY <2>1, <3>2 DEF Timer
    <3>4. repeat_ms' \in [Timer -> Nat] /\ scheduled' \in [Timer -> Nat]
      BY <1>0, <3>1, <3>2 DEF TypeOK
    <3>5. QED
      BY <1>0, <2>1, <3>2, <3>3, <3>4 DEF TypeOK
  <2>4. UNCHANGED <<now, pc, run_now, remaining, repeaters, fired, failed>>
    BY <1>1 DEF RunAtTime, run
  <2>5. QED
    BY <1>0, <2>1, <2>2, <2>3, <2>4 DEF TypeOK
<1>2. ASSUME NEW t \in Timer, CancelTimer(t)
      PROVE  TypeOK'
  <2>1. timer_list' \in Seq(Timer)
    BY <1>2, Cancelling
  <2>2. next_fire_ms' \in Nat \cup {None}
    <3>1. FirstFire(timer_list', fire_time) \in Nat \cup {None}
      BY <1>0, <2>1, FirstFireType DEF TypeOK
    <3>2. next_fire_ms' = IF t \in ToSet(timer_list) THEN FirstFire(timer_list', fire_time)
                          ELSE next_fire_ms
      BY <1>2 DEF CancelTimer, CacheAfterCancel
    <3>3. QED
      BY <1>0, <3>1, <3>2 DEF TypeOK
  <2>3. /\ UNCHANGED <<now, timer_next_id, fire_time, repeat_ms, pc, run_now, remaining,
                       repeaters, scheduled, fired, failed>>
        /\ active' \subseteq active /\ touched' \subseteq touched \cup {t}
    BY <1>2 DEF CancelTimer, Touch, run
  <2>4. QED
    BY <1>0, <2>1, <2>2, <2>3 DEF TypeOK
<1>3. CASE RunTimers
  <2>1. /\ pc' = "walk" /\ run_now' = now /\ remaining' = timer_list
        /\ repeaters' = <<>> /\ timer_list' = <<>> /\ failed' = FALSE
        /\ UNCHANGED <<now, timer_next_id, next_fire_ms, fire_time, repeat_ms,
                       scheduled, fired, active, touched>>
    BY <1>3 DEF RunTimers, Detached
  <2>2. <<>> \in Seq(Timer)
    OBVIOUS
  <2>3. QED
    BY <1>0, <2>1, <2>2 DEF TypeOK
<1>4. CASE Fire
  <2>1. /\ pc' = "callback" /\ remaining # <<>>
        /\ fired' = [fired EXCEPT ![Head(remaining)] = fired[Head(remaining)] + 1]
        /\ active' \subseteq active
        /\ UNCHANGED <<now, timers, run, scheduled, touched, failed>>
    BY <1>4 DEF Fire
  <2>2. Head(remaining) \in Timer
    BY <1>0, <2>1 DEF TypeOK
  <2>3. fired' \in [Timer -> Nat]
    BY <1>0, <2>1, <2>2 DEF TypeOK
  <2>4. QED
    BY <1>0, <2>1, <2>3 DEF TypeOK, timers, run
<1>5. CASE CallbackReturns
  <2>1. /\ remaining' \in Seq(Timer) /\ repeaters' \in Seq(Timer) /\ fire_time' \in [Timer -> Nat]
    BY <1>5, Returning
  <2>2. /\ pc' = "walk"
        /\ UNCHANGED <<now, timer_list, timer_next_id, next_fire_ms, repeat_ms,
                       run_now, history>>
    BY <1>5 DEF CallbackReturns
  <2>3. QED
    BY <1>0, <2>1, <2>2 DEF TypeOK, history
<1>6. CASE CallbackFails
  <2>1. /\ pc' = "loop" /\ remaining' = <<>> /\ repeaters' = <<>> /\ failed' = TRUE
        /\ touched' \subseteq touched \cup ToSet(remaining \o repeaters)
        /\ UNCHANGED <<now, timers, run_now, scheduled, fired, active>>
    BY <1>6 DEF CallbackFails, Touch
  <2>2. remaining \o repeaters \in Seq(Timer)
    BY <1>0 DEF TypeOK
  <2>3. ToSet(remaining \o repeaters) \subseteq Timer
    BY <2>2, Elements
  <2>4. QED
    BY <1>0, <2>1, <2>3 DEF TypeOK, timers
<1>7. CASE WalkEnds
  <2>1. timer_list' \in Seq(Timer)
    BY <1>7, Ending
  <2>2. next_fire_ms' \in Nat \cup {None}
    <3>1. FirstFire(timer_list', fire_time) \in Nat \cup {None}
      BY <1>0, <2>1, FirstFireType DEF TypeOK
    <3>2. next_fire_ms' = FirstFire(timer_list', fire_time)
      BY <1>7, Zenon DEF WalkEnds
    <3>3. QED
      BY <3>1, <3>2
  <2>3. /\ pc' = "loop" /\ remaining' = <<>> /\ repeaters' = <<>>
        /\ UNCHANGED <<now, timer_next_id, fire_time, repeat_ms, run_now, history>>
    BY <1>7 DEF WalkEnds
  <2>4. QED
    BY <1>0, <2>1, <2>2, <2>3 DEF TypeOK, history
<1>8. CASE Clock
  BY <1>0, <1>8 DEF Clock, TypeOK, timers, run, history
<1>9. CASE UNCHANGED vars
  BY <1>0, <1>9 DEF TypeOK, vars, timers, run, history
<1>10. QED
  BY <1>1, <1>2, <1>3, <1>4, <1>5, <1>6, <1>7, <1>8, <1>9 DEF Next, Walk

(* Every step keeps the lists apart and in order.                          *)
LEMMA StepLists == IInv /\ [Next]_vars => ListsInv'
<1> SUFFICES ASSUME IInv, [Next]_vars PROVE ListsInv'
  OBVIOUS
<1>0. ListsInv /\ RunInv
  BY DEF IInv
<1>01. Once(<<>>) /\ ToSet(<<>>) = {} /\ \A fire : Ordered(<<>>, fire)
  BY DEF Once, Ordered, ToSet
<1>1. ASSUME NEW delay \in Delays, NEW repeat \in Repeats, RunAtTime(delay, repeat)
      PROVE  ListsInv'
  <2>1. /\ timer_next_id \notin ToSet(remaining) \cup ToSet(repeaters)
        /\ Ordered(timer_list', fire_time') /\ Once(timer_list')
        /\ ToSet(timer_list') = ToSet(timer_list) \cup {timer_next_id}
        /\ Ordered(remaining, fire_time')
    BY <1>1, Scheduling
  <2>2. UNCHANGED <<remaining, repeaters>>
    BY <1>1 DEF RunAtTime, run
  <2>3. QED
    BY <1>0, <2>1, <2>2 DEF ListsInv
<1>2. ASSUME NEW t \in Timer, CancelTimer(t)
      PROVE  ListsInv'
  <2>1. /\ Ordered(timer_list', fire_time) /\ Once(timer_list')
        /\ ToSet(timer_list') = ToSet(timer_list) \ {t}
    BY <1>2, Cancelling
  <2>2. UNCHANGED <<fire_time, remaining, repeaters>>
    BY <1>2 DEF CancelTimer, run
  <2>3. QED
    BY <1>0, <2>1, <2>2 DEF ListsInv
<1>3. CASE RunTimers
  <2>1. /\ timer_list' = <<>> /\ remaining' = timer_list /\ repeaters' = <<>>
        /\ fire_time' = fire_time
    BY <1>3 DEF RunTimers, Detached
  <2>2. QED
    BY <1>0, <1>01, <2>1 DEF ListsInv
<1>4. CASE Fire \/ Clock \/ UNCHANGED vars
  <2>1. UNCHANGED <<timer_list, remaining, repeaters, fire_time>>
    BY <1>4 DEF Fire, Clock, vars, timers, run
  <2>2. QED
    BY <1>0, <2>1 DEF ListsInv
<1>5. CASE CallbackReturns
  <2> DEFINE t == Head(remaining)
  <2>1. /\ t \in ToSet(remaining) /\ ToSet(remaining') = ToSet(remaining) \ {t}
        /\ Once(remaining') /\ Ordered(remaining', fire_time')
        /\ Ordered(timer_list, fire_time')
        /\ Once(repeaters') /\ ToSet(repeaters') \subseteq ToSet(repeaters) \cup {t}
    BY <1>5, Returning
  <2>2. timer_list' = timer_list
    BY <1>5 DEF CallbackReturns
  <2> HIDE DEF t
  <2>3. QED
    BY <1>0, <2>1, <2>2 DEF ListsInv
<1>6. CASE CallbackFails
  <2>1. remaining' = <<>> /\ repeaters' = <<>> /\ UNCHANGED <<timer_list, fire_time>>
    BY <1>6 DEF CallbackFails, timers
  <2>2. QED
    BY <1>0, <1>01, <2>1 DEF ListsInv
<1>7. CASE WalkEnds
  <2>1. Ordered(timer_list', fire_time) /\ Once(timer_list')
    BY <1>7, Ending
  <2>2. remaining' = <<>> /\ repeaters' = <<>> /\ fire_time' = fire_time
    BY <1>7 DEF WalkEnds
  <2>3. QED
    BY <1>01, <2>1, <2>2 DEF ListsInv
<1>8. QED
  BY <1>1, <1>2, <1>3, <1>4, <1>5, <1>6, <1>7 DEF Next, Walk

(* Every step leaves timers that do not exist alone.                       *)
LEMMA StepNew == IInv /\ [Next]_vars => NewInv'
<1> SUFFICES ASSUME IInv, [Next]_vars PROVE NewInv'
  OBVIOUS
<1> DEFINE All == ToSet(timer_list) \cup ToSet(remaining) \cup ToSet(repeaters)
<1>0. /\ TypeOK /\ ToSet(<<>>) = {}
      /\ \A t \in All : t < timer_next_id
      /\ \A t \in Timer : t >= timer_next_id => fired[t] = 0
  BY DEF IInv, NewInv, ToSet
<1>00. All \subseteq Timer
  BY <1>0, Elements DEF TypeOK
<1>1. ASSUME NEW delay \in Delays, NEW repeat \in Repeats, RunAtTime(delay, repeat)
      PROVE  NewInv'
  <2>1. /\ timer_next_id \in Timer
        /\ ToSet(timer_list') = ToSet(timer_list) \cup {timer_next_id}
    BY <1>1, Scheduling
  <2>2. UNCHANGED <<remaining, repeaters, fired>> /\ timer_next_id' = timer_next_id + 1
    BY <1>1 DEF RunAtTime, run
  <2>3. All' = All \cup {timer_next_id}
    BY <2>1, <2>2
  <2> HIDE DEF All
  <2>4. \A t \in Timer : /\ t < timer_next_id => t < timer_next_id'
                         /\ t >= timer_next_id' => t >= timer_next_id
    BY <2>1, <2>2 DEF Timer
  <2>5. timer_next_id < timer_next_id'
    BY <2>1, <2>2 DEF Timer
  <2>6. \A t \in All' : t < timer_next_id'
    BY <1>0, <1>00, <2>3, <2>4, <2>5
  <2>7. \A t \in Timer : t >= timer_next_id' => fired'[t] = 0
    BY <1>0, <2>2, <2>4
  <2>8. QED
    BY <2>6, <2>7 DEF NewInv, All
<1>2. CASE Fire
  <2>1. /\ remaining # <<>>
        /\ fired' = [fired EXCEPT ![Head(remaining)] = fired[Head(remaining)] + 1]
        /\ UNCHANGED <<timer_list, remaining, repeaters, timer_next_id>>
    BY <1>2 DEF Fire, timers, run
  <2>2. Head(remaining) \in All /\ Head(remaining) \in Timer
    <3>1. Once(remaining) /\ Ordered(remaining, fire_time)
      BY DEF IInv, ListsInv
    <3>2. QED
      BY <1>0, <2>1, <3>1, Walked DEF TypeOK
  <2>3. All' = All
    BY <2>1
  <2>4. ASSUME NEW t \in Timer, t >= timer_next_id
        PROVE  fired'[t] = 0
    <3>1. t # Head(remaining)
      <4>1. Head(remaining) < timer_next_id
        BY <1>0, <2>2
      <4>2. QED
        BY <1>0, <2>4, <4>1 DEF TypeOK, Timer
    <3>2. fired'[t] = fired[t]
      BY <1>0, <2>1, <3>1 DEF TypeOK
    <3>3. QED
      BY <1>0, <2>4, <3>2
  <2>5. QED
    BY <1>0, <2>1, <2>3, <2>4 DEF NewInv
<1>3. ASSUME All' \subseteq All, UNCHANGED <<timer_next_id, fired>>
      PROVE  NewInv'
  BY <1>0, <1>3 DEF NewInv
<1>4. ASSUME NEW t \in Timer, CancelTimer(t)
      PROVE  NewInv'
  <2>1. ToSet(timer_list') = ToSet(timer_list) \ {t}
    BY <1>4, Cancelling
  <2>2. UNCHANGED <<remaining, repeaters, timer_next_id, fired>>
    BY <1>4 DEF CancelTimer, run
  <2>3. QED
    BY <1>3, <2>1, <2>2
<1>5. CASE RunTimers
  <2>1. /\ timer_list' = <<>> /\ remaining' = timer_list /\ repeaters' = <<>>
        /\ UNCHANGED <<timer_next_id, fired>>
    BY <1>5 DEF RunTimers, Detached
  <2>2. QED
    BY <1>0, <1>3, <2>1
<1>6. CASE CallbackReturns
  <2> DEFINE t == Head(remaining)
  <2>1. /\ t \in ToSet(remaining) /\ ToSet(remaining') = ToSet(remaining) \ {t}
        /\ ToSet(repeaters') \subseteq ToSet(repeaters) \cup {t}
    BY <1>6, Returning
  <2>2. UNCHANGED <<timer_list, timer_next_id, fired>>
    BY <1>6 DEF CallbackReturns, history
  <2> HIDE DEF t
  <2>3. QED
    BY <1>3, <2>1, <2>2
<1>7. CASE CallbackFails
  <2>1. /\ remaining' = <<>> /\ repeaters' = <<>>
        /\ UNCHANGED <<timer_list, timer_next_id, fired>>
    BY <1>7 DEF CallbackFails, timers
  <2>2. QED
    BY <1>0, <1>3, <2>1
<1>8. CASE WalkEnds
  <2>1. ToSet(timer_list') \subseteq All
    BY <1>8, Ending
  <2>2. /\ remaining' = <<>> /\ repeaters' = <<>>
        /\ UNCHANGED <<timer_next_id, fired>>
    BY <1>8 DEF WalkEnds, history
  <2>3. QED
    BY <1>0, <1>3, <2>1, <2>2
<1>9. CASE Clock \/ UNCHANGED vars
  <2>1. UNCHANGED <<timer_list, remaining, repeaters, timer_next_id, fired>>
    BY <1>9 DEF Clock, vars, timers, run, history
  <2>2. QED
    BY <1>3, <2>1
<1>10. QED
  BY <1>1, <1>2, <1>4, <1>5, <1>6, <1>7, <1>8, <1>9 DEF Next, Walk

(* The head of the walk while a callback runs.                             *)
LEMMA Walking ==
  ASSUME IInv, pc = "callback" \/ remaining # <<>>
  PROVE  /\ remaining # <<>>
         /\ Head(remaining) \in Timer /\ Head(remaining) \in ToSet(remaining)
         /\ Head(remaining) < timer_next_id
         /\ Head(remaining) \notin ToSet(timer_list) \cup ToSet(repeaters)
<1>1. remaining # <<>>
  BY DEF IInv, RunInv
<1>2. /\ remaining \in Seq(Timer) /\ fire_time \in [Timer -> Nat]
      /\ Once(remaining) /\ Ordered(remaining, fire_time)
      /\ ToSet(timer_list) \cap ToSet(remaining) = {}
      /\ ToSet(remaining) \cap ToSet(repeaters) = {}
  BY DEF IInv, TypeOK, ListsInv
<1>3. Head(remaining) \in Timer /\ Head(remaining) \in ToSet(remaining)
  BY <1>1, <1>2, Walked
<1>4. Head(remaining) < timer_next_id
  BY <1>3 DEF IInv, NewInv
<1>5. QED
  BY <1>1, <1>2, <1>3, <1>4

(* Every step keeps the run's lists to the run.                            *)
LEMMA StepRun == IInv /\ [Next]_vars => RunInv'
<1> SUFFICES ASSUME IInv, [Next]_vars PROVE RunInv'
  OBVIOUS
<1>0. /\ RunInv /\ now \in Nat /\ run_now \in Nat
      /\ pc \in {"loop", "walk", "callback"}
  BY DEF IInv, TypeOK
<1>1. ASSUME NEW delay \in Delays, NEW repeat \in Repeats, RunAtTime(delay, repeat)
      PROVE  RunInv'
  <2>1. ToSet(timer_list') = ToSet(timer_list) \cup {timer_next_id}
    BY <1>1, Scheduling
  <2>2. /\ UNCHANGED <<pc, remaining, repeaters, failed, run_now, now>>
        /\ pc = "loop" \/ (pc = "callback" /\ touched' = touched \cup {timer_next_id})
    BY <1>1 DEF RunAtTime, run, Touch
  <2>3. QED
    BY <1>0, <2>1, <2>2 DEF RunInv
<1>2. ASSUME NEW t \in Timer, CancelTimer(t)
      PROVE  RunInv'
  <2>1. ToSet(timer_list') = ToSet(timer_list) \ {t}
    BY <1>2, Cancelling
  <2>2. /\ UNCHANGED <<pc, remaining, repeaters, failed, run_now, now>>
        /\ touched \subseteq touched'
    BY <1>2 DEF CancelTimer, run, Touch
  <2>3. QED
    BY <1>0, <2>1, <2>2 DEF RunInv
<1>3. CASE RunTimers
  <2>1. /\ pc' = "walk" /\ run_now' = now /\ now' = now /\ failed' = FALSE
        /\ timer_list' = <<>>
    BY <1>3 DEF RunTimers, Detached
  <2>2. ToSet(timer_list') = {}
    BY <2>1 DEF ToSet
  <2>3. QED
    BY <1>0, <2>1, <2>2 DEF RunInv
<1>4. CASE Fire
  <2>1. /\ pc = "walk" /\ pc' = "callback" /\ remaining # <<>>
        /\ UNCHANGED <<timer_list, remaining, repeaters, failed, run_now, now, touched>>
    BY <1>4 DEF Fire, timers, run
  <2>2. QED
    BY <1>0, <2>1 DEF RunInv
<1>5. CASE CallbackReturns
  <2>1. /\ pc = "callback" /\ pc' = "walk"
        /\ UNCHANGED <<timer_list, failed, run_now, now, touched>>
    BY <1>5 DEF CallbackReturns, history
  <2>2. QED
    BY <1>0, <2>1 DEF RunInv
<1>6. CASE CallbackFails \/ WalkEnds
  <2>1. /\ pc' = "loop" /\ remaining' = <<>> /\ repeaters' = <<>>
        /\ UNCHANGED <<run_now, now>>
    BY <1>6 DEF CallbackFails, WalkEnds
  <2>2. QED
    BY <1>0, <2>1 DEF RunInv
<1>7. CASE Clock
  <2>1. /\ now' = now + 1
        /\ UNCHANGED <<pc, timer_list, remaining, repeaters, failed, run_now, touched>>
    BY <1>7 DEF Clock, timers, run, history
  <2>2. run_now' <= now'
    BY <1>0, <2>1 DEF RunInv
  <2>3. QED
    BY <1>0, <2>1, <2>2 DEF RunInv
<1>8. CASE UNCHANGED vars
  BY <1>0, <1>8 DEF RunInv, vars, timers, run, history
<1>9. QED
  BY <1>1, <1>2, <1>3, <1>4, <1>5, <1>6, <1>7, <1>8 DEF Next, Walk

(* Lists of the same timers, both in order, begin at the same time.        *)
LEMMA SameFirst ==
  ASSUME NEW a \in Seq(Timer), NEW b \in Seq(Timer), NEW fire \in [Timer -> Nat],
         Ordered(a, fire), Ordered(b, fire), ToSet(a) = ToSet(b)
  PROVE  FirstFire(a, fire) = FirstFire(b, fire) /\ (a = <<>> <=> b = <<>>)
<1>1. \A s \in Seq(Timer) : s = <<>> <=> ToSet(s) = {}
  <2>1. ToSet(<<>>) = {}
    BY DEF ToSet
  <2>2. ASSUME NEW s \in Seq(Timer), s # <<>>
        PROVE  ToSet(s) # {}
    <3>1. 1 \in 1 .. Len(s)
      BY <2>2
    <3>2. QED
      BY <3>1, Elements
  <2>3. QED
    BY <2>1, <2>2
<1>2. a = <<>> <=> b = <<>>
  BY <1>1
<1>3. ASSUME NEW c \in Seq(Timer), NEW d \in Seq(Timer), c # <<>>,
             Ordered(d, fire), ToSet(c) = ToSet(d)
      PROVE  d[1] \in Timer /\ c[1] \in Timer /\ fire[d[1]] <= fire[c[1]]
  <2>1. 1 \in 1 .. Len(c)
    BY <1>3
  <2>2. c[1] \in ToSet(d) /\ c[1] \in Timer
    BY <1>3, <2>1, Elements
  <2>3. PICK k \in 1 .. Len(d) : d[k] = c[1]
    BY <2>2, Elements
  <2>4. 1 \in 1 .. Len(d) /\ d[1] \in Timer /\ fire[d[1]] \in Nat
    BY <2>3
  <2>5. CASE k = 1
    BY <2>2, <2>3, <2>4, <2>5
  <2>6. CASE k # 1
    <3>1. 1 < k
      BY <2>3, <2>6
    <3>2. QED
      BY <1>3, <2>2, <2>3, <2>4, <3>1 DEF Ordered
  <2>7. QED
    BY <2>5, <2>6
<1>4. CASE a = <<>>
  BY <1>2, <1>4
<1>5. CASE a # <<>>
  <2>1. fire[b[1]] <= fire[a[1]] /\ a[1] \in Timer /\ b[1] \in Timer
    BY <1>3, <1>5
  <2>2. fire[a[1]] <= fire[b[1]]
    BY <1>2, <1>3, <1>5
  <2>3. fire[a[1]] = fire[b[1]]
    BY <2>1, <2>2
  <2>4. FirstFire(a, fire) = fire[a[1]] /\ FirstFire(b, fire) = fire[b[1]]
    BY <1>2, <1>5, FirstFireType
  <2>5. QED
    BY <1>2, <2>3, <2>4
<1>6. QED
  BY <1>4, <1>5

(* Every step keeps the cache current.                                     *)
LEMMA StepCache == IInv /\ [Next]_vars => CacheInv'
<1> SUFFICES ASSUME IInv, [Next]_vars PROVE CacheInv'
  OBVIOUS
<1>0. /\ CacheInv /\ timer_list \in Seq(Timer) /\ fire_time \in [Timer -> Nat]
      /\ Ordered(timer_list, fire_time)
  BY DEF IInv, TypeOK, ListsInv
<1>1. ASSUME NEW delay \in Delays, NEW repeat \in Repeats, RunAtTime(delay, repeat)
      PROVE  CacheInv'
  <2>1. next_fire_ms' = FirstFire(timer_list', fire_time')
    BY <1>1, Zenon DEF RunAtTime
  <2>2. QED
    BY <2>1, Zenon DEF CacheInv
<1>2. ASSUME NEW t \in Timer, CancelTimer(t)
      PROVE  CacheInv'
  <2>1. /\ timer_list' \in Seq(Timer)
        /\ Ordered(timer_list', fire_time)
        /\ ToSet(timer_list') = ToSet(timer_list) \ {t}
    BY <1>2, Cancelling
  <2>2. UNCHANGED <<fire_time, pc, failed>>
    BY <1>2 DEF CancelTimer
  <2>3. next_fire_ms' = IF t \in ToSet(timer_list) THEN FirstFire(timer_list', fire_time)
                        ELSE next_fire_ms
    BY <1>2 DEF CancelTimer, CacheAfterCancel
  <2>4. CASE t \in ToSet(timer_list)
    BY <2>2, <2>3, <2>4, Zenon DEF CacheInv
  <2>5. CASE t \notin ToSet(timer_list)
    <3>1. ToSet(timer_list') = ToSet(timer_list)
      BY <2>1, <2>5
    <3>2. /\ FirstFire(timer_list', fire_time) = FirstFire(timer_list, fire_time)
          /\ timer_list' = <<>> <=> timer_list = <<>>
      BY <1>0, <2>1, <3>1, SameFirst
    <3>3. QED
      BY <1>0, <2>2, <2>3, <2>5, <3>2, Zenon DEF CacheInv
  <2>6. QED
    BY <2>4, <2>5
<1>3. CASE RunTimers
  <2>1. timer_list' = <<>> /\ pc' = "walk"
    BY <1>3 DEF RunTimers, Detached
  <2>2. QED
    BY <2>1 DEF CacheInv
<1>4. CASE Fire
  <2>1. /\ pc' = "callback"
        /\ UNCHANGED <<timer_list, fire_time, next_fire_ms>>
    BY <1>4 DEF Fire, timers
  <2>2. QED
    BY <1>0, <2>1 DEF CacheInv
<1>5. CASE CallbackReturns
  <2>1. FirstFire(timer_list, fire_time') = FirstFire(timer_list, fire_time)
    BY <1>5, Returning
  <2>2. pc' = "walk" /\ UNCHANGED <<timer_list, next_fire_ms>>
    BY <1>5 DEF CallbackReturns
  <2>3. QED
    BY <1>0, <2>1, <2>2 DEF CacheInv
<1>6. CASE CallbackFails
  <2>1. failed' = TRUE /\ UNCHANGED <<timer_list, fire_time, next_fire_ms>>
    BY <1>6 DEF CallbackFails, timers
  <2>2. QED
    BY <1>0, <2>1 DEF CacheInv
<1>7. CASE WalkEnds
  <2>1. next_fire_ms' = FirstFire(timer_list', fire_time) /\ fire_time' = fire_time
    BY <1>7, Zenon DEF WalkEnds
  <2>2. QED
    BY <2>1, Zenon DEF CacheInv
<1>8. CASE Clock \/ UNCHANGED vars
  <2>1. UNCHANGED <<timer_list, fire_time, next_fire_ms, pc, failed>>
    BY <1>8 DEF Clock, vars, timers, history
  <2>2. QED
    BY <1>0, <2>1 DEF CacheInv
<1>9. QED
  BY <1>1, <1>2, <1>3, <1>4, <1>5, <1>6, <1>7, <1>8 DEF Next, Walk

(* A run that ends in an error touches all it had detached.                *)
LEMMA JoinedSet ==
  ASSUME NEW a \in Seq(Timer), NEW c \in Seq(Timer)
  PROVE  ToSet(a \o c) = ToSet(a) \cup ToSet(c)
<1> DEFINE s == a \o c
<1>1. /\ s \in Seq(Timer) /\ Len(s) = Len(a) + Len(c)
      /\ \A k \in 1 .. Len(a) : s[k] = a[k]
      /\ \A k \in 1 .. Len(c) : s[Len(a) + k] = c[k]
  BY Joined
<1>2. Len(a) \in Nat /\ Len(c) \in Nat
  OBVIOUS
<1> HIDE DEF s
<1>3. ASSUME NEW u \in ToSet(s)
      PROVE  u \in ToSet(a) \cup ToSet(c)
  <2>1. PICK k \in 1 .. Len(s) : s[k] = u
    BY <1>1, Elements
  <2>2. CASE k <= Len(a)
    <3>1. k \in 1 .. Len(a) /\ u = a[k]
      BY <1>1, <1>2, <2>1, <2>2
    <3>2. QED
      BY <3>1, Elements
  <2>3. CASE ~(k <= Len(a))
    <3> DEFINE j == k - Len(a)
    <3>1. j \in 1 .. Len(c) /\ Len(a) + j = k
      BY <1>1, <1>2, <2>3
    <3> HIDE DEF j
    <3>2. u = c[j]
      BY <1>1, <2>1, <3>1
    <3>3. QED
      BY <3>1, <3>2, Elements
  <2>4. QED
    BY <2>2, <2>3
<1>4. ASSUME NEW u \in ToSet(a)
      PROVE  u \in ToSet(s)
  <2>1. PICK k \in 1 .. Len(a) : a[k] = u
    BY Elements
  <2>2. k \in 1 .. Len(s) /\ s[k] = u
    BY <1>1, <1>2, <2>1
  <2>3. QED
    BY <1>1, <2>2, Elements
<1>5. ASSUME NEW u \in ToSet(c)
      PROVE  u \in ToSet(s)
  <2>1. PICK k \in 1 .. Len(c) : c[k] = u
    BY Elements
  <2>2. Len(a) + k \in 1 .. Len(s) /\ s[Len(a) + k] = u
    BY <1>1, <1>2, <2>1
  <2>3. QED
    BY <1>1, <2>2, Elements
<1>6. QED
  BY <1>3, <1>4, <1>5 DEF s

(* Every step keeps the untouched timers with a call to come in the lists. *)
LEMMA StepHeld == IInv /\ [Next]_vars => HeldInv'
<1> SUFFICES ASSUME IInv, [Next]_vars PROVE HeldInv'
  OBVIOUS
<1> DEFINE list == ToSet(timer_list)
           rest == ToSet(remaining)
           back == ToSet(repeaters)
           head == Head(remaining)
<1>0. Held \ touched = active \ touched
  BY DEF IInv, HeldInv
<1>00. Held = (list \cup rest \cup back) \ (IF Calling THEN {head} ELSE {})
  BY DEF Held
<1>01. ToSet(<<>>) = {}
  BY DEF ToSet
<1>1. ASSUME NEW delay \in Delays, NEW repeat \in Repeats, RunAtTime(delay, repeat)
      PROVE  HeldInv'
  <2> DEFINE t == timer_next_id
  <2>1. t \in Timer /\ t \notin list \cup rest \cup back /\ list' = list \cup {t}
    BY <1>1, Scheduling
  <2>2. /\ UNCHANGED <<pc, remaining, repeaters>>
        /\ active' = active \cup {t}
        /\ touched' = touched \/ touched' = touched \cup {t}
        /\ repeat_ms' = [repeat_ms EXCEPT ![t] = repeat]
    BY <1>1 DEF RunAtTime, run, Touch
  <2>3. Calling' = Calling /\ (Calling => head # t)
    <3>1. CASE pc = "callback"
      <4>1. head \in Timer /\ head # t
        BY <2>1, <3>1, Walking
      <4>2. repeat_ms'[head] = repeat_ms[head]
        BY <2>1, <2>2, <4>1 DEF IInv, TypeOK
      <4>3. QED
        BY <2>2, <4>1, <4>2 DEF Calling
    <3>2. CASE pc # "callback"
      BY <2>2, <3>2 DEF Calling
    <3>3. QED
      BY <3>1, <3>2
  <2>4. Held' = Held \cup {t}
    <3>1. /\ Held' = (list' \cup rest' \cup back') \ (IF Calling' THEN {head'} ELSE {})
          /\ rest' = rest /\ back' = back /\ head' = head
      BY <2>2 DEF Held
    <3> HIDE DEF list, rest, back, head, t
    <3>2. QED
      BY <1>00, <2>1, <2>3, <3>1
  <2> HIDE DEF t
  <2>5. QED
    BY <1>0, <2>2, <2>4 DEF HeldInv
<1>2. ASSUME NEW t \in Timer, CancelTimer(t)
      PROVE  HeldInv'
  <2>1. list' = list \ {t}
    BY <1>2, Cancelling
  <2>2. /\ UNCHANGED <<pc, remaining, repeaters, repeat_ms>>
        /\ active' = active \ {t}
        /\ \/ pc = "loop" /\ touched' = touched
           \/ pc = "callback" /\ touched' = touched \cup {t}
    BY <1>2 DEF CancelTimer, run, Touch
  <2>3. Held' = (list' \cup rest \cup back) \ (IF Calling THEN {head} ELSE {})
    BY <2>2 DEF Held, Calling
  <2>4. CASE pc = "loop"
    <3>1. rest = {} /\ back = {} /\ ~Calling
      BY <1>01, <2>4 DEF IInv, RunInv, Calling
    <3> HIDE DEF list, rest, back, head
    <3>2. QED
      BY <1>0, <1>00, <2>1, <2>2, <2>3, <2>4, <3>1 DEF HeldInv
  <2>5. CASE pc = "callback"
    <3>1. touched' = touched \cup {t}
      BY <2>2, <2>5
    <3> HIDE DEF list, rest, back, head
    <3>2. QED
      BY <1>0, <1>00, <2>1, <2>2, <2>3, <3>1 DEF HeldInv
  <2>6. QED
    BY <2>2, <2>4, <2>5
<1>3. CASE RunTimers
  <2>1. /\ pc = "loop" /\ pc' = "walk" /\ timer_list' = <<>> /\ remaining' = timer_list
        /\ repeaters' = <<>> /\ UNCHANGED <<active, touched>>
    BY <1>3 DEF RunTimers, Detached
  <2>2. rest = {} /\ back = {} /\ ~Calling /\ ~Calling'
    BY <1>01, <2>1 DEF IInv, RunInv, Calling
  <2>3. list' = {} /\ rest' = list /\ back' = {}
    BY <1>01, <2>1
  <2>4. Held' = (list' \cup rest' \cup back') \ (IF Calling' THEN {head'} ELSE {})
    BY DEF Held
  <2> HIDE DEF list, rest, back, head
  <2>5. Held' = Held
    BY <1>00, <2>2, <2>3, <2>4
  <2>6. QED
    BY <1>0, <2>1, <2>5 DEF HeldInv
<1>4. CASE Fire
  <2>1. /\ pc = "walk" /\ pc' = "callback"
        /\ UNCHANGED <<timer_list, remaining, repeaters, repeat_ms, touched>>
        /\ active' = IF repeat_ms[head] > 0 THEN active ELSE active \ {head}
    BY <1>4 DEF Fire, timers, run
  <2>2. head \in Timer
    BY <1>4, Walking DEF Fire
  <2>3. repeat_ms[head] > 0 \/ repeat_ms[head] = 0
    BY <2>2 DEF IInv, TypeOK
  <2>4. ~Calling /\ (Calling' <=> repeat_ms[head] = 0) /\ ~(0 > 0)
    BY <2>1 DEF Calling
  <2>5. Held' = (list \cup rest \cup back) \ (IF Calling' THEN {head} ELSE {})
    BY <2>1 DEF Held
  <2>6. CASE repeat_ms[head] > 0
    <3>1. ~Calling' /\ active' = active
      BY <2>1, <2>4, <2>6
    <3>2. QED
      BY <1>0, <1>00, <2>1, <2>4, <2>5, <3>1 DEF HeldInv
  <2>7. CASE repeat_ms[head] = 0
    <3>1. Calling' /\ active' = active \ {head}
      BY <2>1, <2>4, <2>7
    <3> HIDE DEF list, rest, back, head
    <3>2. Held = list \cup rest \cup back /\ Held' = Held \ {head}
      BY <1>00, <2>4, <2>5, <3>1
    <3>3. touched' = touched
      BY <2>1
    <3>4. QED
      BY <1>0, <3>1, <3>2, <3>3 DEF HeldInv
  <2>8. QED
    BY <2>3, <2>6, <2>7
<1>5. CASE CallbackReturns
  <2>1. /\ head \in Timer /\ head \in rest /\ rest' = rest \ {head}
        /\ back' = back \cup (IF repeat_ms[head] > 0 THEN {head} ELSE {})
    BY <1>5, Returning
  <2>2. /\ pc = "callback" /\ pc' = "walk"
        /\ UNCHANGED <<timer_list, active, touched>>
    BY <1>5 DEF CallbackReturns, history
  <2>3. head \notin list \cup back
    BY <2>2, Walking
  <2>4. /\ repeat_ms[head] > 0 \/ repeat_ms[head] = 0
        /\ Calling <=> ~(repeat_ms[head] > 0)
        /\ ~Calling'
    BY <2>1, <2>2 DEF IInv, TypeOK, Calling
  <2>5. Held' = (list' \cup rest' \cup back') \ (IF Calling' THEN {head'} ELSE {})
    BY DEF Held
  <2>6. list' = list /\ touched' = touched /\ active' = active
    BY <2>2
  <2> HIDE DEF list, rest, back, head
  <2>7. Held' = Held
    BY <1>00, <2>1, <2>3, <2>4, <2>5, <2>6
  <2>8. QED
    BY <1>0, <2>6, <2>7 DEF HeldInv
<1>6. CASE CallbackFails
  <2>1. /\ pc = "callback" /\ pc' = "loop" /\ remaining' = <<>> /\ repeaters' = <<>>
        /\ touched' = touched \cup ToSet(remaining \o repeaters)
        /\ UNCHANGED <<timer_list, active>>
    BY <1>6 DEF CallbackFails, Touch, timers
  <2>2. ToSet(remaining \o repeaters) = rest \cup back
    BY JoinedSet DEF IInv, TypeOK
  <2>3. list \subseteq touched
    BY <2>1 DEF IInv, RunInv
  <2>4. list' = list /\ rest' = {} /\ back' = {} /\ ~Calling' /\ active' = active
    BY <1>01, <2>1 DEF Calling
  <2>5. Held' = (list' \cup rest' \cup back') \ (IF Calling' THEN {head'} ELSE {})
    BY DEF Held
  <2>6. touched' = touched \cup rest \cup back
    BY <2>1, <2>2
  <2> HIDE DEF list, rest, back, head
  <2>7. QED
    BY <1>0, <1>00, <2>3, <2>4, <2>5, <2>6 DEF HeldInv
<1>7. CASE WalkEnds
  <2>1. list' = ToSet(IF remaining # <<>> THEN remaining ELSE timer_list) \cup back
    BY <1>7, Ending
  <2>2. /\ pc = "walk" /\ pc' = "loop" /\ remaining' = <<>> /\ repeaters' = <<>>
        /\ UNCHANGED <<active, touched>>
    BY <1>7 DEF WalkEnds, history
  <2>3. rest' = {} /\ back' = {} /\ ~Calling' /\ ~Calling
    BY <1>01, <2>2 DEF Calling
  <2>4. list \subseteq touched
    BY <2>2 DEF IInv, RunInv
  <2>5. \/ list' = rest \cup back
        \/ rest = {} /\ list' = list \cup back
    BY <1>01, <2>1
  <2>6. Held' = (list' \cup rest' \cup back') \ (IF Calling' THEN {head'} ELSE {})
    BY DEF Held
  <2>7. touched' = touched /\ active' = active
    BY <2>2
  <2> HIDE DEF list, rest, back, head
  <2>8. QED
    BY <1>0, <1>00, <2>3, <2>4, <2>5, <2>6, <2>7 DEF HeldInv
<1>8. CASE Clock \/ UNCHANGED vars
  <2>1. UNCHANGED <<timer_list, remaining, repeaters, repeat_ms, pc, active, touched>>
    BY <1>8 DEF Clock, vars, timers, run, history
  <2>2. QED
    BY <1>0, <2>1 DEF HeldInv, Held, Calling
<1>9. QED
  BY <1>1, <1>2, <1>3, <1>4, <1>5, <1>6, <1>7, <1>8 DEF Next, Walk

(* Moving a timer on by its period.                                        *)
LEMMA NextPeriod ==
  ASSUME NEW s \in Nat, NEW n \in Nat, NEW r \in Nat, n > 0
  PROVE  /\ (s + (n - 1) * r) + r = s + n * r
         /\ r = 0 => s + (n - 1) * r = s + n * r
  OBVIOUS

(* Every step keeps the timers to their plans.                             *)
LEMMA StepPlan == IInv /\ [Next]_vars => PlanInv'
<1> SUFFICES ASSUME IInv, [Next]_vars PROVE PlanInv'
  OBVIOUS
<1> DEFINE head == Head(remaining)
           Plan(t, n) == scheduled[t] + n * repeat_ms[t]
<1>0. OnPlan /\ MidPlan /\ TypeOK
  BY DEF IInv, PlanInv
<1>1. ASSUME NEW delay \in Delays, NEW repeat \in Repeats, RunAtTime(delay, repeat)
      PROVE  PlanInv'
  <2> DEFINE t == timer_next_id
             d == now + delay
  <2>1. t \in Timer /\ t \in Nat
    BY <1>1, Scheduling DEF Timer
  <2>2. /\ UNCHANGED <<pc, remaining, fired>>
        /\ timer_next_id' = t + 1 /\ touched \subseteq touched'
        /\ fire_time' = [fire_time EXCEPT ![t] = d]
        /\ scheduled' = [scheduled EXCEPT ![t] = d]
        /\ repeat_ms' = [repeat_ms EXCEPT ![t] = repeat]
    BY <1>1 DEF RunAtTime, run, Touch
  <2>3. d \in Nat /\ repeat \in Nat
    BY <1>0 DEF TypeOK
  <2> HIDE DEF d
  <2>4. \A u \in Timer : u # t => /\ fire_time'[u] = fire_time[u]
                                  /\ scheduled'[u] = scheduled[u]
                                  /\ repeat_ms'[u] = repeat_ms[u]
    BY <1>0, <2>2 DEF TypeOK
  <2>5. /\ fire_time'[t] = d /\ scheduled'[t] = d /\ repeat_ms'[t] = repeat
        /\ fired'[t] = 0
    <3>1. fired[t] = 0
      BY <2>1 DEF IInv, NewInv
    <3>2. QED
      BY <1>0, <2>1, <2>2, <3>1 DEF TypeOK
  <2>6. fire_time'[t] = scheduled'[t] + fired'[t] * repeat_ms'[t]
    <3>1. d + 0 * repeat = d
      BY <2>3
    <3>2. QED
      BY <2>5, <3>1
  <2>7. \A u \in Timer : u < t + 1 /\ u # t => u < t
    BY <2>1 DEF Timer
  <2>8. OnPlan'
    <3> SUFFICES ASSUME NEW u \in Timer, u < t + 1, u \notin touched,
                        ~(pc = "callback" /\ u = head)
                 PROVE  fire_time'[u] = scheduled'[u] + fired'[u] * repeat_ms'[u]
      BY <2>2 DEF OnPlan
    <3>1. CASE u = t
      BY <2>6, <3>1
    <3>2. CASE u # t
      <4>1. u < t
        BY <2>7, <3>2
      <4>2. fire_time[u] = scheduled[u] + fired[u] * repeat_ms[u]
        BY <1>0, <4>1 DEF OnPlan
      <4>3. /\ fire_time'[u] = fire_time[u] /\ scheduled'[u] = scheduled[u]
            /\ repeat_ms'[u] = repeat_ms[u] /\ fired'[u] = fired[u]
        BY <2>2, <2>4, <3>2
      <4>4. QED
        BY <4>2, <4>3
    <3>3. QED
      BY <3>1, <3>2
  <2>9. MidPlan'
    <3> SUFFICES ASSUME pc = "callback", head \notin touched
                 PROVE  fired'[head] > 0
                        /\ fire_time'[head] = scheduled'[head] + (fired'[head] - 1) * repeat_ms'[head]
      BY <2>2 DEF MidPlan
    <3>1. head \in Timer /\ head < t
      BY Walking
    <3>2. head # t
      BY <2>1, <3>1
    <3>3. fired[head] > 0 /\ fire_time[head] = scheduled[head] + (fired[head] - 1) * repeat_ms[head]
      BY <1>0 DEF MidPlan
    <3>4. /\ fire_time'[head] = fire_time[head] /\ scheduled'[head] = scheduled[head]
          /\ repeat_ms'[head] = repeat_ms[head] /\ fired'[head] = fired[head]
      BY <2>2, <2>4, <3>1, <3>2
    <3>5. QED
      BY <3>3, <3>4
  <2>10. QED
    BY <2>8, <2>9 DEF PlanInv
<1>2. ASSUME UNCHANGED <<timer_next_id, fire_time, repeat_ms, scheduled, fired>>,
             touched \subseteq touched',
             \/ pc' = pc /\ remaining' = remaining
             \/ pc' # "callback" /\ (pc = "callback" => head \in touched')
      PROVE  PlanInv'
  <2>1. OnPlan'
    <3> SUFFICES ASSUME NEW u \in Timer, u < timer_next_id, u \notin touched',
                        ~(pc' = "callback" /\ u = Head(remaining'))
                 PROVE  fire_time[u] = scheduled[u] + fired[u] * repeat_ms[u]
      BY <1>2 DEF OnPlan
    <3>1. u \notin touched /\ ~(pc = "callback" /\ u = head)
      BY <1>2
    <3>2. QED
      BY <1>0, <3>1 DEF OnPlan
  <2>2. MidPlan'
    <3>1. CASE pc' = pc /\ remaining' = remaining
      BY <1>0, <1>2, <3>1 DEF MidPlan
    <3>2. CASE pc' # "callback"
      BY <3>2 DEF MidPlan
    <3>3. QED
      BY <1>2, <3>1, <3>2
  <2>3. QED
    BY <2>1, <2>2 DEF PlanInv
<1>3. ASSUME NEW t \in Timer, CancelTimer(t)
      PROVE  PlanInv'
  <2>1. /\ UNCHANGED <<timer_next_id, fire_time, repeat_ms, scheduled, fired>>
        /\ UNCHANGED <<pc, remaining>> /\ touched \subseteq touched'
    BY <1>3 DEF CancelTimer, Touch, run
  <2>2. QED
    BY <1>2, <2>1
<1>4. CASE RunTimers
  <2>1. /\ UNCHANGED <<timer_next_id, fire_time, repeat_ms, scheduled, fired, touched>>
        /\ pc = "loop" /\ pc' = "walk"
    BY <1>4 DEF RunTimers
  <2>2. QED
    BY <1>2, <2>1
<1>5. CASE Fire
  <2>1. /\ UNCHANGED <<timer_next_id, fire_time, repeat_ms, scheduled, touched, remaining>>
        /\ pc = "walk" /\ pc' = "callback"
        /\ fired' = [fired EXCEPT ![head] = fired[head] + 1]
    BY <1>5 DEF Fire, timers, run
  <2>2. head \in Timer /\ head < timer_next_id
    BY <1>5, Walking DEF Fire
  <2>3. fired'[head] = fired[head] + 1 /\ fired[head] \in Nat
    BY <1>0, <2>1, <2>2 DEF TypeOK
  <2>4. MidPlan'
    <3> SUFFICES ASSUME head \notin touched
                 PROVE  fired'[head] > 0
                        /\ fire_time[head] = scheduled[head] + (fired'[head] - 1) * repeat_ms[head]
      BY <2>1 DEF MidPlan
    <3>1. fire_time[head] = scheduled[head] + fired[head] * repeat_ms[head]
      BY <1>0, <2>1, <2>2 DEF OnPlan
    <3>2. fired'[head] > 0 /\ fired'[head] - 1 = fired[head]
      BY <2>3
    <3>3. QED
      BY <3>1, <3>2
  <2>5. OnPlan'
    <3> SUFFICES ASSUME NEW u \in Timer, u < timer_next_id, u \notin touched, u # head
                 PROVE  fire_time[u] = scheduled[u] + fired'[u] * repeat_ms[u]
      BY <2>1 DEF OnPlan
    <3>1. fired'[u] = fired[u]
      BY <1>0, <2>1 DEF TypeOK
    <3>2. fire_time[u] = scheduled[u] + fired[u] * repeat_ms[u]
      BY <1>0, <2>1 DEF OnPlan
    <3>3. QED
      BY <3>1, <3>2
  <2>6. QED
    BY <2>4, <2>5 DEF PlanInv
<1>6. CASE CallbackReturns
  <2>1. /\ pc = "callback" /\ pc' = "walk"
        /\ UNCHANGED <<timer_next_id, repeat_ms, scheduled, fired, touched>>
    BY <1>6 DEF CallbackReturns, history
  <2>2. /\ head \in Timer
        /\ IF repeat_ms[head] > 0
           THEN fire_time' = [fire_time EXCEPT ![head] = fire_time[head] + repeat_ms[head]]
           ELSE fire_time' = fire_time
    BY <1>6, Returning
  <2>3. MidPlan'
    BY <2>1 DEF MidPlan
  <2>4. OnPlan'
    <3> SUFFICES ASSUME NEW u \in Timer, u < timer_next_id, u \notin touched
                 PROVE  fire_time'[u] = scheduled[u] + fired[u] * repeat_ms[u]
      BY <2>1 DEF OnPlan
    <3>1. CASE u # head
      <4>1. fire_time[u] = scheduled[u] + fired[u] * repeat_ms[u]
        BY <1>0, <3>1 DEF OnPlan
      <4>2. fire_time'[u] = fire_time[u]
        BY <1>0, <2>2, <3>1 DEF TypeOK
      <4>3. QED
        BY <4>1, <4>2
    <3>2. CASE u = head
      <4>1. fired[u] > 0 /\ fire_time[u] = scheduled[u] + (fired[u] - 1) * repeat_ms[u]
        BY <1>0, <2>1, <3>2 DEF MidPlan
      <4>2. scheduled[u] \in Nat /\ fired[u] \in Nat /\ repeat_ms[u] \in Nat
        BY <1>0 DEF TypeOK
      <4>3. /\ (scheduled[u] + (fired[u] - 1) * repeat_ms[u]) + repeat_ms[u]
                 = scheduled[u] + fired[u] * repeat_ms[u]
            /\ repeat_ms[u] = 0 => scheduled[u] + (fired[u] - 1) * repeat_ms[u]
                                     = scheduled[u] + fired[u] * repeat_ms[u]
        BY <4>1, <4>2, NextPeriod
      <4>4. CASE repeat_ms[u] > 0
        <5>1. fire_time'[u] = fire_time[u] + repeat_ms[u]
          BY <1>0, <2>2, <3>2, <4>4 DEF TypeOK
        <5>2. QED
          BY <4>1, <4>3, <5>1
      <4>5. CASE ~(repeat_ms[u] > 0)
        <5>1. fire_time'[u] = fire_time[u] /\ repeat_ms[u] = 0
          BY <2>2, <3>2, <4>2, <4>5
        <5>2. QED
          BY <4>1, <4>3, <5>1
      <4>6. QED
        BY <4>4, <4>5
    <3>3. QED
      BY <3>1, <3>2
  <2>5. QED
    BY <2>3, <2>4 DEF PlanInv
<1>7. CASE CallbackFails
  <2>1. /\ UNCHANGED <<timer_next_id, fire_time, repeat_ms, scheduled, fired>>
        /\ pc = "callback" /\ pc' = "loop"
        /\ touched' = touched \cup ToSet(remaining \o repeaters)
    BY <1>7 DEF CallbackFails, Touch, timers
  <2>2. head \in ToSet(remaining)
    BY <2>1, Walking
  <2>3. ToSet(remaining \o repeaters) = ToSet(remaining) \cup ToSet(repeaters)
    BY <1>0, JoinedSet DEF TypeOK
  <2>4. QED
    BY <1>2, <2>1, <2>2, <2>3
<1>8. CASE WalkEnds
  <2>1. /\ UNCHANGED <<timer_next_id, fire_time, repeat_ms, scheduled, fired, touched>>
        /\ pc = "walk" /\ pc' = "loop"
    BY <1>8 DEF WalkEnds, history
  <2>2. QED
    BY <1>2, <2>1
<1>9. CASE Clock \/ UNCHANGED vars
  <2>1. UNCHANGED <<timer_next_id, fire_time, repeat_ms, scheduled, fired, touched,
                    pc, remaining>>
    BY <1>9 DEF Clock, vars, timers, run, history
  <2>2. QED
    BY <1>2, <2>1
<1>10. QED
  BY <1>1, <1>3, <1>4, <1>5, <1>6, <1>7, <1>8, <1>9 DEF Next, Walk

(* The invariant holds throughout.                                         *)
LEMMA SpecIInv == Spec => []IInv
<1>1. Init => IInv
  BY InitIInv
<1>2. IInv /\ [Next]_vars => IInv'
  BY StepType, StepLists, StepNew, StepRun, StepCache, StepHeld, StepPlan DEF IInv
<1>3. QED
  BY <1>1, <1>2, PTL DEF Spec

-----------------------------------------------------------------------------
(* The variables keep their types.                                         *)
THEOREM TimersTypeOK == Spec => []TypeOK
<1>1. IInv => TypeOK
  BY DEF IInv
<1>2. QED
  BY <1>1, SpecIInv, PTL

(* The list stays in order of fire time and the cache is what it says,     *)
(* whatever callbacks schedule, cancel or fail at.                         *)
THEOREM ScheduleAlwaysAgrees == Spec => []ScheduleAgrees
<1>1. IInv => ScheduleAgrees
  <2> SUFFICES ASSUME IInv PROVE ScheduleAgrees
    OBVIOUS
  <2>0. /\ timer_list \in Seq(Timer) /\ remaining \in Seq(Timer) /\ repeaters \in Seq(Timer)
        /\ fire_time \in [Timer -> Nat]
    BY DEF IInv, TypeOK
  <2>1. SortedByTime(timer_list) /\ SortedByTime(remaining)
    <3>1. \A list \in Seq(Timer) : Ordered(list, fire_time) => SortedByTime(list)
      <4>1. \A list \in Seq(Timer) : DOMAIN list = 1 .. Len(list)
        OBVIOUS
      <4>2. QED
        BY <4>1, Zenon DEF Ordered, SortedByTime
    <3>2. QED
      BY <2>0, <3>1 DEF IInv, ListsInv
  <2>2. Once((timer_list \o remaining) \o repeaters)
    <3>1. ASSUME NEW a \in Seq(Timer), NEW c \in Seq(Timer),
                 Once(a), Once(c), ToSet(a) \cap ToSet(c) = {}
          PROVE  Once(a \o c)
      <4> DEFINE s == a \o c
      <4>1. /\ Len(s) = Len(a) + Len(c)
            /\ \A k \in 1 .. Len(a) : s[k] = a[k]
            /\ \A k \in 1 .. Len(c) : s[Len(a) + k] = c[k]
        BY Joined
      <4>2. /\ Len(a) \in Nat /\ Len(c) \in Nat
            /\ \A k \in 1 .. Len(a), m \in 1 .. Len(c) : a[k] # c[m]
        BY <3>1, Elements
      <4> HIDE DEF s
      <4>3. ASSUME NEW k \in 1 .. Len(s)
            PROVE  \/ k \in 1 .. Len(a) /\ s[k] = a[k]
                   \/ k - Len(a) \in 1 .. Len(c) /\ s[k] = c[k - Len(a)]
        <5> DEFINE j == k - Len(a)
        <5>1. k \in 1 .. Len(a) \/ (j \in 1 .. Len(c) /\ Len(a) + j = k)
          BY <4>1, <4>2
        <5> HIDE DEF j
        <5>2. k \in 1 .. Len(a) \/ (j \in 1 .. Len(c) /\ s[k] = c[j])
          BY <4>1, <5>1
        <5>3. QED
          BY <4>1, <5>2 DEF j
      <4>4. ASSUME NEW i \in 1 .. Len(s), NEW j \in 1 .. Len(s), s[i] = s[j]
            PROVE  i = j
        <5>1. CASE i \in 1 .. Len(a) /\ s[i] = a[i]
          BY <3>1, <4>2, <4>3, <4>4, <5>1 DEF Once
        <5>2. CASE i - Len(a) \in 1 .. Len(c) /\ s[i] = c[i - Len(a)]
          <6>1. j - Len(a) \in 1 .. Len(c) /\ s[j] = c[j - Len(a)]
            BY <4>2, <4>3, <4>4, <5>2
          <6>2. i - Len(a) = j - Len(a)
            BY <3>1, <4>4, <5>2, <6>1 DEF Once
          <6>3. QED
            BY <4>1, <4>2, <6>2
        <5>3. QED
          BY <4>3, <5>1, <5>2
      <4>5. QED
        BY <4>4 DEF Once, s
    <3>2. /\ Once(timer_list) /\ Once(remaining) /\ Once(repeaters)
          /\ ToSet(timer_list) \cap ToSet(remaining) = {}
          /\ (ToSet(timer_list) \cup ToSet(remaining)) \cap ToSet(repeaters) = {}
      BY DEF IInv, ListsInv
    <3> DEFINE s == timer_list \o remaining
    <3>3. s \in Seq(Timer) /\ Once(s) /\ ToSet(s) = ToSet(timer_list) \cup ToSet(remaining)
      BY <2>0, <3>1, <3>2, JoinedSet
    <3> HIDE DEF s
    <3>4. Once(s \o repeaters)
      BY <2>0, <3>1, <3>2, <3>3
    <3>5. QED
      BY <3>4 DEF s
  <2>3. ListSorted
    <3>1. (timer_list \o remaining) \o repeaters \in Seq(Timer)
      BY <2>0
    <3>2. QED
      BY <2>1, <2>2, <3>1 DEF ListSorted, Once
  <2>4. CacheCurrent
    <3> DEFINE times == {fire_time[t] : t \in ToSet(timer_list)}
    <3> SUFFICES ASSUME pc = "loop"
                 PROVE  IF failed THEN \A time \in times : next_fire_ms # None /\ next_fire_ms <= time
                        ELSE next_fire_ms = IF times = {} THEN None ELSE Min(times)
      BY DEF CacheCurrent
    <3>1. timer_list # <<>> \/ ~failed => next_fire_ms = FirstFire(timer_list, fire_time)
      BY DEF IInv, CacheInv
    <3>2. CASE timer_list = <<>>
      <4>1. times = {}
        BY <3>2 DEF ToSet
      <4>2. FirstFire(timer_list, fire_time) = None
        BY <3>2 DEF FirstFire
      <4> HIDE DEF times
      <4>3. QED
        BY <3>1, <4>1, <4>2
    <3>3. CASE timer_list # <<>>
      <4>1. /\ next_fire_ms = fire_time[timer_list[1]]
            /\ 1 \in 1 .. Len(timer_list)
        BY <2>0, <3>1, <3>3, FirstFireType
      <4>2. next_fire_ms \in times
        <5>1. timer_list[1] \in ToSet(timer_list)
          BY <2>0, <4>1, Elements
        <5>2. QED
          BY <4>1, <5>1
      <4>3. ASSUME NEW time \in times
            PROVE  time \in Nat /\ next_fire_ms <= time /\ next_fire_ms \in Nat
        <5>1. PICK t \in ToSet(timer_list) : time = fire_time[t]
          OBVIOUS
        <5>2. PICK k \in 1 .. Len(timer_list) : timer_list[k] = t
          BY <2>0, Elements
        <5>3. /\ timer_list[1] \in Timer /\ fire_time[timer_list[1]] \in Nat
              /\ t \in Timer /\ fire_time[t] \in Nat
          BY <2>0, <4>1, <5>2, Elements
        <5>4. CASE k = 1
          BY <4>1, <5>1, <5>2, <5>3, <5>4
        <5>5. CASE k # 1
          <6>1. 1 < k
            BY <5>5
          <6>2. fire_time[timer_list[1]] <= fire_time[timer_list[k]]
            BY <4>1, <6>1 DEF IInv, ListsInv, Ordered
          <6>3. QED
            BY <4>1, <5>1, <5>2, <5>3, <6>2
        <5>6. QED
          BY <5>4, <5>5
      <4> HIDE DEF times
      <4>4. next_fire_ms \in Nat /\ next_fire_ms # None
        <5>1. next_fire_ms \in Nat
          BY <4>2, <4>3
        <5>2. QED
          BY <5>1 DEF None
      <4>5. Min(times) = next_fire_ms
        <5>1. \E x \in times : \A y \in times : x <= y
          BY <4>2, <4>3
        <5>2. Min(times) \in times /\ \A y \in times : Min(times) <= y
          BY <5>1 DEF Min
        <5>3. Min(times) \in Nat /\ Min(times) <= next_fire_ms /\ next_fire_ms <= Min(times)
          BY <4>2, <4>3, <5>2
        <5>4. QED
          BY <4>4, <5>3
      <4>6. QED
        BY <4>2, <4>3, <4>4, <4>5
    <3>4. QED
      BY <3>2, <3>3
  <2>5. QED
    BY <2>3, <2>4 DEF ScheduleAgrees
<1>2. QED
  BY <1>1, SpecIInv, PTL

(* Between events the timers in the list are those with a call to come,    *)
(* but for those a callback touched.                                       *)
THEOREM UntouchedAlwaysKept == Spec => []UntouchedKept
<1>1. IInv => UntouchedKept
  <2> SUFFICES ASSUME IInv, pc = "loop"
               PROVE  ToSet(timer_list) \ touched = active \ touched
    BY DEF UntouchedKept
  <2>1. ToSet(remaining) = {} /\ ToSet(repeaters) = {} /\ ~Calling
    BY DEF IInv, RunInv, ToSet, Calling
  <2>2. Held = ToSet(timer_list)
    BY <2>1 DEF Held
  <2>3. QED
    BY <2>2 DEF IInv, HeldInv
<1>2. QED
  BY <1>1, SpecIInv, PTL

(* A repeating timer's next call is due a whole number of periods after    *)
(* its first.                                                              *)
THEOREM AlwaysOnPlan == Spec => []OnPlan
<1>1. IInv => OnPlan
  BY DEF IInv, PlanInv
<1>2. QED
  BY <1>1, SpecIInv, PTL

(* No function is called before its time, and an untouched timer's only if *)
(* it has a call to come.                                                  *)
THEOREM AlwaysFiresRightly == Spec => FiresRightly
<1> DEFINE Right == \A t \in Timer : fired'[t] # fired[t] =>
                      fire_time[t] <= now /\ t \in active \cup touched
<1>1. IInv /\ [Next]_vars => [Right]_vars
  <2> SUFFICES ASSUME IInv, Next, NEW t \in Timer, fired'[t] # fired[t]
               PROVE  fire_time[t] <= now /\ t \in active \cup touched
    OBVIOUS
  <2>1. CASE Fire
    <3>1. /\ pc = "walk" /\ remaining # <<>> /\ fire_time[Head(remaining)] <= run_now
          /\ fired' = [fired EXCEPT ![Head(remaining)] = fired[Head(remaining)] + 1]
      BY <2>1 DEF Fire, Due
    <3>2. Head(remaining) \in Timer /\ Head(remaining) \in ToSet(remaining)
      BY <3>1, Walking
    <3>3. t = Head(remaining)
      BY <3>1 DEF IInv, TypeOK
    <3>4. fire_time[t] <= now
      BY <3>1, <3>3 DEF IInv, TypeOK, RunInv
    <3>5. t \in Held
      BY <3>1, <3>2, <3>3 DEF Held, Calling
    <3>6. QED
      BY <3>4, <3>5 DEF IInv, HeldInv
  <2>2. CASE \E delay \in Delays, repeat \in Repeats : RunAtTime(delay, repeat)
    BY <2>2 DEF RunAtTime
  <2>3. CASE \E u \in Timer : CancelTimer(u)
    BY <2>3 DEF CancelTimer
  <2>4. CASE RunTimers \/ CallbackFails
    BY <2>4 DEF RunTimers, CallbackFails
  <2>5. CASE CallbackReturns \/ WalkEnds \/ Clock
    BY <2>5 DEF CallbackReturns, WalkEnds, Clock, history
  <2>6. QED
    BY <2>1, <2>2, <2>3, <2>4, <2>5 DEF Next, Walk
<1>2. QED
  BY <1>1, SpecIInv, PTL DEF Spec, FiresRightly
=============================================================================
