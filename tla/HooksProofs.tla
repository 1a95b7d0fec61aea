----------------------------- MODULE HooksProofs -----------------------------
(***************************************************************************)
(* Proofs about module Hooks, for any handlers, priorities and texts, any  *)
(* number of cells and runs in one another to any depth.                   *)
(***************************************************************************)
EXTENDS Hooks, FiniteSetTheorems, WellFoundedInduction, TLAPS

USE PriorityAssumption, BoundsAssumption

(* A set that has 0 and the successor of each of its numbers has them all. *)
LEMMA NatSet ==
  ASSUME NEW T, 0 \in T, \A n \in Nat : n \in T => n + 1 \in T
  PROVE  Nat \subseteq T
  <1> DEFINE R == OpToRel(<, Nat)
  <1> SUFFICES ASSUME Nat \ T # {} PROVE FALSE
    OBVIOUS
  <1>1. \A x, y \in Nat : x < y => <<x, y>> \in R
    BY DEF OpToRel
  <1>2. PICK m \in Nat \ T : \A y \in Nat \ T : ~(<<y, m>> \in R)
    <2> HIDE DEF R
    <2>1. IsWellFoundedOn(R, Nat)
      BY NatLessThanWellFounded DEF R
    <2>. QED BY <2>1, WFMin
  <1> HIDE DEF R
  <1>3. m \in Nat /\ m # 0 /\ m - 1 \in Nat /\ m - 1 < m
    OBVIOUS
  <1>4. m - 1 \in T
    <2>1. <<m - 1, m>> \in R
      BY <1>1, <1>3
    <2>. QED BY <1>2, <1>3, <2>1
  <1>. QED BY <1>3, <1>4

(* A set of numbers that is not empty has a least one. *)
LEMMA LeastNumber ==
  ASSUME NEW S \in SUBSET Nat, S # {}
  PROVE  \E m \in S : \A n \in S : m <= n
  <1> DEFINE R == OpToRel(<, Nat)
  <1>1. \A x, y \in Nat : x < y => <<x, y>> \in R
    BY DEF OpToRel
  <1>2. PICK m \in S : \A n \in S : ~(<<n, m>> \in R)
    <2> HIDE DEF R
    <2>1. IsWellFoundedOn(R, Nat)
      BY NatLessThanWellFounded DEF R
    <2>. QED BY <2>1, WFMin
  <1> HIDE DEF R
  <1>3. \A n \in S : ~(n < m)
    BY <1>1, <1>2
  <1>4. \A n \in S : m <= n
    BY <1>3
  <1>. QED BY <1>4

(* The elements of two sequences in a row. *)
LEMMA Joined ==
  ASSUME NEW T, NEW a \in Seq(T), NEW c \in Seq(T)
  PROVE  /\ a \o c \in Seq(T) /\ Len(a \o c) = Len(a) + Len(c)
         /\ \A k \in 1 .. Len(a) : (a \o c)[k] = a[k]
         /\ \A k \in 1 .. Len(c) : (a \o c)[Len(a) + k] = c[k]
  OBVIOUS

-----------------------------------------------------------------------------
(* The cells of a heap; each points to one that was allocated before it.   *)
Cell == [entry : Entry, next : Nat]

Linked(h) == h \in Seq(Cell) /\ \A c \in 1 .. Len(h) : h[c].next < c

(* The function of the definition of Cells exists: a list is the first     *)
(* cell and the list behind it.                                            *)
LEMMA CellsAre ==
  ASSUME NEW h, Linked(h)
  PROVE  /\ Len(h) \in Nat
         /\ Cells(h, NIL) = <<>>
         /\ \A c \in 1 .. Len(h) : /\ h[c].next \in 0 .. Len(h) /\ h[c].next < c
                                   /\ Cells(h, c) = <<c>> \o Cells(h, h[c].next)
<1> DEFINE n == Len(h)
           Then(c, s) == <<c>> \o s
           Good(f, m) == f = [c \in 0 .. m |-> IF c = NIL THEN <<>> ELSE Then(c, f[h[c].next])]
           T == {m \in Nat : m <= n => \E f : Good(f, m)}
<1>1. n \in Nat /\ NIL = 0
  BY DEF Linked, NIL
<1>2. \A c \in 1 .. n : h[c].next \in 0 .. c - 1
  <2>1. \A c \in 1 .. n : h[c] \in Cell /\ h[c].next < c
    BY DEF Linked
  <2>2. \A c \in 1 .. n : h[c].next \in Nat /\ c \in Nat
    BY <1>1, <2>1 DEF Cell
  <2> HIDE DEF n
  <2>3. QED
    BY <2>1, <2>2
<1> HIDE DEF n, Then
<1>3. Nat \subseteq T
  <2>1. 0 \in T
    <3> DEFINE f == [c \in 0 .. 0 |-> <<>>]
    <3>1. f = [c \in 0 .. 0 |-> IF c = NIL THEN <<>> ELSE Then(c, f[h[c].next])]
      BY <1>1
    <3>2. Good(f, 0)
      BY <3>1
    <3> HIDE DEF f, Good
    <3>3. QED
      BY <3>2
  <2>2. \A m \in Nat : m \in T => m + 1 \in T
    <3> SUFFICES ASSUME NEW m \in Nat, m + 1 <= n, NEW f, Good(f, m)
                 PROVE  \E g : Good(g, m + 1)
      BY <1>1
    <3> DEFINE g == [c \in 0 .. m + 1 |-> IF c = m + 1 THEN Then(c, f[h[c].next]) ELSE f[c]]
    <3>1. g = [c \in 0 .. m + 1 |-> IF c = NIL THEN <<>> ELSE Then(c, g[h[c].next])]
      <4> SUFFICES ASSUME NEW c \in 0 .. m + 1
                   PROVE  g[c] = IF c = NIL THEN <<>> ELSE Then(c, g[h[c].next])
        OBVIOUS
      <4>1. c # 0 => h[c].next \in 0 .. m /\ h[c].next # m + 1
        <5>1. c # 0 => h[c].next \in 0 .. c - 1
          BY <1>1, <1>2
        <5>2. QED
          BY <5>1
      <4>2. c # 0 => g[h[c].next] = f[h[c].next]
        BY <4>1
      <4>3. CASE c = m + 1
        <5>1. g[c] = Then(c, f[h[c].next]) /\ c # NIL
          BY <1>1, <4>3
        <5>2. QED
          BY <1>1, <4>2, <5>1
      <4>4. CASE c \in 0 .. m
        <5>1. f[c] = IF c = NIL THEN <<>> ELSE Then(c, f[h[c].next])
          BY <4>4
        <5>2. g[c] = f[c]
          BY <4>4
        <5>3. QED
          BY <1>1, <4>2, <5>1, <5>2
      <4>5. c = m + 1 \/ c \in 0 .. m
        OBVIOUS
      <4>6. QED
        BY <4>3, <4>4, <4>5
    <3>2. Good(g, m + 1)
      BY <3>1
    <3> HIDE DEF g, Good
    <3>3. QED
      BY <3>2
  <2> HIDE DEF T
  <2>3. QED
    BY <2>1, <2>2, NatSet
<1> DEFINE from == CHOOSE f : Good(f, n)
<1>4. Good(from, n)
  <2>1. \E f : Good(f, n)
    BY <1>1, <1>3
  <2> HIDE DEF Good
  <2>2. QED
    BY <2>1
<1>5. \A c : Cells(h, c) = from[c]
  BY Zenon DEF Cells, Then, n
<1> HIDE DEF from
<1>6. \A c \in 0 .. n : from[c] = IF c = NIL THEN <<>> ELSE Then(c, from[h[c].next])
  BY <1>4
<1>7. Cells(h, NIL) = <<>>
  BY <1>1, <1>5, <1>6
<1>8. \A c \in 1 .. n : Cells(h, c) = Then(c, Cells(h, h[c].next))
  BY <1>1, <1>5, <1>6
<1>9. \A c \in 1 .. n : h[c].next \in 0 .. n /\ h[c].next < c
  BY <1>1, <1>2
<1>10. QED
  BY <1>1, <1>7, <1>8, <1>9 DEF Then, n

(* What holds of NIL, and of each cell whose successor it holds of, holds  *)
(* of every cell.                                                          *)
LEMMA CellInduction ==
  ASSUME NEW h, Linked(h), NEW P, NIL \in P,
         \A c \in 1 .. Len(h) : h[c].next \in P => c \in P
  PROVE  \A c \in 0 .. Len(h) : c \in P
<1> DEFINE T == {m \in Nat : m <= Len(h) => 0 .. m \subseteq P}
<1>1. /\ Len(h) \in Nat /\ NIL = 0
      /\ \A c \in 1 .. Len(h) : h[c].next \in 0 .. c - 1
  <2>1. /\ Len(h) \in Nat
        /\ \A c \in 1 .. Len(h) : h[c].next \in 0 .. Len(h) /\ h[c].next < c
    BY CellsAre
  <2>2. QED
    BY <2>1 DEF NIL
<1>2. 0 \in T
  <2>1. 0 .. 0 = {0}
    OBVIOUS
  <2>2. QED
    BY <1>1, <2>1
<1>3. \A m \in Nat : m \in T => m + 1 \in T
  <2> SUFFICES ASSUME NEW m \in Nat, m + 1 <= Len(h), 0 .. m \subseteq P
               PROVE  0 .. m + 1 \subseteq P
    BY <1>1
  <2>1. m + 1 \in 1 .. Len(h) /\ (m + 1) - 1 = m
    BY <1>1
  <2>2. h[m + 1].next \in P
    BY <1>1, <2>1
  <2>3. m + 1 \in P
    BY <2>1, <2>2
  <2>4. 0 .. m + 1 = (0 .. m) \cup {m + 1}
    OBVIOUS
  <2>5. QED
    BY <2>3, <2>4
<1> HIDE DEF T
<1>4. Len(h) \in T
  BY <1>1, <1>2, <1>3, NatSet
<1>5. QED
  BY <1>1, <1>4 DEF T

(* A list has as many entries as cells.                                    *)
LEMMA ListType ==
  ASSUME NEW h, Linked(h), NEW c \in 0 .. Len(h)
  PROVE  /\ Cells(h, c) \in Seq(1 .. Len(h))
         /\ Entries(h, c) \in Seq(Entry) /\ Functions(h, c) \in Seq(Handler)
         /\ Len(Entries(h, c)) = Len(Cells(h, c))
         /\ Len(Functions(h, c)) = Len(Entries(h, c))
         /\ \A i \in 1 .. Len(Entries(h, c)) :
              /\ Entries(h, c)[i] = h[Cells(h, c)[i]].entry
              /\ Functions(h, c)[i] = Entries(h, c)[i].fn
<1>1. Cells(h, c) \in Seq(1 .. Len(h))
  <2> DEFINE P == {a \in 0 .. Len(h) : Cells(h, a) \in Seq(1 .. Len(h))}
  <2>1. NIL \in P
    <3>1. Cells(h, NIL) = <<>> /\ NIL \in 0 .. Len(h)
      BY CellsAre DEF NIL
    <3>2. QED
      BY <3>1
  <2>2. ASSUME NEW a \in 1 .. Len(h), h[a].next \in P
        PROVE  a \in P
    <3>1. Cells(h, a) = <<a>> \o Cells(h, h[a].next) /\ a \in 0 .. Len(h)
      BY CellsAre
    <3> DEFINE D == 1 .. Len(h)
               b == <<a>>
               r == Cells(h, h[a].next)
    <3>2. b \in Seq(D) /\ r \in Seq(D)
      BY <2>2
    <3>3. Cells(h, a) = b \o r
      BY <3>1
    <3> HIDE DEF D, b, r
    <3>4. b \o r \in Seq(D)
      BY <3>2, Joined
    <3>5. QED
      BY <3>1, <3>3, <3>4 DEF D
  <2> HIDE DEF P
  <2>3. c \in P
    BY <2>1, <2>2, CellInduction
  <2>4. QED
    BY <2>3 DEF P
<1> DEFINE s == Cells(h, c)
<1>2. \A i \in 1 .. Len(s) : s[i] \in 1 .. Len(h) /\ h[s[i]].entry \in Entry
                             /\ h[s[i]].entry.fn \in Handler
  <2>1. \A a \in 1 .. Len(h) : h[a].entry \in Entry /\ h[a].entry.fn \in Handler
    <3>1. \A a \in 1 .. Len(h) : h[a] \in Cell
      BY DEF Linked
    <3>2. \A e \in Entry : e.fn \in Handler
      BY DEF Entry
    <3>3. \A a \in Cell : a.entry \in Entry
      BY DEF Cell
    <3>4. QED
      BY <3>1, <3>2, <3>3
  <2>2. \A i \in 1 .. Len(s) : s[i] \in 1 .. Len(h)
    BY <1>1
  <2>3. QED
    BY <2>1, <2>2
<1>3. /\ Entries(h, c) = [i \in 1 .. Len(s) |-> h[s[i]].entry]
      /\ Functions(h, c) = [i \in 1 .. Len(s) |-> h[s[i]].entry.fn]
      /\ Len(s) \in Nat
  BY <1>1 DEF Entries, Functions
<1> HIDE DEF s
<1>4. Entries(h, c) \in Seq(Entry) /\ Len(Entries(h, c)) = Len(s)
  BY <1>2, <1>3
<1>5. Functions(h, c) \in Seq(Handler) /\ Len(Functions(h, c)) = Len(s)
  BY <1>2, <1>3
<1>6. \A i \in 1 .. Len(s) : /\ Entries(h, c)[i] = h[s[i]].entry
                             /\ Functions(h, c)[i] = Entries(h, c)[i].fn
  BY <1>3
<1>7. QED
  BY <1>1, <1>4, <1>5, <1>6 DEF s

(* The entries of a list: the first cell's, then those of the list behind. *)
LEMMA EntriesAre ==
  ASSUME NEW h, Linked(h)
  PROVE  /\ Entries(h, NIL) = <<>>
         /\ \A c \in 1 .. Len(h) :
              /\ Len(Entries(h, c)) = 1 + Len(Entries(h, h[c].next))
              /\ Entries(h, c)[1] = h[c].entry /\ Cells(h, c)[1] = c
              /\ \A k \in 1 .. Len(Entries(h, h[c].next)) :
                   /\ Entries(h, c)[1 + k] = Entries(h, h[c].next)[k]
                   /\ Cells(h, c)[1 + k] = Cells(h, h[c].next)[k]
<1>1. Entries(h, NIL) = <<>>
  BY CellsAre DEF Entries
<1>2. ASSUME NEW c \in 1 .. Len(h)
      PROVE  /\ Len(Entries(h, c)) = 1 + Len(Entries(h, h[c].next))
             /\ Entries(h, c)[1] = h[c].entry /\ Cells(h, c)[1] = c
             /\ \A k \in 1 .. Len(Entries(h, h[c].next)) :
                   /\ Entries(h, c)[1 + k] = Entries(h, h[c].next)[k]
                   /\ Cells(h, c)[1 + k] = Cells(h, h[c].next)[k]
  <2> DEFINE next == h[c].next
             a == <<c>>
             r == Cells(h, next)
  <2>1. next \in 0 .. Len(h) /\ c \in 0 .. Len(h) /\ Cells(h, c) = a \o r
    BY CellsAre
  <2> DEFINE D == 1 .. Len(h)
  <2>2. r \in Seq(D)
    BY <2>1, ListType
  <2>3. a \in Seq(D) /\ Len(a) = 1 /\ a[1] = c /\ 1 \in 1 .. 1
    OBVIOUS
  <2> HIDE DEF a, r, next, D
  <2>4. /\ Len(a \o r) = Len(a) + Len(r)
        /\ \A k \in 1 .. Len(a) : (a \o r)[k] = a[k]
        /\ \A k \in 1 .. Len(r) : (a \o r)[Len(a) + k] = r[k]
    BY <2>2, <2>3, Joined
  <2>5. /\ Len(Cells(h, c)) = 1 + Len(r) /\ Cells(h, c)[1] = c
        /\ \A k \in 1 .. Len(r) : Cells(h, c)[1 + k] = r[k]
    BY <2>1, <2>3, <2>4
  <2>6. /\ Len(Entries(h, c)) = Len(Cells(h, c))
        /\ \A i \in 1 .. Len(Entries(h, c)) : Entries(h, c)[i] = h[Cells(h, c)[i]].entry
    BY <2>1, ListType
  <2>7. /\ Len(Entries(h, next)) = Len(r)
        /\ \A i \in 1 .. Len(Entries(h, next)) : Entries(h, next)[i] = h[r[i]].entry
    BY <2>1, ListType DEF r
  <2>8. Len(r) \in Nat
    BY <2>2
  <2>9. 1 \in 1 .. 1 + Len(r) /\ \A k \in 1 .. Len(r) : 1 + k \in 1 .. 1 + Len(r)
    BY <2>8
  <2>10. QED
    BY <2>5, <2>6, <2>7, <2>9 DEF next, r
<1>3. QED
  BY <1>1, <1>2

(* A heap with more cells behind those of another. *)
Extends(g, h) ==
  /\ Linked(h) /\ Linked(g) /\ Len(h) <= Len(g)
  /\ \A c \in 1 .. Len(h) : g[c] = h[c]

(* Allocating cells changes no list there is.                              *)
LEMMA ListsStay ==
  ASSUME NEW h, NEW g, Extends(g, h)
  PROVE  \A c \in 0 .. Len(h) : /\ c \in 0 .. Len(g)
                                /\ Cells(g, c) = Cells(h, c)
                                /\ Entries(g, c) = Entries(h, c)
                                /\ Functions(g, c) = Functions(h, c)
<1> DEFINE P == {c \in 0 .. Len(h) : Cells(g, c) = Cells(h, c)}
<1>1. /\ Linked(h) /\ Linked(g) /\ Len(h) \in Nat /\ Len(g) \in Nat /\ Len(h) <= Len(g)
      /\ \A c \in 1 .. Len(h) : g[c] = h[c] /\ c \in 1 .. Len(g) /\ c \in 0 .. Len(h)
  BY CellsAre DEF Extends
<1>2. NIL \in P
  <2>1. Cells(h, NIL) = <<>> /\ Cells(g, NIL) = <<>> /\ NIL \in 0 .. Len(h)
    BY <1>1, CellsAre DEF NIL
  <2>2. QED
    BY <2>1
<1>3. ASSUME NEW c \in 1 .. Len(h), h[c].next \in P
      PROVE  c \in P
  <2>1. Cells(h, c) = <<c>> \o Cells(h, h[c].next)
    BY <1>1, CellsAre
  <2>2. Cells(g, c) = <<c>> \o Cells(g, g[c].next)
    BY <1>1, CellsAre
  <2>3. QED
    BY <1>1, <1>3, <2>1, <2>2
<1> HIDE DEF P
<1>4. \A c \in 0 .. Len(h) : c \in P
  BY <1>1, <1>2, <1>3, CellInduction
<1>5. ASSUME NEW c \in 0 .. Len(h)
      PROVE  /\ c \in 0 .. Len(g)
             /\ Cells(g, c) = Cells(h, c)
             /\ Entries(g, c) = Entries(h, c)
             /\ Functions(g, c) = Functions(h, c)
  <2> DEFINE s == Cells(h, c)
  <2>1. Cells(g, c) = s
    BY <1>4 DEF P
  <2>2. c \in 0 .. Len(g)
    BY <1>1
  <2>3. \A i \in DOMAIN s : g[s[i]] = h[s[i]]
    <3>1. s \in Seq(1 .. Len(h))
      BY <1>1, ListType
    <3>2. \A i \in DOMAIN s : s[i] \in 1 .. Len(h)
      BY <3>1
    <3>3. QED
      BY <1>1, <3>2
  <2>4. Entries(g, c) = Entries(h, c)
    BY <2>1, <2>3 DEF Entries
  <2>5. Functions(g, c) = Functions(h, c)
    BY <2>1, <2>3 DEF Functions
  <2>6. QED
    BY <2>1, <2>2, <2>4, <2>5
<1>6. QED
  BY <1>5

(* The cells of a new spine.                                               *)
LEMMA SpineCells ==
  ASSUME NEW h, Linked(h), NEW entries \in Seq(Entry), NEW rest \in 0 .. Len(h)
  PROVE  /\ Extends(h \o Spine(h, entries, rest), h)
         /\ Len(h \o Spine(h, entries, rest)) = Len(h) + Len(entries)
         /\ \A i \in 1 .. Len(entries) :
              /\ (h \o Spine(h, entries, rest))[Len(h) + i].entry = entries[Len(entries) + 1 - i]
              /\ (h \o Spine(h, entries, rest))[Len(h) + i].next
                   = IF i = 1 THEN rest ELSE Len(h) + i - 1
<1> DEFINE n == Len(h)
           m == Len(entries)
           new == Spine(h, entries, rest)
           Of(i) == [entry |-> entries[m + 1 - i], next |-> IF i = 1 THEN rest ELSE n + i - 1]
<1>1. n \in Nat /\ m \in Nat /\ h \in Seq(Cell)
  BY CellsAre DEF Linked
<1>2. new = [i \in 1 .. m |-> Of(i)]
  BY DEF Spine
<1>3. \A i \in 1 .. m : m + 1 - i \in 1 .. m
  BY <1>1
<1>4. \A i \in 1 .. m : entries[m + 1 - i] \in Entry
  BY <1>3
<1>5. \A i \in 1 .. m : (IF i = 1 THEN rest ELSE n + i - 1) \in 0 .. n + i - 1
  BY <1>1
<1>6. \A i \in 1 .. m : Of(i) \in Cell
  BY <1>4, <1>5 DEF Cell
<1> HIDE DEF n, m, new, Of
<1>7. new \in Seq(Cell) /\ Len(new) = m /\ \A i \in 1 .. m : new[i] = Of(i)
  BY <1>1, <1>2, <1>6
<1> DEFINE g == h \o new
<1>8. /\ g \in Seq(Cell) /\ Len(g) = n + m
      /\ \A k \in 1 .. n : g[k] = h[k]
      /\ \A k \in 1 .. m : g[n + k] = Of(k)
  <2>1. /\ h \o new \in Seq(Cell) /\ Len(h \o new) = Len(h) + Len(new)
        /\ \A k \in 1 .. Len(h) : (h \o new)[k] = h[k]
        /\ \A k \in 1 .. Len(new) : (h \o new)[Len(h) + k] = new[k]
    <3>1. h \in Seq(Cell) /\ new \in Seq(Cell)
      BY <1>1, <1>7
    <3>2. QED
      BY <3>1, Joined
  <2>2. QED
    BY <1>7, <2>1 DEF n
<1> HIDE DEF g
<1>9. \A k \in 1 .. m : /\ g[n + k].entry = entries[m + 1 - k]
                        /\ g[n + k].next = IF k = 1 THEN rest ELSE n + k - 1
  <2>1. \A k \in 1 .. m : /\ Of(k).entry = entries[m + 1 - k]
                          /\ Of(k).next = IF k = 1 THEN rest ELSE n + k - 1
    BY DEF Of
  <2>2. QED
    BY <1>8, <2>1
<1>10. \A c \in 1 .. n + m : g[c].next < c
  <2> SUFFICES ASSUME NEW c \in 1 .. n + m
               PROVE  g[c].next < c
    OBVIOUS
  <2>1. CASE c <= n
    <3>1. c \in 1 .. n
      BY <1>1, <2>1
    <3>2. h[c].next < c
      BY <3>1 DEF Linked, n
    <3>3. QED
      BY <1>8, <3>1, <3>2
  <2>2. CASE ~(c <= n)
    <3> DEFINE k == c - n
    <3>1. k \in 1 .. m /\ n + k = c
      BY <1>1, <2>2
    <3> HIDE DEF k
    <3>2. g[c].next = IF k = 1 THEN rest ELSE n + k - 1
      BY <1>9, <3>1
    <3>3. rest \in 0 .. n
      BY DEF n
    <3>4. QED
      BY <1>1, <3>1, <3>2, <3>3
  <2>3. QED
    BY <2>1, <2>2
<1>11. Linked(g)
  BY <1>8, <1>10 DEF Linked
<1>12. Extends(g, h)
  <2>1. n <= n + m
    BY <1>1
  <2>2. QED
    BY <1>8, <1>11, <2>1 DEF Extends, n
<1>13. QED
  BY <1>8, <1>9, <1>12 DEF g, new, n, m

(* A new spine holds its entries, in front of the list that is shared.     *)
LEMMA SpineEntries ==
  ASSUME NEW h, Linked(h), NEW entries \in Seq(Entry), NEW rest \in 0 .. Len(h),
         NEW top, top = IF entries = <<>> THEN rest ELSE Len(h) + Len(entries)
  PROVE  /\ top \in 0 .. Len(h \o Spine(h, entries, rest))
         /\ Entries(h \o Spine(h, entries, rest), top) = entries \o Entries(h, rest)
<1> DEFINE n == Len(h)
           m == Len(entries)
           g == h \o Spine(h, entries, rest)
           tail == Entries(h, rest)
           At(j) == IF j = 0 THEN rest ELSE n + j
<1>1. /\ n \in Nat /\ m \in Nat /\ tail \in Seq(Entry) /\ Len(tail) \in Nat
      /\ rest \in 0 .. n
  BY CellsAre, ListType
<1>2. /\ Extends(g, h) /\ Linked(g) /\ Len(g) = n + m
      /\ \A i \in 1 .. m : /\ g[n + i].entry = entries[m + 1 - i]
                           /\ g[n + i].next = IF i = 1 THEN rest ELSE n + i - 1
  BY SpineCells DEF Extends
<1>3. Entries(g, rest) = tail
  BY <1>2, ListsStay
<1> HIDE DEF n, m, g, tail
<1> DEFINE E(j) == Entries(g, At(j))
           Holds(j) == /\ Len(E(j)) = j + Len(tail)
                       /\ \A k \in 1 .. j : E(j)[k] = entries[m - j + k]
                       /\ \A k \in 1 .. Len(tail) : E(j)[j + k] = tail[k]
           T == {j \in Nat : j <= m => Holds(j)}
<1>4. 0 \in T
  BY <1>1, <1>3
<1>5. \A j \in Nat : j \in T => j + 1 \in T
  <2> HIDE DEF Holds
  <2> SUFFICES ASSUME NEW j \in Nat, j + 1 <= m, Holds(j)
               PROVE  Holds(j + 1)
    BY <1>1
  <2> DEFINE c == n + (j + 1)
             r == E(j)
  <2>1. j + 1 \in 1 .. m /\ c \in 1 .. n + m /\ At(j + 1) = c
    BY <1>1
  <2>2. g[c].entry = entries[m - j] /\ g[c].next = At(j)
    <3>1. /\ g[c].entry = entries[m + 1 - (j + 1)]
          /\ g[c].next = IF j + 1 = 1 THEN rest ELSE n + (j + 1) - 1
      BY <1>2, <2>1
    <3>2. m + 1 - (j + 1) = m - j /\ n + (j + 1) - 1 = n + j /\ (j + 1 = 1 <=> j = 0)
      BY <1>1
    <3>3. QED
      BY <3>1, <3>2
  <2>3. /\ Len(Entries(g, c)) = 1 + Len(r)
        /\ Entries(g, c)[1] = entries[m - j]
        /\ \A k \in 1 .. Len(r) : Entries(g, c)[1 + k] = r[k]
    <3>1. c \in 1 .. Len(g)
      BY <1>2, <2>1
    <3> DEFINE next == g[c].next
    <3>2. /\ Len(Entries(g, c)) = 1 + Len(Entries(g, next))
          /\ Entries(g, c)[1] = g[c].entry
          /\ \A k \in 1 .. Len(Entries(g, next)) :
               Entries(g, c)[1 + k] = Entries(g, next)[k]
      <4> HIDE DEF c
      <4>1. Linked(g)
        BY <1>2
      <4>2. QED
        BY <3>1, <4>1, EntriesAre
    <3>3. Entries(g, next) = r
      BY <2>2
    <3> HIDE DEF c, r, next
    <3>4. QED
      BY <2>2, <3>2, <3>3
  <2>4. /\ Len(r) = j + Len(tail)
        /\ \A k \in 1 .. j : r[k] = entries[m - j + k]
        /\ \A k \in 1 .. Len(tail) : r[j + k] = tail[k]
    BY DEF Holds
  <2> DEFINE F == Entries(g, c)
  <2>5. E(j + 1) = F
    BY <2>1
  <2> HIDE DEF c, r, E, F, At
  <2>6. Len(F) = (j + 1) + Len(tail)
    BY <1>1, <2>3, <2>4 DEF F
  <2>7. ASSUME NEW k \in 1 .. j + 1
        PROVE  F[k] = entries[m - (j + 1) + k]
    <3>1. CASE k = 1
      <4>1. m - (j + 1) + 1 = m - j
        BY <1>1
      <4>2. QED
        BY <2>3, <3>1, <4>1 DEF F
    <3>2. CASE k # 1
      <4> DEFINE l == k - 1
      <4>1. l \in 1 .. j /\ 1 + l = k /\ m - (j + 1) + k = m - j + l
        BY <1>1, <3>2
      <4>2. l \in 1 .. Len(r)
        BY <1>1, <2>4, <4>1
      <4> HIDE DEF l
      <4>3. F[1 + l] = r[l] /\ r[l] = entries[m - j + l]
        BY <2>3, <2>4, <4>1, <4>2 DEF F
      <4>4. QED
        BY <4>1, <4>3
    <3>3. QED
      BY <3>1, <3>2
  <2>8. ASSUME NEW k \in 1 .. Len(tail)
        PROVE  F[(j + 1) + k] = tail[k]
    <3>1. j + k \in 1 .. Len(r) /\ 1 + (j + k) = (j + 1) + k
      <4>1. Len(tail) \in Nat /\ Len(r) = j + Len(tail)
        BY <1>1, <2>4
      <4>2. j + k \in 1 .. j + Len(tail)
        BY <4>1
      <4>3. QED
        BY <4>1, <4>2
    <3>2. F[1 + (j + k)] = r[j + k] /\ r[j + k] = tail[k]
      BY <2>3, <2>4, <3>1 DEF F
    <3>3. QED
      BY <3>1, <3>2
  <2>9. QED
    BY <2>5, <2>6, <2>7, <2>8 DEF Holds
<1>6. m \in T
  <2> HIDE DEF T
  <2>1. QED
    BY <1>1, <1>4, <1>5, NatSet
<1>7. Holds(m)
  <2> HIDE DEF Holds
  <2>1. QED
    BY <1>1, <1>6
<1>8. top = At(m)
  <2>1. entries = <<>> <=> m = 0
    BY DEF m
  <2>2. QED
    BY <2>1 DEF m, n
<1>9. top \in 0 .. n + m
  <2>1. m = 0 \/ m \in 1 .. m
    BY <1>1
  <2>2. QED
    BY <1>1, <1>8, <2>1
<1>10. Entries(g, top) = entries \o tail
  <2> DEFINE F == Entries(g, top)
             b == entries \o tail
  <2>1. /\ b \in Seq(Entry) /\ Len(b) = m + Len(tail)
        /\ \A k \in 1 .. m : b[k] = entries[k]
        /\ \A k \in 1 .. Len(tail) : b[m + k] = tail[k]
    BY <1>1, Joined DEF m
  <2>2. F \in Seq(Entry)
    BY <1>2, <1>9, ListType
  <2>3. /\ Len(F) = m + Len(tail)
        /\ \A k \in 1 .. m : F[k] = entries[m - m + k]
        /\ \A k \in 1 .. Len(tail) : F[m + k] = tail[k]
    BY <1>7, <1>8
  <2>4. \A k \in 1 .. m : m - m + k = k
    BY <1>1
  <2> HIDE DEF F, b
  <2>5. \A k \in 1 .. m + Len(tail) : F[k] = b[k]
    <3> SUFFICES ASSUME NEW k \in 1 .. m + Len(tail)
                 PROVE  F[k] = b[k]
      OBVIOUS
    <3>1. CASE k \in 1 .. m
      BY <2>1, <2>3, <2>4, <3>1
    <3>2. CASE k \notin 1 .. m
      <4> DEFINE l == k - m
      <4>1. l \in 1 .. Len(tail) /\ m + l = k
        BY <1>1, <3>2
      <4> HIDE DEF l
      <4>2. QED
        BY <2>1, <2>3, <4>1
    <3>3. QED
      BY <3>1, <3>2
  <2>6. F = b
    BY <2>1, <2>2, <2>3, <2>5
  <2>7. QED
    BY <2>6 DEF F, b
<1>11. QED
  BY <1>2, <1>9, <1>10 DEF n, m, g, tail

(* The list behind one of a list's cells.                                  *)
LEMMA ListBehind ==
  ASSUME NEW h, Linked(h), NEW c \in 0 .. Len(h), NEW i \in 1 .. Len(Entries(h, c))
  PROVE  /\ h[Cells(h, c)[i]].next \in 0 .. Len(h)
         /\ Len(Entries(h, h[Cells(h, c)[i]].next)) = Len(Entries(h, c)) - i
         /\ \A k \in 1 .. Len(Entries(h, c)) - i :
              Entries(h, h[Cells(h, c)[i]].next)[k] = Entries(h, c)[i + k]
<1> DEFINE Behind(a, j) ==
             /\ h[Cells(h, a)[j]].next \in 0 .. Len(h)
             /\ Len(Entries(h, h[Cells(h, a)[j]].next)) = Len(Entries(h, a)) - j
             /\ \A k \in 1 .. Len(Entries(h, a)) - j :
                  Entries(h, h[Cells(h, a)[j]].next)[k] = Entries(h, a)[j + k]
           P == {a \in 0 .. Len(h) : \A j \in 1 .. Len(Entries(h, a)) : Behind(a, j)}
<1>1. NIL \in P
  <2>1. NIL \in 0 .. Len(h)
    BY CellsAre DEF NIL
  <2>2. Len(Entries(h, NIL)) = 0
    BY EntriesAre
  <2>3. 1 .. Len(Entries(h, NIL)) = {}
    BY <2>2
  <2> HIDE DEF Behind
  <2>4. QED
    BY <2>1, <2>3
<1>2. ASSUME NEW a \in 1 .. Len(h), h[a].next \in P
      PROVE  a \in P
  <2> DEFINE b == h[a].next
             E == Entries(h, a)
             R == Entries(h, b)
  <2>1. a \in 0 .. Len(h) /\ b \in 0 .. Len(h)
    <3>1. b \in 0 .. Len(h)
      BY CellsAre
    <3>2. QED
      BY <3>1
  <2>2. /\ Len(E) = 1 + Len(R) /\ Cells(h, a)[1] = a
        /\ \A k \in 1 .. Len(R) : /\ E[1 + k] = R[k]
                                  /\ Cells(h, a)[1 + k] = Cells(h, b)[k]
    BY EntriesAre
  <2>3. Len(R) \in Nat
    BY <2>1, ListType
  <2>4. ASSUME NEW j \in 1 .. Len(R)
        PROVE  Behind(b, j)
    BY <1>2
  <2>5. ASSUME NEW j \in 1 .. Len(E)
        PROVE  Behind(a, j)
    <3>1. CASE j = 1
      <4>1. h[Cells(h, a)[j]].next = b
        BY <2>2, <3>1
      <4>2. Len(R) = Len(E) - 1
        BY <2>2, <2>3
      <4> HIDE DEF E, R, b
      <4>3. \A k \in 1 .. Len(E) - 1 : R[k] = E[1 + k]
        BY <2>2, <4>2
      <4>4. QED
        BY <2>1, <3>1, <4>1, <4>2, <4>3 DEF E, R
    <3>2. CASE j # 1
      <4> DEFINE l == j - 1
                 d == h[Cells(h, b)[l]].next
      <4>1. l \in 1 .. Len(R) /\ 1 + l = j /\ Len(R) - l = Len(E) - j
        BY <2>2, <2>3, <3>2
      <4> HIDE DEF l
      <4>2. h[Cells(h, a)[j]].next = d
        BY <2>2, <4>1
      <4>3. /\ d \in 0 .. Len(h)
            /\ Len(Entries(h, d)) = Len(R) - l
            /\ \A k \in 1 .. Len(R) - l : Entries(h, d)[k] = R[l + k]
        BY <2>4, <4>1
      <4>4. \A k \in 1 .. Len(R) - l : l + k \in 1 .. Len(R) /\ 1 + (l + k) = j + k
        BY <2>3, <4>1
      <4> HIDE DEF d, E, R, b
      <4>5. \A k \in 1 .. Len(E) - j : Entries(h, d)[k] = E[j + k]
        <5> SUFFICES ASSUME NEW k \in 1 .. Len(R) - l
                     PROVE  Entries(h, d)[k] = E[j + k]
          BY <4>1
        <5>1. E[1 + (l + k)] = R[l + k]
          BY <2>2, <4>4
        <5>2. QED
          BY <4>3, <4>4, <5>1
      <4>6. QED
        BY <4>1, <4>2, <4>3, <4>5 DEF E
    <3>3. QED
      BY <3>1, <3>2
  <2> HIDE DEF Behind
  <2>6. QED
    BY <2>1, <2>5
<1> HIDE DEF P
<1>3. c \in P
  BY <1>1, <1>2, CellInduction
<1>4. Behind(c, i)
  BY <1>3 DEF P
<1>5. QED
  BY <1>4

-----------------------------------------------------------------------------
(* The invariant.  On the entries of the table's list: their order, each   *)
(* handler once, the handlers, and when the last of them was added.        *)
Before(d, e) == d.priority < e.priority \/ (d.priority = e.priority /\ d.added < e.added)

InOrder(entries) ==
  \A i, j \in 1 .. Len(entries) : i < j => Before(entries[i], entries[j])

Distinct(entries) ==
  \A i, j \in 1 .. Len(entries) : entries[i].fn = entries[j].fn => i = j

FnsOf(entries) == {entries[i].fn : i \in 1 .. Len(entries)}

AddedBy(entries, time) == \A i \in 1 .. Len(entries) : entries[i].added < time

ListInv ==
  LET entries == Entries(heap, hook_list)
  IN /\ InOrder(entries) /\ Distinct(entries)
     /\ FnsOf(entries) = registered
     /\ AddedBy(entries, Len(heap))

(* A run's next cell begins the list of the handlers it has to call yet.   *)
(* A value that is a list has items, and some are still to be mapped; if   *)
(* every handler kept its text, nothing is lost so far.                    *)
GoodRun(run, h) ==
  /\ run \in Run
  /\ run.at \in 1 .. Len(h) /\ Functions(h, run.at) = run.left
  /\ run.value.list => run.value.items # <<>> /\ run.elems # <<>>
  /\ run.kept => run.value.items = run.given.items
  /\ run.kept /\ run.value.list => run.results \o run.elems = run.given.items

GoodRuns(h) == {run \in Run : GoodRun(run, h)}

RunsInv == runs \in Seq(GoodRuns(heap))

IInv ==
  /\ Linked(heap) /\ hook_list \in 0 .. Len(heap)
  /\ registered \subseteq Handler /\ kind \in Kind
  /\ ListInv /\ RunsInv

(* An entry that goes behind those of its priority or less and before      *)
(* those of greater priority, as the latest of all.                        *)
Placed(new, entries, e, p) ==
  /\ new \in Seq(Entry) /\ Len(new) = Len(entries) + 1
  /\ p \in 1 .. Len(entries) + 1 /\ new[p] = e
  /\ \A k \in 1 .. p - 1 : new[k] = entries[k] /\ entries[k].priority <= e.priority
  /\ \A k \in p .. Len(entries) : new[k + 1] = entries[k] /\ e.priority < entries[k].priority

(* An entry put after those of its own priority and before those of a      *)
(* greater one leaves the list ordered and without duplicates.             *)
LEMMA PlacedKeeps ==
  ASSUME NEW entries \in Seq(Entry), NEW e \in Entry, NEW new, NEW p,
         InOrder(entries), Distinct(entries), AddedBy(entries, e.added),
         e.fn \notin FnsOf(entries), Placed(new, entries, e, p)
  PROVE  /\ InOrder(new) /\ Distinct(new)
         /\ FnsOf(new) = FnsOf(entries) \cup {e.fn}
         /\ AddedBy(new, e.added + 1)
<1> DEFINE n == Len(entries)
           old(a) == IF a < p THEN a ELSE a - 1
<1>1. /\ n \in Nat /\ p \in 1 .. n + 1 /\ Len(new) = n + 1 /\ new[p] = e
      /\ \A k \in 1 .. p - 1 : new[k] = entries[k] /\ entries[k].priority <= e.priority
      /\ \A k \in p .. n : new[k + 1] = entries[k] /\ e.priority < entries[k].priority
  BY DEF Placed
<1>2. /\ e.priority \in Nat /\ e.added \in Nat
      /\ \A k \in 1 .. n : /\ entries[k] \in Entry /\ entries[k].priority \in Nat
                           /\ entries[k].added \in Nat /\ entries[k].added < e.added
                           /\ entries[k].fn # e.fn
  <2>1. \A d \in Entry : d.priority \in Nat /\ d.added \in Nat
    BY DEF Entry
  <2>2. \A k \in 1 .. n : entries[k] \in Entry
    OBVIOUS
  <2>3. \A k \in 1 .. n : entries[k].added < e.added
    BY DEF AddedBy
  <2>4. \A k \in 1 .. n : entries[k].fn # e.fn
    BY DEF FnsOf
  <2> HIDE DEF n
  <2>5. QED
    BY <2>1, <2>2, <2>3, <2>4
<1> HIDE DEF n
<1>3. ASSUME NEW a \in 1 .. n + 1, a # p
      PROVE  /\ old(a) \in 1 .. n /\ new[a] = entries[old(a)]
             /\ a < p => Before(new[a], e)
             /\ p < a => Before(e, new[a])
  <2>1. CASE a < p
    <3>1. a \in 1 .. p - 1 /\ a \in 1 .. n /\ ~(p < a)
      BY <1>1, <2>1
    <3>2. new[a] = entries[a] /\ entries[a].priority <= e.priority
      BY <1>1, <3>1
    <3>3. Before(new[a], e)
      BY <1>2, <3>1, <3>2 DEF Before
    <3>4. QED
      BY <2>1, <3>1, <3>2, <3>3
  <2>2. CASE ~(a < p)
    <3> DEFINE b == a - 1
    <3>1. b \in p .. n /\ b \in 1 .. n /\ a = b + 1
      BY <1>1, <1>3, <2>2
    <3> HIDE DEF b
    <3>2. new[a] = entries[b] /\ e.priority < entries[b].priority
      BY <1>1, <3>1
    <3>3. old(a) = b
      BY <2>2, <3>1
    <3>4. Before(e, new[a])
      BY <3>2 DEF Before
    <3>5. QED
      BY <2>2, <3>1, <3>2, <3>3, <3>4
  <2>3. QED
    BY <2>1, <2>2
<1>4. InOrder(new)
  <2> SUFFICES ASSUME NEW a \in 1 .. n + 1, NEW b \in 1 .. n + 1, a < b
               PROVE  Before(new[a], new[b])
    BY <1>1 DEF InOrder
  <2>1. CASE a # p /\ b # p
    <3>1. old(a) < old(b)
      BY <1>1, <2>1
    <3>2. /\ new[a] = entries[old(a)] /\ new[b] = entries[old(b)]
          /\ old(a) \in 1 .. n /\ old(b) \in 1 .. n
      BY <1>3, <2>1
    <3> HIDE DEF old
    <3>3. Before(entries[old(a)], entries[old(b)])
      BY <3>1, <3>2 DEF InOrder, n
    <3>4. QED
      BY <3>2, <3>3
  <2>2. CASE a = p
    <3>1. b # p /\ p < b
      BY <1>1, <2>2
    <3>2. QED
      BY <1>1, <1>3, <2>2, <3>1
  <2>3. CASE b = p
    <3>1. a # p /\ a < p
      BY <1>1, <2>3
    <3>2. QED
      BY <1>1, <1>3, <2>3, <3>1
  <2>4. QED
    BY <2>1, <2>2, <2>3
<1>5. Distinct(new)
  <2> SUFFICES ASSUME NEW a \in 1 .. n + 1, NEW b \in 1 .. n + 1, new[a].fn = new[b].fn
               PROVE  a = b
    BY <1>1 DEF Distinct
  <2>1. CASE a # p /\ b # p
    <3>1. /\ entries[old(a)].fn = entries[old(b)].fn
          /\ old(a) \in 1 .. n /\ old(b) \in 1 .. n
      BY <1>3, <2>1
    <3>2. old(a) = old(b)
      <4> HIDE DEF old
      <4>1. QED
        BY <3>1 DEF Distinct, n
    <3>3. QED
      BY <1>1, <2>1, <3>2
  <2>2. CASE a = p /\ b # p
    BY <1>1, <1>2, <1>3, <2>2
  <2>3. CASE a # p /\ b = p
    BY <1>1, <1>2, <1>3, <2>3
  <2>4. QED
    BY <2>1, <2>2, <2>3
<1>6. ASSUME NEW k \in 1 .. n
      PROVE  \E a \in 1 .. n + 1 : new[a] = entries[k]
  <2>1. CASE k < p
    <3>1. k \in 1 .. p - 1 /\ k \in 1 .. n + 1
      BY <1>1, <2>1
    <3>2. QED
      BY <1>1, <3>1
  <2>2. CASE ~(k < p)
    <3>1. k \in p .. n /\ k + 1 \in 1 .. n + 1
      BY <1>1, <2>2
    <3>2. QED
      BY <1>1, <3>1
  <2>3. QED
    BY <2>1, <2>2
<1>7. \A a \in 1 .. n + 1 : new[a] = e \/ \E k \in 1 .. n : new[a] = entries[k]
  <2> SUFFICES ASSUME NEW a \in 1 .. n + 1, a # p
               PROVE  \E k \in 1 .. n : new[a] = entries[k]
    BY <1>1
  <2>1. old(a) \in 1 .. n /\ new[a] = entries[old(a)]
    BY <1>3
  <2> HIDE DEF old
  <2>2. QED
    BY <2>1
<1>8. FnsOf(new) = FnsOf(entries) \cup {e.fn}
  <2>1. FnsOf(new) = {new[i].fn : i \in 1 .. n + 1}
    BY <1>1 DEF FnsOf
  <2>2. FnsOf(entries) = {entries[i].fn : i \in 1 .. n}
    BY DEF FnsOf, n
  <2>3. FnsOf(new) \subseteq FnsOf(entries) \cup {e.fn}
    BY <1>7, <2>1, <2>2
  <2>4. FnsOf(entries) \subseteq FnsOf(new)
    BY <1>6, <2>1, <2>2
  <2>5. e.fn \in FnsOf(new)
    BY <1>1, <2>1
  <2>6. QED
    BY <2>3, <2>4, <2>5
<1>9. AddedBy(new, e.added + 1)
  <2> SUFFICES ASSUME NEW a \in 1 .. n + 1
               PROVE  new[a].added < e.added + 1
    BY <1>1 DEF AddedBy
  <2>1. CASE new[a] = e
    BY <1>2, <2>1
  <2>2. CASE \E k \in 1 .. n : new[a] = entries[k]
    BY <1>2, <2>2
  <2>3. QED
    BY <1>7, <2>1, <2>2
<1>10. QED
  BY <1>4, <1>5, <1>8, <1>9

(* A list without one of its entries.                                      *)
Lacks(new, entries, i) ==
  /\ new \in Seq(Entry) /\ Len(new) = Len(entries) - 1
  /\ \A k \in 1 .. i - 1 : new[k] = entries[k]
  /\ \A k \in 1 .. Len(entries) - i : new[(i - 1) + k] = entries[i + k]

(* A list without one of its entries is as ordered as it was.              *)
LEMMA LacksKeeps ==
  ASSUME NEW entries \in Seq(Entry), NEW i \in 1 .. Len(entries), NEW new, NEW time,
         InOrder(entries), Distinct(entries), AddedBy(entries, time),
         Lacks(new, entries, i)
  PROVE  /\ InOrder(new) /\ Distinct(new)
         /\ FnsOf(new) = FnsOf(entries) \ {entries[i].fn}
         /\ AddedBy(new, time)
<1> DEFINE n == Len(entries)
           old(a) == IF a < i THEN a ELSE a + 1
<1>1. /\ n \in Nat /\ i \in 1 .. n /\ Len(new) = n - 1
      /\ \A k \in 1 .. i - 1 : new[k] = entries[k]
      /\ \A k \in 1 .. n - i : new[(i - 1) + k] = entries[i + k]
  BY DEF Lacks
<1> HIDE DEF n
<1>2. ASSUME NEW a \in 1 .. n - 1
      PROVE  old(a) \in 1 .. n /\ old(a) # i /\ new[a] = entries[old(a)]
  <2>1. CASE a < i
    <3>1. a \in 1 .. i - 1 /\ a \in 1 .. n /\ a # i
      BY <1>1, <2>1
    <3>2. QED
      BY <1>1, <2>1, <3>1
  <2>2. CASE ~(a < i)
    <3> DEFINE k == a - (i - 1)
    <3>1. k \in 1 .. n - i /\ (i - 1) + k = a /\ i + k = a + 1 /\ a + 1 \in 1 .. n /\ a + 1 # i
      BY <1>1, <2>2
    <3> HIDE DEF k
    <3>2. new[(i - 1) + k] = entries[i + k]
      BY <1>1, <3>1
    <3>3. QED
      BY <2>2, <3>1, <3>2
  <2>3. QED
    BY <2>1, <2>2
<1>3. \A a, b \in 1 .. n - 1 : /\ a < b => old(a) < old(b)
                               /\ old(a) = old(b) => a = b
  BY <1>1
<1>4. \A k \in 1 .. n : k # i => \E a \in 1 .. n - 1 : old(a) = k
  <2> SUFFICES ASSUME NEW k \in 1 .. n, k # i
               PROVE  \E a \in 1 .. n - 1 : old(a) = k
    OBVIOUS
  <2> DEFINE a == IF k < i THEN k ELSE k - 1
  <2>1. a \in 1 .. n - 1 /\ old(a) = k
    BY <1>1
  <2> HIDE DEF a, old
  <2>2. QED
    BY <2>1
<1> HIDE DEF old
<1>5. InOrder(new)
  <2> SUFFICES ASSUME NEW a \in 1 .. n - 1, NEW b \in 1 .. n - 1, a < b
               PROVE  Before(new[a], new[b])
    BY <1>1 DEF InOrder
  <2>1. Before(entries[old(a)], entries[old(b)])
    BY <1>2, <1>3 DEF InOrder, n
  <2>2. QED
    BY <1>2, <2>1
<1>6. Distinct(new)
  <2> SUFFICES ASSUME NEW a \in 1 .. n - 1, NEW b \in 1 .. n - 1, new[a].fn = new[b].fn
               PROVE  a = b
    BY <1>1 DEF Distinct
  <2>1. entries[old(a)].fn = entries[old(b)].fn /\ old(a) \in 1 .. n /\ old(b) \in 1 .. n
    BY <1>2
  <2>2. old(a) = old(b)
    BY <2>1 DEF Distinct, n
  <2>3. QED
    BY <1>3, <2>2
<1>7. FnsOf(new) = FnsOf(entries) \ {entries[i].fn}
  <2>1. FnsOf(new) = {new[a].fn : a \in 1 .. n - 1}
    BY <1>1 DEF FnsOf
  <2>2. FnsOf(entries) = {entries[k].fn : k \in 1 .. n}
    BY DEF FnsOf, n
  <2>3. \A k \in 1 .. n : entries[k].fn = entries[i].fn => k = i
    BY <1>1 DEF Distinct, n
  <2>4. ASSUME NEW f \in FnsOf(new)
        PROVE  f \in FnsOf(entries) \ {entries[i].fn}
    <3>1. PICK a \in 1 .. n - 1 : f = new[a].fn
      BY <2>1
    <3>2. f = entries[old(a)].fn /\ old(a) \in 1 .. n /\ old(a) # i
      BY <1>2, <3>1
    <3>3. QED
      BY <2>2, <2>3, <3>2
  <2>5. ASSUME NEW f \in FnsOf(entries), f # entries[i].fn
        PROVE  f \in FnsOf(new)
    <3>1. PICK k \in 1 .. n : f = entries[k].fn
      BY <2>2
    <3>2. PICK a \in 1 .. n - 1 : old(a) = k
      BY <1>4, <2>5, <3>1
    <3>3. f = new[a].fn
      BY <1>2, <3>1, <3>2
    <3>4. QED
      BY <2>1, <3>3
  <2>6. QED
    BY <2>4, <2>5
<1>8. AddedBy(new, time)
  <2> SUFFICES ASSUME NEW a \in 1 .. n - 1
               PROVE  new[a].added < time
    BY <1>1 DEF AddedBy
  <2>1. entries[old(a)].added < time
    BY <1>2 DEF AddedBy, n
  <2>2. QED
    BY <1>2, <2>1
<1>9. QED
  BY <1>5, <1>6, <1>7, <1>8

(* What becomes of the table's list.                                       *)
LEMMA Setting ==
  ASSUME Linked(heap), NEW entries \in Seq(Entry), NEW rest \in 0 .. Len(heap),
         SetList(entries, rest)
  PROVE  /\ Extends(heap', heap) /\ Len(heap') = Len(heap) + Len(entries)
         /\ hook_list' \in 0 .. Len(heap')
         /\ Entries(heap', hook_list') = entries \o Entries(heap, rest)
<1>1. /\ heap' = heap \o Spine(heap, entries, rest)
      /\ hook_list' = IF entries = <<>> THEN rest ELSE Len(heap) + Len(entries)
  BY DEF SetList
<1> DEFINE g == heap \o Spine(heap, entries, rest)
           top == IF entries = <<>> THEN rest ELSE Len(heap) + Len(entries)
<1>2. Extends(g, heap) /\ Len(g) = Len(heap) + Len(entries)
  BY SpineCells
<1>3. top \in 0 .. Len(g) /\ Entries(g, top) = entries \o Entries(heap, rest)
  BY SpineEntries
<1> HIDE DEF g, top
<1>4. heap' = g /\ hook_list' = top
  BY <1>1 DEF g, top
<1>5. QED
  BY <1>2, <1>3, <1>4

(* The elements of a sequence after an insertion.                          *)
LEMMA InsertedIn ==
  ASSUME NEW T, NEW s \in Seq(T), NEW e \in T, NEW i \in 1 .. Len(s)
  PROVE  /\ InsertAt(s, i, e) \in Seq(T) /\ Len(InsertAt(s, i, e)) = Len(s) + 1
         /\ InsertAt(s, i, e)[i] = e
         /\ \A k \in 1 .. i - 1 : InsertAt(s, i, e)[k] = s[k]
         /\ \A k \in i .. Len(s) : InsertAt(s, i, e)[k + 1] = s[k]
<1> DEFINE n == Len(s)
           new == InsertAt(s, i, e)
           a == SubSeq(s, 1, i - 1)
           c == SubSeq(s, i, n)
           b == a \o <<e>>
<1>0. n \in Nat /\ i \in 1 .. n /\ i \in Nat
  OBVIOUS
<1>1. a \in Seq(T) /\ Len(a) = i - 1 /\ \A k \in 1 .. i - 1 : a[k] = s[k]
  BY <1>0
<1>2. /\ c \in Seq(T) /\ Len(c) = n - i + 1
      /\ \A k \in 1 .. n - i + 1 : c[k] = s[k + i - 1]
  BY <1>0
<1>3. new = b \o c
  BY DEF InsertAt
<1> HIDE DEF a, c, new, n
<1>4. b \in Seq(T) /\ Len(b) = i /\ b[i] = e /\ \A k \in 1 .. i - 1 : b[k] = a[k]
  <2> DEFINE o == <<e>>
  <2>1. o \in Seq(T) /\ Len(o) = 1 /\ o[1] = e /\ 1 \in 1 .. 1
    OBVIOUS
  <2>2. b = a \o o
    OBVIOUS
  <2> HIDE DEF b, o
  <2>3. a \in Seq(T) /\ o \in Seq(T)
    BY <1>1, <2>1
  <2>4. /\ a \o o \in Seq(T) /\ Len(a \o o) = Len(a) + Len(o)
        /\ \A k \in 1 .. Len(a) : (a \o o)[k] = a[k]
        /\ \A k \in 1 .. Len(o) : (a \o o)[Len(a) + k] = o[k]
    BY <2>3, Joined
  <2>5. (i - 1) + 1 = i
    BY <1>0
  <2>6. QED
    BY <1>1, <2>1, <2>2, <2>4, <2>5
<1> HIDE DEF b
<1>5. /\ new \in Seq(T) /\ Len(new) = n + 1
      /\ \A k \in 1 .. i : new[k] = b[k]
      /\ \A k \in 1 .. Len(c) : new[i + k] = c[k]
  <2>1. b \in Seq(T) /\ c \in Seq(T)
    BY <1>2, <1>4
  <2>2. /\ b \o c \in Seq(T) /\ Len(b \o c) = Len(b) + Len(c)
        /\ \A k \in 1 .. Len(b) : (b \o c)[k] = b[k]
        /\ \A k \in 1 .. Len(c) : (b \o c)[Len(b) + k] = c[k]
    BY <2>1, Joined
  <2>3. i + (n - i + 1) = n + 1
    BY <1>0
  <2>4. QED
    BY <1>2, <1>3, <1>4, <2>2, <2>3
<1>6. \A k \in i .. n : new[k + 1] = s[k]
  <2> SUFFICES ASSUME NEW k \in i .. n
               PROVE  new[k + 1] = s[k]
    OBVIOUS
  <2> DEFINE j == k + 1 - i
  <2>1. i + j = k + 1 /\ j \in 1 .. n - i + 1 /\ j + i - 1 = k
    BY <1>0
  <2> HIDE DEF j
  <2>2. QED
    BY <1>2, <1>5, <2>1
<1>7. new[i] = e /\ \A k \in 1 .. i - 1 : new[k] = s[k]
  <2>1. \A k \in 1 .. i - 1 : k \in 1 .. i
    BY <1>0
  <2>2. i \in 1 .. i
    BY <1>0
  <2>3. QED
    BY <1>1, <1>4, <1>5, <2>1, <2>2
<1>8. QED
  BY <1>5, <1>6, <1>7 DEF new, n

(* An empty list behind a sequence changes nothing.                        *)
LEMMA JoinedEmpty ==
  ASSUME NEW T, NEW s \in Seq(T)
  PROVE  s \o <<>> = s
<1> DEFINE e == <<>>
           b == s \o e
<1>1. e \in Seq(T) /\ Len(e) = 0
  OBVIOUS
<1> HIDE DEF e
<1>2. b \in Seq(T) /\ Len(b) = Len(s) + 0 /\ \A k \in 1 .. Len(s) : b[k] = s[k]
  BY <1>1, Joined
<1>3. Len(b) = Len(s)
  BY <1>2
<1> HIDE DEF b
<1>4. b = s
  BY <1>2, <1>3
<1>5. QED
  BY <1>4 DEF b, e

(* Where an entry is, by what is asked of it.                              *)
LEMMA Selected ==
  ASSUME NEW n \in Nat, NEW I \in SUBSET (1 .. n),
         NEW i, i = IF I # {} THEN Min(I) ELSE 0
  PROVE  \/ i = 0 /\ I = {}
         \/ i \in I /\ i # 0 /\ \A k \in I : i <= k
<1>1. CASE I = {}
  BY <1>1
<1>2. CASE I # {}
  <2>1. I \in SUBSET Nat
    OBVIOUS
  <2>2. \E m \in I : \A k \in I : m <= k
    BY <1>2, <2>1, LeastNumber
  <2>3. i \in I /\ \A k \in I : i <= k
    BY <1>2, <2>2 DEF Min
  <2>4. i # 0
    BY <2>3
  <2>5. QED
    BY <2>3, <2>4
<1>3. QED
  BY <1>1, <1>2

(* What hooks_insert_sorted does to the list.                              *)
LEMMA Inserting ==
  ASSUME IInv, NEW e \in Entry, InsertSorted(e)
  PROVE  /\ Extends(heap', heap) /\ Len(heap) + 1 <= Len(heap')
         /\ hook_list' \in 0 .. Len(heap')
         /\ \E p : Placed(Entries(heap', hook_list'), Entries(heap, hook_list), e, p)
<1> DEFINE E == Entries(heap, hook_list)
           F == Entries(heap', hook_list')
           n == Len(E)
           I == {k \in 1 .. n : e.priority < E[k].priority}
           i == BeforeGreater(e.priority)
<1>1. /\ Linked(heap) /\ hook_list \in 0 .. Len(heap) /\ Len(heap) \in Nat
      /\ NIL \in 0 .. Len(heap) /\ Entries(heap, NIL) = <<>>
  BY CellsAre, EntriesAre DEF IInv, NIL
<1>2. E \in Seq(Entry) /\ n \in Nat
  BY <1>1, ListType
<1>3. /\ e.priority \in Nat
      /\ \A k \in 1 .. n : E[k] \in Entry /\ E[k].priority \in Nat
  <2>1. \A d \in Entry : d.priority \in Nat
    BY DEF Entry
  <2>2. \A k \in 1 .. n : E[k] \in Entry
    BY <1>2
  <2>3. QED
    BY <2>1, <2>2
<1>4. i = IF I # {} THEN Min(I) ELSE 0
  BY DEF BeforeGreater, SelectInSeq
<1>5. \/ i = 0 /\ I = {}
      \/ i \in I /\ i # 0 /\ \A k \in I : i <= k
  <2>1. I \in SUBSET (1 .. n)
    OBVIOUS
  <2> HIDE DEF I, n, i
  <2>2. QED
    BY <1>2, <1>4, <2>1, Selected
<1>6. IF i = 1 THEN SetList(<<e>>, hook_list)
      ELSE IF i = 0 THEN SetList(Append(E, e), NIL)
      ELSE SetList(InsertAt(E, i, e), NIL)
  BY Zenon DEF InsertSorted
<1> HIDE DEF i
<1>7. ASSUME i \in I, \A k \in I : i <= k
      PROVE  /\ i \in 1 .. n
             /\ \A k \in 1 .. i - 1 : E[k].priority <= e.priority
             /\ \A k \in i .. n : e.priority < E[k].priority
  <2>1. i \in 1 .. n /\ e.priority < E[i].priority
    BY <1>7
  <2>2. \A k \in 1 .. i - 1 : E[k].priority <= e.priority
    <3> SUFFICES ASSUME NEW k \in 1 .. i - 1
                 PROVE  E[k].priority <= e.priority
      OBVIOUS
    <3>1. k \in 1 .. n /\ ~(i <= k)
      BY <1>2, <2>1
    <3>2. k \notin I
      BY <1>7, <3>1
    <3>3. ~(e.priority < E[k].priority)
      BY <3>1, <3>2
    <3>4. QED
      BY <1>3, <3>1, <3>3
  <2>3. \A k \in i .. n : e.priority < E[k].priority
    <3> SUFFICES ASSUME NEW k \in i .. n
                 PROVE  e.priority < E[k].priority
      OBVIOUS
    <3>1. k \in 1 .. n /\ (k = i \/ i < k)
      BY <1>2, <2>1
    <3>2. CASE i < k
      <4>1. Before(E[i], E[k])
        BY <2>1, <3>1, <3>2 DEF IInv, ListInv, InOrder
      <4>2. E[i].priority <= E[k].priority
        BY <1>3, <2>1, <3>1, <4>1 DEF Before
      <4>3. QED
        BY <1>3, <2>1, <3>1, <4>2
    <3>3. QED
      BY <2>1, <3>1, <3>2
  <2>4. QED
    BY <2>1, <2>2, <2>3
<1>8. CASE i = 1
  <2> DEFINE a == <<e>>
  <2>1. a \in Seq(Entry) /\ Len(a) = 1 /\ a[1] = e /\ 1 \in 1 .. 1
    OBVIOUS
  <2>2. SetList(a, hook_list)
    BY <1>6, <1>8
  <2> HIDE DEF a
  <2>3. /\ Extends(heap', heap) /\ Len(heap') = Len(heap) + 1
        /\ hook_list' \in 0 .. Len(heap') /\ F = a \o E
    BY <1>1, <2>1, <2>2, Setting
  <2> HIDE DEF E, F
  <2>4. /\ a \o E \in Seq(Entry) /\ Len(a \o E) = Len(a) + Len(E)
        /\ \A k \in 1 .. Len(a) : (a \o E)[k] = a[k]
        /\ \A k \in 1 .. Len(E) : (a \o E)[Len(a) + k] = E[k]
    <3>1. a \in Seq(Entry) /\ E \in Seq(Entry)
      BY <1>2, <2>1
    <3>2. QED
      BY <3>1, Joined
  <2>5. /\ F \in Seq(Entry) /\ Len(F) = n + 1 /\ F[1] = e
        /\ \A k \in 1 .. n : F[1 + k] = E[k]
    BY <1>2, <2>1, <2>3, <2>4
  <2>6. /\ 1 \in 1 .. n + 1 /\ 1 .. 1 - 1 = {}
        /\ \A k \in 1 .. n : k + 1 = 1 + k
    BY <1>2
  <2>7. \A k \in 1 .. n : e.priority < E[k].priority
    BY <1>5, <1>7, <1>8
  <2>8. Placed(F, E, e, 1)
    BY <2>5, <2>6, <2>7 DEF Placed
  <2>9. Len(heap) + 1 <= Len(heap')
    BY <1>1, <2>3
  <2>10. QED
    BY <2>3, <2>8, <2>9 DEF E, F
<1>9. CASE i = 0
  <2> DEFINE new == Append(E, e)
  <2>1. /\ new \in Seq(Entry) /\ Len(new) = n + 1 /\ new[n + 1] = e
        /\ \A k \in 1 .. n : new[k] = E[k]
    BY <1>2
  <2>2. SetList(new, NIL)
    BY <1>6, <1>9
  <2> HIDE DEF new
  <2>3. /\ Extends(heap', heap) /\ Len(heap') = Len(heap) + Len(new)
        /\ hook_list' \in 0 .. Len(heap') /\ F = new \o <<>>
    BY <1>1, <2>1, <2>2, Setting
  <2>4. F = new
    BY <2>1, <2>3, JoinedEmpty
  <2>5. \A k \in 1 .. n : E[k].priority <= e.priority
    BY <1>3, <1>5, <1>9
  <2>6. /\ n + 1 \in 1 .. n + 1 /\ (n + 1) - 1 = n /\ (n + 1) .. n = {}
        /\ Len(heap) + 1 <= Len(heap) + (n + 1)
    BY <1>1, <1>2
  <2> HIDE DEF E, F, n
  <2>7. Placed(F, E, e, n + 1)
    BY <2>1, <2>4, <2>5, <2>6 DEF Placed, n
  <2>8. Len(heap) + 1 <= Len(heap')
    BY <2>1, <2>3, <2>6
  <2>9. QED
    BY <2>3, <2>7, <2>8 DEF E, F
<1>10. CASE i # 0 /\ i # 1
  <2> DEFINE new == InsertAt(E, i, e)
  <2>1. /\ i \in 1 .. n
        /\ \A k \in 1 .. i - 1 : E[k].priority <= e.priority
        /\ \A k \in i .. n : e.priority < E[k].priority
    BY <1>5, <1>7, <1>10
  <2> HIDE DEF E
  <2>2. /\ new \in Seq(Entry) /\ Len(new) = n + 1 /\ new[i] = e
        /\ \A k \in 1 .. i - 1 : new[k] = E[k]
        /\ \A k \in i .. n : new[k + 1] = E[k]
    BY <1>2, <2>1, InsertedIn
  <2> USE DEF E
  <2>3. SetList(new, NIL)
    BY <1>6, <1>10
  <2> HIDE DEF new
  <2>4. /\ Extends(heap', heap) /\ Len(heap') = Len(heap) + Len(new)
        /\ hook_list' \in 0 .. Len(heap') /\ F = new \o <<>>
    BY <1>1, <2>2, <2>3, Setting
  <2>5. F = new
    BY <2>2, <2>4, JoinedEmpty
  <2>6. i \in 1 .. n + 1 /\ Len(heap) + 1 <= Len(heap) + (n + 1)
    BY <1>1, <1>2, <2>1
  <2> HIDE DEF E, F, n
  <2>7. Placed(F, E, e, i)
    BY <2>1, <2>2, <2>5, <2>6 DEF Placed, n
  <2>8. Len(heap) + 1 <= Len(heap')
    BY <2>2, <2>4, <2>6
  <2>9. QED
    BY <2>4, <2>7, <2>8 DEF E, F
<1>11. QED
  BY <1>8, <1>9, <1>10

(* What hooks_remove_fn does to the list.                                  *)
LEMMA Removing ==
  ASSUME IInv, NEW fn, RemoveFn(fn)
  PROVE  /\ Extends(heap', heap) /\ Len(heap) <= Len(heap')
         /\ hook_list' \in 0 .. Len(heap')
         /\ \/ /\ fn \notin FnsOf(Entries(heap, hook_list))
               /\ Entries(heap', hook_list') = Entries(heap, hook_list)
            \/ \E i \in 1 .. Len(Entries(heap, hook_list)) :
                 /\ Entries(heap, hook_list)[i].fn = fn
                 /\ Lacks(Entries(heap', hook_list'), Entries(heap, hook_list), i)
<1> DEFINE E == Entries(heap, hook_list)
           F == Entries(heap', hook_list')
           n == Len(E)
           I == {k \in 1 .. n : E[k].fn = fn}
           i == SelectInSeq(E, LAMBDA e : e.fn = fn)
           next == heap[Cells(heap, hook_list)[i]].next
<1>1. /\ Linked(heap) /\ hook_list \in 0 .. Len(heap) /\ Len(heap) \in Nat
      /\ NIL \in 0 .. Len(heap) /\ Entries(heap, NIL) = <<>>
  BY CellsAre, EntriesAre DEF IInv, NIL
<1>2. E \in Seq(Entry) /\ n \in Nat
  BY <1>1, ListType
<1>3. i = IF I # {} THEN Min(I) ELSE 0
  BY DEF SelectInSeq
<1>4. \/ i = 0 /\ I = {}
      \/ i \in I /\ i # 0
  <2>1. I \in SUBSET (1 .. n)
    OBVIOUS
  <2> HIDE DEF I, n, i
  <2>2. QED
    BY <1>2, <1>3, <2>1, Selected
<1>5. IF i = 0 THEN SetList(E, NIL) ELSE SetList(SubSeq(E, 1, i - 1), next)
  BY Zenon DEF RemoveFn
<1> HIDE DEF i
<1>6. CASE i = 0
  <2>1. /\ Extends(heap', heap) /\ Len(heap') = Len(heap) + n
        /\ hook_list' \in 0 .. Len(heap') /\ F = E \o <<>>
    <3>1. SetList(E, NIL)
      BY <1>5, <1>6
    <3> HIDE DEF E
    <3>2. QED
      BY <1>1, <1>2, <3>1, Setting
  <2>2. fn \notin FnsOf(E)
    BY <1>4, <1>6 DEF FnsOf
  <2> HIDE DEF E, F
  <2>3. F = E
    BY <1>2, <2>1, JoinedEmpty
  <2>4. Len(heap) <= Len(heap')
    BY <1>1, <1>2, <2>1
  <2>5. QED
    BY <2>1, <2>2, <2>3, <2>4 DEF E, F
<1>7. CASE i # 0
  <2> DEFINE a == SubSeq(E, 1, i - 1)
             r == Entries(heap, next)
  <2>1. i \in 1 .. n /\ E[i].fn = fn
    BY <1>4, <1>7
  <2>2. a \in Seq(Entry) /\ Len(a) = i - 1 /\ \A k \in 1 .. i - 1 : a[k] = E[k]
    BY <1>2, <2>1
  <2>3. /\ next \in 0 .. Len(heap) /\ Len(r) = n - i
        /\ \A k \in 1 .. n - i : r[k] = E[i + k]
    BY <1>1, <2>1, ListBehind
  <2>4. r \in Seq(Entry)
    BY <1>1, <2>3, ListType
  <2>5. SetList(a, next)
    BY <1>5, <1>7
  <2> HIDE DEF a, next
  <2>6. /\ Extends(heap', heap) /\ Len(heap') = Len(heap) + Len(a)
        /\ hook_list' \in 0 .. Len(heap') /\ F = a \o r
    BY <1>1, <2>2, <2>3, <2>5, Setting
  <2> HIDE DEF E, F, r, n
  <2>7. /\ a \o r \in Seq(Entry) /\ Len(a \o r) = Len(a) + Len(r)
        /\ \A k \in 1 .. Len(a) : (a \o r)[k] = a[k]
        /\ \A k \in 1 .. Len(r) : (a \o r)[Len(a) + k] = r[k]
    <3>1. a \in Seq(Entry) /\ r \in Seq(Entry)
      BY <2>2, <2>4
    <3>2. QED
      BY <3>1, Joined
  <2>8. (i - 1) + (n - i) = n - 1 /\ Len(heap) <= Len(heap) + (i - 1)
    BY <1>1, <1>2, <2>1
  <2>9. Lacks(F, E, i)
    BY <2>2, <2>3, <2>6, <2>7, <2>8 DEF Lacks, n
  <2>10. Len(heap) <= Len(heap')
    BY <2>2, <2>6, <2>8
  <2>11. QED
    BY <2>1, <2>6, <2>9, <2>10 DEF E, F, n
<1>8. QED
  BY <1>6, <1>7

(* The handlers of a list are those of its entries.                        *)
LEMMA FnsAre ==
  ASSUME NEW h, Linked(h), NEW c \in 0 .. Len(h)
  PROVE  ToSet(Functions(h, c)) = FnsOf(Entries(h, c))
<1>1. /\ Functions(h, c) \in Seq(Handler)
      /\ Len(Functions(h, c)) = Len(Entries(h, c))
      /\ \A i \in 1 .. Len(Entries(h, c)) : Functions(h, c)[i] = Entries(h, c)[i].fn
  BY ListType
<1>2. DOMAIN Functions(h, c) = 1 .. Len(Entries(h, c))
  BY <1>1
<1>3. QED
  BY <1>1, <1>2 DEF ToSet, FnsOf

-----------------------------------------------------------------------------
(* The inductive invariant when no hook exists.                            *)
LEMMA InitIInv == Init => IInv
<1> SUFFICES ASSUME Init PROVE IInv
  OBVIOUS
<1>1. heap = <<>> /\ hook_list = NIL /\ kind \in Kind /\ runs = <<>> /\ registered = {}
  BY DEF Init
<1>2. Linked(heap)
  <2>1. heap \in Seq(Cell) /\ 1 .. Len(heap) = {}
    BY <1>1
  <2>2. QED
    BY <2>1 DEF Linked
<1>3. hook_list \in 0 .. Len(heap)
  BY <1>1 DEF NIL
<1>4. Entries(heap, hook_list) = <<>>
  BY <1>1, <1>2, EntriesAre
<1>5. ListInv
  <2>1. 1 .. Len(<<>>) = {}
    OBVIOUS
  <2>2. QED
    BY <1>1, <1>4, <2>1 DEF ListInv, InOrder, Distinct, FnsOf, AddedBy
<1>6. RunsInv
  BY <1>1 DEF RunsInv
<1>7. QED
  BY <1>1, <1>2, <1>3, <1>5, <1>6 DEF IInv

(* add-hook                                                                *)
LEMMA AddStep ==
  ASSUME IInv, NEW fn \in Handler, NEW priority \in Priority, AddHook(fn, priority)
  PROVE  /\ Extends(heap', heap) /\ hook_list' \in 0 .. Len(heap')
         /\ registered' \subseteq Handler /\ ListInv'
<1> DEFINE E == Entries(heap, hook_list)
           F == Entries(heap', hook_list')
           e == [fn |-> fn, priority |-> priority, added |-> Len(heap)]
<1>1. /\ Linked(heap) /\ hook_list \in 0 .. Len(heap) /\ Len(heap) \in Nat
      /\ registered \subseteq Handler
  BY CellsAre DEF IInv
<1>2. /\ InOrder(E) /\ Distinct(E) /\ FnsOf(E) = registered /\ AddedBy(E, Len(heap))
      /\ E \in Seq(Entry)
  BY <1>1, ListType DEF IInv, ListInv
<1>3. /\ IF HasFn(fn) THEN UNCHANGED <<heap, hook_list>> ELSE InsertSorted(e)
      /\ registered' = registered \cup {fn}
  BY Zenon DEF AddHook
<1>4. HasFn(fn) <=> fn \in registered
  BY <1>1, <1>2, FnsAre DEF HasFn
<1>5. registered' \subseteq Handler
  BY <1>1, <1>3
<1>6. CASE HasFn(fn)
  <2>1. heap' = heap /\ hook_list' = hook_list /\ registered' = registered
    BY <1>3, <1>4, <1>6
  <2>2. Extends(heap', heap)
    BY <1>1, <2>1 DEF Extends
  <2>3. ListInv'
    BY <2>1 DEF IInv, ListInv
  <2>4. QED
    BY <1>1, <1>5, <2>1, <2>2, <2>3
<1>7. CASE ~HasFn(fn)
  <2>1. e \in Entry /\ e.fn = fn /\ e.added = Len(heap)
    BY <1>1 DEF Entry
  <2>2. InsertSorted(e)
    BY <1>3, <1>7
  <2>3. fn \notin FnsOf(E)
    BY <1>2, <1>4, <1>7
  <2> HIDE DEF e, E, F
  <2>4. /\ Extends(heap', heap) /\ Len(heap) + 1 <= Len(heap')
        /\ hook_list' \in 0 .. Len(heap')
        /\ \E p : Placed(F, E, e, p)
    BY <2>1, <2>2, Inserting DEF E, F
  <2>5. PICK p : Placed(F, E, e, p)
    BY <2>4
  <2>6. /\ InOrder(F) /\ Distinct(F)
        /\ FnsOf(F) = FnsOf(E) \cup {e.fn}
        /\ AddedBy(F, e.added + 1)
    <3>1. E \in Seq(Entry) /\ e \in Entry
      BY <1>2, <2>1
    <3>2. /\ InOrder(E) /\ Distinct(E) /\ AddedBy(E, e.added) /\ e.fn \notin FnsOf(E)
      BY <1>2, <2>1, <2>3
    <3>3. QED
      BY <2>5, <3>1, <3>2, PlacedKeeps
  <2>7. FnsOf(F) = registered'
    BY <1>2, <1>3, <2>1, <2>6
  <2>8. AddedBy(F, Len(heap'))
    <3>1. F \in Seq(Entry) /\ Len(heap') \in Nat
      <4>1. Linked(heap')
        BY <2>4 DEF Extends
      <4>2. QED
        BY <2>4, <4>1, ListType, CellsAre DEF F
    <3>2. \A d \in Entry : d.added \in Nat
      BY DEF Entry
    <3>3. ASSUME NEW k \in 1 .. Len(F)
          PROVE  F[k].added < Len(heap')
      <4>1. F[k] \in Entry
        BY <3>1
      <4>2. F[k].added \in Nat /\ F[k].added < Len(heap) + 1
        BY <2>1, <2>6, <3>2, <4>1 DEF AddedBy
      <4>3. QED
        BY <1>1, <2>4, <3>1, <4>2
    <3>4. QED
      BY <3>3 DEF AddedBy
  <2>9. ListInv'
    BY <2>6, <2>7, <2>8 DEF ListInv, F
  <2>10. QED
    BY <1>5, <2>4, <2>9
<1>8. QED
  BY <1>6, <1>7

(* remove-hook                                                             *)
LEMMA RemoveStep ==
  ASSUME IInv, NEW fn, RemoveHook(fn)
  PROVE  /\ Extends(heap', heap) /\ hook_list' \in 0 .. Len(heap')
         /\ registered' \subseteq Handler /\ ListInv'
<1> DEFINE E == Entries(heap, hook_list)
           F == Entries(heap', hook_list')
<1>1. /\ Linked(heap) /\ hook_list \in 0 .. Len(heap) /\ Len(heap) \in Nat
      /\ registered \subseteq Handler
  BY CellsAre DEF IInv
<1>2. /\ InOrder(E) /\ Distinct(E) /\ FnsOf(E) = registered /\ AddedBy(E, Len(heap))
      /\ E \in Seq(Entry)
  BY <1>1, ListType DEF IInv, ListInv
<1>3. RemoveFn(fn) /\ registered' = registered \ {fn}
  BY DEF RemoveHook
<1>4. /\ Extends(heap', heap) /\ Len(heap) <= Len(heap')
      /\ hook_list' \in 0 .. Len(heap')
      /\ \/ fn \notin FnsOf(E) /\ F = E
         \/ \E i \in 1 .. Len(E) : E[i].fn = fn /\ Lacks(F, E, i)
  BY <1>3, Removing
<1>5. registered' \subseteq Handler
  BY <1>1, <1>3
<1> HIDE DEF E, F
<1>6. InOrder(F) /\ Distinct(F) /\ FnsOf(F) = registered' /\ AddedBy(F, Len(heap))
  <2>1. CASE fn \notin FnsOf(E) /\ F = E
    BY <1>2, <1>3, <2>1
  <2>2. CASE \E i \in 1 .. Len(E) : E[i].fn = fn /\ Lacks(F, E, i)
    <3>1. PICK i \in 1 .. Len(E) : E[i].fn = fn /\ Lacks(F, E, i)
      BY <2>2
    <3>2. /\ InOrder(F) /\ Distinct(F)
          /\ FnsOf(F) = FnsOf(E) \ {E[i].fn}
          /\ AddedBy(F, Len(heap))
      <4>1. E \in Seq(Entry) /\ InOrder(E) /\ Distinct(E) /\ AddedBy(E, Len(heap))
        BY <1>2
      <4>2. QED
        BY <3>1, <4>1, LacksKeeps
    <3>3. QED
      BY <1>2, <1>3, <3>1, <3>2
  <2>3. QED
    BY <1>4, <2>1, <2>2
<1>7. AddedBy(F, Len(heap'))
  <2>1. Linked(heap')
    BY <1>4 DEF Extends
  <2>2. F \in Seq(Entry) /\ Len(heap') \in Nat
    BY <1>4, <2>1, ListType, CellsAre DEF F
  <2>3. \A d \in Entry : d.added \in Nat
    BY DEF Entry
  <2>4. ASSUME NEW k \in 1 .. Len(F)
        PROVE  F[k].added < Len(heap')
    <3>1. F[k] \in Entry
      BY <2>2
    <3>2. F[k].added \in Nat /\ F[k].added < Len(heap)
      BY <1>6, <2>3, <3>1 DEF AddedBy
    <3>3. QED
      BY <1>1, <1>4, <2>2, <3>2
  <2>5. QED
    BY <2>4 DEF AddedBy
<1>8. ListInv'
  BY <1>6, <1>7 DEF ListInv, F
<1>9. QED
  BY <1>4, <1>5, <1>8

(* clear-hook                                                              *)
LEMMA ClearStep ==
  ASSUME IInv, ClearHook
  PROVE  /\ Extends(heap', heap) /\ hook_list' \in 0 .. Len(heap')
         /\ registered' \subseteq Handler /\ ListInv'
<1>1. Linked(heap) /\ Len(heap) \in Nat
  BY CellsAre DEF IInv
<1>2. heap' = heap /\ hook_list' = NIL /\ registered' = {}
  BY DEF ClearHook
<1>3. Extends(heap', heap)
  BY <1>1, <1>2 DEF Extends
<1>4. hook_list' \in 0 .. Len(heap')
  BY <1>1, <1>2 DEF NIL
<1>5. Entries(heap', hook_list') = <<>>
  BY <1>1, <1>2, EntriesAre
<1>6. ListInv'
  <2>1. 1 .. Len(<<>>) = {}
    OBVIOUS
  <2>2. QED
    BY <1>2, <1>5, <2>1 DEF ListInv, InOrder, Distinct, FnsOf, AddedBy
<1>7. QED
  BY <1>2, <1>3, <1>4, <1>6

(* A run that is good stays good when cells are allocated.                 *)
LEMMA RunsStay ==
  ASSUME NEW h, NEW g, Extends(g, h)
  PROVE  GoodRuns(h) \subseteq GoodRuns(g)
<1> SUFFICES ASSUME NEW run \in Run, GoodRun(run, h)
             PROVE  GoodRun(run, g)
  BY DEF GoodRuns
<1>1. run.at \in 1 .. Len(h) /\ Functions(h, run.at) = run.left
  BY DEF GoodRun
<1>2. Len(h) \in Nat /\ Len(g) \in Nat /\ Len(h) <= Len(g)
  BY CellsAre DEF Extends
<1>3. run.at \in 0 .. Len(h) /\ run.at \in 1 .. Len(g)
  BY <1>1, <1>2
<1>4. Functions(g, run.at) = run.left
  BY <1>1, <1>3, ListsStay
<1>5. QED
  BY <1>3, <1>4 DEF GoodRun

(* The innermost run, and those around it.                                 *)
LEMMA TopAndFront ==
  ASSUME NEW G, runs \in Seq(G), runs # <<>>
  PROVE  /\ Top \in G /\ Front(runs) \in Seq(G)
         /\ \A run \in G : Append(Front(runs), run) \in Seq(G)
<1>1. Len(runs) \in Nat /\ Len(runs) # 0
  OBVIOUS
<1>2. Len(runs) \in 1 .. Len(runs) /\ Len(runs) - 1 \in Nat
  BY <1>1
<1>3. Top \in G
  BY <1>2 DEF Top, Last
<1> DEFINE f == SubSeq(runs, 1, Len(runs) - 1)
<1>4. f \in Seq(G)
  BY <1>2
<1>5. Front(runs) = f
  BY DEF Front
<1> HIDE DEF f
<1>6. \A run \in G : Append(f, run) \in Seq(G)
  BY <1>4
<1>7. QED
  BY <1>3, <1>4, <1>5, <1>6

(* What remains of a list that is not empty when its first item is taken.  *)
LEMMA HeadAndTail ==
  ASSUME NEW T, NEW s \in Seq(T), s # <<>>
  PROVE  /\ Head(s) \in T /\ Tail(s) \in Seq(T) /\ Len(Tail(s)) = Len(s) - 1
         /\ s = <<Head(s)>> \o Tail(s)
         /\ \A k \in 1 .. Len(s) - 1 : Tail(s)[k] = s[k + 1]
<1>1. Head(s) \in T /\ Tail(s) \in Seq(T) /\ Len(Tail(s)) = Len(s) - 1
  OBVIOUS
<1>2. \A k \in 1 .. Len(s) - 1 : Tail(s)[k] = s[k + 1]
  OBVIOUS
<1>3. s = <<Head(s)>> \o Tail(s)
  OBVIOUS
<1>4. QED
  BY <1>1, <1>2, <1>3

(* Values and their items.                                                 *)
Item == Text \cup {NIL}

(* What a filter is given has items, and so has every list it returns.     *)
LEMMA ValuesAre ==
  /\ \A value \in Value : value.list \in BOOLEAN /\ value.items \in Seq(Item)
  /\ \A value \in Given : value \in Value /\ value.items # <<>>
  /\ \A outcome \in Returned \cup {Error} :
       outcome \in Value /\ (outcome.list => outcome.items # <<>>)
<1>1. \A value \in Value : value.list \in BOOLEAN /\ value.items \in Seq(Item)
  BY DEF Value, Item
<1>2. \A value \in Given : value \in Value /\ value.items # <<>>
  <2> SUFFICES ASSUME NEW value \in Given
               PROVE  value \in Value /\ value.items # <<>>
    OBVIOUS
  <2>1. value \in [list : BOOLEAN, items : Seq(Text)] /\ value.items # <<>>
    BY GivenAssumption
  <2>2. Seq(Text) \subseteq Seq(Text \cup {NIL})
    OBVIOUS
  <2>3. QED
    BY <2>1, <2>2 DEF Value
<1>3. Nothing \in Value /\ ~Nothing.list
  BY DEF Nothing, Value
<1>4. Error \in Value /\ ~Error.list
  BY DEF Error, Value
<1>5. QED
  BY <1>1, <1>2, <1>3, <1>4 DEF Returned

(* A run whose handler is done with the value.                             *)
Ready(run) ==
  /\ run \in Run
  /\ run.at \in 1 .. Len(heap) /\ Functions(heap, run.at) = run.left
  /\ run.value.list => run.value.items # <<>>
  /\ run.kept => run.value.items = run.given.items

(* The handlers behind a cell.                                             *)
LEMMA NextIsTail ==
  ASSUME NEW h, Linked(h), NEW c \in 1 .. Len(h)
  PROVE  /\ h[c].next \in 0 .. Len(h)
         /\ Functions(h, h[c].next) = Tail(Functions(h, c))
         /\ Tail(Functions(h, c)) \in Seq(Handler)
<1> DEFINE d == h[c].next
           F == Functions(h, c)
           G == Functions(h, d)
<1>1. d \in 0 .. Len(h) /\ c \in 0 .. Len(h)
  <2>1. h[c].next \in 0 .. Len(h)
    BY CellsAre
  <2>2. QED
    BY <2>1
<1>2. /\ F \in Seq(Handler) /\ Len(F) = Len(Entries(h, c))
      /\ \A i \in 1 .. Len(Entries(h, c)) : F[i] = Entries(h, c)[i].fn
  BY <1>1, ListType
<1>3. /\ G \in Seq(Handler) /\ Len(G) = Len(Entries(h, d)) /\ Entries(h, d) \in Seq(Entry)
      /\ \A i \in 1 .. Len(Entries(h, d)) : G[i] = Entries(h, d)[i].fn
  BY <1>1, ListType
<1>4. /\ Len(Entries(h, c)) = 1 + Len(Entries(h, d))
      /\ \A k \in 1 .. Len(Entries(h, d)) : Entries(h, c)[1 + k] = Entries(h, d)[k]
  <2>1. \A a \in 1 .. Len(h) :
           /\ Len(Entries(h, a)) = 1 + Len(Entries(h, h[a].next))
           /\ \A k \in 1 .. Len(Entries(h, h[a].next)) :
                Entries(h, a)[1 + k] = Entries(h, h[a].next)[k]
    <3> HIDE DEF d, F, G
    <3>1. QED
      BY EntriesAre
  <2>2. QED
    BY <2>1
<1> HIDE DEF d, F, G
<1>5. Len(F) = 1 + Len(G)
  BY <1>2, <1>3, <1>4
<1>6. \A k \in 1 .. Len(G) : F[1 + k] = G[k]
  <2>1. \A k \in 1 .. Len(G) : 1 + k \in 1 .. 1 + Len(G)
    BY <1>3
  <2>2. QED
    BY <1>2, <1>3, <1>4, <2>1
<1>7. Len(G) \in Nat
  BY <1>3
<1>8. F # <<>>
  BY <1>2, <1>5, <1>7
<1> DEFINE t == Tail(F)
<1>9. t \in Seq(Handler) /\ Len(t) = Len(F) - 1 /\ \A k \in 1 .. Len(F) - 1 : t[k] = F[k + 1]
  BY <1>2, <1>8, HeadAndTail
<1> HIDE DEF t
<1>10. Len(t) = Len(G)
  BY <1>5, <1>7, <1>9
<1>11. \A k \in 1 .. Len(G) : t[k] = G[k]
  <2>1. Len(F) - 1 = Len(G) /\ \A k \in 1 .. Len(G) : k + 1 = 1 + k
    BY <1>5, <1>7
  <2>2. QED
    BY <1>6, <1>9, <2>1
<1>12. t = G
  BY <1>3, <1>9, <1>10, <1>11
<1>13. QED
  BY <1>1, <1>9, <1>12 DEF d, F, G, t

(* A run with other fields of their types is a run.                        *)
LEMMA RunWith ==
  ASSUME NEW run \in Run
  PROVE  /\ \A at \in Nat, left \in Seq(Handler), results \in Seq(Item), elems \in Seq(Item) :
              [run EXCEPT !.at = at, !.left = left, !.results = results, !.elems = elems] \in Run
         /\ \A consumed \in BOOLEAN : [run EXCEPT !.consumed = consumed] \in Run
         /\ \A value \in Value, kept \in BOOLEAN :
              [run EXCEPT !.value = value, !.kept = kept] \in Run
         /\ \A elems \in Seq(Item), results \in Seq(Item), kept \in BOOLEAN :
              [run EXCEPT !.elems = elems, !.results = results, !.kept = kept] \in Run
<1>1. \A at \in Nat, left \in Seq(Handler), results \in Seq(Item), elems \in Seq(Item) :
        [run EXCEPT !.at = at, !.left = left, !.results = results, !.elems = elems] \in Run
  BY DEF Run, Item
<1>2. \A consumed \in BOOLEAN : [run EXCEPT !.consumed = consumed] \in Run
  BY DEF Run
<1>3. \A value \in Value, kept \in BOOLEAN :
        [run EXCEPT !.value = value, !.kept = kept] \in Run
  BY DEF Run
<1>4. \A elems \in Seq(Item), results \in Seq(Item), kept \in BOOLEAN :
        [run EXCEPT !.elems = elems, !.results = results, !.kept = kept] \in Run
  BY DEF Run, Item
<1>5. QED
  BY <1>1, <1>2, <1>3, <1>4

(* A run that goes on to its next entry still has before it the functions  *)
(* it found when it started.                                               *)
LEMMA AdvanceStep ==
  ASSUME IInv, runs # <<>>, NEW run, Ready(run), Advance(run)
  PROVE  runs' \in Seq(GoodRuns(heap))
<1> DEFINE next == heap[run.at].next
           moved == [run EXCEPT !.at = next, !.left = Tail(@), !.results = <<>>,
                                !.elems = ItemsOf(run.value)]
           G == GoodRuns(heap)
<1>1. Linked(heap) /\ runs \in Seq(G)
  BY DEF IInv, RunsInv
<1>2. /\ run \in Run
      /\ run.at \in 1 .. Len(heap) /\ Functions(heap, run.at) = run.left
      /\ (run.value.list => run.value.items # <<>>)
      /\ (run.kept => run.value.items = run.given.items)
  BY DEF Ready
<1>3. /\ next \in 0 .. Len(heap)
      /\ Functions(heap, next) = Tail(run.left)
      /\ Tail(run.left) \in Seq(Handler)
  BY <1>1, <1>2, NextIsTail
<1>4. runs' = IF next = NIL THEN Front(runs) ELSE Append(Front(runs), moved)
  BY Zenon DEF Advance
<1>5. /\ Front(runs) \in Seq(G)
      /\ \A r \in G : Append(Front(runs), r) \in Seq(G)
  BY <1>1, TopAndFront
<1>6. ASSUME next # NIL PROVE moved \in G
  <2> DEFINE items == ItemsOf(run.value)
  <2>1. run.value \in Value
    BY <1>2 DEF Run
  <2>2. /\ run.value.items \in Seq(Item)
        /\ items = (IF run.value.list THEN run.value.items ELSE <<>>)
    BY <2>1, ValuesAre DEF ItemsOf
  <2>3. items \in Seq(Item)
    BY <2>2
  <2>4. next \in Nat /\ next \in 1 .. Len(heap)
    BY <1>1, <1>3, <1>6, CellsAre DEF NIL
  <2> HIDE DEF items, next
  <2>5. /\ moved.at = next /\ moved.left = Tail(run.left)
        /\ moved.results = <<>> /\ moved.elems = items
        /\ moved.value = run.value /\ moved.kept = run.kept /\ moved.given = run.given
    BY <1>2 DEF Run, items
  <2>6. moved \in Run
    <3>1. <<>> \in Seq(Item)
      OBVIOUS
    <3> DEFINE left == Tail(run.left)
               none == <<>>
    <3>2. moved = [run EXCEPT !.at = next, !.left = left, !.results = none, !.elems = items]
      BY DEF items
    <3>3. left \in Seq(Handler) /\ none \in Seq(Item)
      BY <1>3, <3>1
    <3> HIDE DEF left, none, moved
    <3>4. QED
      BY <1>2, <2>3, <2>4, <3>2, <3>3, RunWith
  <2> HIDE DEF moved
  <2>7. moved.value.list => moved.value.items # <<>> /\ moved.elems # <<>>
    BY <1>2, <2>2, <2>5
  <2>8. moved.kept /\ moved.value.list => moved.results \o moved.elems = moved.given.items
    <3> SUFFICES ASSUME moved.kept, moved.value.list
                 PROVE  moved.results \o moved.elems = moved.given.items
      OBVIOUS
    <3>1. items = run.given.items
      BY <1>2, <2>2, <2>5
    <3>2. <<>> \o items = items
      BY <2>3
    <3>3. QED
      BY <2>5, <3>1, <3>2
  <2>9. GoodRun(moved, heap)
    BY <1>2, <1>3, <2>4, <2>5, <2>6, <2>7, <2>8 DEF GoodRun
  <2>10. QED
    BY <2>6, <2>9 DEF GoodRuns
<1> HIDE DEF next, moved, G
<1>7. runs' \in Seq(G)
  BY <1>4, <1>5, <1>6
<1>8. QED
  BY <1>7 DEF G

(* run-hook, run-filter-hook, run-transform-hook                           *)
LEMMA RunStep ==
  ASSUME IInv, NEW value \in Given, RunHook(value)
  PROVE  runs' \in Seq(GoodRuns(heap))
<1> DEFINE items == ItemsOf(value)
           run == [at |-> hook_list, value |-> value, consumed |-> FALSE,
                   elems |-> items, results |-> <<>>,
                   left |-> Functions(heap, hook_list), given |-> value, kept |-> TRUE]
           G == GoodRuns(heap)
<1>1. /\ Linked(heap) /\ hook_list \in 0 .. Len(heap) /\ Len(heap) \in Nat
      /\ runs \in Seq(G)
  BY CellsAre DEF IInv, RunsInv
<1>2. hook_list # NIL /\ runs' = Append(runs, run)
  BY DEF RunHook
<1>3. hook_list \in 1 .. Len(heap) /\ hook_list \in Nat
  BY <1>1, <1>2 DEF NIL
<1>4. value \in Value /\ value.items # <<>> /\ value.items \in Seq(Item)
  BY ValuesAre
<1>5. items = (IF value.list THEN value.items ELSE <<>>)
  BY DEF ItemsOf
<1>6. items \in Seq(Item)
  BY <1>4, <1>5
<1>7. Functions(heap, hook_list) \in Seq(Handler)
  BY <1>1, ListType
<1> HIDE DEF items
<1>8. /\ run.at = hook_list /\ run.left = Functions(heap, hook_list)
      /\ run.results = <<>> /\ run.elems = items
      /\ run.value = value /\ run.given = value
  OBVIOUS
<1>9. run \in Run
  <2>1. <<>> \in Seq(Item)
    OBVIOUS
  <2>2. QED
    BY <1>3, <1>4, <1>6, <1>7, <2>1 DEF Run, Item
<1> HIDE DEF run
<1>10. run.value.list => run.value.items # <<>> /\ run.elems # <<>>
  BY <1>4, <1>5, <1>8
<1>11. run.kept /\ run.value.list => run.results \o run.elems = run.given.items
  <2>1. <<>> \o items = items
    BY <1>6
  <2>2. QED
    BY <1>5, <1>8, <2>1
<1>12. run \in G
  BY <1>3, <1>8, <1>9, <1>10, <1>11 DEF GoodRun, GoodRuns
<1> HIDE DEF G
<1>13. Append(runs, run) \in Seq(G)
  BY <1>1, <1>12
<1>14. QED
  BY <1>2, <1>13 DEF G

(* What is known of the innermost run.                                     *)
LEMMA TopIsGood ==
  ASSUME IInv, runs # <<>>
  PROVE  GoodRun(Top, heap) /\ Ready(Top)
<1>1. runs \in Seq(GoodRuns(heap))
  BY DEF IInv, RunsInv
<1>2. Top \in GoodRuns(heap)
  BY <1>1, TopAndFront
<1>3. QED
  BY <1>2 DEF GoodRuns, GoodRun, Ready

(* A handler of an event hook returns.                                     *)
LEMMA EventStep ==
  ASSUME IInv, EventReturns
  PROVE  runs' \in Seq(GoodRuns(heap))
BY TopIsGood, AdvanceStep DEF EventReturns

(* A handler of a filter hook returns, or fails.                           *)
LEMMA FilterStep ==
  ASSUME IInv, NEW outcome, FilterReturns(outcome)
  PROVE  runs' \in Seq(GoodRuns(heap))
<1> DEFINE consumed == Top.consumed \/ outcome = Nothing
           run == [Top EXCEPT !.consumed = consumed]
<1>1. runs # <<>> /\ Advance(run)
  BY DEF FilterReturns
<1>2. Ready(Top)
  BY <1>1, TopIsGood
<1>3. consumed \in BOOLEAN
  OBVIOUS
<1> HIDE DEF consumed
<1>4. run \in Run
  BY <1>2, <1>3, RunWith DEF Ready
<1>5. /\ run.at = Top.at /\ run.left = Top.left /\ run.value = Top.value
      /\ run.kept = Top.kept /\ run.given = Top.given
  BY <1>2 DEF Ready, Run
<1> HIDE DEF run
<1>6. Ready(run)
  BY <1>2, <1>4, <1>5 DEF Ready
<1>7. QED
  BY <1>1, <1>6, AdvanceStep

(* The next text of a transform: what the handler returned.                *)
LEMMA ScalarStep ==
  ASSUME IInv, NEW outcome \in Returned \cup {Error}, ScalarReturns(outcome)
  PROVE  runs' \in Seq(GoodRuns(heap))
<1> DEFINE value == IF outcome = Error THEN Top.value ELSE outcome
           kept == Top.kept /\ Keeps(outcome, Top.value.items)
           run == [Top EXCEPT !.value = value, !.kept = kept]
<1>1. runs # <<>> /\ Advance(run)
  BY DEF ScalarReturns
<1>2. Ready(Top)
  BY <1>1, TopIsGood
<1>3. outcome \in Value /\ (outcome.list => outcome.items # <<>>)
  BY ValuesAre
<1>4. /\ value \in Value
      /\ (value.list => value.items # <<>>)
  BY <1>2, <1>3 DEF Ready, Run
<1>5. kept \in BOOLEAN
  OBVIOUS
<1>6. kept => value.items = Top.given.items
  BY <1>2 DEF Keeps, Ready
<1> HIDE DEF value, kept
<1>7. run \in Run
  BY <1>2, <1>4, <1>5, RunWith DEF Ready
<1>8. /\ run.at = Top.at /\ run.left = Top.left /\ run.value = value
      /\ run.kept = kept /\ run.given = Top.given
  BY <1>2 DEF Ready, Run
<1> HIDE DEF run
<1>9. Ready(run)
  BY <1>2, <1>4, <1>6, <1>7, <1>8 DEF Ready
<1>10. QED
  BY <1>1, <1>9, AdvanceStep

(* What is mapped and what is not are still the items in a row.            *)
LEMMA ItemMoves ==
  ASSUME NEW T, NEW results \in Seq(T), NEW elems \in Seq(T), elems # <<>>
  PROVE  /\ results \o <<Head(elems)>> \in Seq(T)
         /\ (results \o <<Head(elems)>>) \o Tail(elems) = results \o elems
<1> DEFINE o == <<Head(elems)>>
           t == Tail(elems)
           a == results \o o
<1>1. t \in Seq(T) /\ Head(elems) \in T /\ elems = o \o t
  BY HeadAndTail
<1>2. o \in Seq(T)
  BY <1>1
<1> HIDE DEF o, t
<1>3. a \in Seq(T)
  BY <1>2, Joined
<1>4. (results \o o) \o t = results \o (o \o t)
  BY <1>1, <1>2
<1>5. QED
  BY <1>1, <1>3, <1>4 DEF o, t

(* An item of a list that is transformed.                                  *)
LEMMA ItemStep ==
  ASSUME IInv, NEW outcome \in Returned \cup {Error}, ListReturns(outcome)
  PROVE  runs' \in Seq(GoodRuns(heap))
<1> DEFINE item == Head(Top.elems)
           new == Mapped(item, outcome)
           results == Top.results \o new
           kept == Top.kept /\ Keeps(outcome, <<item>>)
           moved == [Top EXCEPT !.elems = Tail(@), !.results = results, !.kept = kept]
           done == [Top EXCEPT !.value = ListOf(results), !.kept = kept]
           G == GoodRuns(heap)
<1>1. /\ runs # <<>> /\ Top.value.list
      /\ IF Len(Top.elems) > 1 THEN runs' = Append(Front(runs), moved) ELSE Advance(done)
  BY Zenon DEF ListReturns
<1>2. GoodRun(Top, heap)
  BY <1>1, TopIsGood
<1>3. /\ Top \in Run /\ Top.elems \in Seq(Item) /\ Top.results \in Seq(Item)
      /\ Top.elems # <<>>
      /\ Top.at \in 1 .. Len(heap) /\ Functions(heap, Top.at) = Top.left
      /\ (Top.kept => Top.value.items = Top.given.items)
      /\ (Top.kept => Top.results \o Top.elems = Top.given.items)
  BY <1>1, <1>2 DEF GoodRun, Run, Item
<1>4. /\ item \in Item /\ <<item>> \in Seq(Item) /\ Tail(Top.elems) \in Seq(Item)
      /\ Len(Tail(Top.elems)) = Len(Top.elems) - 1
  <2>1. item \in Item /\ Tail(Top.elems) \in Seq(Item) /\ Len(Tail(Top.elems)) = Len(Top.elems) - 1
    BY <1>3, HeadAndTail
  <2> HIDE DEF item
  <2>2. QED
    BY <2>1
<1> DEFINE rest == Tail(Top.elems)
           n == Len(Top.elems)
<1>5. n \in Nat /\ n # 0
  BY <1>3
<1>6. rest \in Seq(Item) /\ Len(rest) \in Nat /\ Len(rest) = n - 1
  BY <1>4
<1>7. Len(rest) = 0 => rest = <<>>
  <2> HIDE DEF rest
  <2>1. QED
    BY <1>6
<1>8. new \in Seq(Item)
  <2>1. outcome.items \in Seq(Item)
    BY ValuesAre
  <2>2. QED
    BY <1>4, <2>1 DEF Mapped
<1>9. results \in Seq(Item)
  <2> HIDE DEF new
  <2>1. QED
    BY <1>3, <1>8, Joined
<1>10. kept \in BOOLEAN
  OBVIOUS
<1>11. kept => Top.kept /\ new = <<item>>
  BY DEF Keeps, Mapped
<1>12. kept => results \o Tail(Top.elems) = Top.given.items
  <2>1. (Top.results \o <<item>>) \o Tail(Top.elems) = Top.results \o Top.elems
    BY <1>3, ItemMoves
  <2>2. QED
    BY <1>3, <1>11, <2>1
<1> HIDE DEF new, kept, item
<1>13. CASE Len(Top.elems) > 1
  <2> DEFINE tail == Tail(Top.elems)
  <2>1. moved = [Top EXCEPT !.elems = tail, !.results = results, !.kept = kept]
    OBVIOUS
  <2>2. tail \in Seq(Item) /\ Len(tail) # 0
    <3>1. n > 1
      BY <1>13
    <3> HIDE DEF n, rest
    <3>2. Len(rest) # 0
      BY <1>5, <1>6, <3>1
    <3>3. QED
      BY <1>6, <3>2 DEF rest
  <2>3. kept => results \o tail = Top.given.items
    BY <1>12
  <2> HIDE DEF tail, results, moved
  <2>4. moved \in Run
    BY <1>3, <1>9, <1>10, <2>1, <2>2, RunWith
  <2>5. /\ moved.at = Top.at /\ moved.left = Top.left /\ moved.value = Top.value
        /\ moved.kept = kept /\ moved.given = Top.given
        /\ moved.elems = tail /\ moved.results = results
    BY <1>3, <2>1 DEF Run
  <2>6. tail # <<>>
    BY <2>2
  <2>7. moved.value.list => moved.value.items # <<>> /\ moved.elems # <<>>
    BY <1>2, <2>5, <2>6 DEF GoodRun
  <2>8. moved.kept => moved.value.items = moved.given.items
    BY <1>3, <1>11, <2>5
  <2>9. moved \in G
    BY <1>3, <2>3, <2>4, <2>5, <2>7, <2>8 DEF GoodRun, GoodRuns
  <2>10. runs \in Seq(G)
    BY DEF IInv, RunsInv
  <2> HIDE DEF G
  <2>11. Append(Front(runs), moved) \in Seq(G)
    BY <1>1, <2>9, <2>10, TopAndFront
  <2>12. QED
    BY <1>1, <1>13, <2>11 DEF G
<1>14. CASE ~(Len(Top.elems) > 1)
  <2> DEFINE value == ListOf(results)
  <2>1. kept => results = Top.given.items
    <3>1. ~(n > 1)
      BY <1>14
    <3>2. Tail(Top.elems) = <<>>
      <4> HIDE DEF n, rest
      <4>1. Len(rest) = 0
        BY <1>5, <1>6, <3>1
      <4>2. QED
        BY <1>7, <4>1 DEF rest
    <3> HIDE DEF results
    <3>3. results \o <<>> = results
      BY <1>9, JoinedEmpty
    <3>4. QED
      BY <1>12, <3>2, <3>3
  <2> HIDE DEF results
  <2>2. value \in Value /\ (value.list => value.items # <<>>) /\ value.items = results
    <3>1. CASE results = <<>>
      BY <1>9, <3>1 DEF ListOf, Nothing, Value, Item
    <3>2. CASE results # <<>>
      <4>1. value = [list |-> TRUE, items |-> results]
        BY <3>2 DEF ListOf
      <4> HIDE DEF value
      <4>2. value \in Value
        BY <1>9, <4>1 DEF Value, Item
      <4>3. QED
        BY <3>2, <4>1, <4>2
    <3>3. QED
      BY <3>1, <3>2
  <2>3. done = [Top EXCEPT !.value = value, !.kept = kept]
    OBVIOUS
  <2> HIDE DEF value, done
  <2>4. done \in Run
    BY <1>3, <1>10, <2>2, <2>3, RunWith
  <2>5. /\ done.at = Top.at /\ done.left = Top.left /\ done.value = value
        /\ done.kept = kept /\ done.given = Top.given
    BY <1>3, <2>3 DEF Run
  <2>6. Ready(done)
    BY <1>3, <2>1, <2>2, <2>4, <2>5 DEF Ready
  <2>7. Advance(done)
    BY <1>1, <1>14 DEF done, results, item, new, kept
  <2>8. QED
    BY <1>1, <2>6, <2>7, AdvanceStep
<1>15. QED
  BY <1>13, <1>14

(* Every step keeps the invariant: one that changes the table leaves the   *)
(* runs as they are, and one of a run allocates nothing.                   *)
LEMMA StepIInv == IInv /\ [Next]_vars => IInv'
<1> SUFFICES ASSUME IInv, [Next]_vars PROVE IInv'
  OBVIOUS
<1> DEFINE Table == /\ Extends(heap', heap) /\ hook_list' \in 0 .. Len(heap')
                    /\ registered' \subseteq Handler /\ ListInv'
                    /\ kind' = kind /\ runs' = runs
           Called == /\ UNCHANGED <<heap, hook_list, kind, registered>>
                     /\ runs' \in Seq(GoodRuns(heap))
<1>1. ASSUME Table PROVE IInv'
  <2>1. Linked(heap') /\ kind' \in Kind
    BY <1>1 DEF IInv, Extends
  <2>2. runs' \in Seq(GoodRuns(heap'))
    <3>1. GoodRuns(heap) \subseteq GoodRuns(heap')
      BY <1>1, RunsStay
    <3>2. runs' \in Seq(GoodRuns(heap))
      BY <1>1 DEF IInv, RunsInv
    <3> DEFINE G == GoodRuns(heap)
               H == GoodRuns(heap')
    <3> HIDE DEF G, H
    <3>3. G \subseteq H /\ runs' \in Seq(G)
      BY <3>1, <3>2 DEF G, H
    <3>4. runs' \in Seq(H)
      BY <3>3
    <3>5. QED
      BY <3>4 DEF H
  <2>3. RunsInv'
    BY <2>2 DEF RunsInv
  <2>4. QED
    BY <1>1, <2>1, <2>3 DEF IInv
<1>2. ASSUME Called PROVE IInv'
  <2>1. ListInv'
    BY <1>2 DEF IInv, ListInv
  <2>2. RunsInv'
    BY <1>2 DEF RunsInv
  <2>3. Linked(heap')
    BY <1>2 DEF IInv
  <2>4. QED
    BY <1>2, <2>1, <2>2, <2>3 DEF IInv
<1>3. ASSUME NEW fn \in Handler, NEW priority \in Priority, AddHook(fn, priority)
      PROVE  Table
  BY <1>3, AddStep DEF AddHook
<1>4. ASSUME NEW fn \in Handler, RemoveHook(fn)
      PROVE  Table
  <2>1. kind' = kind /\ runs' = runs
    BY <1>4 DEF RemoveHook
  <2>2. QED
    BY <1>4, <2>1, RemoveStep
<1>5. ASSUME ClearHook
      PROVE  Table
  <2>1. kind' = kind /\ runs' = runs
    BY <1>5 DEF ClearHook
  <2>2. QED
    BY <1>5, <2>1, ClearStep
<1>6. ASSUME NEW value \in Given, RunHook(value)
      PROVE  Called
  BY <1>6, RunStep DEF RunHook
<1>7. ASSUME EventReturns
      PROVE  Called
  BY <1>7, EventStep DEF EventReturns
<1>8. ASSUME NEW outcome \in Returned \cup {Error}, FilterReturns(outcome)
      PROVE  Called
  BY <1>8, FilterStep DEF FilterReturns
<1>9. ASSUME NEW outcome \in Returned \cup {Error}, ScalarReturns(outcome)
      PROVE  Called
  BY <1>9, ScalarStep DEF ScalarReturns
<1>10. ASSUME NEW outcome \in Returned \cup {Error}, ListReturns(outcome)
       PROVE  Called
  BY <1>10, ItemStep DEF ListReturns
<1>11. CASE UNCHANGED vars
  <2>1. UNCHANGED <<heap, hook_list, kind, registered>> /\ runs' = runs
    BY <1>11 DEF vars
  <2>2. runs' \in Seq(GoodRuns(heap))
    BY <2>1 DEF IInv, RunsInv
  <2>3. QED
    BY <1>2, <2>1, <2>2
<1> HIDE DEF Table, Called
<1>12. QED
  BY <1>1, <1>2, <1>3, <1>4, <1>5, <1>6, <1>7, <1>8, <1>9, <1>10, <1>11
     DEF Next, HandlerReturns

(* The inductive invariant holds of the hooks.                             *)
LEMMA SpecIInv == Spec => []IInv
<1>1. Init => IInv
  BY InitIInv
<1>2. IInv /\ [Next]_vars => IInv'
  BY StepIInv
<1>3. QED
  BY <1>1, <1>2, PTL DEF Spec

(* Every cell, list and run is well formed: a run's next cell is there.    *)
THEOREM HooksTypeOK == Spec => []TypeOK
<1>1. IInv => TypeOK
  <2> SUFFICES ASSUME IInv PROVE TypeOK
    OBVIOUS
  <2>1. /\ heap \in Seq([entry : Entry, next : Nat])
        /\ \A c \in 1 .. Len(heap) : heap[c].next \in 0 .. Len(heap)
        /\ DOMAIN heap = 1 .. Len(heap)
    <3>1. Linked(heap)
      BY DEF IInv
    <3>2. heap \in Seq(Cell)
      BY <3>1 DEF Linked
    <3>3. \A c \in 1 .. Len(heap) : heap[c].next \in 0 .. Len(heap)
      BY <3>1, CellsAre
    <3>4. QED
      BY <3>2, <3>3 DEF Cell
  <2>2. runs \in Seq(Run) /\ \A i \in DOMAIN runs : runs[i].at \in 1 .. Len(heap)
    <3>1. runs \in Seq(GoodRuns(heap))
      BY DEF IInv, RunsInv
    <3>2. \A run \in GoodRuns(heap) : run \in Run /\ run.at \in 1 .. Len(heap)
      BY DEF GoodRuns, GoodRun
    <3> DEFINE G == GoodRuns(heap)
    <3> HIDE DEF G
    <3>3. runs \in Seq(G) /\ \A run \in G : run \in Run /\ run.at \in 1 .. Len(heap)
      BY <3>1, <3>2 DEF G
    <3>4. runs \in Seq(Run)
      BY <3>3
    <3>5. \A i \in DOMAIN runs : runs[i] \in G
      BY <3>3
    <3>6. QED
      BY <3>3, <3>4, <3>5
  <2>3. hook_list \in 0 .. Len(heap) /\ registered \subseteq Handler /\ kind \in Kind
    BY DEF IInv
  <2>4. QED
    BY <2>1, <2>2, <2>3 DEF TypeOK
<1>2. QED
  BY <1>1, SpecIInv, PTL

(* The table's list holds what is registered, in the order it is called:   *)
(* add-hook and remove-hook never lose or double a handler, whatever is    *)
(* shared with lists that runs still hold.                                 *)
THEOREM ListIsAlwaysRegistered == Spec => []ListIsRegistered
<1>1. IInv => ListIsRegistered
  <2> SUFFICES ASSUME IInv PROVE ListIsRegistered
    OBVIOUS
  <2> DEFINE E == Entries(heap, hook_list)
             F == Functions(heap, hook_list)
  <2>1. /\ InOrder(E) /\ Distinct(E) /\ FnsOf(E) = registered
        /\ Linked(heap) /\ hook_list \in 0 .. Len(heap)
    BY DEF IInv, ListInv
  <2>2. /\ E \in Seq(Entry) /\ F \in Seq(Handler) /\ Len(F) = Len(E)
        /\ \A i \in 1 .. Len(E) : F[i] = E[i].fn
    BY <2>1, ListType
  <2>3. ToSet(F) = registered
    BY <2>1, FnsAre
  <2> HIDE DEF E, F
  <2>4. DOMAIN E = 1 .. Len(E) /\ DOMAIN F = 1 .. Len(E)
    BY <2>2
  <2>5. \A i, j \in DOMAIN F : F[i] = F[j] => i = j
    BY <2>1, <2>2, <2>4 DEF Distinct
  <2>6. HoldsRegistered
    BY <2>3, <2>5 DEF HoldsRegistered, F
  <2>7. \A i, j \in DOMAIN E : i < j => Before(E[i], E[j])
    BY <2>1, <2>4 DEF InOrder
  <2>8. SortedByPriority
    BY <2>7 DEF SortedByPriority, Before, E
  <2>9. QED
    BY <2>6, <2>8 DEF ListIsRegistered
<1>2. QED
  BY <1>1, SpecIInv, PTL

(* A run calls what it found, whatever its handlers do to the table: no    *)
(* cell that a run holds is ever changed.                                  *)
THEOREM AlwaysRunsWhatItFound == Spec => []RunsWhatItFound
<1>1. IInv => RunsWhatItFound
  <2> SUFFICES ASSUME IInv PROVE RunsWhatItFound
    OBVIOUS
  <2> DEFINE G == GoodRuns(heap)
  <2>1. runs \in Seq(G)
    BY DEF IInv, RunsInv
  <2>2. \A run \in G : Functions(heap, run.at) = run.left
    BY DEF GoodRuns, GoodRun
  <2> HIDE DEF G
  <2>3. \A i \in DOMAIN runs : runs[i] \in G
    BY <2>1
  <2>4. QED
    BY <2>2, <2>3 DEF RunsWhatItFound
<1>2. QED
  BY <1>1, SpecIInv, PTL

(* A transform whose handlers all keep their texts, or fail, keeps the     *)
(* value: each item is mapped once and in its turn.                        *)
THEOREM TransformAlwaysKeeps == Spec => []TransformKeeps
<1>1. IInv => TransformKeeps
  <2> SUFFICES ASSUME IInv PROVE TransformKeeps
    OBVIOUS
  <2> DEFINE G == GoodRuns(heap)
  <2>1. runs \in Seq(G)
    BY DEF IInv, RunsInv
  <2>2. \A run \in G :
           run.kept => IF run.value.list THEN run.results \o run.elems = run.given.items
                       ELSE run.value.items = run.given.items
    BY DEF GoodRuns, GoodRun
  <2> HIDE DEF G
  <2>3. \A i \in DOMAIN runs : runs[i] \in G
    BY <2>1
  <2>4. QED
    BY <2>2, <2>3 DEF TransformKeeps
<1>2. QED
  BY <1>1, SpecIInv, PTL
=============================================================================
