----------------------------- MODULE TextProofs -----------------------------
(***************************************************************************)
(* What is read of the bytes on the wire, in both directions, for every    *)
(* text and every cut: what the client's hooks and viewport make of the    *)
(* server's (module Incoming), and what a server makes of the client's     *)
(* (module TelnetOut).                                                     *)
(***************************************************************************)
EXTENDS TelnetOut, Incoming, SequenceTheorems, WellFoundedInduction, TLAPS

(* A set that has 0 and the successor of each of its numbers has them all. *)
LEMMA NatSet ==
  ASSUME NEW T, 0 \in T, \A n \in Nat : n \in T => n + 1 \in T
  PROVE  Nat \subseteq T
  <1> DEFINE R == OpToRel(<, Nat)
  <1> SUFFICES ASSUME Nat \ T # {} PROVE FALSE
    OBVIOUS
  <1>1. \A x, y \in Nat : x < y => <<x, y>> \in R
    BY DEF OpToRel
  <1>2. PICK m \in Nat \ T : \A y \in Nat \ T : ~(<<y, m>> \in R)
    <2> HIDE DEF R
    <2>1. IsWellFoundedOn(R, Nat)
      BY NatLessThanWellFounded DEF R
    <2>. QED BY <2>1, WFMin
  <1> HIDE DEF R
  <1>3. m \in Nat /\ m # 0 /\ m - 1 \in Nat /\ m - 1 < m
    OBVIOUS
  <1>4. m - 1 \in T
    <2>1. <<m - 1, m>> \in R
      BY <1>1, <1>3
    <2>. QED BY <1>2, <1>3, <2>1
  <1>. QED BY <1>3, <1>4

(* Two functions that begin alike and go on alike are alike.               *)
LEMMA Alike ==
  ASSUME NEW n \in Nat, NEW f, NEW g, f[0] = g[0],
         \A k \in 0 .. n - 1 : f[k] = g[k] => f[k + 1] = g[k + 1]
  PROVE  \A k \in 0 .. n : f[k] = g[k]
<1> DEFINE T == {k \in Nat : k <= n => f[k] = g[k]}
<1>1. 0 \in T
  OBVIOUS
<1>2. \A k \in Nat : k \in T => k + 1 \in T
  <2> SUFFICES ASSUME NEW k \in Nat, k \in T, k + 1 <= n
               PROVE  f[k + 1] = g[k + 1]
    OBVIOUS
  <2>1. k \in 0 .. n - 1 /\ f[k] = g[k]
    OBVIOUS
  <2>2. QED
    BY <2>1
<1> HIDE DEF T
<1>3. Nat \subseteq T
  BY <1>1, <1>2, NatSet
<1>4. QED
  BY <1>3 DEF T

(* The greatest of the first numbers, and the others.                      *)
LEMMA MaxOfRange ==
  ASSUME NEW k \in Nat \ {0}
  PROVE  /\ Max(1 .. k) = k
         /\ (1 .. k) \ {Max(1 .. k)} = 1 .. k - 1
<1>1. Max(1 .. k) = k
  BY DEF Max
<1>2. QED
  BY <1>1

(* A fold over the positions 1 .. n: G says for each what becomes of a     *)
(* value.  The recursive function of the library's fold exists.            *)
Folds(f, base, G, n) ==
  f = [S \in SUBSET (1 .. n) |->
         IF S = {} THEN base ELSE G[Max(S)][f[S \ {Max(S)}]]]

LEMMA FoldExists ==
  ASSUME NEW D, NEW base \in D, NEW n \in Nat, NEW G \in [1 .. n -> [D -> D]]
  PROVE  \E f \in [SUBSET (1 .. n) -> D] : Folds(f, base, G, n)
<1> DEFINE Exists(m) == \E f \in [SUBSET (1 .. m) -> D] : Folds(f, base, G, m)
           T == {m \in Nat : m <= n => Exists(m)}
<1>1. 0 \in T
  <2> DEFINE f == [S \in SUBSET (1 .. 0) |-> base]
  <2>1. 1 .. 0 = {}
    OBVIOUS
  <2>2. f \in [SUBSET (1 .. 0) -> D]
    OBVIOUS
  <2>3. \A S \in SUBSET (1 .. 0) : S = {}
    BY <2>1
  <2>4. f = [S \in SUBSET (1 .. 0) |-> IF S = {} THEN base ELSE G[Max(S)][f[S \ {Max(S)}]]]
    BY <2>3
  <2> HIDE DEF f
  <2>5. Folds(f, base, G, 0)
    BY <2>4 DEF Folds
  <2>6. Exists(0)
    BY <2>2, <2>5
  <2> HIDE DEF Exists
  <2>7. QED
    BY <2>6
<1>2. \A m \in Nat : m \in T => m + 1 \in T
  <2> SUFFICES ASSUME NEW m \in Nat, m + 1 <= n, Exists(m)
               PROVE  Exists(m + 1)
    <3> HIDE DEF Exists
    <3>1. QED
      OBVIOUS
  <2>0. PICK f \in [SUBSET (1 .. m) -> D] : Folds(f, base, G, m)
    OBVIOUS
  <2> DEFINE Without(S) == S \ {m + 1}
             g == [S \in SUBSET (1 .. m + 1) |->
                     IF m + 1 \in S THEN G[m + 1][f[Without(S)]] ELSE f[S]]
  <2>1. \A S \in SUBSET (1 .. m + 1) :
          /\ Without(S) \in SUBSET (1 .. m)
          /\ m + 1 \notin S => S \in SUBSET (1 .. m)
          /\ m + 1 \in S => Max(S) = m + 1
    <3> SUFFICES ASSUME NEW S \in SUBSET (1 .. m + 1)
                 PROVE  /\ Without(S) \in SUBSET (1 .. m)
                        /\ m + 1 \notin S => S \in SUBSET (1 .. m)
                        /\ m + 1 \in S => Max(S) = m + 1
      OBVIOUS
    <3>1. \A x \in S : x \in Int /\ x <= m + 1 /\ (x # m + 1 => x \in 1 .. m)
      OBVIOUS
    <3>2. ASSUME m + 1 \in S
          PROVE  Max(S) = m + 1
      <4>1. \A x \in S : (\A y \in S : x >= y) <=> x = m + 1
        BY <3>1, <3>2
      <4>2. QED
        BY <3>2, <4>1 DEF Max
    <3>3. QED
      BY <3>1, <3>2
  <2>2. G[m + 1] \in [D -> D]
    OBVIOUS
  <2> HIDE DEF Without
  <2>3. g \in [SUBSET (1 .. m + 1) -> D]
    BY <2>1, <2>2
  <2>4. \A S \in SUBSET (1 .. m + 1) :
          g[S] = IF S = {} THEN base ELSE G[Max(S)][g[S \ {Max(S)}]]
    <3> SUFFICES ASSUME NEW S \in SUBSET (1 .. m + 1)
                 PROVE  g[S] = IF S = {} THEN base ELSE G[Max(S)][g[S \ {Max(S)}]]
      OBVIOUS
    <3>1. CASE m + 1 \in S
      <4>1. g[S] = G[m + 1][f[Without(S)]]
        BY <3>1
      <4>2. Max(S) = m + 1 /\ S \ {Max(S)} = Without(S) /\ S # {}
        BY <2>1, <3>1 DEF Without
      <4>3. Without(S) \in SUBSET (1 .. m + 1) /\ m + 1 \notin Without(S)
        BY DEF Without
      <4>4. g[Without(S)] = f[Without(S)]
        BY <4>3
      <4> HIDE DEF g
      <4>5. QED
        BY <4>1, <4>2, <4>4
    <3>2. CASE m + 1 \notin S
      <4>1. S \in SUBSET (1 .. m) /\ g[S] = f[S]
        BY <2>1, <3>2
      <4>2. f[S] = IF S = {} THEN base ELSE G[Max(S)][f[S \ {Max(S)}]]
        BY <2>0, <4>1 DEF Folds
      <4>3. g[S \ {Max(S)}] = f[S \ {Max(S)}]
        BY <3>2
      <4> HIDE DEF g
      <4>4. QED
        BY <4>1, <4>2, <4>3
    <3>3. QED
      BY <3>1, <3>2
  <2>5. Folds(g, base, G, m + 1)
    <3>1. g = [S \in SUBSET (1 .. m + 1) |-> g[S]]
      BY <2>3
    <3> HIDE DEF g
    <3>2. QED
      BY <2>4, <3>1 DEF Folds
  <2> HIDE DEF g
  <2>6. QED
    BY <2>3, <2>5
<1> HIDE DEF T, Exists
<1>3. n \in T
  BY <1>1, <1>2, NatSet
<1>4. Exists(n)
  BY <1>3 DEF T
<1>5. QED
  BY <1>4 DEF Exists

(* A number of positions that is not zero has a greatest. *)
LEMMA MaxIsIn ==
  ASSUME NEW n \in Nat, NEW S \in SUBSET (1 .. n), S # {}
  PROVE  Max(S) \in S
<1> DEFINE T == {m \in Nat : \A R \in SUBSET (1 .. m) : R # {} => \E x \in R : \A y \in R : x >= y}
<1>1. 0 \in T
  <2>1. 1 .. 0 = {}
    OBVIOUS
  <2>2. QED
    BY <2>1
<1>2. \A m \in Nat : m \in T => m + 1 \in T
  <2> SUFFICES ASSUME NEW m \in Nat, m \in T, NEW R \in SUBSET (1 .. m + 1), R # {}
               PROVE  \E x \in R : \A y \in R : x >= y
    OBVIOUS
  <2>1. \A y \in R : y \in Int /\ y <= m + 1 /\ (y # m + 1 => y \in 1 .. m)
    OBVIOUS
  <2>2. CASE m + 1 \in R
    BY <2>1, <2>2
  <2>3. CASE m + 1 \notin R
    <3>1. R \in SUBSET (1 .. m)
      BY <2>1, <2>3
    <3>2. QED
      BY <3>1
  <2>4. QED
    BY <2>2, <2>3
<1> HIDE DEF T
<1>3. n \in T
  BY <1>1, <1>2, NatSet
<1>4. \E x \in S : \A y \in S : x >= y
  BY <1>3 DEF T
<1>5. QED
  BY <1>4 DEF Max

(* Numbers that are not none have a least.                                 *)
LEMMA MinIsIn ==
  ASSUME NEW S \in SUBSET Nat, S # {}
  PROVE  Min(S) \in S /\ \A y \in S : Min(S) <= y
<1>1. \E x \in S : \A y \in S : x <= y
  <2> SUFFICES ASSUME ~\E x \in S : \A y \in S : x <= y
               PROVE  FALSE
    OBVIOUS
  <2> DEFINE T == {m \in Nat : \A x \in S : m <= x}
  <2>1. 0 \in T
    OBVIOUS
  <2>2. \A m \in Nat : m \in T => m + 1 \in T
    <3> SUFFICES ASSUME NEW m \in Nat, \A x \in S : m <= x
                 PROVE  \A x \in S : m + 1 <= x
      OBVIOUS
    <3>1. m \notin S
      OBVIOUS
    <3>2. QED
      BY <3>1
  <2> HIDE DEF T
  <2>3. Nat \subseteq T
    BY <2>1, <2>2, NatSet
  <2>4. PICK x \in S : TRUE
    OBVIOUS
  <2>5. x + 1 \in T
    BY <2>3
  <2>6. QED
    BY <2>5 DEF T
<1>2. QED
  BY <1>1 DEF Min

(* The values of a function on positions that begins with base and goes    *)
(* on as G says.                                                           *)
Chain(F, base, G, n, D) ==
  /\ F \in [0 .. n -> D]
  /\ F[0] = base
  /\ \A k \in 1 .. n : F[k] = G[k][F[k - 1]]

(* A function on sets of positions gives such a chain.                     *)
GoesAs(c, base, G, n, D) ==
  /\ c[{}] = base
  /\ \A S \in SUBSET (1 .. n) :
       S # {} /\ c[S \ {Max(S)}] \in D => c[S] = G[Max(S)][c[S \ {Max(S)}]]

LEMMA FoldChain ==
  ASSUME NEW D, NEW base \in D, NEW n \in Nat, NEW G \in [1 .. n -> [D -> D]],
         NEW c, GoesAs(c, base, G, n, D)
  PROVE  Chain([k \in 0 .. n |-> c[1 .. k]], base, G, n, D)
<1> DEFINE T == {k \in Nat : k <= n => c[1 .. k] \in D}
<1>1. 1 .. 0 = {}
  OBVIOUS
<1>2. \A k \in 1 .. n : c[1 .. k - 1] \in D => c[1 .. k] = G[k][c[1 .. k - 1]]
  <2> SUFFICES ASSUME NEW k \in 1 .. n, c[1 .. k - 1] \in D
               PROVE  c[1 .. k] = G[k][c[1 .. k - 1]]
    OBVIOUS
  <2>1. Max(1 .. k) = k /\ (1 .. k) \ {Max(1 .. k)} = 1 .. k - 1
    BY MaxOfRange
  <2>2. 1 .. k \in SUBSET (1 .. n)
    OBVIOUS
  <2>3. 1 \in 1 .. k
    OBVIOUS
  <2>4. QED
    BY <2>1, <2>2, <2>3 DEF GoesAs
<1>3. 0 \in T
  BY <1>1 DEF GoesAs
<1>4. \A k \in Nat : k \in T => k + 1 \in T
  <2> SUFFICES ASSUME NEW k \in Nat, k + 1 <= n, c[1 .. k] \in D
               PROVE  c[1 .. k + 1] \in D
    OBVIOUS
  <2>1. k + 1 \in 1 .. n /\ (k + 1) - 1 = k
    OBVIOUS
  <2>2. c[1 .. k + 1] = G[k + 1][c[1 .. k]]
    BY <1>2, <2>1
  <2>3. G[k + 1] \in [D -> D]
    BY <2>1
  <2>4. QED
    BY <2>2, <2>3
<1> HIDE DEF T
<1>5. \A k \in 0 .. n : c[1 .. k] \in D
  <2>1. Nat \subseteq T
    BY <1>3, <1>4, NatSet
  <2>2. QED
    BY <2>1 DEF T
<1> DEFINE F == [k \in 0 .. n |-> c[1 .. k]]
<1>6. F \in [0 .. n -> D]
  BY <1>5
<1>7. F[0] = base
  BY <1>1 DEF GoesAs
<1>8. \A k \in 1 .. n : F[k] = G[k][F[k - 1]]
  BY <1>2, <1>5
<1> HIDE DEF F
<1>9. Chain(F, base, G, n, D)
  BY <1>6, <1>7, <1>8 DEF Chain
<1>10. QED
  BY <1>9 DEF F

LEMMA ChainExists ==
  ASSUME NEW D, NEW base \in D, NEW n \in Nat, NEW G \in [1 .. n -> [D -> D]]
  PROVE  \E F : Chain(F, base, G, n, D)
<1>1. PICK f \in [SUBSET (1 .. n) -> D] : Folds(f, base, G, n)
  BY FoldExists
<1>2. GoesAs(f, base, G, n, D)
  BY <1>1 DEF Folds, GoesAs
<1>3. QED
  BY <1>2, FoldChain

(* Two chains over functions that begin alike are alike as far.            *)
Same(F, G, from, to) == \A k \in from .. to : F[k] = G[k]

LEMMA SameChain ==
  ASSUME NEW D, NEW base, NEW n \in Nat, NEW G, NEW F, Chain(F, base, G, n, D),
         NEW m \in 0 .. n, NEW H, NEW E, Chain(E, base, H, m, D),
         Same(G, H, 1, m)
  PROVE  Same(F, E, 0, m)
<1>1. F[0] = E[0]
  BY DEF Chain
<1>2. \A k \in 0 .. m - 1 : F[k] = E[k] => F[k + 1] = E[k + 1]
  <2> SUFFICES ASSUME NEW k \in 0 .. m - 1, F[k] = E[k]
               PROVE  F[k + 1] = E[k + 1]
    OBVIOUS
  <2>1. k + 1 \in 1 .. m /\ k + 1 \in 1 .. n /\ (k + 1) - 1 = k
    OBVIOUS
  <2>2. F[k + 1] = G[k + 1][F[k]] /\ E[k + 1] = H[k + 1][E[k]]
    BY <2>1 DEF Chain
  <2>3. G[k + 1] = H[k + 1]
    BY <2>1 DEF Same
  <2>4. QED
    BY <2>1, <2>2, <2>3
<1>3. m \in Nat
  OBVIOUS
<1>4. \A k \in 0 .. m : F[k] = E[k]
  BY <1>1, <1>2, <1>3, Alike
<1>5. QED
  BY <1>4 DEF Same

(* A sequence of length m + 1 is one of length m and a last element.       *)
LEMMA LastOff ==
  ASSUME NEW D, NEW t \in Seq(D), NEW m \in Nat, Len(t) = m + 1
  PROVE  /\ SubSeq(t, 1, m) \in Seq(D) /\ Len(SubSeq(t, 1, m)) = m
         /\ t[m + 1] \in D
         /\ t = Append(SubSeq(t, 1, m), t[m + 1])
<1>1. SubSeq(t, 1, m) \in Seq(D) /\ Len(SubSeq(t, 1, m)) = m
  BY SubSeqProperties
<1>2. t[m + 1] \in D
  OBVIOUS
<1>3. /\ Append(SubSeq(t, 1, m), t[m + 1]) \in Seq(D)
      /\ Len(Append(SubSeq(t, 1, m), t[m + 1])) = m + 1
      /\ \A i \in 1 .. m + 1 : Append(SubSeq(t, 1, m), t[m + 1])[i] = t[i]
  <2>1. \A i \in 1 .. m : SubSeq(t, 1, m)[i] = t[i]
    OBVIOUS
  <2>2. QED
    BY <1>1, <1>2, <2>1
<1>4. t = Append(SubSeq(t, 1, m), t[m + 1])
  BY <1>3, SeqEqual
<1>5. QED
  BY <1>1, <1>2, <1>4

(* The elements of two sequences one behind the other, and its prefixes.   *)
LEMMA ConcatAt ==
  ASSUME NEW D, NEW s \in Seq(D), NEW t \in Seq(D)
  PROVE  /\ s \o t \in Seq(D) /\ Len(s \o t) = Len(s) + Len(t)
         /\ \A i \in 1 .. Len(s) : (s \o t)[i] = s[i]
         /\ \A i \in Len(s) + 1 .. Len(s) + Len(t) : (s \o t)[i] = t[i - Len(s)]
<1>1. s \o t \in Seq(D) /\ Len(s \o t) = Len(s) + Len(t)
  BY ConcatProperties
<1>2. \A i \in 1 .. Len(s) : (s \o t)[i] = s[i]
  OBVIOUS
<1>3. ASSUME NEW i \in Len(s) + 1 .. Len(s) + Len(t)
      PROVE  (s \o t)[i] = t[i - Len(s)]
  <2>1. i \in 1 .. Len(s) + Len(t) /\ ~(i <= Len(s))
    OBVIOUS
  <2>2. QED
    BY <2>1
<1>4. QED
  BY <1>1, <1>2, <1>3

LEMMA PrefixOf ==
  ASSUME NEW D, NEW s \in Seq(D), NEW k \in 0 .. Len(s)
  PROVE  /\ SubSeq(s, 1, k) \in Seq(D) /\ Len(SubSeq(s, 1, k)) = k
         /\ \A i \in 1 .. k : SubSeq(s, 1, k)[i] = s[i]
<1>1. SubSeq(s, 1, k) \in Seq(D) /\ Len(SubSeq(s, 1, k)) = k
  BY SubSeqProperties
<1>2. \A i \in 1 .. k : SubSeq(s, 1, k)[i] = s[i]
  OBVIOUS
<1>3. QED
  BY <1>1, <1>2

LEMMA PrefixConcat ==
  ASSUME NEW D, NEW s \in Seq(D), NEW t \in Seq(D)
  PROVE  /\ \A k \in 0 .. Len(s) : SubSeq(s \o t, 1, k) = SubSeq(s, 1, k)
         /\ \A k \in 0 .. Len(t) : SubSeq(s \o t, 1, Len(s) + k) = s \o SubSeq(t, 1, k)
<1> DEFINE u == s \o t
           m == Len(s)
           l == Len(t)
<1>1. /\ u \in Seq(D) /\ Len(u) = m + l /\ m \in Nat /\ l \in Nat
      /\ \A i \in 1 .. m : u[i] = s[i]
      /\ \A i \in m + 1 .. m + l : u[i] = t[i - m]
  <2>1. m \in Nat /\ l \in Nat
    OBVIOUS
  <2>2. QED
    BY <2>1, ConcatAt
<1> HIDE DEF u
<1>2. ASSUME NEW k \in 0 .. m
      PROVE  SubSeq(u, 1, k) = SubSeq(s, 1, k)
  <2>1. k \in 0 .. Len(u)
    BY <1>1
  <2>2. /\ SubSeq(u, 1, k) \in Seq(D) /\ Len(SubSeq(u, 1, k)) = k
        /\ \A i \in 1 .. k : SubSeq(u, 1, k)[i] = u[i]
    BY <1>1, <2>1, PrefixOf
  <2>3. /\ SubSeq(s, 1, k) \in Seq(D) /\ Len(SubSeq(s, 1, k)) = k
        /\ \A i \in 1 .. k : SubSeq(s, 1, k)[i] = s[i]
    BY PrefixOf
  <2> DEFINE x == SubSeq(u, 1, k)
             y == SubSeq(s, 1, k)
  <2> HIDE DEF x, y
  <2>4. x \in Seq(D) /\ y \in Seq(D) /\ Len(x) = k /\ Len(y) = k
    BY <2>2, <2>3 DEF x, y
  <2>5. \A i \in 1 .. k : i \in 1 .. m
    BY <1>1
  <2>6. \A i \in 1 .. k : x[i] = y[i]
    BY <1>1, <2>2, <2>3, <2>5 DEF x, y
  <2>7. x = y
    BY <2>4, <2>6, SeqEqual
  <2>8. QED
    BY <2>7 DEF x, y
<1>3. ASSUME NEW k \in 0 .. l
      PROVE  SubSeq(u, 1, m + k) = s \o SubSeq(t, 1, k)
  <2> DEFINE x == SubSeq(u, 1, m + k)
             d == SubSeq(t, 1, k)
             y == s \o d
  <2>1. m + k \in 0 .. Len(u) /\ k \in Nat
    BY <1>1
  <2>2. d \in Seq(D) /\ Len(d) = k /\ \A i \in 1 .. k : d[i] = t[i]
    BY PrefixOf
  <2>3. x \in Seq(D) /\ Len(x) = m + k /\ \A i \in 1 .. m + k : x[i] = u[i]
    <3>1. \A j \in 0 .. Len(u) : /\ SubSeq(u, 1, j) \in Seq(D) /\ Len(SubSeq(u, 1, j)) = j
                                 /\ \A i \in 1 .. j : SubSeq(u, 1, j)[i] = u[i]
      BY <1>1, PrefixOf
    <3>2. QED
      BY <2>1, <3>1
  <2> HIDE DEF x, d
  <2>4. /\ y \in Seq(D) /\ Len(y) = m + k
        /\ \A i \in 1 .. m : y[i] = s[i]
        /\ \A i \in m + 1 .. m + k : y[i] = d[i - m]
    BY <2>2, ConcatAt
  <2> HIDE DEF y, m, l
  <2>5. ASSUME NEW i \in 1 .. m + k
        PROVE  x[i] = y[i]
    <3>1. CASE i \in 1 .. m
      BY <1>1, <2>3, <2>4, <3>1
    <3>2. CASE i \notin 1 .. m
      <4>1. i \in m + 1 .. m + k /\ i \in m + 1 .. m + l /\ i - m \in 1 .. k
        BY <1>1, <2>1, <3>2
      <4>2. u[i] = t[i - m] /\ y[i] = d[i - m] /\ d[i - m] = t[i - m]
        BY <1>1, <2>2, <2>4, <4>1
      <4>3. QED
        BY <2>3, <4>2
    <3>3. QED
      BY <3>1, <3>2
  <2>6. x = y
    BY <2>3, <2>4, <2>5, SeqEqual
  <2>7. QED
    BY <2>6 DEF x, y, d
<1>4. QED
  BY <1>2, <1>3 DEF u

(* What holds of the empty sequence and goes on holding when an element is *)
(* appended holds of every sequence.                                       *)
LEMMA SeqSet ==
  ASSUME NEW C, NEW T, <<>> \in T,
         \A r \in Seq(C), b \in C : r \in T => Append(r, b) \in T
  PROVE  Seq(C) \subseteq T
<1> DEFINE N == {n \in Nat : \A r \in Seq(C) : Len(r) = n => r \in T}
<1>1. 0 \in N
  <2> SUFFICES ASSUME NEW r \in Seq(C), Len(r) = 0
               PROVE  r \in T
    OBVIOUS
  <2>1. r = <<>>
    OBVIOUS
  <2>2. QED
    BY <2>1
<1>2. \A n \in Nat : n \in N => n + 1 \in N
  <2> SUFFICES ASSUME NEW n \in Nat, n \in N
               PROVE  n + 1 \in N
    OBVIOUS
  <2> SUFFICES ASSUME NEW r \in Seq(C), Len(r) = n + 1
               PROVE  r \in T
    OBVIOUS
  <2>1. /\ SubSeq(r, 1, n) \in Seq(C) /\ Len(SubSeq(r, 1, n)) = n
        /\ r[n + 1] \in C
        /\ r = Append(SubSeq(r, 1, n), r[n + 1])
    BY LastOff
  <2>2. SubSeq(r, 1, n) \in T
    BY <2>1
  <2>3. Append(SubSeq(r, 1, n), r[n + 1]) \in T
    BY <2>1, <2>2
  <2>4. QED
    BY <2>1, <2>3
<1> HIDE DEF N
<1>3. Nat \subseteq N
  BY <1>1, <1>2, NatSet
<1>4. ASSUME NEW r \in Seq(C)
      PROVE  r \in T
  <2>1. Len(r) \in N
    BY <1>3
  <2>2. QED
    BY <2>1 DEF N
<1>5. QED
  BY <1>4

-----------------------------------------------------------------------------
(* A loop over a sequence: h says for each element what becomes of the     *)
(* state.  The state behind the last element is that at the end of a chain.*)
Loop(h, C, D) == h \in [C -> [D -> D]]

Turns(h, s) == [i \in 1 .. Len(s) |-> h[s[i]]]

Run(h, D, from, s) == (CHOOSE F : Chain(F, from, Turns(h, s), Len(s), D))[Len(s)]

LEMMA RunChain ==
  ASSUME NEW C, NEW D, NEW h, Loop(h, C, D), NEW from \in D, NEW s \in Seq(C)
  PROVE  \E F : /\ Chain(F, from, Turns(h, s), Len(s), D)
                /\ Run(h, D, from, s) = F[Len(s)]
<1> DEFINE n == Len(s)
           G == Turns(h, s)
           Is(F) == Chain(F, from, G, n, D)
<1>1. n \in Nat
  OBVIOUS
<1>2. G \in [1 .. n -> [D -> D]]
  BY DEF Turns, Loop
<1> HIDE DEF n, G
<1>3. \E F : Is(F)
  BY <1>1, <1>2, ChainExists
<1> HIDE DEF Is
<1>4. Is(CHOOSE F : Is(F))
  BY <1>3
<1>5. QED
  BY <1>4 DEF Is, Run, G, n

LEMMA RunEmpty ==
  ASSUME NEW C, NEW D, NEW h, Loop(h, C, D), NEW from \in D
  PROVE  Run(h, D, from, <<>>) = from
<1>1. PICK F : /\ Chain(F, from, Turns(h, <<>>), Len(<<>>), D)
               /\ Run(h, D, from, <<>>) = F[Len(<<>>)]
  <2>1. <<>> \in Seq(C)
    OBVIOUS
  <2>2. \A s \in Seq(C) : \E F : /\ Chain(F, from, Turns(h, s), Len(s), D)
                                 /\ Run(h, D, from, s) = F[Len(s)]
    BY RunChain
  <2>3. QED
    BY <2>1, <2>2
<1>2. QED
  BY <1>1 DEF Chain

LEMMA RunType ==
  ASSUME NEW C, NEW D, NEW h, Loop(h, C, D), NEW from \in D, NEW s \in Seq(C)
  PROVE  Run(h, D, from, s) \in D
<1>1. PICK F : /\ Chain(F, from, Turns(h, s), Len(s), D)
               /\ Run(h, D, from, s) = F[Len(s)]
  BY RunChain
<1>2. Len(s) \in 0 .. Len(s)
  OBVIOUS
<1>3. QED
  BY <1>1, <1>2 DEF Chain

LEMMA RunAppend ==
  ASSUME NEW C, NEW D, NEW h, Loop(h, C, D), NEW from \in D, NEW s \in Seq(C),
         NEW b \in C
  PROVE  Run(h, D, from, Append(s, b)) = h[b][Run(h, D, from, s)]
<1> DEFINE n == Len(s)
           t == Append(s, b)
<1>1. n \in Nat /\ t \in Seq(C) /\ Len(t) = n + 1 /\ t[n + 1] = b
      /\ \A i \in 1 .. n : t[i] = s[i]
  OBVIOUS
<1> HIDE DEF n, t
<1>2. PICK E : Chain(E, from, Turns(h, s), n, D) /\ Run(h, D, from, s) = E[n]
  BY RunChain DEF n
<1>3. PICK F : Chain(F, from, Turns(h, t), n + 1, D) /\ Run(h, D, from, t) = F[n + 1]
  <2>1. \A r \in Seq(C) : \E F : /\ Chain(F, from, Turns(h, r), Len(r), D)
                                 /\ Run(h, D, from, r) = F[Len(r)]
    BY RunChain
  <2>2. QED
    BY <1>1, <2>1
<1>4. Same(Turns(h, t), Turns(h, s), 1, n)
  BY <1>1 DEF Turns, n, Same
<1>5. Same(F, E, 0, n)
  <2> DEFINE N == n + 1
             G == Turns(h, t)
             H == Turns(h, s)
  <2>1. N \in Nat /\ n \in 0 .. N
    BY <1>1
  <2>2. Chain(F, from, G, N, D) /\ Chain(E, from, H, n, D)
    BY <1>2, <1>3
  <2>3. Same(G, H, 1, n)
    BY <1>4
  <2> HIDE DEF N, G, H
  <2>4. QED
    BY <2>1, <2>2, <2>3, SameChain
<1>6. n \in 0 .. n + 1 /\ n \in 0 .. n /\ n + 1 \in 1 .. n + 1 /\ (n + 1) - 1 = n
  BY <1>1
<1>7. F[n + 1] = Turns(h, t)[n + 1][F[n]]
  BY <1>3, <1>6 DEF Chain
<1>8. Turns(h, t)[n + 1] = h[b]
  BY <1>1, <1>6 DEF Turns
<1>9. F[n] = E[n]
  BY <1>5, <1>6 DEF Same
<1>10. QED
  BY <1>2, <1>3, <1>7, <1>8, <1>9 DEF t

LEMMA RunConcat ==
  ASSUME NEW C, NEW D, NEW h, Loop(h, C, D), NEW from \in D, NEW s \in Seq(C),
         NEW t \in Seq(C)
  PROVE  Run(h, D, from, s \o t) = Run(h, D, Run(h, D, from, s), t)
<1> DEFINE mid == Run(h, D, from, s)
           T == {r \in Seq(C) : Run(h, D, from, s \o r) = Run(h, D, mid, r)}
<1>1. mid \in D
  BY RunType
<1>2. <<>> \in T
  <2>1. s \o <<>> = s /\ <<>> \in Seq(C)
    OBVIOUS
  <2>2. Run(h, D, mid, <<>>) = mid
    BY <1>1, RunEmpty
  <2>3. QED
    BY <2>1, <2>2
<1> HIDE DEF mid
<1>3. ASSUME NEW r \in Seq(C), NEW b \in C, r \in T
      PROVE  Append(r, b) \in T
  <2>1. /\ s \o Append(r, b) = Append(s \o r, b)
        /\ s \o r \in Seq(C) /\ Append(r, b) \in Seq(C)
    OBVIOUS
  <2>2. Run(h, D, from, s \o r) = Run(h, D, mid, r)
    BY <1>3
  <2> HIDE DEF T
  <2>3. Run(h, D, from, Append(s \o r, b)) = h[b][Run(h, D, from, s \o r)]
    <3>1. \A q \in Seq(C) : Run(h, D, from, Append(q, b)) = h[b][Run(h, D, from, q)]
      BY RunAppend
    <3>2. QED
      BY <2>1, <3>1
  <2>4. Run(h, D, mid, Append(r, b)) = h[b][Run(h, D, mid, r)]
    BY <1>1, RunAppend
  <2>5. Run(h, D, from, s \o Append(r, b)) = Run(h, D, mid, Append(r, b))
    BY <2>1, <2>2, <2>3, <2>4
  <2>6. QED
    BY <2>1, <2>5 DEF T
<1> HIDE DEF T
<1>4. Seq(C) \subseteq T
  BY <1>2, <1>3, SeqSet
<1>5. QED
  BY <1>4 DEF T, mid

(* The library's fold over a sequence is this loop: there is a function on *)
(* the sets of positions that goes as h says, and each that does ends like *)
(* the loop.                                                               *)
FoldOf(f, h, from, s) ==
  \A S \in SUBSET DOMAIN s :
    IF S = {} THEN f[S] = from
    ELSE Max(S) \in DOMAIN s /\ f[S] = h[s[Max(S)]][f[S \ {Max(S)}]]

LoopsAs(c, h, D, from, s) ==
  /\ c[{}] = from
  /\ \A S \in SUBSET DOMAIN s :
       S # {} /\ Max(S) \in DOMAIN s /\ c[S \ {Max(S)}] \in D
         => c[S] = h[s[Max(S)]][c[S \ {Max(S)}]]

LEMMA RunFold ==
  ASSUME NEW C, NEW D, NEW h, Loop(h, C, D), NEW from \in D, NEW s \in Seq(C)
  PROVE  \E f \in [SUBSET DOMAIN s -> D] : FoldOf(f, h, from, s)
<1> DEFINE n == Len(s)
           G == Turns(h, s)
<1>1. n \in Nat /\ DOMAIN s = 1 .. n
  OBVIOUS
<1>2. G \in [1 .. n -> [D -> D]] /\ \A i \in 1 .. n : G[i] = h[s[i]]
  BY DEF Turns, Loop
<1> HIDE DEF G, n
<1>3. \A S \in SUBSET (1 .. n) : S # {} => Max(S) \in S
  BY <1>1, MaxIsIn
<1>4. PICK f \in [SUBSET (1 .. n) -> D] : Folds(f, from, G, n)
  BY <1>1, <1>2, FoldExists
<1>5. ASSUME NEW S \in SUBSET (1 .. n)
      PROVE  IF S = {} THEN f[S] = from
             ELSE Max(S) \in 1 .. n /\ f[S] = h[s[Max(S)]][f[S \ {Max(S)}]]
  <2>1. f[S] = IF S = {} THEN from ELSE G[Max(S)][f[S \ {Max(S)}]]
    BY <1>4 DEF Folds
  <2>2. S # {} => Max(S) \in 1 .. n
    BY <1>3
  <2>3. QED
    BY <1>2, <2>1, <2>2
<1>6. FoldOf(f, h, from, s)
  BY <1>1, <1>5 DEF FoldOf
<1>7. QED
  BY <1>1, <1>6

LEMMA LoopEnds ==
  ASSUME NEW C, NEW D, NEW h, Loop(h, C, D), NEW from \in D, NEW s \in Seq(C),
         NEW c, LoopsAs(c, h, D, from, s)
  PROVE  c[DOMAIN s] = Run(h, D, from, s)
<1> DEFINE n == Len(s)
           G == Turns(h, s)
<1>1. n \in Nat /\ DOMAIN s = 1 .. n
  OBVIOUS
<1>2. G \in [1 .. n -> [D -> D]] /\ \A i \in 1 .. n : G[i] = h[s[i]]
  BY DEF Turns, Loop
<1> HIDE DEF G, n
<1>3. ASSUME NEW S \in SUBSET (1 .. n), S # {}, c[S \ {Max(S)}] \in D
      PROVE  c[S] = G[Max(S)][c[S \ {Max(S)}]]
  <2>1. Max(S) \in 1 .. n
    BY <1>1, <1>3, MaxIsIn
  <2>2. c[S] = h[s[Max(S)]][c[S \ {Max(S)}]]
    BY <1>1, <1>3, <2>1 DEF LoopsAs
  <2>3. QED
    BY <1>2, <2>1, <2>2
<1>4. GoesAs(c, from, G, n, D)
  BY <1>3 DEF GoesAs, LoopsAs
<1> DEFINE F == [k \in 0 .. n |-> c[1 .. k]]
<1>5. Chain(F, from, G, n, D)
  BY <1>1, <1>2, <1>4, FoldChain
<1>6. F[n] = c[DOMAIN s] /\ n \in 0 .. n
  BY <1>1
<1> HIDE DEF F
<1>7. PICK E : Chain(E, from, G, n, D) /\ Run(h, D, from, s) = E[n]
  BY RunChain DEF G, n
<1>8. Same(F, E, 0, n)
  <2>1. n \in 0 .. n /\ Same(G, G, 1, n)
    BY <1>1 DEF Same
  <2>2. QED
    BY <1>1, <1>5, <1>7, <2>1, SameChain
<1>9. QED
  BY <1>6, <1>7, <1>8 DEF Same

-----------------------------------------------------------------------------
(* The states of strip_ansi_codes, and its loop from one of them.          *)
StripState == [mode : {"text", "escape", "csi"}, out : Seq(Char)]

Strip(from, s) == FoldLeft(StripByte, from, s)

LEMMA StripByteType ==
  ASSUME NEW p \in StripState, NEW c \in Char
  PROVE  StripByte(p, c) \in StripState
<1>1. Append(p.out, c) \in Seq(Char)
  BY DEF StripState
<1>2. /\ [p EXCEPT !.out = Append(@, c)] \in StripState
      /\ \A m \in {"text", "escape", "csi"} : [p EXCEPT !.mode = m] \in StripState
  BY <1>1 DEF StripState
<1>3. QED
  BY <1>2 DEF StripByte

StripStep == [c \in Char |-> [p \in StripState |-> StripByte(p, c)]]

LEMMA StripRun ==
  /\ Loop(StripStep, Char, StripState)
  /\ \A c \in Char, p \in StripState : StripStep[c][p] = StripByte(p, c)
  /\ \A from \in StripState, s \in Seq(Char) : Strip(from, s) = Run(StripStep, StripState, from, s)
<1>1. Loop(StripStep, Char, StripState)
  BY StripByteType DEF StripStep, Loop
<1>2. \A c \in Char, p \in StripState : StripStep[c][p] = StripByte(p, c)
  BY DEF StripStep
<1>3. ASSUME NEW from \in StripState, NEW s \in Seq(Char)
      PROVE  Strip(from, s) = Run(StripStep, StripState, from, s)
  <2> DEFINE P == SUBSET DOMAIN s
             Good(f) == f = [S \in P |->
                               IF S = {} THEN from ELSE StripByte(f[S \ {Max(S)}], s[Max(S)])]
             c == CHOOSE f : Good(f)
  <2>1. Strip(from, s) = c[DOMAIN s]
    BY DEF Strip, FoldLeft, MapThenFoldSet
  <2>2. \A i \in DOMAIN s : s[i] \in Char
    OBVIOUS
  <2>3. \E f : Good(f)
    <3>1. PICK f \in [SUBSET DOMAIN s -> StripState] : FoldOf(f, StripStep, from, s)
      BY <1>1, RunFold
    <3>2. ASSUME NEW S \in P
          PROVE  f[S] = IF S = {} THEN from ELSE StripByte(f[S \ {Max(S)}], s[Max(S)])
      <4>1. f[S \ {Max(S)}] \in StripState
        OBVIOUS
      <4>2. QED
        BY <1>2, <2>2, <3>1, <4>1 DEF FoldOf
    <3>3. f = [S \in P |-> f[S]]
      OBVIOUS
    <3>4. Good(f)
      BY <3>2, <3>3
    <3> HIDE DEF Good
    <3>5. QED
      BY <3>4
  <2>4. Good(c)
    <3> HIDE DEF Good
    <3>1. QED
      BY <2>3
  <2> HIDE DEF c
  <2>5. c[{}] = from
    BY <2>4
  <2>6. ASSUME NEW S \in SUBSET DOMAIN s, S # {}, Max(S) \in DOMAIN s, c[S \ {Max(S)}] \in StripState
        PROVE  c[S] = StripStep[s[Max(S)]][c[S \ {Max(S)}]]
    <3>1. c[S] = StripByte(c[S \ {Max(S)}], s[Max(S)])
      BY <2>4, <2>6
    <3>2. QED
      BY <1>2, <2>2, <2>6, <3>1
  <2> HIDE DEF Good, P
  <2>7. c[DOMAIN s] = Run(StripStep, StripState, from, s)
    <3>1. LoopsAs(c, StripStep, StripState, from, s)
      BY <2>5, <2>6 DEF LoopsAs
    <3>2. QED
      BY <1>1, <3>1, LoopEnds
  <2>8. QED
    BY <2>1, <2>7
<1>4. QED
  BY <1>1, <1>2, <1>3

(* Strip byte by byte, piece by piece, and its type.                       *)
LEMMA StripEmpty ==
  ASSUME NEW from \in StripState
  PROVE  Strip(from, <<>>) = from
<1>1. <<>> \in Seq(Char)
  OBVIOUS
<1>2. QED
  BY <1>1, StripRun, RunEmpty

LEMMA StripType ==
  ASSUME NEW from \in StripState, NEW s \in Seq(Char)
  PROVE  Strip(from, s) \in StripState
BY StripRun, RunType

LEMMA StripAppend ==
  ASSUME NEW from \in StripState, NEW s \in Seq(Char), NEW b \in Char
  PROVE  Strip(from, Append(s, b)) = StripByte(Strip(from, s), b)
<1>1. Append(s, b) \in Seq(Char)
  OBVIOUS
<1>2. Run(StripStep, StripState, from, Append(s, b)) = StripStep[b][Run(StripStep, StripState, from, s)]
  BY StripRun, RunAppend
<1>3. QED
  BY <1>1, <1>2, StripRun, StripType

LEMMA StripConcat ==
  ASSUME NEW from \in StripState, NEW s \in Seq(Char), NEW t \in Seq(Char)
  PROVE  Strip(from, s \o t) = Strip(Strip(from, s), t)
<1>1. s \o t \in Seq(Char) /\ Strip(from, s) \in StripState
  BY StripType
<1>2. Run(StripStep, StripState, from, s \o t)
        = Run(StripStep, StripState, Run(StripStep, StripState, from, s), t)
  BY StripRun, RunConcat
<1>3. QED
  BY <1>1, <1>2, StripRun

(* What was stripped before is in front of what is stripped now, and has   *)
(* no effect on it.                                                        *)
LEMMA StripShift ==
  ASSUME NEW m \in {"text", "escape", "csi"}, NEW o \in Seq(Char), NEW s \in Seq(Char)
  PROVE  LET p == Strip([mode |-> m, out |-> <<>>], s)
         IN  Strip([mode |-> m, out |-> o], s) = [mode |-> p.mode, out |-> o \o p.out]
<1> DEFINE a == [mode |-> m, out |-> <<>>]
           b == [mode |-> m, out |-> o]
           Shifted(p) == [mode |-> p.mode, out |-> o \o p.out]
           T == {n \in Nat : \A r \in Seq(Char) : Len(r) = n => Strip(b, r) = Shifted(Strip(a, r))}
<1>1. a \in StripState /\ b \in StripState /\ b = Shifted(a)
  BY DEF StripState
<1>2. \A p \in StripState, c \in Char : StripByte(Shifted(p), c) = Shifted(StripByte(p, c))
  <2> SUFFICES ASSUME NEW p \in StripState, NEW c \in Char
               PROVE  StripByte(Shifted(p), c) = Shifted(StripByte(p, c))
    OBVIOUS
  <2>1. p = [mode |-> p.mode, out |-> p.out] /\ p.out \in Seq(Char)
        /\ p.mode \in {"text", "escape", "csi"}
    BY DEF StripState
  <2>2. o \o Append(p.out, c) = Append(o \o p.out, c)
    BY <2>1
  <2>3. CASE p.mode = "escape"
    BY <2>1, <2>3 DEF StripByte
  <2>4. CASE p.mode = "csi"
    BY <2>1, <2>4 DEF StripByte
  <2>5. CASE p.mode = "text"
    <3>1. CASE c = ESC
      BY <2>1, <2>5, <3>1 DEF StripByte
    <3>2. CASE c # ESC /\ Kept(c)
      <4>1. /\ StripByte(p, c) = [p EXCEPT !.out = Append(@, c)]
            /\ StripByte(Shifted(p), c) = [Shifted(p) EXCEPT !.out = Append(@, c)]
        BY <2>5, <3>2 DEF StripByte
      <4>2. QED
        BY <2>1, <2>2, <4>1
    <3>3. CASE c # ESC /\ ~Kept(c)
      BY <2>1, <2>5, <3>3 DEF StripByte
    <3>4. QED
      BY <3>1, <3>2, <3>3
  <2>6. QED
    BY <2>1, <2>3, <2>4, <2>5
<1> HIDE DEF a, b, Shifted
<1>3. 0 \in T
  <2> SUFFICES ASSUME NEW r \in Seq(Char), Len(r) = 0
               PROVE  Strip(b, r) = Shifted(Strip(a, r))
    OBVIOUS
  <2>1. r = <<>>
    OBVIOUS
  <2>2. QED
    BY <1>1, <2>1, StripEmpty
<1>4. \A n \in Nat : n \in T => n + 1 \in T
  <2> SUFFICES ASSUME NEW n \in Nat, n \in T, NEW r \in Seq(Char), Len(r) = n + 1
               PROVE  Strip(b, r) = Shifted(Strip(a, r))
    OBVIOUS
  <2> DEFINE q == SubSeq(r, 1, n)
             c == r[n + 1]
  <2>1. q \in Seq(Char) /\ Len(q) = n /\ c \in Char /\ r = Append(q, c)
    BY LastOff
  <2> HIDE DEF q, c
  <2>2. Strip(b, q) = Shifted(Strip(a, q))
    BY <2>1
  <2> HIDE DEF T
  <2>3. Strip(a, q) \in StripState
    BY <1>1, <2>1, StripType
  <2>4. Strip(b, r) = StripByte(Strip(b, q), c) /\ Strip(a, r) = StripByte(Strip(a, q), c)
    BY <1>1, <2>1, StripAppend
  <2>5. QED
    BY <1>2, <2>1, <2>2, <2>3, <2>4
<1> HIDE DEF T
<1>5. Nat \subseteq T
  BY <1>3, <1>4, NatSet
<1>6. Len(s) \in Nat
  OBVIOUS
<1>7. Strip(b, s) = Shifted(Strip(a, s))
  BY <1>5, <1>6 DEF T
<1>8. QED
  BY <1>7 DEF a, b, Shifted

-----------------------------------------------------------------------------
(* The concatenation of the first sequences, one after the other.          *)
LEMMA FlattenChain ==
  ASSUME NEW D, NEW ss \in Seq(Seq(D))
  PROVE  \E F : /\ F \in [0 .. Len(ss) -> Seq(D)]
                /\ F[0] = <<>>
                /\ \A k \in 1 .. Len(ss) : F[k] = F[k - 1] \o ss[k]
                /\ FlattenSeq(ss) = F[Len(ss)]
<1> DEFINE n == Len(ss)
           E == Seq(D)
           e == <<>>
           G == [k \in 1 .. n |-> [t \in E |-> t \o ss[k]]]
           Good(f) == f = [i \in 1 .. Len(ss) |->
                             IF i = 1 THEN ss[i] ELSE f[i - 1] \o ss[i]]
           c == CHOOSE f : Good(f)
<1>1. n \in Nat /\ e \in E /\ \A k \in 1 .. n : ss[k] \in E
  OBVIOUS
<1>2. G \in [1 .. n -> [E -> E]]
  <2>1. \A k \in 1 .. n, t \in E : t \o ss[k] \in E
    OBVIOUS
  <2> HIDE DEF E
  <2>2. QED
    BY <2>1
<1>3. \A k \in 1 .. n, t \in E : G[k][t] = t \o ss[k]
  OBVIOUS
<1>4. n # 0 => FlattenSeq(ss) = c[n]
  BY DEF FlattenSeq
<1>5. n = 0 => FlattenSeq(ss) = <<>>
  BY DEF FlattenSeq
<1>6. \A f : Good(f) <=> f = [i \in 1 .. n |-> IF i = 1 THEN ss[i] ELSE f[i - 1] \o ss[i]]
  OBVIOUS
<1> HIDE DEF G, E, c, Good, n, e
<1> USE <1>1
<1>7. e \in E /\ n \in Nat
  BY <1>1
<1>8. PICK F : Chain(F, e, G, n, E)
  BY <1>2, <1>7, ChainExists, Zenon
<1>9. /\ F \in [0 .. n -> E] /\ F[0] = <<>>
      /\ \A k \in 1 .. n : F[k] = F[k - 1] \o ss[k]
  <2>1. \A k \in 1 .. n : k - 1 \in 0 .. n
    BY <1>1
  <2>2. QED
    BY <1>3, <1>8, <2>1 DEF Chain, e
<1>10. n # 0 => c[n] = F[n]
  <2> SUFFICES ASSUME n # 0
               PROVE  c[n] = F[n]
    OBVIOUS
  <2> DEFINE g == [i \in 1 .. n |-> F[i]]
  <2>1. \A i \in 1 .. n : g[i] = IF i = 1 THEN ss[i] ELSE g[i - 1] \o ss[i]
    <3> SUFFICES ASSUME NEW i \in 1 .. n
                 PROVE  g[i] = IF i = 1 THEN ss[i] ELSE g[i - 1] \o ss[i]
      OBVIOUS
    <3>1. F[i] = F[i - 1] \o ss[i]
      BY <1>9
    <3>2. CASE i = 1
      <4>1. F[i] = <<>> \o ss[1]
        <5>1. i - 1 = 0
          BY <3>2
        <5>2. QED
          BY <1>9, <3>1, <3>2, <5>1
      <4>2. <<>> \o ss[1] = ss[1]
        BY <3>2
      <4>3. QED
        BY <3>2, <4>1, <4>2
    <3>3. CASE i # 1
      <4>1. g[i - 1] = F[i - 1]
        BY <3>3
      <4>2. QED
        BY <3>1, <3>3, <4>1
    <3>4. QED
      BY <3>2, <3>3
  <2>2. g = [i \in 1 .. n |-> g[i]]
    OBVIOUS
  <2> HIDE DEF g
  <2>3. Good(g)
    BY <1>6, <2>1, <2>2
  <2>4. Good(c)
    BY <2>3 DEF c
  <2>5. \A i \in 1 .. n : c[i] = IF i = 1 THEN ss[i] ELSE c[i - 1] \o ss[i]
    BY <1>6, <2>4
  <2> DEFINE d == [i \in 0 .. n |-> IF i = 0 THEN <<>> ELSE c[i]]
  <2>6. d[0] = F[0]
    BY <1>9
  <2>7. \A k \in 0 .. n - 1 : d[k] = F[k] => d[k + 1] = F[k + 1]
    <3> SUFFICES ASSUME NEW k \in 0 .. n - 1, d[k] = F[k]
                 PROVE  d[k + 1] = F[k + 1]
      OBVIOUS
    <3>1. /\ n \in Nat /\ k \in Nat /\ k + 1 \in 1 .. n /\ (k + 1) - 1 = k
          /\ k + 1 \in 0 .. n /\ k \in 0 .. n /\ k + 1 # 0
      BY <1>1
    <3>2. F[k + 1] = F[(k + 1) - 1] \o ss[k + 1]
      BY <1>9, <3>1
    <3>3. d[k + 1] = c[k + 1] /\ d[k] = IF k = 0 THEN <<>> ELSE c[k]
      BY <3>1
    <3>4. c[k + 1] = IF k + 1 = 1 THEN ss[k + 1] ELSE c[(k + 1) - 1] \o ss[k + 1]
      BY <2>5, <3>1
    <3>5. ss[k + 1] \in Seq(D)
      BY <1>1, <3>1 DEF E
    <3>6. <<>> \o ss[k + 1] = ss[k + 1]
      BY <3>5
    <3> HIDE DEF d
    <3>7. CASE k = 0
      <4>1. c[k + 1] = ss[k + 1] /\ F[k] = <<>>
        BY <3>3, <3>4, <3>7
      <4>2. F[k + 1] = ss[k + 1]
        BY <3>1, <3>2, <3>6, <4>1
      <4>3. QED
        BY <3>3, <4>1, <4>2
    <3>8. CASE k # 0
      <4>1. k + 1 # 1
        BY <3>1, <3>8
      <4>2. QED
        BY <3>1, <3>2, <3>3, <3>4, <3>8, <4>1
    <3>9. QED
      BY <3>7, <3>8
  <2> HIDE DEF d
  <2>8. \A k \in 0 .. n : d[k] = F[k]
    BY <1>1, <2>6, <2>7, Alike
  <2>9. n \in 0 .. n
    BY <1>1
  <2>10. QED
    BY <2>8, <2>9 DEF d
<1>11. FlattenSeq(ss) = F[n]
  BY <1>4, <1>5, <1>9, <1>10
<1>12. QED
  BY <1>9, <1>11 DEF E, n

LEMMA FlattenType ==
  ASSUME NEW D, NEW ss \in Seq(Seq(D))
  PROVE  FlattenSeq(ss) \in Seq(D)
<1>1. PICK F : F \in [0 .. Len(ss) -> Seq(D)] /\ FlattenSeq(ss) = F[Len(ss)]
  BY FlattenChain
<1>2. Len(ss) \in 0 .. Len(ss)
  OBVIOUS
<1>3. QED
  BY <1>1, <1>2

LEMMA FlattenEmpty == FlattenSeq(<<>>) = <<>>
  BY DEF FlattenSeq

LEMMA FlattenAppend ==
  ASSUME NEW D, NEW ss \in Seq(Seq(D)), NEW s \in Seq(D)
  PROVE  FlattenSeq(Append(ss, s)) = FlattenSeq(ss) \o s
<1> DEFINE n == Len(ss)
           tt == Append(ss, s)
<1>1. n \in Nat /\ tt \in Seq(Seq(D)) /\ Len(tt) = n + 1 /\ tt[n + 1] = s
      /\ \A i \in 1 .. n : tt[i] = ss[i]
  OBVIOUS
<1> HIDE DEF n, tt
<1>2. PICK E : /\ E[0] = <<>>
               /\ \A k \in 1 .. n : E[k] = E[k - 1] \o ss[k]
               /\ FlattenSeq(ss) = E[n]
  BY FlattenChain DEF n
<1>3. PICK F : /\ F[0] = <<>>
               /\ \A k \in 1 .. n + 1 : F[k] = F[k - 1] \o tt[k]
               /\ FlattenSeq(tt) = F[n + 1]
  <2>1. PICK F : /\ F[0] = <<>>
                 /\ \A k \in 1 .. Len(tt) : F[k] = F[k - 1] \o tt[k]
                 /\ FlattenSeq(tt) = F[Len(tt)]
    BY <1>1, FlattenChain
  <2>2. QED
    BY <1>1, <2>1
<1>4. \A k \in 0 .. n - 1 : F[k] = E[k] => F[k + 1] = E[k + 1]
  <2> SUFFICES ASSUME NEW k \in 0 .. n - 1, F[k] = E[k]
               PROVE  F[k + 1] = E[k + 1]
    OBVIOUS
  <2>1. k + 1 \in 1 .. n /\ k + 1 \in 1 .. n + 1 /\ (k + 1) - 1 = k
    BY <1>1
  <2>2. E[k + 1] = E[(k + 1) - 1] \o ss[k + 1]
    BY <1>2, <2>1
  <2>3. F[k + 1] = F[(k + 1) - 1] \o tt[k + 1]
    BY <1>3, <2>1
  <2>4. QED
    BY <1>1, <2>1, <2>2, <2>3
<1>5. \A k \in 0 .. n : F[k] = E[k]
  <2>1. n \in Nat /\ F[0] = E[0]
    BY <1>1, <1>2, <1>3
  <2>2. QED
    BY <1>4, <2>1, Alike
<1>6. n \in 0 .. n /\ n + 1 \in 1 .. n + 1 /\ (n + 1) - 1 = n
  BY <1>1
<1>7. F[n + 1] = F[(n + 1) - 1] \o tt[n + 1]
  BY <1>3, <1>6
<1>8. QED
  BY <1>1, <1>2, <1>3, <1>5, <1>6, <1>7 DEF tt

LEMMA FlattenConcat ==
  ASSUME NEW D, NEW ss \in Seq(Seq(D)), NEW tt \in Seq(Seq(D))
  PROVE  FlattenSeq(ss \o tt) = FlattenSeq(ss) \o FlattenSeq(tt)
<1> DEFINE E == Seq(D)
           Joins(uu) == FlattenSeq(ss \o uu) = FlattenSeq(ss) \o FlattenSeq(uu)
           T == {m \in Nat : \A uu \in Seq(E) : Len(uu) = m => Joins(uu)}
<1>1. FlattenSeq(ss) \in Seq(D)
  BY FlattenType
<1>2. 0 \in T
  <2> SUFFICES ASSUME NEW uu \in Seq(E), Len(uu) = 0
               PROVE  Joins(uu)
    OBVIOUS
  <2>1. uu = <<>> /\ ss \o uu = ss
    OBVIOUS
  <2>2. FlattenSeq(ss) \o <<>> = FlattenSeq(ss)
    BY <1>1
  <2>3. QED
    BY <2>1, <2>2, FlattenEmpty
<1>3. ASSUME NEW m \in Nat, \A vv \in Seq(E) : Len(vv) = m => Joins(vv),
             NEW uu \in Seq(E), Len(uu) = m + 1
      PROVE  Joins(uu)
  <2> DEFINE q == SubSeq(uu, 1, m)
             x == uu[m + 1]
  <2>1. q \in Seq(E) /\ Len(q) = m /\ x \in E /\ uu = Append(q, x)
    <3> HIDE DEF E
    <3>1. QED
      BY <1>3, LastOff
  <2> HIDE DEF q, x
  <2>2. ss \o uu = Append(ss \o q, x) /\ ss \o q \in Seq(E)
    BY <2>1
  <2>3. FlattenSeq(ss \o q) = FlattenSeq(ss) \o FlattenSeq(q)
    BY <1>3, <2>1
  <2>4. FlattenSeq(Append(ss \o q, x)) = FlattenSeq(ss \o q) \o x
    BY <2>1, <2>2, FlattenAppend
  <2>5. FlattenSeq(Append(q, x)) = FlattenSeq(q) \o x
    BY <2>1, FlattenAppend
  <2>6. FlattenSeq(q) \in Seq(D)
    BY <2>1, FlattenType
  <2>7. (FlattenSeq(ss) \o FlattenSeq(q)) \o x = FlattenSeq(ss) \o (FlattenSeq(q) \o x)
    BY <1>1, <2>1, <2>6
  <2>8. QED
    BY <2>1, <2>2, <2>3, <2>4, <2>5, <2>7
<1>4. tt \in Seq(E) /\ Len(tt) \in Nat
  OBVIOUS
<1> HIDE DEF E, Joins
<1> HIDE DEF T
<1>5. \A m \in Nat : m \in T => m + 1 \in T
  <2> SUFFICES ASSUME NEW m \in Nat, m \in T
               PROVE  m + 1 \in T
    OBVIOUS
  <2>1. \A vv \in Seq(E) : Len(vv) = m => Joins(vv)
    BY DEF T
  <2>2. \A uu \in Seq(E) : Len(uu) = m + 1 => Joins(uu)
    <3> SUFFICES ASSUME NEW uu \in Seq(E), Len(uu) = m + 1
                 PROVE  Joins(uu)
      OBVIOUS
    <3>1. QED
      BY <1>3, <2>1
  <2>3. QED
    BY <2>2 DEF T
<1>6. Nat \subseteq T
  BY <1>2, <1>5, NatSet
<1>7. Joins(tt)
  BY <1>4, <1>6 DEF T
<1>8. QED
  BY <1>7 DEF Joins

-----------------------------------------------------------------------------
(* The server's text (module Incoming).                                    *)
Heard(text) == [mode |-> "text", out |-> text]

LEMMA HeardType ==
  ASSUME NEW t \in Seq(Char)
  PROVE  Heard(t) \in StripState
BY DEF Heard, StripState

(* From plain text, what is stripped now goes behind what was before.      *)
LEMMA StripBehind ==
  ASSUME NEW t \in Seq(Char), NEW s \in Seq(Char)
  PROVE  /\ Strip(Heard(<<>>), s) \in StripState
         /\ Strip(Heard(t), s) = [mode |-> Strip(Heard(<<>>), s).mode,
                                  out |-> t \o Strip(Heard(<<>>), s).out]
<1>1. <<>> \in Seq(Char) /\ "text" \in {"text", "escape", "csi"}
  OBVIOUS
<1>2. Strip(Heard(<<>>), s) \in StripState
  BY <1>1, HeardType, StripType
<1>3. QED
  BY <1>1, <1>2, StripShift DEF Heard

LEMMA PrefixAppend ==
  ASSUME NEW D, NEW s \in Seq(D), NEW k \in Nat, k < Len(s)
  PROVE  /\ SubSeq(s, 1, k) \in Seq(D)
         /\ SubSeq(s, 1, k + 1) = Append(SubSeq(s, 1, k), s[k + 1])
<1>1. /\ SubSeq(s, 1, k + 1) \in Seq(D) /\ Len(SubSeq(s, 1, k + 1)) = k + 1
      /\ SubSeq(s, 1, k) \in Seq(D) /\ Len(SubSeq(s, 1, k)) = k
      /\ \A i \in 1 .. k + 1 : SubSeq(s, 1, k + 1)[i] = s[i]
      /\ \A i \in 1 .. k : SubSeq(s, 1, k)[i] = s[i]
  <2>1. k + 1 \in 1 .. Len(s) /\ k \in 0 .. Len(s)
    OBVIOUS
  <2>2. /\ \A i \in 1 .. k + 1 : SubSeq(s, 1, k + 1)[i] = s[i]
        /\ \A i \in 1 .. k : SubSeq(s, 1, k)[i] = s[i]
    OBVIOUS
  <2>3. QED
    BY <2>1, <2>2, SubSeqProperties
<1> DEFINE p == SubSeq(s, 1, k)
           q == SubSeq(s, 1, k + 1)
<1>2. s[k + 1] \in D
  OBVIOUS
<1>3. /\ p \in Seq(D) /\ Len(p) = k /\ q \in Seq(D) /\ Len(q) = k + 1
      /\ \A i \in 1 .. k : p[i] = q[i]
      /\ q[k + 1] = s[k + 1]
  BY <1>1
<1> HIDE DEF p, q
<1>4. /\ Append(p, s[k + 1]) \in Seq(D) /\ Len(Append(p, s[k + 1])) = k + 1
      /\ \A i \in 1 .. k + 1 : Append(p, s[k + 1])[i] = q[i]
  BY <1>2, <1>3
<1>5. q = Append(p, s[k + 1])
  BY <1>3, <1>4, SeqEqual
<1>6. QED
  BY <1>3, <1>5 DEF p, q

(* Bytes without an escape: what a reader sees of them.                    *)
LEMMA VisibleAppend ==
  ASSUME NEW s \in Seq(Char), NEW b \in Char
  PROVE  /\ Visible(s) \in Seq(Char)
         /\ Visible(Append(s, b)) = IF b \in Blank THEN Visible(s) ELSE Append(Visible(s), b)
<1> DEFINE See(x) == IF x \in Blank THEN <<>> ELSE <<x>>
           vs == [i \in DOMAIN s |-> See(s[i])]
           vt == [i \in DOMAIN Append(s, b) |-> See(Append(s, b)[i])]
<1>1. \A x \in Char : See(x) \in Seq(Char)
  OBVIOUS
<1>2. vs \in Seq(Seq(Char)) /\ vt = Append(vs, See(b))
  <2>1. vs \in Seq(Seq(Char)) /\ Len(vs) = Len(s)
    <3>1. DOMAIN s = 1 .. Len(s) /\ \A i \in 1 .. Len(s) : See(s[i]) \in Seq(Char)
      BY <1>1
    <3> HIDE DEF See
    <3>2. QED
      BY <3>1
  <2>2. DOMAIN Append(s, b) = 1 .. Len(s) + 1
    OBVIOUS
  <2>3. /\ \A i \in 1 .. Len(s) : vt[i] = vs[i]
        /\ vt[Len(s) + 1] = See(b)
    <3> HIDE DEF See
    <3>1. QED
      BY <2>2
  <2>4. vt \in Seq(Seq(Char)) /\ Len(vt) = Len(s) + 1
    <3>1. \A i \in 1 .. Len(s) + 1 : See(Append(s, b)[i]) \in Seq(Char)
      BY <1>1
    <3> HIDE DEF See
    <3>2. QED
      BY <2>2, <3>1
  <2>5. See(b) \in Seq(Char)
    BY <1>1
  <2> HIDE DEF vs, vt, See
  <2>6. QED
    BY <2>1, <2>3, <2>4, <2>5
<1>3. Visible(s) = FlattenSeq(vs) /\ Visible(Append(s, b)) = FlattenSeq(vt)
  BY DEF Visible
<1>4. See(b) \in Seq(Char)
  BY <1>1
<1> HIDE DEF vs, vt, See
<1>5. Visible(s) \in Seq(Char) /\ Visible(Append(s, b)) = Visible(s) \o See(b)
  BY <1>2, <1>3, <1>4, FlattenType, FlattenAppend
<1>6. QED
  BY <1>5 DEF See

LEMMA StripPlain ==
  ASSUME NEW s \in Seq(Char), ESC \notin ToSet(s)
  PROVE  Strip(Heard(<<>>), s) = Heard(Visible(s))
<1> DEFINE T == {n \in Nat : n <= Len(s) =>
                   Strip(Heard(<<>>), SubSeq(s, 1, n)) = Heard(Visible(SubSeq(s, 1, n)))}
<1>0. <<>> \in Seq(Char) /\ Heard(<<>>) \in StripState
  <2>1. <<>> \in Seq(Char)
    OBVIOUS
  <2>2. QED
    BY <2>1, HeardType
<1>1. 0 \in T
  <2>1. SubSeq(s, 1, 0) = <<>>
    OBVIOUS
  <2>2. Visible(<<>>) = <<>>
    BY DEF Visible, FlattenSeq
  <2>3. QED
    BY <1>0, <2>1, <2>2, StripEmpty
<1>2. \A n \in Nat : n \in T => n + 1 \in T
  <2> SUFFICES ASSUME NEW n \in Nat, n + 1 <= Len(s),
                      Strip(Heard(<<>>), SubSeq(s, 1, n)) = Heard(Visible(SubSeq(s, 1, n)))
               PROVE  Strip(Heard(<<>>), SubSeq(s, 1, n + 1)) = Heard(Visible(SubSeq(s, 1, n + 1)))
    OBVIOUS
  <2> DEFINE q == SubSeq(s, 1, n)
             b == s[n + 1]
  <2>1. q \in Seq(Char) /\ b \in Char /\ SubSeq(s, 1, n + 1) = Append(q, b)
    <3>1. n < Len(s)
      OBVIOUS
    <3>2. QED
      BY <3>1, PrefixAppend
  <2>2. b # ESC
    BY DEF ToSet
  <2>3. Strip(Heard(<<>>), q) = Heard(Visible(q))
    OBVIOUS
  <2> HIDE DEF q, b, T
  <2>4. Strip(Heard(<<>>), Append(q, b)) = StripByte(Heard(Visible(q)), b)
    BY <1>0, <2>1, <2>3, StripAppend
  <2>5. Visible(q) \in Seq(Char)
    BY <2>1, VisibleAppend
  <2>6. Kept(b) <=> b \notin Blank
    BY <2>1 DEF Kept, Blank, Char, LF, CR, TAB
  <2>7. StripByte(Heard(Visible(q)), b)
          = IF b \in Blank THEN Heard(Visible(q)) ELSE Heard(Append(Visible(q), b))
    <3>1. CASE b \in Blank
      BY <2>2, <2>6, <3>1 DEF StripByte, Heard
    <3>2. CASE b \notin Blank
      <4> DEFINE p == Heard(Visible(q))
      <4>1. p.mode = "text" /\ p.out = Visible(q)
        BY DEF Heard
      <4>2. [p EXCEPT !.out = Append(@, b)] = Heard(Append(Visible(q), b))
        BY DEF Heard
      <4> HIDE DEF p
      <4>3. StripByte(p, b) = [p EXCEPT !.out = Append(@, b)]
        BY <2>2, <2>6, <3>2, <4>1 DEF StripByte
      <4>4. QED
        BY <3>2, <4>2, <4>3 DEF p
    <3>3. QED
      BY <3>1, <3>2
  <2>8. QED
    BY <2>1, <2>4, <2>7, VisibleAppend
<1> HIDE DEF T
<1>3. Nat \subseteq T
  BY <1>1, <1>2, NatSet
<1>4. Len(s) \in Nat /\ SubSeq(s, 1, Len(s)) = s
  OBVIOUS
<1>5. Len(s) \in T => Strip(Heard(<<>>), s) = Heard(Visible(s))
  <2>1. Len(s) <= Len(s)
    OBVIOUS
  <2>2. QED
    BY <1>4, <2>1, Zenon DEF T
<1>6. QED
  BY <1>3, <1>4, <1>5

(* An escape sequence: no text, and plain text again behind its last byte. *)
LEMMA StripEscape ==
  ASSUME NEW s \in Seq(Char), EscapeSequence(s)
  PROVE  Strip(Heard(<<>>), s) = Heard(<<>>)
<1> DEFINE In(n) == [mode |-> IF s[n] = ESC THEN "escape" ELSE "csi", out |-> <<>>]
           Prefix(n) == SubSeq(s, 1, n)
           T == {n \in Nat : n \in 1 .. Len(s) - 1 => Strip(Heard(<<>>), Prefix(n)) = In(n)}
<1>0. /\ <<>> \in Seq(Char) /\ Heard(<<>>) \in StripState
      /\ Len(s) \in Nat /\ Len(s) > 1 /\ s[1] = ESC
      /\ \A i \in 2 .. Len(s) : GoesOn(s, i) <=> i < Len(s)
  <2>1. <<>> \in Seq(Char)
    OBVIOUS
  <2>2. /\ Len(s) > 1 /\ s[1] = ESC
        /\ \A i \in 2 .. Len(s) : GoesOn(s, i) <=> i < Len(s)
    BY Zenon DEF EscapeSequence
  <2>3. Len(s) \in Nat
    OBVIOUS
  <2>4. Heard(<<>>) \in StripState
    BY <2>1, HeardType
  <2>5. QED
    BY <2>1, <2>2, <2>3, <2>4
<1>1. \A n \in 0 .. Len(s) - 1 :
        /\ Prefix(n) \in Seq(Char) /\ s[n + 1] \in Char
        /\ Strip(Heard(<<>>), Prefix(n + 1)) = StripByte(Strip(Heard(<<>>), Prefix(n)), s[n + 1])
  <2> SUFFICES ASSUME NEW n \in 0 .. Len(s) - 1
               PROVE  /\ Prefix(n) \in Seq(Char) /\ s[n + 1] \in Char
                      /\ Strip(Heard(<<>>), Prefix(n + 1))
                           = StripByte(Strip(Heard(<<>>), Prefix(n)), s[n + 1])
    OBVIOUS
  <2>1. n \in Nat /\ n < Len(s) /\ s[n + 1] \in Char
    BY <1>0
  <2>2. Prefix(n) \in Seq(Char) /\ Prefix(n + 1) = Append(Prefix(n), s[n + 1])
    BY <2>1, PrefixAppend
  <2> HIDE DEF Prefix
  <2>3. QED
    BY <1>0, <2>1, <2>2, StripAppend
<1>2. Prefix(0) = <<>>
  BY <1>0
<1>3. Prefix(Len(s)) = s
  BY <1>0
<1> HIDE DEF Prefix
<1>4. 0 \in T
  BY <1>0
<1>5. Strip(Heard(<<>>), Prefix(1)) = In(1)
  <2>1. 0 \in 0 .. Len(s) - 1
    BY <1>0
  <2>2. Strip(Heard(<<>>), Prefix(0)) = Heard(<<>>)
    BY <1>0, <1>2, StripEmpty
  <2>3. Strip(Heard(<<>>), Prefix(0 + 1)) = StripByte(Heard(<<>>), s[0 + 1])
    BY <1>1, <2>1, <2>2
  <2>4. StripByte(Heard(<<>>), ESC) = [mode |-> "escape", out |-> <<>>]
    BY DEF StripByte, Heard
  <2>5. QED
    BY <1>0, <2>3, <2>4
<1>6. \A n \in Nat : n \in T => n + 1 \in T
  <2> SUFFICES ASSUME NEW n \in Nat, n \in T
               PROVE  n + 1 \in T
    OBVIOUS
  <2> SUFFICES ASSUME n + 1 \in 1 .. Len(s) - 1
               PROVE  Strip(Heard(<<>>), Prefix(n + 1)) = In(n + 1)
    <3> HIDE DEF In
    <3>1. QED
      OBVIOUS
  <2>1. CASE n = 0
    BY <1>5, <2>1
  <2>2. CASE n # 0
    <3>1. /\ n \in 0 .. Len(s) - 1 /\ n \in 1 .. Len(s) - 1
          /\ n + 1 \in 2 .. Len(s) /\ n + 1 < Len(s) /\ (n + 1) - 1 = n
      BY <1>0, <2>2
    <3>2. Strip(Heard(<<>>), Prefix(n)) = In(n)
      BY <3>1
    <3>3. /\ Strip(Heard(<<>>), Prefix(n + 1)) = StripByte(Strip(Heard(<<>>), Prefix(n)), s[n + 1])
          /\ s[n + 1] \in Char
      BY <1>1, <3>1
    <3>4. \/ s[n + 1] = ESC
          \/ s[n] = ESC /\ s[n + 1] = CSI
          \/ s[n] # ESC /\ s[n + 1] \notin 64 .. 126
      <4>1. GoesOn(s, n + 1)
        BY <1>0, <3>1
      <4>2. QED
        BY <3>1, <4>1 DEF GoesOn
    <3>5. StripByte(In(n), s[n + 1]) = In(n + 1)
      <4>1. CASE s[n] = ESC
        BY <3>3, <3>4, <4>1 DEF StripByte, EndsCSI, ESC, CSI
      <4>2. CASE s[n] # ESC
        BY <3>3, <3>4, <4>2 DEF StripByte, EndsCSI, ESC, CSI
      <4>3. QED
        BY <4>1, <4>2
    <3>6. QED
      BY <3>2, <3>3, <3>5
  <2>3. QED
    BY <2>1, <2>2
<1>7. Strip(Heard(<<>>), s) = Heard(<<>>)
  <2> DEFINE n == Len(s) - 1
  <2>1. /\ n \in Nat /\ n \in 1 .. Len(s) - 1 /\ n \in 0 .. Len(s) - 1 /\ n + 1 = Len(s)
        /\ n + 1 \in 2 .. Len(s) /\ ~(n + 1 < Len(s)) /\ (n + 1) - 1 = n
    BY <1>0
  <2> HIDE DEF n
  <2>2. Strip(Heard(<<>>), Prefix(n)) = In(n)
    <3> HIDE DEF T
    <3>1. Nat \subseteq T
      BY <1>4, <1>6, NatSet
    <3>2. QED
      BY <2>1, <3>1 DEF T
  <2>3. /\ Strip(Heard(<<>>), Prefix(n + 1)) = StripByte(Strip(Heard(<<>>), Prefix(n)), s[n + 1])
        /\ s[n + 1] \in Char
    BY <1>1, <2>1
  <2>4. /\ s[n + 1] # ESC
        /\ ~(s[n] = ESC /\ s[n + 1] = CSI)
        /\ s[n] # ESC => s[n + 1] \in 64 .. 126
    <3>1. ~GoesOn(s, n + 1)
      BY <1>0, <2>1
    <3>2. QED
      BY <2>1, <3>1 DEF GoesOn
  <2>5. StripByte(In(n), s[n + 1]) = Heard(<<>>)
    BY <2>3, <2>4 DEF StripByte, EndsCSI, ESC, CSI, Heard
  <2>6. QED
    BY <1>3, <2>1, <2>2, <2>3, <2>5
<1>8. QED
  BY <1>7

(* What an item leaves, and where a piece may end in it.                   *)
LEMMA StripItem ==
  ASSUME NEW item \in Items
  PROVE  /\ item.bytes \in Seq(Char) /\ item.plain \in Seq(Char) /\ item.escape \in BOOLEAN
         /\ Strip(Heard(<<>>), item.bytes) = Heard(item.plain)
         /\ \A k \in 1 .. Len(item.bytes) :
              ~(item.escape /\ k < Len(item.bytes)) =>
                Strip(Heard(<<>>), SubSeq(item.bytes, 1, k)).mode = "text"
<1>1. item.bytes \in Seq(Char) /\ item.plain \in Seq(Char) /\ item.escape \in BOOLEAN
  BY ItemsAssumption
<1> DEFINE s == item.bytes
<1>0. \A t : Heard(t).mode = "text"
  BY DEF Heard
<1>2. Strip(Heard(<<>>), s) = Heard(item.plain)
  <2>1. CASE item.escape
    BY <1>1, <2>1, ItemsAssumption, StripEscape
  <2>2. CASE ~item.escape
    BY <1>1, <2>2, ItemsAssumption, StripPlain
  <2>3. QED
    BY <2>1, <2>2
<1>3. ASSUME NEW k \in 1 .. Len(s), ~(item.escape /\ k < Len(s))
      PROVE  Strip(Heard(<<>>), SubSeq(s, 1, k)).mode = "text"
  <2>1. CASE k = Len(s)
    <3>1. SubSeq(s, 1, k) = s
      BY <1>1, <2>1
    <3>2. QED
      BY <1>0, <1>2, <3>1
  <2>2. CASE k # Len(s)
    <3>1. ~item.escape /\ k <= Len(s)
      BY <1>1, <1>3, <2>2
    <3>2. SubSeq(s, 1, k) \in Seq(Char) /\ ESC \notin ToSet(SubSeq(s, 1, k))
      <4>1. ESC \notin ToSet(s)
        BY <3>1, ItemsAssumption
      <4>2. \A i \in 1 .. Len(s) : s[i] # ESC
        BY <1>1, <4>1 DEF ToSet
      <4>3. SubSeq(s, 1, k) \in Seq(Char) /\ Len(SubSeq(s, 1, k)) = k
        BY <1>1, <3>1
      <4>4. \A i \in 1 .. k : SubSeq(s, 1, k)[i] # ESC
        BY <1>1, <3>1, <4>2
      <4>5. QED
        BY <4>3, <4>4 DEF ToSet
    <3>3. QED
      BY <1>0, <3>2, StripPlain
  <2>3. QED
    BY <2>1, <2>2
<1>4. QED
  BY <1>1, <1>2, <1>3

-----------------------------------------------------------------------------
(* The state of module Incoming.                                           *)
Received == [byte : Char, inside : BOOLEAN]

IncomingType ==
  /\ written \in Seq(Items)
  /\ unread \in Seq(Received)
  /\ heard \in Seq(Char)
  /\ viewport \in Seq(Char)
  /\ received \in Seq(Char)
  /\ split \in BOOLEAN
  /\ shortened \in BOOLEAN

Bytes(u) == [i \in 1 .. Len(u) |-> u[i].byte]

LEMMA BytesType ==
  ASSUME NEW u \in Seq(Received)
  PROVE  Bytes(u) \in Seq(Char) /\ Len(Bytes(u)) = Len(u)
         /\ \A i \in 1 .. Len(u) : Bytes(u)[i] = u[i].byte
<1>1. \A i \in 1 .. Len(u) : u[i].byte \in Char
  <2>1. \A i \in 1 .. Len(u) : u[i] \in Received
    OBVIOUS
  <2>2. \A x \in Received : x.byte \in Char
    BY DEF Received
  <2>3. QED
    BY <2>1, <2>2
<1>2. Len(u) \in Nat
  OBVIOUS
<1>3. QED
  BY <1>1, <1>2 DEF Bytes

(* The C string of a text without a NUL is that text.                      *)
LEMMA WholeCString ==
  ASSUME NEW s \in Seq(Char)
  PROVE  /\ CString(s) \in Seq(Char)
         /\ NUL \notin ToSet(s) => CString(s) = s
<1> DEFINE At == {i \in 1 .. Len(s) : s[i] = NUL}
           end == SelectInSeq(s, LAMBDA c : c = NUL)
<1>1. end = IF At = {} THEN 0 ELSE Min(At)
  BY DEF SelectInSeq
<1>2. CString(s) = IF end = 0 THEN s ELSE SubSeq(s, 1, end - 1)
  BY DEF CString
<1>3. NUL \notin ToSet(s) => At = {}
  BY DEF ToSet
<1> HIDE DEF At
<1>4. end \in 0 .. Len(s)
  <2>1. CASE At = {}
    BY <1>1, <2>1
  <2>2. CASE At # {}
    <3>1. At \in SUBSET Nat /\ \A i \in At : i \in 0 .. Len(s)
      BY DEF At
    <3>2. Min(At) \in At
      BY <2>2, <3>1, MinIsIn
    <3>3. QED
      BY <1>1, <2>2, <3>1, <3>2
  <2>3. QED
    BY <2>1, <2>2
<1> HIDE DEF end
<1>5. CString(s) \in Seq(Char)
  <2>1. CASE end = 0
    BY <1>2, <2>1
  <2>2. CASE end # 0
    <3>1. end - 1 \in 0 .. Len(s)
      BY <1>4, <2>2
    <3>2. SubSeq(s, 1, end - 1) \in Seq(Char)
      BY <3>1, SubSeqProperties
    <3>3. QED
      BY <1>2, <2>2, <3>2
  <2>3. QED
    BY <2>1, <2>2
<1>6. NUL \notin ToSet(s) => CString(s) = s
  BY <1>1, <1>2, <1>3
<1>7. QED
  BY <1>5, <1>6

(* One round: the piece, and what is unread behind it.                     *)
LEMMA PieceOff ==
  ASSUME NEW u \in Seq(Received), NEW n \in 1 .. Len(u)
  PROVE  /\ [i \in 1 .. n |-> u[i].byte] = SubSeq(Bytes(u), 1, n)
         /\ SubSeq(Bytes(u), 1, n) \in Seq(Char)
         /\ SubSeq(u, n + 1, Len(u)) \in Seq(Received)
         /\ Len(SubSeq(u, n + 1, Len(u))) = Len(u) - n
         /\ \A k \in 1 .. Len(u) - n : SubSeq(u, n + 1, Len(u))[k] = u[n + k]
         /\ Bytes(u) = SubSeq(Bytes(u), 1, n) \o Bytes(SubSeq(u, n + 1, Len(u)))
         /\ \A k \in 0 .. Len(u) - n :
              SubSeq(Bytes(u), 1, n + k)
                = SubSeq(Bytes(u), 1, n) \o SubSeq(Bytes(SubSeq(u, n + 1, Len(u))), 1, k)
<1> DEFINE b == Bytes(u)
           p == SubSeq(b, 1, n)
           v == SubSeq(u, n + 1, Len(u))
           c == Bytes(v)
<1>1. /\ b \in Seq(Char) /\ Len(b) = Len(u) /\ Len(u) \in Nat /\ n \in Nat /\ n <= Len(u)
      /\ \A i \in 1 .. Len(u) : b[i] = u[i].byte
  BY BytesType
<1> HIDE DEF b
<1>2. p \in Seq(Char) /\ Len(p) = n /\ \A i \in 1 .. n : p[i] = b[i]
  <2>1. p \in Seq(Char) /\ Len(p) = n
    BY <1>1, SubSeqProperties
  <2>2. QED
    BY <1>1, <2>1
<1>3. /\ v \in Seq(Received) /\ Len(v) = Len(u) - n
      /\ \A k \in 1 .. Len(u) - n : v[k] = u[n + k]
  <2>1. v \in Seq(Received) /\ Len(v) = Len(u) - n
    BY <1>1, SubSeqProperties
  <2>2. \A k \in 1 .. Len(u) - n : v[k] = u[n + k]
    BY <1>1
  <2>3. QED
    BY <2>1, <2>2
<1> HIDE DEF p, v
<1>4. /\ c \in Seq(Char) /\ Len(c) = Len(u) - n
      /\ \A k \in 1 .. Len(u) - n : c[k] = b[n + k]
  <2>1. c \in Seq(Char) /\ Len(c) = Len(u) - n
    BY <1>3, BytesType
  <2>2. \A k \in 1 .. Len(u) - n : c[k] = v[k].byte
    BY <1>3, BytesType
  <2>3. \A k \in 1 .. Len(u) - n : n + k \in 1 .. Len(u)
    BY <1>1
  <2>4. QED
    BY <1>1, <1>3, <2>1, <2>2, <2>3
<1> HIDE DEF c
<1>5. [i \in 1 .. n |-> u[i].byte] = p
  <2> DEFINE q == [i \in 1 .. n |-> u[i].byte]
  <2>1. \A i \in 1 .. n : q[i] = p[i]
    BY <1>1, <1>2
  <2>2. p = [i \in 1 .. n |-> p[i]]
    BY <1>2
  <2>3. QED
    BY <2>1, <2>2
<1>6. ASSUME NEW k \in 0 .. Len(u) - n
      PROVE  SubSeq(b, 1, n + k) = p \o SubSeq(c, 1, k)
  <2> DEFINE x == SubSeq(b, 1, n + k)
             d == SubSeq(c, 1, k)
             y == p \o d
  <2>1. x \in Seq(Char) /\ Len(x) = n + k /\ \A i \in 1 .. n + k : x[i] = b[i]
    <3>1. x \in Seq(Char) /\ Len(x) = n + k
      BY <1>1, SubSeqProperties
    <3>2. QED
      BY <1>1, <3>1
  <2>2. d \in Seq(Char) /\ Len(d) = k /\ \A i \in 1 .. k : d[i] = c[i]
    <3>1. d \in Seq(Char) /\ Len(d) = k
      BY <1>4, SubSeqProperties
    <3>2. QED
      BY <1>4, <3>1
  <2> HIDE DEF x, d
  <2>3. /\ y \in Seq(Char) /\ Len(y) = n + k
        /\ \A i \in 1 .. n : y[i] = p[i]
        /\ \A i \in 1 .. k : y[n + i] = d[i]
    <3>1. y \in Seq(Char) /\ Len(y) = n + k
      <4>1. y \in Seq(Char) /\ Len(y) = Len(p) + Len(d)
        BY <1>2, <2>2, ConcatProperties
      <4>2. QED
        BY <1>2, <2>2, <4>1
    <3>2. \A i \in 1 .. n : y[i] = p[i]
      BY <1>2, <2>2
    <3>3. ASSUME NEW i \in 1 .. k
          PROVE  y[n + i] = d[i]
      <4>1. n \in Nat /\ k \in Nat /\ n + i \in 1 .. n + k /\ n + i > n /\ (n + i) - n = i
        BY <1>1
      <4>2. y[n + i] = IF n + i <= Len(p) THEN p[n + i] ELSE d[(n + i) - Len(p)]
        BY <1>2, <2>2, <4>1
      <4>3. QED
        BY <1>2, <4>1, <4>2
    <3>4. QED
      BY <3>1, <3>2, <3>3
  <2> HIDE DEF y
  <2>4. \A i \in 1 .. n + k : x[i] = y[i]
    <3> SUFFICES ASSUME NEW i \in 1 .. n + k
                 PROVE  x[i] = y[i]
      OBVIOUS
    <3>1. CASE i \in 1 .. n
      BY <1>2, <2>1, <2>3, <3>1
    <3>2. CASE i \notin 1 .. n
      <4>1. i - n \in 1 .. k /\ i - n \in 1 .. Len(u) - n /\ n + (i - n) = i
        BY <1>1, <3>2
      <4>2. y[i] = d[i - n] /\ d[i - n] = c[i - n] /\ c[i - n] = b[i]
        BY <1>4, <2>2, <2>3, <4>1
      <4>3. QED
        BY <2>1, <4>2
    <3>3. QED
      BY <3>1, <3>2
  <2>5. x = y
    BY <2>1, <2>3, <2>4, SeqEqual
  <2>6. QED
    BY <2>5 DEF x, y, d
<1>7. b = p \o c
  <2> DEFINE k == Len(u) - n
  <2>1. k \in 0 .. Len(u) - n /\ n + k = Len(u)
    BY <1>1
  <2> HIDE DEF k
  <2>2. SubSeq(b, 1, n + k) = b /\ SubSeq(c, 1, k) = c
    BY <1>1, <1>4, <2>1 DEF k
  <2>3. QED
    BY <1>6, <2>1, <2>2
<1>8. QED
  BY <1>2, <1>3, <1>5, <1>6, <1>7 DEF b, p, v, c

(* What one round hands on.                                                *)
LEMMA PieceType ==
  ASSUME IncomingType, NEW n \in 1 .. PieceSize, HandlePiece(n)
  PROVE  LET piece == SubSeq(Bytes(unread), 1, n)
         IN  /\ n \in 1 .. Len(unread)
             /\ piece \in Seq(Char)
             /\ heard' = heard \o Stripped(piece)
             /\ \/ /\ viewport' = viewport \o CString(piece)
                   /\ shortened' = (shortened \/ NUL \in ToSet(piece))
                \/ viewport' = viewport \o piece /\ shortened' = shortened
             /\ received' = received \o piece
             /\ split' = (split \/ unread[n].inside)
             /\ unread' = SubSeq(unread, n + 1, Len(unread))
             /\ written' = written
<1>1. n \in 1 .. Len(unread) /\ unread \in Seq(Received)
  BY PieceAssumption DEF HandlePiece, IncomingType
<1>2. /\ [i \in 1 .. n |-> unread[i].byte] = SubSeq(Bytes(unread), 1, n)
      /\ SubSeq(Bytes(unread), 1, n) \in Seq(Char)
  BY <1>1, PieceOff
<1> DEFINE q == [i \in 1 .. n |-> unread[i].byte]
           p == SubSeq(Bytes(unread), 1, n)
<1>3. /\ InputHook(q) /\ TransformHook(q)
      /\ received' = received \o q
      /\ split' = (split \/ unread[n].inside)
      /\ unread' = SubSeq(unread, n + 1, Len(unread))
      /\ written' = written
  BY DEF HandlePiece
<1>4. q = p
  BY <1>2
<1> HIDE DEF q, p
<1>5. /\ heard' = heard \o Stripped(p)
      /\ \/ /\ viewport' = viewport \o CString(p)
            /\ shortened' = (shortened \/ NUL \in ToSet(p))
         \/ viewport' = viewport \o p /\ shortened' = shortened
      /\ received' = received \o p
  BY <1>3, <1>4, Zenon DEF InputHook, TransformHook, IfTransformFails
<1>6. p \in Seq(Char)
  BY <1>2 DEF p
<1>7. QED
  BY <1>1, <1>3, <1>5, <1>6, Zenon DEF p

LEMMA StrippedType ==
  ASSUME NEW s \in Seq(Char)
  PROVE  Stripped(s) \in Seq(Char) /\ Stripped(s) = Strip(Heard(<<>>), s).out
<1>1. <<>> \in Seq(Char)
  OBVIOUS
<1>2. Strip(Heard(<<>>), s) \in StripState
  BY <1>1, HeardType, StripType
<1>3. Stripped(s) = Strip(Heard(<<>>), s).out
  BY DEF Stripped, Strip, Heard
<1>4. QED
  BY <1>2, <1>3 DEF StripState

(* What the server writes is unread behind the rest.                       *)
LEMMA WrittenBytes ==
  ASSUME IncomingType, NEW item \in Items, ServerWrites(item)
  PROVE  /\ unread' \in Seq(Received)
         /\ Len(unread') = Len(unread) + Len(item.bytes)
         /\ Bytes(unread') = Bytes(unread) \o item.bytes
         /\ \A k \in 1 .. Len(unread) : unread'[k] = unread[k]
         /\ \A k \in 1 .. Len(item.bytes) :
              unread'[Len(unread) + k].inside = (item.escape /\ k < Len(item.bytes))
         /\ written' = Append(written, item)
         /\ UNCHANGED <<heard, viewport, received, split, shortened>>
<1> DEFINE s == item.bytes
           w == [i \in DOMAIN s |-> [byte |-> s[i], inside |-> item.escape /\ i < Len(s)]]
           u == unread
           v == u \o w
           m == Len(u)
           l == Len(s)
<1>1. /\ unread' = v
      /\ written' = Append(written, item)
      /\ UNCHANGED <<heard, viewport, received, split, shortened>>
  BY DEF ServerWrites
<1>2. s \in Seq(Char) /\ item.escape \in BOOLEAN /\ u \in Seq(Received)
  BY StripItem DEF IncomingType
<1>3. l \in Nat /\ m \in Nat /\ DOMAIN s = 1 .. l /\ \A i \in 1 .. l : s[i] \in Char
  BY <1>2
<1>4. /\ w \in Seq(Received) /\ Len(w) = l
      /\ \A i \in 1 .. l : w[i].byte = s[i] /\ w[i].inside = (item.escape /\ i < l)
  <2>1. \A i \in 1 .. l : [byte |-> s[i], inside |-> item.escape /\ i < l] \in Received
    BY <1>2, <1>3 DEF Received
  <2>2. w = [i \in 1 .. l |-> [byte |-> s[i], inside |-> item.escape /\ i < l]]
    BY <1>3
  <2>3. w \in Seq(Received) /\ Len(w) = l
    BY <1>3, <2>1, <2>2
  <2>4. QED
    BY <2>2, <2>3
<1> HIDE DEF w
<1>5. /\ v \in Seq(Received) /\ Len(v) = m + l
      /\ \A k \in 1 .. m : v[k] = u[k]
      /\ \A k \in 1 .. l : v[m + k] = w[k]
  <2>1. v \in Seq(Received) /\ Len(v) = m + l
    <3>1. v \in Seq(Received) /\ Len(v) = Len(u) + Len(w)
      <4>1. u \in Seq(Received) /\ w \in Seq(Received)
        BY <1>2, <1>4
      <4> HIDE DEF u
      <4>2. QED
        BY <4>1, ConcatProperties
    <3> HIDE DEF v
    <3>2. QED
      BY <1>4, <3>1
  <2>2. \A k \in 1 .. m : v[k] = u[k]
    BY <1>2, <1>4
  <2>3. ASSUME NEW k \in 1 .. l
        PROVE  v[m + k] = w[k]
    <3>1. m + k \in 1 .. m + l /\ m + k > m /\ (m + k) - m = k
      BY <1>3
    <3>2. v[m + k] = IF m + k <= Len(u) THEN u[m + k] ELSE w[(m + k) - Len(u)]
      BY <1>2, <1>4, <3>1
    <3>3. QED
      BY <1>3, <3>1, <3>2
  <2>4. QED
    BY <2>1, <2>2, <2>3
<1> HIDE DEF v, s, u, m, l
<1>6. Bytes(v) = Bytes(u) \o s
  <2> DEFINE x == Bytes(v)
             b == Bytes(u)
             y == b \o s
  <2>1. x \in Seq(Char) /\ Len(x) = m + l /\ \A i \in 1 .. m + l : x[i] = v[i].byte
    BY <1>5, BytesType
  <2>2. b \in Seq(Char) /\ Len(b) = m /\ \A i \in 1 .. m : b[i] = u[i].byte
    BY <1>2, BytesType DEF m
  <2> HIDE DEF x, b
  <2>3. y \in Seq(Char) /\ Len(y) = m + l
    BY <1>2, <2>2, ConcatProperties DEF l
  <2>4. ASSUME NEW i \in 1 .. m + l
        PROVE  x[i] = y[i]
    <3>1. CASE i \in 1 .. m
      <4>1. y[i] = b[i]
        BY <1>2, <2>2, <3>1
      <4>2. QED
        BY <1>5, <2>1, <2>2, <3>1, <4>1
    <3>2. CASE i \notin 1 .. m
      <4>1. i - m \in 1 .. l /\ m + (i - m) = i /\ ~(i <= m)
        BY <1>3, <3>2
      <4>2. y[i] = s[i - m]
        BY <1>2, <1>3, <2>2, <3>2, <4>1 DEF l
      <4>3. v[i] = w[i - m] /\ w[i - m].byte = s[i - m]
        BY <1>4, <1>5, <4>1
      <4>4. QED
        BY <2>1, <4>2, <4>3
    <3>3. QED
      BY <3>1, <3>2
  <2> HIDE DEF y
  <2>5. x = y
    BY <2>1, <2>3, <2>4, SeqEqual
  <2>6. QED
    BY <2>5 DEF x, y, b
<1>7. \A k \in 1 .. l : v[m + k].inside = (item.escape /\ k < l)
  BY <1>4, <1>5
<1>8. QED
  BY <1>1, <1>5, <1>6, <1>7 DEF s, u, m, l

LEMMA IncomingTypeInit == Init => IncomingType
<1>1. <<>> \in Seq(Items) /\ <<>> \in Seq(Received) /\ <<>> \in Seq(Char)
  OBVIOUS
<1>2. QED
  BY <1>1 DEF Init, IncomingType

LEMMA IncomingTypeNext == IncomingType /\ [Next]_vars => IncomingType'
<1> SUFFICES ASSUME IncomingType, [Next]_vars
             PROVE  IncomingType'
  OBVIOUS
<1>1. ASSUME NEW item \in Items, ServerWrites(item)
      PROVE  IncomingType'
  <2>1. /\ unread' \in Seq(Received)
        /\ written' = Append(written, item)
        /\ UNCHANGED <<heard, viewport, received, split, shortened>>
    BY <1>1, WrittenBytes
  <2>2. written' \in Seq(Items)
    BY <2>1 DEF IncomingType
  <2>3. QED
    BY <2>1, <2>2 DEF IncomingType
<1>2. ASSUME NEW n \in 1 .. PieceSize, HandlePiece(n)
      PROVE  IncomingType'
  <2> DEFINE p == SubSeq(Bytes(unread), 1, n)
  <2>1. /\ n \in 1 .. Len(unread) /\ p \in Seq(Char)
        /\ heard' = heard \o Stripped(p)
        /\ \/ /\ viewport' = viewport \o CString(p)
              /\ shortened' = (shortened \/ NUL \in ToSet(p))
           \/ viewport' = viewport \o p /\ shortened' = shortened
        /\ received' = received \o p
        /\ split' = (split \/ unread[n].inside)
        /\ unread' = SubSeq(unread, n + 1, Len(unread))
        /\ written' = written
    BY <1>2, PieceType
  <2> HIDE DEF p
  <2>2. Stripped(p) \in Seq(Char) /\ CString(p) \in Seq(Char)
    BY <2>1, StrippedType, WholeCString
  <2>3. unread \in Seq(Received) /\ unread[n] \in Received
    BY <2>1 DEF IncomingType
  <2>4. unread' \in Seq(Received)
    BY <2>1, <2>3, PieceOff
  <2>5. heard' \in Seq(Char) /\ viewport' \in Seq(Char) /\ received' \in Seq(Char)
    <3>1. heard \in Seq(Char) /\ viewport \in Seq(Char) /\ received \in Seq(Char)
      BY DEF IncomingType
    <3>2. /\ heard \o Stripped(p) \in Seq(Char)
          /\ viewport \o CString(p) \in Seq(Char)
          /\ viewport \o p \in Seq(Char)
          /\ received \o p \in Seq(Char)
      BY <2>1, <2>2, <3>1, ConcatProperties
    <3>3. QED
      BY <2>1, <3>2
  <2>6. shortened' \in BOOLEAN /\ split' \in BOOLEAN
    BY <2>1, <2>3 DEF IncomingType, Received
  <2>7. QED
    BY <2>1, <2>4, <2>5, <2>6 DEF IncomingType
<1>3. CASE UNCHANGED vars
  BY <1>3 DEF vars, IncomingType
<1>4. QED
  BY <1>1, <1>2, <1>3 DEF Next

LEMMA IncomingTyped == Spec => []IncomingType
<1>1. Init => IncomingType
  BY IncomingTypeInit
<1>2. IncomingType /\ [Next]_vars => IncomingType'
  BY IncomingTypeNext
<1>3. QED
  BY <1>1, <1>2, PTL DEF Spec

(* The viewport shows every byte that was received, in order, whether the  *)
(* transform hook's handler works or fails, as long as no piece with a NUL *)
(* byte went through it as a C string: for every text of the server and    *)
(* every cut of it.                                                        *)
THEOREM ViewportShowsAll == Spec => []ShownIsReceived
<1>1. Init => ShownIsReceived
  BY DEF Init, ShownIsReceived
<1>2. IncomingType /\ ShownIsReceived /\ [Next]_vars => ShownIsReceived'
  <2> SUFFICES ASSUME IncomingType, ShownIsReceived, [Next]_vars, ~shortened'
               PROVE  viewport' = received'
    BY DEF ShownIsReceived
  <2>1. ASSUME NEW item \in Items, ServerWrites(item)
        PROVE  viewport' = received'
    BY <2>1 DEF ServerWrites, ShownIsReceived
  <2>2. ASSUME NEW n \in 1 .. PieceSize, HandlePiece(n)
        PROVE  viewport' = received'
    <3> DEFINE p == SubSeq(Bytes(unread), 1, n)
    <3>1. /\ p \in Seq(Char)
          /\ \/ /\ viewport' = viewport \o CString(p)
                /\ shortened' = (shortened \/ NUL \in ToSet(p))
             \/ viewport' = viewport \o p /\ shortened' = shortened
          /\ received' = received \o p
      BY <2>2, PieceType
    <3> HIDE DEF p
    <3>2. NUL \notin ToSet(p) => CString(p) = p
      BY <3>1, WholeCString
    <3>3. ~shortened /\ viewport = received
      <4>1. ~shortened
        BY <3>1, Zenon
      <4>2. QED
        BY <4>1 DEF ShownIsReceived
    <3>4. QED
      BY <3>1, <3>2, <3>3
  <2>3. CASE UNCHANGED vars
    BY <2>3 DEF vars, ShownIsReceived
  <2>4. QED
    BY <2>1, <2>2, <2>3 DEF Next
<1>3. QED
  BY <1>1, <1>2, IncomingTyped, PTL DEF Spec

(* The text of what was written.                                           *)
Plains(w) == FlattenSeq([i \in DOMAIN w |-> w[i].plain])

(* A map over a sequence, element by element.                              *)
LEMMA MapAppend ==
  ASSUME NEW D, NEW E, NEW f \in [D -> E], NEW s \in Seq(D), NEW b \in D
  PROVE  /\ [i \in DOMAIN s |-> f[s[i]]] \in Seq(E)
         /\ [i \in DOMAIN Append(s, b) |-> f[Append(s, b)[i]]]
              = Append([i \in DOMAIN s |-> f[s[i]]], f[b])
<1> DEFINE t == Append(s, b)
           x == [i \in DOMAIN s |-> f[s[i]]]
           y == [i \in DOMAIN t |-> f[t[i]]]
<1>1. /\ t \in Seq(D) /\ Len(t) = Len(s) + 1 /\ Len(s) \in Nat
      /\ DOMAIN s = 1 .. Len(s) /\ DOMAIN t = 1 .. Len(s) + 1
      /\ \A i \in 1 .. Len(s) : t[i] = s[i] /\ s[i] \in D
      /\ t[Len(s) + 1] = b
  OBVIOUS
<1> HIDE DEF t
<1>2. \A i \in 1 .. Len(s) + 1 : t[i] \in D
  BY <1>1
<1>3. x \in Seq(E) /\ Len(x) = Len(s) /\ \A i \in 1 .. Len(s) : x[i] = f[s[i]]
  BY <1>1
<1>4. y \in Seq(E) /\ Len(y) = Len(s) + 1 /\ \A i \in 1 .. Len(s) + 1 : y[i] = f[t[i]]
  BY <1>1, <1>2
<1>5. f[b] \in E
  OBVIOUS
<1> HIDE DEF x, y
<1>6. /\ Append(x, f[b]) \in Seq(E) /\ Len(Append(x, f[b])) = Len(s) + 1
      /\ \A i \in 1 .. Len(s) : Append(x, f[b])[i] = x[i]
      /\ Append(x, f[b])[Len(s) + 1] = f[b]
  BY <1>1, <1>3, <1>5
<1>7. \A i \in 1 .. Len(s) + 1 : Append(x, f[b])[i] = y[i]
  BY <1>1, <1>3, <1>4, <1>6
<1>8. y = Append(x, f[b])
  BY <1>4, <1>6, <1>7, SeqEqual
<1>9. QED
  BY <1>3, <1>8 DEF x, y, t

LEMMA PlainsAppend ==
  ASSUME NEW w \in Seq(Items), NEW item \in Items
  PROVE  /\ Plains(w) \in Seq(Char)
         /\ Plains(Append(w, item)) = Plains(w) \o item.plain
<1> DEFINE f == [x \in Items |-> x.plain]
           E == Seq(Char)
           m(s) == [i \in DOMAIN s |-> f[s[i]]]
<1>1. f \in [Items -> E] /\ f[item] = item.plain /\ f[item] \in E
  BY StripItem
<1>2. \A s \in Seq(Items) : [i \in DOMAIN s |-> s[i].plain] = m(s)
  OBVIOUS
<1>3. \A s \in Seq(Items) : Plains(s) = FlattenSeq(m(s))
  <2> SUFFICES ASSUME NEW s \in Seq(Items)
               PROVE  Plains(s) = FlattenSeq(m(s))
    OBVIOUS
  <2>1. [i \in DOMAIN s |-> s[i].plain] = m(s)
    BY <1>2
  <2> HIDE DEF m
  <2>2. QED
    BY <2>1 DEF Plains
<1>4. Append(w, item) \in Seq(Items)
  OBVIOUS
<1>5. m(w) \in Seq(E) /\ m(Append(w, item)) = Append(m(w), f[item])
  <2> HIDE DEF f, E
  <2>1. QED
    BY <1>1, MapAppend
<1> HIDE DEF m, f
<1>6. FlattenSeq(m(w)) \in Seq(Char) /\ FlattenSeq(Append(m(w), f[item])) = FlattenSeq(m(w)) \o f[item]
  BY <1>1, <1>5, FlattenType, FlattenAppend
<1>7. QED
  BY <1>1, <1>3, <1>4, <1>5, <1>6

(* What the hook has heard and is still to hear is the text of what was    *)
(* written, and a piece that does not end inside a sequence ends in plain  *)
(* text.                                                                   *)
EndsInText(u) ==
  \A n \in 1 .. Len(u) :
    ~u[n].inside => Strip(Heard(<<>>), SubSeq(Bytes(u), 1, n)).mode = "text"

HeardInv ==
  ~split => /\ Strip(Heard(heard), Bytes(unread)) = Heard(Plains(written))
            /\ EndsInText(unread)

LEMMA HeardInit == Init => HeardInv
<1> SUFFICES ASSUME Init
             PROVE  HeardInv
  OBVIOUS
<1>1. unread = <<>> /\ heard = <<>> /\ written = <<>>
  BY DEF Init
<1>2. Bytes(<<>>) = <<>> /\ Plains(<<>>) = <<>> /\ EndsInText(<<>>)
  <2>1. Bytes(<<>>) = <<>> /\ EndsInText(<<>>)
    BY DEF Bytes, EndsInText
  <2>2. Plains(<<>>) = <<>>
    BY DEF Plains, FlattenSeq
  <2>3. QED
    BY <2>1, <2>2
<1>3. Strip(Heard(<<>>), <<>>) = Heard(<<>>)
  <2>1. <<>> \in Seq(Char)
    OBVIOUS
  <2>2. QED
    BY <2>1, HeardType, StripEmpty
<1>4. QED
  BY <1>1, <1>2, <1>3 DEF HeardInv

(* In plain text, and only there, the loop goes on as from its start.      *)
LEMMA StripOn ==
  ASSUME NEW s \in Seq(Char), NEW t \in Seq(Char), Strip(Heard(<<>>), s).mode = "text"
  PROVE  Strip(Heard(<<>>), s \o t).mode = Strip(Heard(<<>>), t).mode
<1> DEFINE o == Strip(Heard(<<>>), s).out
<1>1. <<>> \in Seq(Char) /\ Heard(<<>>) \in StripState
  <2>1. <<>> \in Seq(Char)
    OBVIOUS
  <2>2. QED
    BY <2>1, HeardType
<1>2. o \in Seq(Char) /\ Strip(Heard(<<>>), s) = Heard(o)
  <2>1. Strip(Heard(<<>>), s) \in StripState
    BY <1>1, StripType
  <2>2. QED
    BY <2>1 DEF StripState, Heard
<1> HIDE DEF o
<1>3. Strip(Heard(<<>>), s \o t) = Strip(Heard(o), t)
  BY <1>1, <1>2, StripConcat
<1>4. Strip(Heard(o), t) = [mode |-> Strip(Heard(<<>>), t).mode,
                            out |-> o \o Strip(Heard(<<>>), t).out]
  BY <1>2, StripBehind
<1>5. QED
  BY <1>3, <1>4

LEMMA HeardWrites ==
  ASSUME IncomingType, HeardInv, NEW item \in Items, ServerWrites(item)
  PROVE  HeardInv'
<1> DEFINE u == unread
           b == Bytes(u)
           s == item.bytes
           m == Len(u)
           l == Len(s)
<1>1. /\ unread' \in Seq(Received) /\ Len(unread') = m + l
      /\ Bytes(unread') = b \o s
      /\ \A k \in 1 .. m : unread'[k] = u[k]
      /\ \A k \in 1 .. l : unread'[m + k].inside = (item.escape /\ k < l)
      /\ written' = Append(written, item)
      /\ heard' = heard /\ split' = split
  BY WrittenBytes
<1>2. /\ s \in Seq(Char) /\ item.plain \in Seq(Char) /\ item.escape \in BOOLEAN
      /\ Strip(Heard(<<>>), s) = Heard(item.plain)
      /\ \A k \in 1 .. l : ~(item.escape /\ k < l) =>
           Strip(Heard(<<>>), SubSeq(s, 1, k)).mode = "text"
  BY StripItem
<1>3. u \in Seq(Received) /\ heard \in Seq(Char) /\ written \in Seq(Items)
      /\ b \in Seq(Char) /\ Len(b) = m /\ m \in Nat /\ l \in Nat
  BY <1>2, BytesType DEF IncomingType
<1>4. SUFFICES ASSUME ~split
               PROVE  /\ Strip(Heard(heard), b \o s) = Heard(Plains(Append(written, item)))
                      /\ EndsInText(unread')
  BY <1>1 DEF HeardInv
<1>5. Strip(Heard(heard), b) = Heard(Plains(written)) /\ EndsInText(u)
  BY <1>4 DEF HeardInv
<1>6. Plains(written) \in Seq(Char)
      /\ Plains(Append(written, item)) = Plains(written) \o item.plain
  BY <1>3, PlainsAppend
<1> HIDE DEF u, b, s, m, l
<1>7. Strip(Heard(heard), b \o s) = Heard(Plains(Append(written, item)))
  <2>1. Strip(Heard(heard), b \o s) = Strip(Strip(Heard(heard), b), s)
    BY <1>2, <1>3, HeardType, StripConcat
  <2>2. Strip(Heard(Plains(written)), s)
          = [mode |-> Strip(Heard(<<>>), s).mode,
             out |-> Plains(written) \o Strip(Heard(<<>>), s).out]
    BY <1>2, <1>6, StripBehind
  <2>3. Heard(item.plain).mode = "text" /\ Heard(item.plain).out = item.plain
    BY DEF Heard
  <2>4. QED
    BY <1>2, <1>5, <1>6, <2>1, <2>2, <2>3 DEF Heard
<1>8. Strip(Heard(<<>>), b).mode = "text"
  <2>1. Strip(Heard(heard), b).mode = Strip(Heard(<<>>), b).mode
    BY <1>3, StripBehind
  <2>2. QED
    BY <1>5, <2>1 DEF Heard
<1>9. ASSUME NEW n \in 1 .. Len(unread'), ~unread'[n].inside
      PROVE  Strip(Heard(<<>>), SubSeq(Bytes(unread'), 1, n)).mode = "text"
  <2>1. CASE n \in 1 .. m
    <3>1. SubSeq(b \o s, 1, n) = SubSeq(b, 1, n)
      BY <1>2, <1>3, <2>1
    <3>2. ~u[n].inside
      BY <1>1, <1>9, <2>1
    <3>3. Strip(Heard(<<>>), SubSeq(b, 1, n)).mode = "text"
      BY <1>5, <2>1, <3>2 DEF EndsInText, m, b
    <3>4. QED
      BY <1>1, <3>1, <3>3
  <2>2. CASE n \notin 1 .. m
    <3> DEFINE k == n - m
    <3>1. k \in 1 .. l /\ m + k = n
      BY <1>1, <1>3, <2>2
    <3> HIDE DEF k
    <3>2. SubSeq(b \o s, 1, m + k) = b \o SubSeq(s, 1, k) /\ SubSeq(s, 1, k) \in Seq(Char)
      <4>1. k \in 0 .. Len(s)
        BY <1>3, <3>1 DEF l
      <4>2. SubSeq(b \o s, 1, Len(b) + k) = b \o SubSeq(s, 1, k)
        BY <1>2, <1>3, <4>1, PrefixConcat
      <4>3. SubSeq(s, 1, k) \in Seq(Char)
        BY <1>2, <4>1, PrefixOf
      <4>4. QED
        BY <1>3, <4>2, <4>3
    <3>3. ~(item.escape /\ k < l)
      BY <1>1, <1>9, <3>1
    <3>4. Strip(Heard(<<>>), SubSeq(s, 1, k)).mode = "text"
      BY <1>2, <3>1, <3>3
    <3>5. Strip(Heard(<<>>), b \o SubSeq(s, 1, k)).mode = "text"
      BY <1>3, <1>8, <3>2, <3>4, StripOn
    <3>6. QED
      BY <1>1, <3>1, <3>2, <3>5
  <2>3. QED
    BY <2>1, <2>2
<1>10. QED
  BY <1>7, <1>9 DEF EndsInText

LEMMA HeardHandles ==
  ASSUME IncomingType, HeardInv, NEW n \in 1 .. PieceSize, HandlePiece(n)
  PROVE  HeardInv'
<1> DEFINE u == unread
           v == SubSeq(u, n + 1, Len(u))
           b == Bytes(u)
           c == Bytes(v)
           p == SubSeq(b, 1, n)
<1>1. /\ n \in 1 .. Len(u) /\ p \in Seq(Char)
      /\ heard' = heard \o Stripped(p)
      /\ split' = (split \/ u[n].inside)
      /\ unread' = v
      /\ written' = written
  BY PieceType
<1>2. /\ u \in Seq(Received) /\ heard \in Seq(Char) /\ written \in Seq(Items)
      /\ Len(u) \in Nat /\ split \in BOOLEAN
  BY DEF IncomingType
<1>3. /\ v \in Seq(Received) /\ Len(v) = Len(u) - n
      /\ \A k \in 1 .. Len(u) - n : v[k] = u[n + k]
      /\ b = p \o c
      /\ \A k \in 0 .. Len(u) - n : SubSeq(b, 1, n + k) = p \o SubSeq(c, 1, k)
  BY <1>1, <1>2, PieceOff
<1>4. SUFFICES ASSUME ~split, ~u[n].inside
               PROVE  /\ Strip(Heard(heard \o Stripped(p)), c) = Heard(Plains(written))
                      /\ EndsInText(v)
  <2>1. ~split' => ~split /\ ~u[n].inside
    BY <1>1, Zenon
  <2>2. QED
    BY <1>1, <1>4, <2>1 DEF HeardInv
<1>5. Strip(Heard(heard), b) = Heard(Plains(written)) /\ EndsInText(u)
  BY <1>4 DEF HeardInv
<1>6. c \in Seq(Char) /\ Len(c) = Len(v)
  BY <1>3, BytesType
<1>7. Strip(Heard(<<>>), p).mode = "text"
  BY <1>1, <1>4, <1>5 DEF EndsInText
<1> HIDE DEF u, v, b, c, p
<1>8. Strip(Heard(heard \o Stripped(p)), c) = Heard(Plains(written))
  <2>1. Stripped(p) \in Seq(Char) /\ Stripped(p) = Strip(Heard(<<>>), p).out
    BY <1>1, StrippedType
  <2>2. Strip(Heard(heard), p) = [mode |-> Strip(Heard(<<>>), p).mode,
                                  out |-> heard \o Strip(Heard(<<>>), p).out]
    BY <1>1, <1>2, StripBehind
  <2>3. Strip(Heard(heard), p) = Heard(heard \o Stripped(p))
    BY <1>7, <2>1, <2>2 DEF Heard
  <2>4. Strip(Heard(heard), p \o c) = Strip(Strip(Heard(heard), p), c)
    BY <1>1, <1>2, <1>6, HeardType, StripConcat
  <2>5. QED
    BY <1>3, <1>5, <2>3, <2>4
<1>9. ASSUME NEW k \in 1 .. Len(v), ~v[k].inside
      PROVE  Strip(Heard(<<>>), SubSeq(c, 1, k)).mode = "text"
  <2>1. /\ k \in 1 .. Len(u) - n /\ k \in 0 .. Len(u) - n /\ k \in 0 .. Len(c)
        /\ n + k \in 1 .. Len(u)
    BY <1>1, <1>2, <1>3, <1>6
  <2>2. ~u[n + k].inside
    BY <1>3, <1>9, <2>1
  <2>3. Strip(Heard(<<>>), SubSeq(b, 1, n + k)).mode = "text"
    BY <1>5, <2>1, <2>2 DEF EndsInText, b
  <2>4. SubSeq(b, 1, n + k) = p \o SubSeq(c, 1, k)
    BY <1>3, <2>1
  <2>5. SubSeq(c, 1, k) \in Seq(Char)
    BY <1>6, <2>1, PrefixOf
  <2>6. Strip(Heard(<<>>), p \o SubSeq(c, 1, k)).mode = Strip(Heard(<<>>), SubSeq(c, 1, k)).mode
    BY <1>1, <1>7, <2>5, StripOn
  <2>7. QED
    BY <2>3, <2>4, <2>6
<1>10. QED
  BY <1>8, <1>9 DEF EndsInText, c

(* The hook hears the text that the server wrote, without escape sequences *)
(* and control bytes, however the network cut it, as long as no cut went   *)
(* through an escape sequence: for every text, every ECMA-48 sequence and  *)
(* every length of the pieces.                                             *)
THEOREM HookHearsPlainText == Spec => []HeardIsPlain
<1>1. Init => HeardInv
  BY HeardInit
<1>2. IncomingType /\ HeardInv /\ [Next]_vars => HeardInv'
  <2> SUFFICES ASSUME IncomingType, HeardInv, [Next]_vars
               PROVE  HeardInv'
    OBVIOUS
  <2>1. CASE UNCHANGED vars
    BY <2>1 DEF vars, HeardInv, EndsInText
  <2>2. QED
    BY <2>1, HeardWrites, HeardHandles DEF Next
<1>3. IncomingType /\ HeardInv => HeardIsPlain
  <2> SUFFICES ASSUME IncomingType, HeardInv, unread = <<>>, ~split
               PROVE  heard = Plains(written)
    BY DEF HeardIsPlain, Plains
  <2>1. Strip(Heard(heard), Bytes(<<>>)) = Heard(Plains(written))
    BY DEF HeardInv
  <2>2. Bytes(<<>>) = <<>> /\ heard \in Seq(Char)
    BY DEF Bytes, IncomingType
  <2>3. Heard(heard) = Heard(Plains(written))
    BY <2>1, <2>2, HeardType, StripEmpty
  <2>4. QED
    BY <2>3 DEF Heard
<1>4. QED
  BY <1>1, <1>2, <1>3, IncomingTyped, PTL DEF Spec

-----------------------------------------------------------------------------
(* The client's text (module TelnetOut).  The server's parser, from one of *)
(* its states.                                                             *)
ParserState ==
  [mode : {"data", "iac", "option", "sub", "subiac"}, text : Seq(Byte), sub : Seq(Byte),
   sizes : Seq(Nat \X Nat)]

LEMMA UnderstandType ==
  ASSUME NEW p \in ParserState, NEW b \in Byte
  PROVE  Understand(p, b) \in ParserState
<1>1. /\ p.text \in Seq(Byte) /\ p.sub \in Seq(Byte) /\ p.sizes \in Seq(Nat \X Nat)
      /\ p = [mode |-> p.mode, text |-> p.text, sub |-> p.sub, sizes |-> p.sizes]
  BY DEF ParserState
<1>2. Append(p.text, b) \in Seq(Byte) /\ Append(p.sub, b) \in Seq(Byte) /\ <<>> \in Seq(Byte)
  BY <1>1
<1>3. Len(p.sub) = 5 => Append(p.sizes, SizeTold(p.sub)) \in Seq(Nat \X Nat)
  <2> SUFFICES ASSUME Len(p.sub) = 5
               PROVE  Append(p.sizes, SizeTold(p.sub)) \in Seq(Nat \X Nat)
    OBVIOUS
  <2>1. \A i \in 1 .. 5 : p.sub[i] \in 0 .. 255
    <3>1. \A i \in 1 .. 5 : p.sub[i] \in Byte
      BY <1>1
    <3>2. QED
      BY <3>1 DEF Byte
  <2>2. p.sub[2] \in 0 .. 255 /\ p.sub[3] \in 0 .. 255 /\ p.sub[4] \in 0 .. 255 /\ p.sub[5] \in 0 .. 255
    BY <2>1
  <2>3. 256 * p.sub[2] + p.sub[3] \in Nat /\ 256 * p.sub[4] + p.sub[5] \in Nat
    <3>1. \A x, y \in 0 .. 255 : 256 * x + y \in Nat
      OBVIOUS
    <3>2. QED
      BY <2>2, <3>1
  <2>4. SizeTold(p.sub) \in Nat \X Nat
    BY <2>3 DEF SizeTold
  <2>5. QED
    BY <1>1, <2>4
<1> DEFINE M == {"data", "iac", "option", "sub", "subiac"}
<1>4. /\ \A m \in M : [p EXCEPT !.mode = m] \in ParserState
      /\ [p EXCEPT !.text = Append(@, b)] \in ParserState
      /\ \A m \in M : [p EXCEPT !.mode = m, !.text = Append(@, b)] \in ParserState
      /\ \A m \in M : [p EXCEPT !.mode = m, !.sub = <<>>] \in ParserState
      /\ [p EXCEPT !.sub = Append(@, b)] \in ParserState
      /\ \A m \in M : [p EXCEPT !.mode = m, !.sub = Append(@, b)] \in ParserState
  BY <1>1, <1>2 DEF ParserState
<1>5. [p EXCEPT !.mode = "data",
         !.sizes = IF Len(p.sub) = 5 /\ p.sub[1] = OPT_NAWS
                   THEN Append(@, SizeTold(p.sub)) ELSE @] \in ParserState
  BY <1>1, <1>3 DEF ParserState
<1>6. QED
  BY <1>4, <1>5 DEF Understand

UnderstandStep == [b \in Byte |-> [p \in ParserState |-> Understand(p, b)]]

LEMMA ReadsRun ==
  /\ Loop(UnderstandStep, Byte, ParserState)
  /\ \A b \in Byte, p \in ParserState : UnderstandStep[b][p] = Understand(p, b)
  /\ \A from \in ParserState, s \in Seq(Byte) :
       Reads(from, s) = Run(UnderstandStep, ParserState, from, s)
<1>1. Loop(UnderstandStep, Byte, ParserState)
  BY UnderstandType DEF UnderstandStep, Loop
<1>2. \A b \in Byte, p \in ParserState : UnderstandStep[b][p] = Understand(p, b)
  BY DEF UnderstandStep
<1>3. ASSUME NEW from \in ParserState, NEW s \in Seq(Byte)
      PROVE  Reads(from, s) = Run(UnderstandStep, ParserState, from, s)
  <2> DEFINE P == SUBSET DOMAIN s
             Good(f) == f = [S \in P |->
                               IF S = {} THEN from ELSE Understand(f[S \ {Max(S)}], s[Max(S)])]
             c == CHOOSE f : Good(f)
  <2>1. Reads(from, s) = c[DOMAIN s]
    BY DEF Reads, FoldLeft, MapThenFoldSet
  <2>2. \A i \in DOMAIN s : s[i] \in Byte
    OBVIOUS
  <2>3. \E f : Good(f)
    <3>1. PICK f \in [SUBSET DOMAIN s -> ParserState] : FoldOf(f, UnderstandStep, from, s)
      BY <1>1, RunFold
    <3>2. ASSUME NEW S \in P
          PROVE  f[S] = IF S = {} THEN from ELSE Understand(f[S \ {Max(S)}], s[Max(S)])
      <4>1. f[S \ {Max(S)}] \in ParserState
        OBVIOUS
      <4>2. QED
        BY <1>2, <2>2, <3>1, <4>1 DEF FoldOf
    <3>3. f = [S \in P |-> f[S]]
      OBVIOUS
    <3>4. Good(f)
      BY <3>2, <3>3
    <3> HIDE DEF Good
    <3>5. QED
      BY <3>4
  <2>4. Good(c)
    <3> HIDE DEF Good
    <3>1. QED
      BY <2>3
  <2> HIDE DEF c
  <2>5. c[{}] = from
    BY <2>4
  <2>6. ASSUME NEW S \in SUBSET DOMAIN s, S # {}, Max(S) \in DOMAIN s, c[S \ {Max(S)}] \in ParserState
        PROVE  c[S] = UnderstandStep[s[Max(S)]][c[S \ {Max(S)}]]
    <3>1. c[S] = Understand(c[S \ {Max(S)}], s[Max(S)])
      BY <2>4, <2>6
    <3>2. QED
      BY <1>2, <2>2, <2>6, <3>1
  <2> HIDE DEF Good, P
  <2>7. c[DOMAIN s] = Run(UnderstandStep, ParserState, from, s)
    <3>1. LoopsAs(c, UnderstandStep, ParserState, from, s)
      BY <2>5, <2>6 DEF LoopsAs
    <3>2. QED
      BY <1>1, <3>1, LoopEnds
  <2>8. QED
    BY <2>1, <2>7
<1>4. QED
  BY <1>1, <1>2, <1>3

LEMMA ReadsEmpty ==
  ASSUME NEW from \in ParserState
  PROVE  Reads(from, <<>>) = from
<1>1. <<>> \in Seq(Byte)
  OBVIOUS
<1>2. QED
  BY <1>1, ReadsRun, RunEmpty

LEMMA ReadsType ==
  ASSUME NEW from \in ParserState, NEW s \in Seq(Byte)
  PROVE  Reads(from, s) \in ParserState
BY ReadsRun, RunType

LEMMA ReadsAppend ==
  ASSUME NEW from \in ParserState, NEW s \in Seq(Byte), NEW b \in Byte
  PROVE  Reads(from, Append(s, b)) = Understand(Reads(from, s), b)
<1>1. Append(s, b) \in Seq(Byte)
  OBVIOUS
<1>2. Run(UnderstandStep, ParserState, from, Append(s, b))
        = UnderstandStep[b][Run(UnderstandStep, ParserState, from, s)]
  BY ReadsRun, RunAppend
<1>3. QED
  BY <1>1, <1>2, ReadsRun, ReadsType

LEMMA ReadsConcat ==
  ASSUME NEW from \in ParserState, NEW s \in Seq(Byte), NEW t \in Seq(Byte)
  PROVE  Reads(from, s \o t) = Reads(Reads(from, s), t)
<1>1. s \o t \in Seq(Byte) /\ Reads(from, s) \in ParserState
  BY ReadsType
<1>2. Run(UnderstandStep, ParserState, from, s \o t)
        = Run(UnderstandStep, ParserState, Run(UnderstandStep, ParserState, from, s), t)
  BY ReadsRun, RunConcat
<1>3. QED
  BY <1>1, <1>2, ReadsRun

LEMMA ReadsPrefix ==
  ASSUME NEW from \in ParserState, NEW s \in Seq(Byte), NEW k \in Nat, k < Len(s)
  PROVE  Reads(from, SubSeq(s, 1, k + 1)) = Understand(Reads(from, SubSeq(s, 1, k)), s[k + 1])
<1>1. /\ SubSeq(s, 1, k) \in Seq(Byte)
      /\ SubSeq(s, 1, k + 1) = Append(SubSeq(s, 1, k), s[k + 1])
  BY PrefixAppend
<1>2. s[k + 1] \in Byte
  OBVIOUS
<1>3. QED
  BY <1>1, <1>2, ReadsAppend

(* The options that the connection begins with leave no trace.             *)
LEMMA OpeningReads ==
  /\ Opening \in Seq(Byte)
  /\ Start \in ParserState
  /\ Reads(Start, Opening) = Start
<1> DEFINE R(k) == Reads(Start, SubSeq(Opening, 1, k))
           K == {0, 3, 6, 9, 12, 15}
<1>1. /\ Opening \in Seq(Byte) /\ Len(Opening) = 18
      /\ \A k \in K : Opening[k + 1] = IAC /\ Opening[k + 2] \in {WONT, WILL, DO}
  BY DEF Opening, Byte, IAC, WONT, WILL, DO, OPT_ECHO, OPT_SUPPRESS_GO_AHEAD,
         OPT_TERMINAL_TYPE, OPT_NAWS
<1>2. Start \in ParserState
  <2>1. <<>> \in Seq(Byte) /\ <<>> \in Seq(Nat \X Nat)
    OBVIOUS
  <2>2. QED
    BY <2>1 DEF Start, ParserState
<1>3. \A k \in 0 .. 17 : R(k + 1) = Understand(R(k), Opening[k + 1])
  <2> SUFFICES ASSUME NEW k \in 0 .. 17
               PROVE  R(k + 1) = Understand(R(k), Opening[k + 1])
    OBVIOUS
  <2>1. k \in Nat /\ k < Len(Opening)
    BY <1>1
  <2>2. QED
    BY <1>1, <1>2, <2>1, ReadsPrefix
<1>4. R(0) = Start /\ R(18) = Reads(Start, Opening)
  <2>1. SubSeq(Opening, 1, 0) = <<>> /\ SubSeq(Opening, 1, 18) = Opening
    BY <1>1
  <2>2. QED
    BY <1>2, <2>1, ReadsEmpty
<1> HIDE DEF R
<1>5. ASSUME NEW k \in K, R(k) = Start
      PROVE  R(k + 3) = Start
  <2>1. /\ k \in 0 .. 17 /\ k + 1 \in 0 .. 17 /\ k + 2 \in 0 .. 17
        /\ (k + 1) + 1 = k + 2 /\ (k + 2) + 1 = k + 3
    OBVIOUS
  <2>2. R(k + 1) = [Start EXCEPT !.mode = "iac"]
    <3>1. R(k + 1) = Understand(Start, IAC)
      BY <1>1, <1>3, <1>5, <2>1
    <3>2. QED
      BY <3>1 DEF Understand, Start
  <2>3. R(k + 2) = [Start EXCEPT !.mode = "option"]
    <3>1. R(k + 2) = Understand(R(k + 1), Opening[k + 2])
      BY <1>3, <2>1
    <3>2. Opening[k + 2] \in {WONT, WILL, DO}
      BY <1>1
    <3> DEFINE q == [Start EXCEPT !.mode = "iac"]
    <3>3. q.mode = "iac" /\ [q EXCEPT !.mode = "option"] = [Start EXCEPT !.mode = "option"]
      BY DEF Start
    <3> HIDE DEF q
    <3>4. \A b \in {WONT, WILL, DO} : b \in {WILL, WONT, DO, DONT} /\ b # IAC /\ b # SB
      BY DEF IAC, SB, WILL, WONT, DO, DONT
    <3>5. \A b \in {WONT, WILL, DO} : Understand(q, b) = [q EXCEPT !.mode = "option"]
      BY <3>3, <3>4 DEF Understand
    <3>6. QED
      BY <2>2, <3>1, <3>2, <3>3, <3>5 DEF q
  <2>4. R(k + 3) = Understand([Start EXCEPT !.mode = "option"], Opening[k + 3])
    BY <1>3, <2>1, <2>3
  <2>5. \A b : Understand([Start EXCEPT !.mode = "option"], b) = Start
    BY DEF Understand, Start
  <2>6. QED
    BY <2>4, <2>5
<1>6. R(18) = Start
  <2>1. R(3) = Start
    BY <1>4, <1>5
  <2>2. R(6) = Start
    BY <1>5, <2>1
  <2>3. R(9) = Start
    BY <1>5, <2>2
  <2>4. R(12) = Start
    BY <1>5, <2>3
  <2>5. R(15) = Start
    BY <1>5, <2>4
  <2>6. QED
    BY <1>5, <2>5
<1>7. QED
  BY <1>1, <1>2, <1>4, <1>6

(* The two bytes of a number.                                              *)
LEMMA TwoBytes ==
  ASSUME NEW x \in Side
  PROVE  High(x) \in Byte /\ Low(x) \in Byte /\ 256 * High(x) + Low(x) = x
<1>1. PICK q \in 0 .. 255, r \in 0 .. 255 : x = 256 * q + r
  BY DEF Side
<1>2. High(x) = q
  BY <1>1 DEF High
<1>3. Low(x) = r
  BY <1>1 DEF Low
<1>4. q \in Byte /\ r \in Byte
  BY DEF Byte
<1>5. 256 * High(x) + Low(x) = 256 * q + r
  BY <1>2, <1>3
<1>6. High(x) \in Byte
  BY <1>2, <1>4
<1>7. Low(x) \in Byte
  BY <1>3, <1>4
<1>8. 256 * High(x) + Low(x) = x
  BY <1>1, <1>5
<1>9. QED
  BY <1>6, <1>7, <1>8

LEMMA PairOf ==
  ASSUME NEW A, NEW B, NEW s \in A \X B
  PROVE  s[1] \in A /\ s[2] \in B /\ s = <<s[1], s[2]>>
<1>1. s[1] \in A
  OBVIOUS
<1>2. s[2] \in B
  OBVIOUS
<1>3. s = <<s[1], s[2]>>
  OBVIOUS
<1>4. QED
  BY <1>1, <1>2, <1>3

(* A subnegotiation of four bytes, none of them IAC, is read whole.        *)
SizeOf(a, b, c, d) == <<IAC, SB, OPT_NAWS, a, b, c, d, IAC, SE>>

LEMMA SizeBytes ==
  ASSUME NEW a \in Byte, NEW b \in Byte, NEW c \in Byte, NEW d \in Byte
  PROVE  LET s == SizeOf(a, b, c, d)
         IN  /\ s \in Seq(Byte) /\ Len(s) = 9
             /\ s[1] = IAC /\ s[2] = SB /\ s[3] = OPT_NAWS
             /\ s[4] = a /\ s[5] = b /\ s[6] = c /\ s[7] = d
             /\ s[8] = IAC /\ s[9] = SE
<1>1. IAC \in Byte /\ SB \in Byte /\ OPT_NAWS \in Byte /\ SE \in Byte
  BY DEF Byte, IAC, SB, OPT_NAWS, SE
<1>2. QED
  BY <1>1 DEF SizeOf

LEMMA FiveBytes ==
  ASSUME NEW C, NEW v \in C, NEW a \in C, NEW b \in C, NEW c \in C, NEW d \in C
  PROVE  LET u == Append(Append(Append(Append(Append(<<>>, v), a), b), c), d)
         IN  Len(u) = 5 /\ u[1] = v /\ u[2] = a /\ u[3] = b /\ u[4] = c /\ u[5] = d
OBVIOUS

LEMMA SizeReads ==
  ASSUME NEW a \in Byte, NEW b \in Byte, NEW c \in Byte, NEW d \in Byte,
         a # IAC, b # IAC, c # IAC, d # IAC,
         NEW p \in ParserState, p.mode = "data"
  PROVE  LET q == Reads(p, SizeOf(a, b, c, d))
         IN  /\ q.mode = "data" /\ q.text = p.text
             /\ q.sizes = Append(p.sizes, <<256 * a + b, 256 * c + d>>)
<1> DEFINE s == SizeOf(a, b, c, d)
           R(k) == Reads(p, SubSeq(s, 1, k))
<1>1. /\ s \in Seq(Byte) /\ Len(s) = 9
      /\ s[1] = IAC /\ s[2] = SB /\ s[3] = OPT_NAWS
      /\ s[4] = a /\ s[5] = b /\ s[6] = c /\ s[7] = d
      /\ s[8] = IAC /\ s[9] = SE
  BY SizeBytes
<1> HIDE DEF s
<1>2. R(0) = p /\ R(9) = Reads(p, s)
  <2>1. SubSeq(s, 1, 0) = <<>> /\ SubSeq(s, 1, 9) = s
    BY <1>1
  <2>2. QED
    BY <2>1, ReadsEmpty
<1>3. \A k \in 0 .. 8 : R(k + 1) = Understand(R(k), s[k + 1]) /\ R(k) \in ParserState
  <2> SUFFICES ASSUME NEW k \in 0 .. 8
               PROVE  R(k + 1) = Understand(R(k), s[k + 1]) /\ R(k) \in ParserState
    OBVIOUS
  <2>1. k \in Nat /\ k < Len(s) /\ k \in 0 .. Len(s)
    BY <1>1
  <2>2. SubSeq(s, 1, k) \in Seq(Byte)
    BY <1>1, <2>1, PrefixOf
  <2>3. QED
    BY <1>1, <2>1, <2>2, ReadsPrefix, ReadsType
<1> HIDE DEF R
<1> DEFINE At(k, m, sub) == /\ R(k).mode = m /\ R(k).sub = sub
                            /\ R(k).text = p.text /\ R(k).sizes = p.sizes
<1>4. R(1) = [p EXCEPT !.mode = "iac"]
  <2>1. R(0 + 1) = Understand(p, IAC)
    BY <1>1, <1>2, <1>3
  <2>2. QED
    BY <2>1 DEF Understand
<1>5. R(2) = [p EXCEPT !.mode = "sub", !.sub = <<>>]
  <2>1. R(1 + 1) = Understand(R(1), SB)
    BY <1>1, <1>3
  <2>2. R(1).mode = "iac" /\ [R(1) EXCEPT !.mode = "sub", !.sub = <<>>]
                               = [p EXCEPT !.mode = "sub", !.sub = <<>>]
    BY <1>4 DEF ParserState
  <2>3. SB # IAC /\ SB \notin {WILL, WONT, DO, DONT}
    BY DEF SB, IAC, WILL, WONT, DO, DONT
  <2>4. \A q : q.mode = "iac" => Understand(q, SB) = [q EXCEPT !.mode = "sub", !.sub = <<>>]
    <3> SUFFICES ASSUME NEW q, q.mode = "iac"
                 PROVE  Understand(q, SB) = [q EXCEPT !.mode = "sub", !.sub = <<>>]
      OBVIOUS
    <3>1. QED
      BY <2>3 DEF Understand
  <2>5. Understand(R(1), SB) = [R(1) EXCEPT !.mode = "sub", !.sub = <<>>]
    BY <2>2, <2>4
  <2>6. QED
    BY <2>1, <2>2, <2>5
<1>6. At(2, "sub", <<>>)
  BY <1>5 DEF ParserState
<1>7. ASSUME NEW k \in 2 .. 6, NEW u, At(k, "sub", u), s[k + 1] # IAC
      PROVE  At(k + 1, "sub", Append(u, s[k + 1]))
  <2>1. R(k + 1) = Understand(R(k), s[k + 1]) /\ R(k) \in ParserState
    BY <1>3
  <2>2. R(k + 1) = [R(k) EXCEPT !.sub = Append(@, s[k + 1])]
    BY <1>7, <2>1 DEF Understand
  <2>3. QED
    BY <1>7, <2>1, <2>2 DEF ParserState
<1> DEFINE sub == Append(Append(Append(Append(Append(<<>>, OPT_NAWS), a), b), c), d)
<1>8. At(7, "sub", sub)
  <2> HIDE DEF At
  <2>1. \A k \in 2 .. 6 : \A u : At(k, "sub", u) /\ s[k + 1] # IAC
                                   => At(k + 1, "sub", Append(u, s[k + 1]))
    BY <1>7
  <2>2. /\ 2 + 1 = 3 /\ 3 + 1 = 4 /\ 4 + 1 = 5 /\ 5 + 1 = 6 /\ 6 + 1 = 7
        /\ 2 \in 2 .. 6 /\ 3 \in 2 .. 6 /\ 4 \in 2 .. 6 /\ 5 \in 2 .. 6 /\ 6 \in 2 .. 6
    OBVIOUS
  <2>3. OPT_NAWS # IAC
    BY DEF OPT_NAWS, IAC
  <2>4. At(3, "sub", Append(<<>>, OPT_NAWS))
    BY <1>1, <1>6, <2>1, <2>2, <2>3
  <2>5. At(4, "sub", Append(Append(<<>>, OPT_NAWS), a))
    BY <1>1, <2>1, <2>2, <2>4
  <2>6. At(5, "sub", Append(Append(Append(<<>>, OPT_NAWS), a), b))
    BY <1>1, <2>1, <2>2, <2>5
  <2>7. At(6, "sub", Append(Append(Append(Append(<<>>, OPT_NAWS), a), b), c))
    BY <1>1, <2>1, <2>2, <2>6
  <2>8. QED
    BY <1>1, <2>1, <2>2, <2>7
<1>9. Len(sub) = 5 /\ sub[1] = OPT_NAWS /\ SizeTold(sub) = <<256 * a + b, 256 * c + d>>
  <2>1. OPT_NAWS \in Byte
    BY DEF OPT_NAWS, Byte
  <2>2. /\ Len(sub) = 5 /\ sub[1] = OPT_NAWS
        /\ sub[2] = a /\ sub[3] = b /\ sub[4] = c /\ sub[5] = d
    BY <2>1, FiveBytes
  <2> HIDE DEF sub
  <2>3. QED
    BY <2>2 DEF SizeTold
<1> HIDE DEF sub
<1>10. At(8, "subiac", sub)
  <2>1. R(7 + 1) = Understand(R(7), IAC) /\ R(7) \in ParserState
    BY <1>1, <1>3
  <2>2. R(8) = [R(7) EXCEPT !.mode = "subiac"]
    BY <1>8, <2>1 DEF Understand
  <2>3. QED
    BY <1>8, <2>1, <2>2 DEF ParserState
<1>11. R(9) = [R(8) EXCEPT !.mode = "data", !.sizes = Append(@, SizeTold(sub))]
  <2>1. R(8 + 1) = Understand(R(8), SE) /\ R(8) \in ParserState
    BY <1>1, <1>3
  <2>2. SE # IAC
    BY DEF SE, IAC
  <2>3. \A q : q.mode = "subiac" /\ Len(q.sub) = 5 /\ q.sub[1] = OPT_NAWS
                 => Understand(q, SE)
                      = [q EXCEPT !.mode = "data", !.sizes = Append(@, SizeTold(q.sub))]
    BY <2>2 DEF Understand
  <2>4. R(8).mode = "subiac" /\ R(8).sub = sub
    BY <1>10
  <2>5. Understand(R(8), SE)
          = [R(8) EXCEPT !.mode = "data", !.sizes = Append(@, SizeTold(R(8).sub))]
    BY <1>9, <2>3, <2>4
  <2>6. R(9) = Understand(R(8), SE)
    BY <2>1
  <2>7. R(8).sub = sub
    BY <2>4
  <2>8. QED
    BY <2>5, <2>6, <2>7, Zenon
<1>12. R(8) \in ParserState
  BY <1>3
<1>13. /\ R(9).mode = "data" /\ R(9).text = p.text
       /\ R(9).sizes = Append(p.sizes, <<256 * a + b, 256 * c + d>>)
  BY <1>9, <1>10, <1>11, <1>12 DEF ParserState
<1>14. QED
  BY <1>2, <1>13 DEF s

(* A window size that has no byte 255 is read as it was meant.             *)
Size == Side \X Side

LEMMA NawsReads ==
  ASSUME NEW size \in Size
  PROVE  /\ Naws(size) \in Seq(Byte) /\ Len(Naws(size)) = 9
         /\ ~Ambiguous(size) =>
              \A p \in ParserState : p.mode = "data" =>
                LET q == Reads(p, Naws(size))
                IN  q.mode = "data" /\ q.text = p.text /\ q.sizes = Append(p.sizes, size)
<1> DEFINE w == size[1]
           h == size[2]
           a == High(w)
           b == Low(w)
           c == High(h)
           d == Low(h)
<1>1. w \in Side /\ h \in Side /\ size = <<w, h>>
  BY PairOf DEF Size
<1>2. Naws(size) = SizeOf(a, b, c, d)
  BY DEF Naws, SizeOf
<1>3. ~Ambiguous(size) => a # IAC /\ b # IAC /\ c # IAC /\ d # IAC
  BY DEF Ambiguous
<1> HIDE DEF w, h
<1>4. a \in Byte /\ b \in Byte /\ 256 * a + b = w
  BY <1>1, TwoBytes
<1>5. c \in Byte /\ d \in Byte /\ 256 * c + d = h
  BY <1>1, TwoBytes
<1> HIDE DEF a, b, c, d
<1>6. Naws(size) \in Seq(Byte) /\ Len(Naws(size)) = 9
  BY <1>2, <1>4, <1>5, SizeBytes
<1>7. ASSUME ~Ambiguous(size), NEW p \in ParserState, p.mode = "data"
      PROVE  LET q == Reads(p, Naws(size))
             IN  q.mode = "data" /\ q.text = p.text /\ q.sizes = Append(p.sizes, size)
  <2>1. a # IAC /\ b # IAC /\ c # IAC /\ d # IAC
    BY <1>3, <1>7
  <2> DEFINE q == Reads(p, SizeOf(a, b, c, d))
  <2>2. /\ q.mode = "data" /\ q.text = p.text
        /\ q.sizes = Append(p.sizes, <<256 * a + b, 256 * c + d>>)
    BY <1>4, <1>5, <1>7, <2>1, SizeReads
  <2>3. <<256 * a + b, 256 * c + d>> = size
    BY <1>1, <1>4, <1>5
  <2> HIDE DEF q
  <2>4. q.mode = "data" /\ q.text = p.text /\ q.sizes = Append(p.sizes, size)
    BY <2>2, <2>3
  <2>5. QED
    BY <1>2, <2>4 DEF q
<1>8. QED
  BY <1>6, <1>7

-----------------------------------------------------------------------------
(* Texts with their IAC bytes doubled.                                     *)
LEMMA MaxIs ==
  ASSUME NEW S \in SUBSET Nat, NEW x \in S, \A y \in S : x >= y
  PROVE  Max(S) = x
<1>1. Max(S) \in S /\ \A y \in S : Max(S) >= y
  BY DEF Max
<1>2. Max(S) >= x /\ x >= Max(S) /\ x \in Nat /\ Max(S) \in Nat
  BY <1>1
<1>3. QED
  BY <1>2

LEMMA IACsAppend ==
  ASSUME NEW s \in Seq(Byte), NEW b \in Byte
  PROVE  /\ IACsAtEnd(s) \in Nat
         /\ IACsAtEnd(Append(s, b)) = IF b = IAC THEN IACsAtEnd(s) + 1 ELSE 0
<1> DEFINE Test(x) == x # IAC
           I(u) == {i \in 1 .. Len(u) : u[i] # IAC}
           Sel(u) == IF I(u) # {} THEN Max(I(u)) ELSE 0
           t == Append(s, b)
           n == Len(s)
<1>1. \A u : IACsAtEnd(u) = Len(u) - Sel(u)
  BY DEF IACsAtEnd, SelectLastInSeq
<1>2. /\ n \in Nat /\ Len(t) = n + 1 /\ t[n + 1] = b
      /\ \A i \in 1 .. n : t[i] = s[i]
  OBVIOUS
<1> HIDE DEF t, n
<1>3. Sel(s) \in 0 .. n
  <2>1. I(s) \in SUBSET (1 .. n)
    BY DEF n
  <2> HIDE DEF I
  <2>2. I(s) # {} => Max(I(s)) \in I(s)
    BY <1>2, <2>1, MaxIsIn
  <2>3. QED
    BY <1>2, <2>1, <2>2
<1>4. CASE b = IAC
  <2>1. I(t) = I(s)
    <3>1. \A i \in 1 .. n + 1 : t[i] # IAC => i \in 1 .. n
      BY <1>2, <1>4
    <3>2. QED
      BY <1>2, <3>1 DEF n
  <2>2. Sel(t) = Sel(s)
    BY <2>1
  <2> HIDE DEF Sel
  <2>3. IACsAtEnd(t) = (n + 1) - Sel(s) /\ IACsAtEnd(s) = n - Sel(s)
    BY <1>1, <1>2, <2>2 DEF n
  <2>4. QED
    BY <1>2, <1>3, <1>4, <2>3 DEF t
<1>5. CASE b # IAC
  <2>1. n + 1 \in I(t) /\ I(t) \in SUBSET Nat /\ \A y \in I(t) : n + 1 >= y
    BY <1>2, <1>5
  <2>2. Sel(t) = n + 1
    <3> HIDE DEF I
    <3>1. Max(I(t)) = n + 1
      BY <2>1, MaxIs
    <3>2. QED
      BY <2>1, <3>1
  <2> HIDE DEF Sel
  <2>3. IACsAtEnd(t) = (n + 1) - (n + 1) /\ IACsAtEnd(s) = n - Sel(s)
    BY <1>1, <1>2, <2>2 DEF n
  <2>4. QED
    BY <1>2, <1>3, <1>5, <2>3 DEF t
<1>6. QED
  BY <1>4, <1>5

Doubled(b) == IF b = IAC THEN <<IAC, IAC>> ELSE <<b>>

LEMMA EscapedAppend ==
  ASSUME NEW s \in Seq(Byte), NEW b \in Byte
  PROVE  /\ Escaped(s) \in Seq(Byte)
         /\ Escaped(Append(s, b)) = Escaped(s) \o Doubled(b)
<1> DEFINE f == [x \in Byte |-> Doubled(x)]
           E == Seq(Byte)
           m(u) == [i \in DOMAIN u |-> f[u[i]]]
<1>1. f \in [Byte -> E] /\ f[b] = Doubled(b) /\ f[b] \in E
  BY DEF Doubled
<1>2. \A u \in Seq(Byte) : Escaped(u) = FlattenSeq(m(u))
  <2> SUFFICES ASSUME NEW u \in Seq(Byte)
               PROVE  Escaped(u) = FlattenSeq(m(u))
    OBVIOUS
  <2> DEFINE g == [i \in DOMAIN u |-> IF u[i] = IAC THEN <<IAC, IAC>> ELSE <<u[i]>>]
  <2>1. \A i \in DOMAIN u : u[i] \in Byte
    OBVIOUS
  <2>2. g = m(u)
    BY <2>1 DEF Doubled
  <2> HIDE DEF m
  <2>3. Escaped(u) = FlattenSeq(g)
    BY DEF Escaped
  <2>4. QED
    BY <2>2, <2>3
<1>3. Append(s, b) \in Seq(Byte)
  OBVIOUS
<1>4. m(s) \in Seq(E) /\ m(Append(s, b)) = Append(m(s), f[b])
  <2> HIDE DEF f, E
  <2>1. QED
    BY <1>1, MapAppend
<1> HIDE DEF m, f
<1>5. FlattenSeq(m(s)) \in Seq(Byte) /\ FlattenSeq(Append(m(s), f[b])) = FlattenSeq(m(s)) \o f[b]
  BY <1>1, <1>4, FlattenType, FlattenAppend
<1>6. QED
  BY <1>1, <1>2, <1>3, <1>4, <1>5

LEMMA EscapedEmpty == Escaped(<<>>) = <<>>
<1>1. [i \in DOMAIN <<>> |-> IF <<>>[i] = IAC THEN <<IAC, IAC>> ELSE << <<>>[i]>>] = <<>>
  OBVIOUS
<1>2. QED
  BY <1>1, FlattenEmpty DEF Escaped

LEMMA DoubledEnds ==
  ASSUME NEW e \in Seq(Byte), NEW b \in Byte
  PROVE  /\ e \o Doubled(b) = IF b = IAC THEN Append(Append(e, IAC), IAC) ELSE Append(e, b)
         /\ Append(e, IAC) \in Seq(Byte)
         /\ IAC \in Byte
<1>1. IAC \in Byte
  BY DEF IAC, Byte
<1>2. e \o <<b>> = Append(e, b)
  OBVIOUS
<1>3. e \o <<IAC, IAC>> = Append(Append(e, IAC), IAC)
  <2> DEFINE x == e \o <<IAC, IAC>>
             y == Append(Append(e, IAC), IAC)
  <2>1. /\ x \in Seq(Byte) /\ Len(x) = Len(e) + 2 /\ \A i \in 1 .. Len(e) : x[i] = e[i]
        /\ x[Len(e) + 1] = IAC /\ x[Len(e) + 2] = IAC
    BY <1>1
  <2>2. /\ y \in Seq(Byte) /\ Len(y) = Len(e) + 2 /\ \A i \in 1 .. Len(e) : y[i] = e[i]
        /\ y[Len(e) + 1] = IAC /\ y[Len(e) + 2] = IAC
    BY <1>1
  <2>3. Len(e) \in Nat
    OBVIOUS
  <2> HIDE DEF x, y
  <2>4. \A i \in 1 .. Len(x) : x[i] = y[i]
    <3>1. \A i \in 1 .. Len(e) + 2 : i \in 1 .. Len(e) \/ i = Len(e) + 1 \/ i = Len(e) + 2
      BY <2>3
    <3>2. QED
      BY <2>1, <2>2, <3>1
  <2>5. x = y
    BY <2>1, <2>2, <2>4, SeqEqual
  <2>6. QED
    BY <2>5 DEF x, y
<1>4. Append(e, IAC) \in Seq(Byte)
  BY <1>1
<1>5. QED
  BY <1>1, <1>2, <1>3, <1>4 DEF Doubled

LEMMA BytesAppend ==
  \A u, s \in Seq(Byte), b \in Byte : Append(u \o s, b) = u \o Append(s, b)
OBVIOUS

LEMMA OneMore ==
  ASSUME NEW C, NEW s \in Seq(C), NEW t \in Seq(C), 1 \in 0 .. Len(t)
  PROVE  SubSeq(s \o t, 1, Len(s) + 1) = s \o SubSeq(t, 1, 1)
BY PrefixConcat

LEMMA TwoAlike ==
  ASSUME NEW C, NEW a \in C
  PROVE  Len(<<a, a>>) = 2 /\ SubSeq(<<a, a>>, 1, 1) = <<a>>
<1>1. <<a, a>> \in Seq(C) /\ Len(<<a, a>>) = 2 /\ <<a, a>>[1] = a
  OBVIOUS
<1>2. /\ SubSeq(<<a, a>>, 1, 1) \in Seq(C) /\ Len(SubSeq(<<a, a>>, 1, 1)) = 1
      /\ SubSeq(<<a, a>>, 1, 1)[1] = a
  <2> DEFINE s == <<a, a>>
  <2>1. s \in Seq(C) /\ 1 \in 0 .. Len(s) /\ s[1] = a
    BY <1>1
  <2> HIDE DEF s
  <2>2. QED
    BY <2>1, PrefixOf DEF s
<1>3. <<a>> \in Seq(C) /\ Len(<<a>>) = 1 /\ <<a>>[1] = a
  OBVIOUS
<1> DEFINE x == SubSeq(<<a, a>>, 1, 1)
           y == <<a>>
<1> HIDE DEF x, y
<1>4. x = y
  <2>1. x \in Seq(C) /\ y \in Seq(C) /\ Len(x) = 1 /\ Len(y) = 1 /\ x[1] = y[1]
    BY <1>2, <1>3 DEF x, y
  <2>2. \A i \in 1 .. Len(x) : x[i] = y[i]
    BY <2>1
  <2>3. QED
    BY <2>1, <2>2, SeqEqual
<1>5. QED
  BY <1>1, <1>4 DEF x, y

(* A whole text ends in an even number of IAC bytes, and a part of one in  *)
(* an odd number just when it ends inside an escape.                       *)
LEMMA EscapedEven ==
  ASSUME NEW s \in Seq(Byte)
  PROVE  /\ Escaped(s) \in Seq(Byte)
         /\ IACsAtEnd(Escaped(s)) % 2 = 0
         /\ IACsAtEnd(Append(Escaped(s), IAC)) % 2 = 1
<1> DEFINE T == {r \in Seq(Byte) : /\ Escaped(r) \in Seq(Byte)
                                   /\ IACsAtEnd(Escaped(r)) % 2 = 0}
<1>1. <<>> \in T
  <2>1. IACsAtEnd(<<>>) = 0
    BY DEF IACsAtEnd, SelectLastInSeq
  <2>2. <<>> \in Seq(Byte) /\ IACsAtEnd(Escaped(<<>>)) % 2 = 0
    BY <2>1, EscapedEmpty
  <2>3. QED
    BY <2>2, EscapedEmpty
<1>2. ASSUME NEW r \in Seq(Byte), NEW b \in Byte, r \in T
      PROVE  Append(r, b) \in T
  <2> DEFINE e == Escaped(r)
  <2>1. e \in Seq(Byte) /\ IACsAtEnd(e) % 2 = 0 /\ IACsAtEnd(e) \in Nat
    BY <1>2, IACsAppend
  <2>2. Append(r, b) \in Seq(Byte) /\ Escaped(Append(r, b)) = e \o Doubled(b)
    BY EscapedAppend
  <2> HIDE DEF e, T
  <2>3. CASE b = IAC
    <3>1. e \o Doubled(b) = Append(Append(e, IAC), IAC)
      BY <2>1, <2>3, DoubledEnds
    <3>2. Append(e, IAC) \in Seq(Byte) /\ IAC \in Byte /\ Append(Append(e, IAC), IAC) \in Seq(Byte)
      BY <2>1, DoubledEnds
    <3>3. IACsAtEnd(Append(e, IAC)) = IACsAtEnd(e) + 1
      BY <2>1, <3>2, IACsAppend
    <3>4. IACsAtEnd(Append(Append(e, IAC), IAC)) = (IACsAtEnd(e) + 1) + 1
      BY <3>2, <3>3, IACsAppend
    <3>5. \A n \in Nat : n % 2 = 0 => ((n + 1) + 1) % 2 = 0
      OBVIOUS
    <3>6. IACsAtEnd(e \o Doubled(b)) % 2 = 0
      BY <2>1, <3>1, <3>4, <3>5
    <3>7. QED
      BY <2>2, <3>1, <3>2, <3>6 DEF T
  <2>4. CASE b # IAC
    <3>1. e \o Doubled(b) = Append(e, b) /\ Append(e, b) \in Seq(Byte)
      BY <2>1, <2>4, DoubledEnds
    <3>2. IACsAtEnd(Append(e, b)) = 0
      BY <2>1, <2>4, IACsAppend
    <3>3. IACsAtEnd(e \o Doubled(b)) % 2 = 0
      BY <3>1, <3>2
    <3>4. QED
      BY <2>2, <3>1, <3>3 DEF T
  <2>5. QED
    BY <2>3, <2>4
<1> HIDE DEF T
<1>3. Seq(Byte) \subseteq T
  BY <1>1, <1>2, SeqSet
<1>4. Escaped(s) \in Seq(Byte) /\ IACsAtEnd(Escaped(s)) % 2 = 0
  BY <1>3 DEF T
<1>5. IACsAtEnd(Append(Escaped(s), IAC)) = IACsAtEnd(Escaped(s)) + 1 /\ IACsAtEnd(Escaped(s)) \in Nat
  <2> DEFINE e == Escaped(s)
  <2>1. e \in Seq(Byte)
    BY <1>4
  <2> HIDE DEF e
  <2>2. IAC \in Byte
    BY DEF IAC, Byte
  <2>3. IACsAtEnd(Append(e, IAC)) = IACsAtEnd(e) + 1 /\ IACsAtEnd(e) \in Nat
    BY <2>1, <2>2, IACsAppend
  <2>4. QED
    BY <2>3 DEF e
<1>6. \A n \in Nat : n % 2 = 0 => (n + 1) % 2 = 1
  OBVIOUS
<1>7. QED
  BY <1>4, <1>5, <1>6

LEMMA EscapedPrefix ==
  ASSUME NEW s \in Seq(Byte), NEW n \in 0 .. Len(Escaped(s))
  PROVE  \E j \in 0 .. Len(s) :
           \/ SubSeq(Escaped(s), 1, n) = Escaped(SubSeq(s, 1, j))
           \/ SubSeq(Escaped(s), 1, n) = Append(Escaped(SubSeq(s, 1, j)), IAC)
<1> DEFINE Cut(r, m, j) == \/ SubSeq(Escaped(r), 1, m) = Escaped(SubSeq(r, 1, j))
                           \/ SubSeq(Escaped(r), 1, m) = Append(Escaped(SubSeq(r, 1, j)), IAC)
           T == {r \in Seq(Byte) : \A m \in 0 .. Len(Escaped(r)) : \E j \in 0 .. Len(r) : Cut(r, m, j)}
<1>1. <<>> \in T
  <2>1. <<>> \in Seq(Byte) /\ Len(<<>>) = 0 /\ SubSeq(<<>>, 1, 0) = <<>>
    OBVIOUS
  <2>2. \A m \in 0 .. Len(Escaped(<<>>)) : m = 0
    BY <2>1, EscapedEmpty
  <2>3. Cut(<<>>, 0, 0)
    BY <2>1, EscapedEmpty
  <2> HIDE DEF Cut
  <2>4. QED
    BY <2>1, <2>2, <2>3
<1>2. ASSUME NEW r \in Seq(Byte), NEW b \in Byte, r \in T
      PROVE  Append(r, b) \in T
  <2> DEFINE e == Escaped(r)
             t == Append(r, b)
             k == Len(r)
  <2>1. \A m \in 0 .. Len(e) : \E j \in 0 .. Len(r) : Cut(r, m, j)
    BY <1>2
  <2>2. e \in Seq(Byte) /\ t \in Seq(Byte) /\ Escaped(t) = e \o Doubled(b)
    BY EscapedAppend
  <2>3. k \in Nat /\ Len(t) = k + 1 /\ r \o <<b>> = t /\ <<b>> \in Seq(Byte)
        /\ Len(<<b>>) = 1
    OBVIOUS
  <2>4. \A j \in 0 .. k : SubSeq(t, 1, j) = SubSeq(r, 1, j)
    <3>1. \A j \in 0 .. Len(r) : SubSeq(r \o <<b>>, 1, j) = SubSeq(r, 1, j)
      BY <2>3, PrefixConcat
    <3>2. QED
      BY <2>3, <3>1
  <2>5. SubSeq(t, 1, k + 1) = t /\ SubSeq(r, 1, k) = r
    BY <2>2, <2>3
  <2>6. Doubled(b) \in Seq(Byte) /\ (b = IAC => Len(Doubled(b)) = 2 /\ SubSeq(Doubled(b), 1, 1) = <<IAC>>)
                                 /\ (b # IAC => Len(Doubled(b)) = 1)
    <3>1. IAC \in Byte
      BY DEF IAC, Byte
    <3>2. CASE b = IAC
      <4>1. Doubled(b) = <<IAC, IAC>>
        BY <3>2 DEF Doubled
      <4>2. QED
        BY <3>1, <3>2, <4>1, TwoAlike
    <3>3. CASE b # IAC
      <4>1. Doubled(b) = <<b>>
        BY <3>3 DEF Doubled
      <4>2. QED
        BY <3>3, <4>1
    <3>4. QED
      BY <3>2, <3>3
  <2> DEFINE d == Doubled(b)
             x == Escaped(t)
  <2>10. /\ (b = IAC => Len(d) = 2 /\ SubSeq(d, 1, 1) = <<IAC>>)
         /\ (b # IAC => Len(d) = 1)
    BY <2>6
  <2> HIDE DEF T, e, t, k, d
  <2>7. x = e \o d /\ Len(x) = Len(e) + Len(d) /\ Len(e) \in Nat /\ Len(d) \in 1 .. 2
        /\ x \in Seq(Byte) /\ d \in Seq(Byte)
    <3>1. x = e \o d /\ d \in Seq(Byte)
      BY <2>2, <2>6 DEF d
    <3> HIDE DEF x
    <3>2. QED
      BY <2>2, <2>10, <3>1
  <2> HIDE DEF x
  <2>8. ASSUME NEW m \in 0 .. Len(x)
        PROVE  \E j \in 0 .. Len(t) : Cut(t, m, j)
    <3>1. CASE m <= Len(e)
      <4>1. m \in 0 .. Len(e)
        BY <2>7, <3>1
      <4>2. PICK j \in 0 .. Len(r) : Cut(r, m, j)
        BY <2>1, <4>1
      <4>3. SubSeq(x, 1, m) = SubSeq(e, 1, m)
        BY <2>2, <2>7, <4>1, PrefixConcat
      <4>4. SubSeq(t, 1, j) = SubSeq(r, 1, j) /\ j \in 0 .. Len(t)
        BY <2>3, <2>4 DEF k
      <4>5. Cut(t, m, j)
        BY <4>2, <4>3, <4>4 DEF e, x
      <4> HIDE DEF Cut
      <4>6. QED
        BY <4>4, <4>5
    <3>2. CASE m = Len(x)
      <4>1. SubSeq(x, 1, m) = x
        BY <2>7, <3>2
      <4>2. k + 1 \in 0 .. Len(t) /\ SubSeq(t, 1, k + 1) = t
        BY <2>3, <2>5
      <4>3. SubSeq(Escaped(t), 1, m) = Escaped(SubSeq(t, 1, k + 1))
        BY <4>1, <4>2 DEF x
      <4>4. Cut(t, m, k + 1)
        BY <4>3
      <4> HIDE DEF Cut
      <4>5. QED
        BY <4>2, <4>4
    <3>3. CASE m > Len(e) /\ m # Len(x)
      <4>1. m = Len(e) + 1 /\ Len(d) = 2 /\ b = IAC
        <5>1. m \in Nat /\ m <= Len(x) /\ Len(d) \in {1, 2}
          BY <2>7
        <5>2. m = Len(e) + 1 /\ Len(d) = 2
          <6>1. \A i, j \in Nat : \A l \in {1, 2} :
                  i > j /\ i <= j + l /\ i # j + l => i = j + 1 /\ l = 2
            OBVIOUS
          <6>2. Len(x) = Len(e) + Len(d) /\ Len(e) \in Nat
            BY <2>7
          <6>3. m > Len(e) /\ m <= Len(e) + Len(d) /\ m # Len(e) + Len(d)
            BY <3>3, <5>1, <6>2
          <6>4. QED
            BY <5>1, <6>1, <6>2, <6>3
        <5>3. QED
          BY <2>10, <5>2
      <4>2. SubSeq(d, 1, 1) = <<IAC>>
        BY <2>10, <4>1
      <4>3. SubSeq(x, 1, m) = e \o <<IAC>>
        <5>1. 1 \in 0 .. Len(d)
          BY <4>1
        <5>2. e \in Seq(Byte) /\ d \in Seq(Byte)
          BY <2>2, <2>7
        <5>3. SubSeq(e \o d, 1, Len(e) + 1) = e \o SubSeq(d, 1, 1)
          BY <5>1, <5>2, OneMore
        <5>4. QED
          BY <2>7, <4>1, <4>2, <5>3
      <4>4. e \o <<IAC>> = Append(e, IAC)
        BY <2>2, <4>1
      <4>5. SubSeq(t, 1, k) = r /\ k \in 0 .. Len(t)
        BY <2>3, <2>4, <2>5
      <4>6. Cut(t, m, k)
        BY <4>3, <4>4, <4>5 DEF e, x
      <4> HIDE DEF Cut
      <4>7. QED
        BY <4>5, <4>6
    <3>4. m <= Len(e) \/ m > Len(e)
      BY <2>7
    <3> HIDE DEF Cut
    <3>5. QED
      BY <3>1, <3>2, <3>3, <3>4
  <2> HIDE DEF Cut
  <2>9. \A m \in 0 .. Len(Escaped(t)) : \E j \in 0 .. Len(t) : Cut(t, m, j)
    BY <2>8 DEF x
  <2>11. t \in T
    BY <2>2, <2>9 DEF T
  <2>12. QED
    BY <2>11 DEF t
<1> HIDE DEF T
<1>3. s \in T
  BY <1>1, <1>2, SeqSet
<1>4. QED
  BY <1>3 DEF T

(* A server that reads the bytes of a text has the text.                   *)
LEMMA ReadsEscaped ==
  ASSUME NEW p \in ParserState, p.mode = "data", NEW s \in Seq(Byte)
  PROVE  Reads(p, Escaped(s)) = [p EXCEPT !.text = @ \o s]
<1> DEFINE T == {r \in Seq(Byte) : Reads(p, Escaped(r)) = [p EXCEPT !.text = @ \o r]}
<1>1. p.text \in Seq(Byte)
  BY DEF ParserState
<1>2. <<>> \in T
  <2>1. <<>> \in Seq(Byte) /\ p.text \o <<>> = p.text
    BY <1>1
  <2>2. p = [p EXCEPT !.text = p.text]
    BY DEF ParserState
  <2>3. Reads(p, Escaped(<<>>)) = p
    BY EscapedEmpty, ReadsEmpty
  <2>4. QED
    BY <2>1, <2>2, <2>3
<1>3. ASSUME NEW r \in Seq(Byte), NEW b \in Byte, r \in T
      PROVE  Append(r, b) \in T
  <2> DEFINE e == Escaped(r)
             q == [p EXCEPT !.text = @ \o r]
  <2>6. Reads(p, e) = q
    BY <1>3
  <2> HIDE DEF T
  <2>1. e \in Seq(Byte) /\ Append(r, b) \in Seq(Byte) /\ Escaped(Append(r, b)) = e \o Doubled(b)
    BY EscapedAppend
  <2>2. Reads(p, e) = q
    BY <2>6
  <2>3. q.mode = "data" /\ q.text = p.text \o r
        /\ [q EXCEPT !.text = Append(@, b)] = [p EXCEPT !.text = @ \o Append(r, b)]
    <3>1. Append(p.text \o r, b) = p.text \o Append(r, b)
      <4> DEFINE u == p.text
      <4>1. u \in Seq(Byte)
        BY <1>1
      <4> HIDE DEF u
      <4>2. \A v \in Seq(Byte) : Append(v \o r, b) = v \o Append(r, b)
        BY BytesAppend, Zenon
      <4>4. Append(u \o r, b) = u \o Append(r, b)
        BY <4>1, <4>2
      <4>3. QED
        BY <4>4 DEF u
    <3>2. QED
      BY <3>1 DEF ParserState
  <2> HIDE DEF e, q
  <2>4. Reads(p, e \o Doubled(b)) = [q EXCEPT !.text = Append(@, b)]
    <3>1. CASE b = IAC
      <4>1. Append(e, IAC) \in Seq(Byte) /\ IAC \in Byte
            /\ e \o Doubled(b) = Append(Append(e, IAC), IAC)
        BY <2>1, <3>1, DoubledEnds
      <4>2. Reads(p, Append(e, IAC)) = Understand(q, IAC)
        BY <2>1, <2>2, <4>1, ReadsAppend
      <4>3. Understand(q, IAC) = [q EXCEPT !.mode = "iac"]
        BY <2>3 DEF Understand
      <4>4. Reads(p, Append(Append(e, IAC), IAC)) = Understand([q EXCEPT !.mode = "iac"], IAC)
        <5>1. Reads(p, Append(Append(e, IAC), IAC)) = Understand(Reads(p, Append(e, IAC)), IAC)
          <6> DEFINE f == Append(e, IAC)
          <6>1. f \in Seq(Byte)
            BY <4>1
          <6> HIDE DEF f
          <6>2. Reads(p, Append(f, IAC)) = Understand(Reads(p, f), IAC)
            BY <4>1, <6>1, ReadsAppend
          <6>3. QED
            BY <6>2 DEF f
        <5>2. QED
          BY <4>2, <4>3, <5>1
      <4>5. q \in ParserState
        BY <2>1, <2>2, ReadsType
      <4> DEFINE z == [q EXCEPT !.mode = "iac"]
      <4>6. z.mode = "iac" /\ [z EXCEPT !.mode = "data", !.text = Append(@, IAC)]
                                 = [q EXCEPT !.text = Append(@, IAC)]
        BY <2>3, <4>5 DEF ParserState
      <4> HIDE DEF z
      <4>7. IAC # SB /\ IAC \notin {WILL, WONT, DO, DONT}
        BY DEF IAC, SB, WILL, WONT, DO, DONT
      <4>8. Understand(z, IAC) = [z EXCEPT !.mode = "data", !.text = Append(@, IAC)]
        BY <4>6, <4>7 DEF Understand
      <4>9. Reads(p, e \o Doubled(b)) = Understand(z, IAC)
        BY <4>1, <4>4 DEF z
      <4>10. QED
        BY <3>1, <4>6, <4>8, <4>9
    <3>2. CASE b # IAC
      <4>1. e \o Doubled(b) = Append(e, b)
        BY <2>1, <3>2, DoubledEnds
      <4>2. Reads(p, Append(e, b)) = Understand(q, b)
        BY <2>1, <2>2, ReadsAppend
      <4>3. Understand(q, b) = [q EXCEPT !.text = Append(@, b)]
        BY <2>3, <3>2 DEF Understand
      <4>4. QED
        BY <4>1, <4>2, <4>3
    <3>3. QED
      BY <3>1, <3>2
  <2>5. QED
    BY <2>1, <2>3, <2>4 DEF T
<1> HIDE DEF T
<1>4. s \in T
  BY <1>2, <1>3, SeqSet
<1>5. QED
  BY <1>4 DEF T

-----------------------------------------------------------------------------
(* What is left to find of a text behind the bytes of another.             *)
Rest(s, t) == FoldLeft(Find, s, t)

LEMMA FindType ==
  ASSUME NEW s \in Seq(Byte), NEW x \in Byte
  PROVE  Find(s, x) \in Seq(Byte)
BY DEF Find

FindStep == [x \in Byte |-> [s \in Seq(Byte) |-> Find(s, x)]]

LEMMA RestRun ==
  /\ Loop(FindStep, Byte, Seq(Byte))
  /\ \A b \in Byte, p \in Seq(Byte) : FindStep[b][p] = Find(p, b)
  /\ \A from \in Seq(Byte), s \in Seq(Byte) :
       Rest(from, s) = Run(FindStep, Seq(Byte), from, s)
<1>1. Loop(FindStep, Byte, Seq(Byte))
  BY FindType DEF FindStep, Loop
<1>2. \A b \in Byte, p \in Seq(Byte) : FindStep[b][p] = Find(p, b)
  BY DEF FindStep
<1>3. ASSUME NEW from \in Seq(Byte), NEW s \in Seq(Byte)
      PROVE  Rest(from, s) = Run(FindStep, Seq(Byte), from, s)
  <2> DEFINE P == SUBSET DOMAIN s
             Good(f) == f = [S \in P |->
                               IF S = {} THEN from ELSE Find(f[S \ {Max(S)}], s[Max(S)])]
             c == CHOOSE f : Good(f)
  <2>1. Rest(from, s) = c[DOMAIN s]
    BY DEF Rest, FoldLeft, MapThenFoldSet
  <2>2. \A i \in DOMAIN s : s[i] \in Byte
    OBVIOUS
  <2>3. \E f : Good(f)
    <3>1. PICK f \in [SUBSET DOMAIN s -> Seq(Byte)] : FoldOf(f, FindStep, from, s)
      BY <1>1, RunFold
    <3>2. ASSUME NEW S \in P
          PROVE  f[S] = IF S = {} THEN from ELSE Find(f[S \ {Max(S)}], s[Max(S)])
      <4>1. f[S \ {Max(S)}] \in Seq(Byte)
        OBVIOUS
      <4>2. QED
        BY <1>2, <2>2, <3>1, <4>1 DEF FoldOf
    <3>3. f = [S \in P |-> f[S]]
      OBVIOUS
    <3>4. Good(f)
      BY <3>2, <3>3
    <3> HIDE DEF Good
    <3>5. QED
      BY <3>4
  <2>4. Good(c)
    <3> HIDE DEF Good
    <3>1. QED
      BY <2>3
  <2> HIDE DEF c
  <2>5. c[{}] = from
    BY <2>4
  <2>6. ASSUME NEW S \in SUBSET DOMAIN s, S # {}, Max(S) \in DOMAIN s, c[S \ {Max(S)}] \in Seq(Byte)
        PROVE  c[S] = FindStep[s[Max(S)]][c[S \ {Max(S)}]]
    <3>1. c[S] = Find(c[S \ {Max(S)}], s[Max(S)])
      BY <2>4, <2>6
    <3>2. QED
      BY <1>2, <2>2, <2>6, <3>1
  <2> HIDE DEF Good, P
  <2>7. c[DOMAIN s] = Run(FindStep, Seq(Byte), from, s)
    <3>1. LoopsAs(c, FindStep, Seq(Byte), from, s)
      BY <2>5, <2>6 DEF LoopsAs
    <3>2. QED
      BY <1>1, <3>1, LoopEnds
  <2>8. QED
    BY <2>1, <2>7
<1>4. QED
  BY <1>1, <1>2, <1>3

LEMMA RestEmpty ==
  ASSUME NEW s \in Seq(Byte)
  PROVE  Rest(s, <<>>) = s
<1>1. <<>> \in Seq(Byte)
  OBVIOUS
<1>2. QED
  BY <1>1, RestRun, RunEmpty

LEMMA RestType ==
  ASSUME NEW s \in Seq(Byte), NEW t \in Seq(Byte)
  PROVE  Rest(s, t) \in Seq(Byte)
BY RestRun, RunType

LEMMA RestAppend ==
  ASSUME NEW s \in Seq(Byte), NEW t \in Seq(Byte), NEW x \in Byte
  PROVE  /\ Rest(s, t) \in Seq(Byte)
         /\ Rest(s, Append(t, x)) = Find(Rest(s, t), x)
<1>1. Append(t, x) \in Seq(Byte)
  OBVIOUS
<1>2. Run(FindStep, Seq(Byte), s, Append(t, x)) = FindStep[x][Run(FindStep, Seq(Byte), s, t)]
  BY RestRun, RunAppend
<1>3. Rest(s, t) \in Seq(Byte)
  BY RestRun, RunType
<1>4. QED
  BY <1>1, <1>2, <1>3, RestRun

LEMMA RestConcat ==
  ASSUME NEW s \in Seq(Byte), NEW t \in Seq(Byte), NEW u \in Seq(Byte)
  PROVE  Rest(s, t \o u) = Rest(Rest(s, t), u)
<1>1. t \o u \in Seq(Byte) /\ Rest(s, t) \in Seq(Byte)
  BY RestAppend, RestRun, RunType
<1>2. Run(FindStep, Seq(Byte), s, t \o u)
        = Run(FindStep, Seq(Byte), Run(FindStep, Seq(Byte), s, t), u)
  BY RestRun, RunConcat
<1>3. QED
  BY <1>1, <1>2, RestRun

(* What comes behind a text that is still to be found stays behind it.     *)
LEMMA FindConcat ==
  ASSUME NEW r \in Seq(Byte), NEW q \in Seq(Byte), NEW x \in Byte, r # <<>>
  PROVE  Find(r \o q, x) = Find(r, x) \o q
<1>1. r \o q # <<>> /\ Head(r \o q) = Head(r) /\ Tail(r \o q) = Tail(r) \o q
  OBVIOUS
<1>2. QED
  BY <1>1 DEF Find

Suffix(s, t) == \E c \in Seq(Byte) : t = c \o s

LEMMA SuffixRules ==
  ASSUME NEW s \in Seq(Byte)
  PROVE  /\ Suffix(s, s)
         /\ \A t, u \in Seq(Byte) : Suffix(s, t) /\ Suffix(t, u) => Suffix(s, u)
         /\ \A x \in Byte : Suffix(Find(s, x), s)
         /\ Suffix(s, <<>>) => s = <<>>
<1>1. Suffix(s, s)
  <2>1. <<>> \in Seq(Byte) /\ s = <<>> \o s
    OBVIOUS
  <2>2. QED
    BY <2>1 DEF Suffix
<1>2. ASSUME NEW t \in Seq(Byte), NEW u \in Seq(Byte), Suffix(s, t), Suffix(t, u)
      PROVE  Suffix(s, u)
  <2>1. PICK c \in Seq(Byte) : t = c \o s
    BY <1>2 DEF Suffix
  <2>2. PICK d \in Seq(Byte) : u = d \o t
    BY <1>2 DEF Suffix
  <2>3. d \o c \in Seq(Byte) /\ u = (d \o c) \o s
    BY <2>1, <2>2
  <2>4. QED
    BY <2>3 DEF Suffix
<1>3. ASSUME NEW x \in Byte
      PROVE  Suffix(Find(s, x), s)
  <2>1. CASE s # <<>> /\ Head(s) = x
    <3>1. <<Head(s)>> \in Seq(Byte) /\ s = <<Head(s)>> \o Tail(s)
      BY <2>1
    <3>2. QED
      BY <2>1, <3>1 DEF Suffix, Find
  <2>2. CASE ~(s # <<>> /\ Head(s) = x)
    BY <1>1, <2>2 DEF Find
  <2>3. QED
    BY <2>1, <2>2
<1>4. ASSUME Suffix(s, <<>>)
      PROVE  s = <<>>
  <2>1. PICK c \in Seq(Byte) : <<>> = c \o s
    BY <1>4 DEF Suffix
  <2>2. Len(c) + Len(s) = 0 /\ Len(c) \in Nat /\ Len(s) \in Nat
    BY <2>1
  <2>3. QED
    BY <2>2
<1>5. QED
  BY <1>1, <1>2, <1>3, <1>4

(* A text behind another: once the first is found, what is still to be     *)
(* found is an end of the second.                                          *)
LEMMA RestBehind ==
  ASSUME NEW s \in Seq(Byte), NEW q \in Seq(Byte), NEW t \in Seq(Byte), Rest(s, t) = <<>>
  PROVE  Suffix(Rest(s \o q, t), q)
<1> DEFINE Good(r) == IF Rest(s, r) = <<>> THEN Suffix(Rest(s \o q, r), q)
                      ELSE Rest(s \o q, r) = Rest(s, r) \o q
           T == {r \in Seq(Byte) : Good(r)}
<1>1. s \o q \in Seq(Byte)
  OBVIOUS
<1>2. <<>> \in T
  <2>1. <<>> \in Seq(Byte) /\ (s = <<>> => s \o q = q)
    OBVIOUS
  <2>2. Rest(s, <<>>) = s /\ Rest(s \o q, <<>>) = s \o q
    BY <1>1, RestEmpty
  <2>3. QED
    BY <2>1, <2>2, SuffixRules
<1>3. ASSUME NEW r \in Seq(Byte), NEW x \in Byte, r \in T
      PROVE  Append(r, x) \in T
  <2> DEFINE v == Rest(s, r)
             w == Rest(s \o q, r)
  <2>1. IF v = <<>> THEN Suffix(w, q) ELSE w = v \o q
    BY <1>3
  <2>2. v \in Seq(Byte) /\ Rest(s, Append(r, x)) = Find(v, x)
    BY RestAppend
  <2>3. w \in Seq(Byte) /\ Rest(s \o q, Append(r, x)) = Find(w, x)
    BY <1>1, RestAppend
  <2> HIDE DEF T, Good, v, w
  <2>4. Find(w, x) \in Seq(Byte) /\ Suffix(Find(w, x), w)
    BY <2>3, FindType, SuffixRules
  <2>5. IF Find(v, x) = <<>> THEN Suffix(Find(w, x), q) ELSE Find(w, x) = Find(v, x) \o q
    <3>1. CASE v = <<>>
      <4>1. Find(v, x) = <<>>
        BY <3>1 DEF Find
      <4>2. Suffix(Find(w, x), q)
        BY <2>1, <2>3, <2>4, <3>1, SuffixRules
      <4>3. QED
        BY <4>1, <4>2
    <3>2. CASE v # <<>>
      <4>1. Find(w, x) = Find(v, x) \o q
        BY <2>1, <2>2, <3>2, FindConcat
      <4>2. Find(v, x) = <<>> => Find(w, x) = q
        <5>1. <<>> \o q = q
          OBVIOUS
        <5>2. QED
          BY <4>1, <5>1
      <4>3. QED
        BY <4>1, <4>2, SuffixRules
    <3>3. QED
      BY <3>1, <3>2
  <2>6. Good(Append(r, x))
    BY <2>2, <2>3, <2>5 DEF Good
  <2>7. Append(r, x) \in Seq(Byte)
    OBVIOUS
  <2>8. QED
    BY <2>6, <2>7 DEF T
<1> HIDE DEF T, Good
<1>4. t \in T
  BY <1>2, <1>3, SeqSet
<1>5. QED
  BY <1>4 DEF T, Good

(* What is left of an end of a text is an end of what is left of it.       *)
LEMMA RestSuffix ==
  ASSUME NEW s \in Seq(Byte), NEW q \in Seq(Byte), NEW t \in Seq(Byte), Suffix(s, q)
  PROVE  Suffix(Rest(s, t), Rest(q, t))
<1> DEFINE T == {r \in Seq(Byte) : Suffix(Rest(s, r), Rest(q, r))}
<1>1. <<>> \in T
  <2>1. <<>> \in Seq(Byte)
    OBVIOUS
  <2>2. QED
    BY <2>1, RestEmpty
<1>2. ASSUME NEW r \in Seq(Byte), NEW x \in Byte, r \in T
      PROVE  Append(r, x) \in T
  <2> DEFINE v == Rest(s, r)
             w == Rest(q, r)
  <2>1. Suffix(v, w)
    BY <1>2
  <2>2. v \in Seq(Byte) /\ Rest(s, Append(r, x)) = Find(v, x)
    BY RestAppend
  <2>3. w \in Seq(Byte) /\ Rest(q, Append(r, x)) = Find(w, x)
    BY RestAppend
  <2> HIDE DEF T, v, w
  <2>4. PICK c \in Seq(Byte) : w = c \o v
    BY <2>1 DEF Suffix
  <2>5. Suffix(Find(v, x), Find(w, x))
    <3>1. CASE c = <<>>
      <4>1. w = v
        BY <2>2, <2>4, <3>1
      <4>2. QED
        BY <2>2, <4>1, FindType, SuffixRules
    <3>2. CASE c # <<>>
      <4>1. Find(w, x) = Find(c, x) \o v /\ Find(c, x) \in Seq(Byte)
        BY <2>2, <2>4, <3>2, FindConcat, FindType
      <4>2. Suffix(v, Find(w, x)) /\ Find(w, x) \in Seq(Byte)
        BY <2>3, <4>1, FindType DEF Suffix
      <4>3. Suffix(Find(v, x), v) /\ Find(v, x) \in Seq(Byte)
        BY <2>2, FindType, SuffixRules
      <4>4. QED
        BY <2>2, <4>2, <4>3, SuffixRules
    <3>3. QED
      BY <3>1, <3>2
  <2>6. Append(r, x) \in Seq(Byte)
    OBVIOUS
  <2>7. QED
    BY <2>2, <2>3, <2>5, <2>6 DEF T
<1> HIDE DEF T
<1>3. t \in T
  BY <1>1, <1>2, SeqSet
<1>4. QED
  BY <1>3 DEF T

(* Left over of two texts: left over of the one behind the other.          *)
LEMMA LeftOverConcat ==
  ASSUME NEW s \in Seq(Byte), NEW t \in Seq(Byte), LeftOver(s, t),
         NEW q \in Seq(Byte), NEW u \in Seq(Byte), LeftOver(q, u)
  PROVE  LeftOver(s \o q, t \o u)
<1>1. Rest(s, t) = <<>> /\ Rest(q, u) = <<>>
  BY DEF LeftOver, Rest
<1> DEFINE w == Rest(s \o q, t)
<1>2. s \o q \in Seq(Byte) /\ t \o u \in Seq(Byte)
  OBVIOUS
<1>3. w \in Seq(Byte) /\ Rest(w, u) \in Seq(Byte)
  <2>1. w \in Seq(Byte)
    BY <1>2, RestType
  <2> HIDE DEF w
  <2>2. QED
    BY <2>1, RestType
<1>4. Suffix(w, q)
  BY <1>1, RestBehind
<1>5. Rest(s \o q, t \o u) = Rest(w, u)
  BY <1>2, RestConcat
<1> HIDE DEF w
<1>6. Suffix(Rest(w, u), <<>>)
  BY <1>1, <1>3, <1>4, RestSuffix
<1>7. Rest(w, u) = <<>>
  BY <1>3, <1>6, SuffixRules
<1>8. QED
  BY <1>5, <1>7 DEF LeftOver, Rest

LEMMA SplitAt ==
  ASSUME NEW C, NEW t \in Seq(C), NEW j \in 0 .. Len(t)
  PROVE  t = SubSeq(t, 1, j) \o SubSeq(t, j + 1, Len(t))
<1> DEFINE a == SubSeq(t, 1, j)
           b == SubSeq(t, j + 1, Len(t))
           n == Len(t)
<1>1. a \in Seq(C) /\ Len(a) = j /\ \A i \in 1 .. j : a[i] = t[i]
  BY PrefixOf
<1>2. b \in Seq(C) /\ Len(b) = n - j
  OBVIOUS
<1>3. \A i \in 1 .. n - j : b[i] = t[j + i]
  <2> SUFFICES ASSUME NEW i \in 1 .. n - j
               PROVE  b[i] = t[j + i]
    OBVIOUS
  <2>1. b[i] = t[(j + 1) + (i - 1)]
    OBVIOUS
  <2>2. (j + 1) + (i - 1) = j + i
    OBVIOUS
  <2>3. QED
    BY <2>1, <2>2
<1>4. n \in Nat /\ j \in 0 .. n
  OBVIOUS
<1> HIDE DEF a, b
<1>5. /\ a \o b \in Seq(C) /\ Len(a \o b) = n
      /\ \A i \in 1 .. j : (a \o b)[i] = a[i]
      /\ \A i \in j + 1 .. n : (a \o b)[i] = b[i - j]
  <2>1. /\ a \o b \in Seq(C) /\ Len(a \o b) = Len(a) + Len(b)
        /\ \A i \in 1 .. Len(a) : (a \o b)[i] = a[i]
        /\ \A i \in Len(a) + 1 .. Len(a) + Len(b) : (a \o b)[i] = b[i - Len(a)]
    BY <1>1, <1>2, ConcatAt
  <2>2. Len(a) = j /\ Len(a) + Len(b) = n
    BY <1>1, <1>2, <1>4
  <2>3. QED
    BY <2>1, <2>2
<1> DEFINE c == a \o b
<1> HIDE DEF c
<1>6. ASSUME NEW i \in 1 .. n
      PROVE  c[i] = t[i]
  <2>1. CASE i \in 1 .. j
    BY <1>1, <1>5, <2>1 DEF c
  <2>2. CASE i \notin 1 .. j
    <3>1. i \in j + 1 .. n /\ i - j \in 1 .. n - j /\ j + (i - j) = i
      BY <1>4, <2>2
    <3>2. c[i] = b[i - j]
      BY <1>5, <3>1 DEF c
    <3>3. b[i - j] = t[j + (i - j)]
      BY <1>3, <3>1
    <3>4. QED
      BY <3>1, <3>2, <3>3
  <2>3. QED
    BY <2>1, <2>2
<1>7. c = t
  BY <1>5, <1>6, SeqEqual DEF c
<1>8. QED
  BY <1>7 DEF a, b, c

LEMMA LeftOverRules ==
  ASSUME NEW t \in Seq(Byte)
  PROVE  /\ LeftOver(<<>>, t)
         /\ LeftOver(t, t)
         /\ \A j \in 0 .. Len(t) : LeftOver(SubSeq(t, 1, j), t)
<1> DEFINE N == {r \in Seq(Byte) : LeftOver(<<>>, r)}
           A == {r \in Seq(Byte) : LeftOver(r, r)}
<1>1. <<>> \in Seq(Byte)
  OBVIOUS
<1>2. LeftOver(<<>>, <<>>)
  BY <1>1, RestEmpty DEF LeftOver, Rest
<1>3. ASSUME NEW x \in Byte
      PROVE  LeftOver(<<x>>, <<x>>) /\ LeftOver(<<>>, <<x>>)
  <2>1. <<x>> \in Seq(Byte) /\ Append(<<>>, x) = <<x>> /\ <<x>> # <<>> /\ Head(<<x>>) = x
        /\ Tail(<<x>>) = <<>>
    OBVIOUS
  <2>2. Rest(<<x>>, <<x>>) = Find(<<x>>, x) /\ Rest(<<>>, <<x>>) = Find(<<>>, x)
    <3>1. \A s \in Seq(Byte) : Rest(s, Append(<<>>, x)) = Find(s, x)
      <4> DEFINE e == <<>>
      <4>1. e \in Seq(Byte) /\ e = <<>>
        OBVIOUS
      <4> HIDE DEF e
      <4>2. \A s \in Seq(Byte) : Rest(s, Append(e, x)) = Find(Rest(s, e), x) /\ Rest(s, e) = s
        BY <4>1, RestAppend, RestEmpty
      <4>3. QED
        BY <4>1, <4>2
    <3>2. QED
      BY <1>1, <2>1, <3>1
  <2>3. Find(<<x>>, x) = <<>> /\ Find(<<>>, x) = <<>>
    BY <2>1 DEF Find
  <2>4. QED
    BY <2>2, <2>3 DEF LeftOver, Rest
<1>4. ASSUME NEW r \in Seq(Byte), NEW x \in Byte
      PROVE  /\ LeftOver(<<>>, r) => LeftOver(<<>>, Append(r, x))
             /\ LeftOver(r, r) => LeftOver(Append(r, x), Append(r, x))
  <2>1. <<x>> \in Seq(Byte) /\ r \o <<x>> = Append(r, x) /\ <<>> \o <<>> = <<>>
    OBVIOUS
  <2>2. LeftOver(<<>>, r) => LeftOver(<<>> \o <<>>, r \o <<x>>)
    BY <1>1, <1>3, <2>1, LeftOverConcat
  <2>3. LeftOver(r, r) => LeftOver(r \o <<x>>, r \o <<x>>)
    BY <1>3, <2>1, LeftOverConcat
  <2>4. QED
    BY <2>1, <2>2, <2>3
<1>5. Seq(Byte) \subseteq N
  <2>1. <<>> \in N
    BY <1>1, <1>2
  <2>2. \A r \in Seq(Byte), x \in Byte : r \in N => Append(r, x) \in N
    <3> SUFFICES ASSUME NEW r \in Seq(Byte), NEW x \in Byte, LeftOver(<<>>, r)
                 PROVE  LeftOver(<<>>, Append(r, x))
      OBVIOUS
    <3>1. QED
      BY <1>4
  <2> HIDE DEF N
  <2>3. QED
    BY <2>1, <2>2, SeqSet
<1>6. Seq(Byte) \subseteq A
  <2>1. <<>> \in A
    BY <1>1, <1>2
  <2>2. \A r \in Seq(Byte), x \in Byte : r \in A => Append(r, x) \in A
    <3> SUFFICES ASSUME NEW r \in Seq(Byte), NEW x \in Byte, LeftOver(r, r)
                 PROVE  LeftOver(Append(r, x), Append(r, x))
      OBVIOUS
    <3>1. QED
      BY <1>4
  <2> HIDE DEF A
  <2>3. QED
    BY <2>1, <2>2, SeqSet
<1>7. \A r \in Seq(Byte) : LeftOver(<<>>, r) /\ LeftOver(r, r)
  BY <1>5, <1>6
<1> HIDE DEF A, N
<1>8. ASSUME NEW j \in 0 .. Len(t)
      PROVE  LeftOver(SubSeq(t, 1, j), t)
  <2> DEFINE a == SubSeq(t, 1, j)
             b == SubSeq(t, j + 1, Len(t))
  <2>1. a \in Seq(Byte)
    BY PrefixOf
  <2>2. b \in Seq(Byte)
    OBVIOUS
  <2>3. t = a \o b
    BY SplitAt
  <2> HIDE DEF a, b
  <2>4. a \o <<>> = a
    BY <2>1
  <2>5. LeftOver(a \o <<>>, a \o b)
    BY <1>1, <1>7, <2>1, <2>2, LeftOverConcat
  <2>6. QED
    BY <2>3, <2>4, <2>5 DEF a
<1>9. QED
  BY <1>7, <1>8

-----------------------------------------------------------------------------
(* One send(): of a text, and of a window size.                            *)
OutState == [room : Nat, server : ParserState, short : BOOLEAN, cut : BOOLEAN]

LEMMA Takes ==
  ASSUME NEW out \in OutState, NEW bytes \in Seq(Byte), NEW isSize \in BOOLEAN
  PROVE  \E n \in 0 .. Len(bytes) :
           LET o == Transmit(out, bytes, isSize)
               taken == SubSeq(bytes, 1, n)
           IN  /\ o \in OutState
               /\ taken \in Seq(Byte)
               /\ o.server = Reads(out.server, taken)
               /\ o.short <=> out.short \/ n < Len(bytes)
               /\ o.cut <=> \/ out.cut
                            \/ isSize /\ n \in 1 .. Len(bytes) - 1
                            \/ ~isSize /\ IACsAtEnd(taken) % 2 = 1
<1> DEFINE n == IF Len(bytes) < out.room THEN Len(bytes) ELSE out.room
           taken == SubSeq(bytes, 1, n)
           inside == IF isSize THEN n \in 1 .. Len(bytes) - 1 ELSE IACsAtEnd(taken) % 2 = 1
           o == Transmit(out, bytes, isSize)
<1>1. out.room \in Nat /\ out.server \in ParserState /\ out.short \in BOOLEAN /\ out.cut \in BOOLEAN
  BY DEF OutState
<1>2. n \in 0 .. Len(bytes) /\ out.room - n \in Nat
  BY <1>1
<1>3. o = [room |-> out.room - n, server |-> Reads(out.server, taken),
           short |-> out.short \/ n < Len(bytes), cut |-> out.cut \/ inside]
  BY DEF Transmit
<1> HIDE DEF n
<1>4. taken \in Seq(Byte)
  BY <1>2, PrefixOf
<1> HIDE DEF taken, o
<1>5. Reads(out.server, taken) \in ParserState
  BY <1>1, <1>4, ReadsType
<1>6. inside <=> \/ isSize /\ n \in 1 .. Len(bytes) - 1
                 \/ ~isSize /\ IACsAtEnd(taken) % 2 = 1
  BY Zenon
<1> HIDE DEF inside
<1> DEFINE sh == out.short \/ n < Len(bytes)
           cu == out.cut \/ inside
           re == Reads(out.server, taken)
           ro == out.room - n
<1>7. sh \in BOOLEAN /\ cu \in BOOLEAN
  BY Zenon
<1>8. o = [room |-> ro, server |-> re, short |-> sh, cut |-> cu]
  BY <1>3, Zenon
<1>9. ro \in Nat /\ re \in ParserState
  BY <1>2, <1>5
<1> HIDE DEF sh, cu, re, ro
<1>10. o \in OutState /\ o.server = re /\ o.short = sh /\ o.cut = cu
  BY <1>7, <1>8, <1>9 DEF OutState
<1>11. (o.short <=> out.short \/ n < Len(bytes)) /\ (o.cut <=> out.cut \/ inside)
  BY <1>10, Zenon DEF sh, cu
<1>12. o.server = Reads(out.server, taken)
  BY <1>10 DEF re
<1>13. o.cut <=> \/ out.cut
                 \/ isSize /\ n \in 1 .. Len(bytes) - 1
                 \/ ~isSize /\ IACsAtEnd(taken) % 2 = 1
  BY <1>6, <1>11, Zenon
<1>14. QED
  BY <1>2, <1>4, <1>10, <1>11, <1>12, <1>13, Zenon DEF taken, o

LEMMA SendsText ==
  ASSUME NEW out \in OutState, NEW s \in Seq(Byte)
  PROVE  LET o == Transmit(out, Escaped(s), FALSE)
         IN  /\ o \in OutState
             /\ ~o.cut => ~out.cut
             /\ ~o.short => ~out.short
             /\ ~o.short /\ ~out.cut => ~o.cut
             /\ out.server.mode = "data" /\ ~o.cut =>
                  \E j \in 0 .. Len(s) :
                    /\ o.server = [out.server EXCEPT !.text = @ \o SubSeq(s, 1, j)]
                    /\ ~o.short => j = Len(s)
<1> DEFINE bytes == Escaped(s)
           o == Transmit(out, bytes, FALSE)
<1>1. bytes \in Seq(Byte) /\ Len(bytes) \in Nat /\ IACsAtEnd(bytes) % 2 = 0
  BY EscapedEven
<1> HIDE DEF bytes, o
<1>2. PICK n \in 0 .. Len(bytes) :
        /\ o \in OutState
        /\ SubSeq(bytes, 1, n) \in Seq(Byte)
        /\ o.server = Reads(out.server, SubSeq(bytes, 1, n))
        /\ o.short <=> out.short \/ n < Len(bytes)
        /\ o.cut <=> out.cut \/ IACsAtEnd(SubSeq(bytes, 1, n)) % 2 = 1
  <2>1. FALSE \in BOOLEAN
    OBVIOUS
  <2>2. QED
    BY <1>1, <2>1, Takes, Zenon DEF o
<1>3. ~(n < Len(bytes)) => n = Len(bytes) /\ SubSeq(bytes, 1, n) = bytes
  BY <1>1
<1>4. ~o.short /\ ~out.cut => ~o.cut
  <2>1. ~(0 = 1)
    OBVIOUS
  <2>2. QED
    BY <1>1, <1>2, <1>3, <2>1, Zenon
<1>5. ASSUME out.server.mode = "data", ~o.cut
      PROVE  \E j \in 0 .. Len(s) :
               /\ o.server = [out.server EXCEPT !.text = @ \o SubSeq(s, 1, j)]
               /\ ~o.short => j = Len(s)
  <2>1. out.server \in ParserState
    BY DEF OutState
  <2>2. IACsAtEnd(SubSeq(bytes, 1, n)) % 2 # 1
    BY <1>2, <1>5, Zenon
  <2>3. CASE n < Len(bytes)
    <3>1. PICK j \in 0 .. Len(s) :
            \/ SubSeq(bytes, 1, n) = Escaped(SubSeq(s, 1, j))
            \/ SubSeq(bytes, 1, n) = Append(Escaped(SubSeq(s, 1, j)), IAC)
      BY EscapedPrefix DEF bytes
    <3>2. SubSeq(s, 1, j) \in Seq(Byte)
      BY PrefixOf
    <3>3. SubSeq(bytes, 1, n) = Escaped(SubSeq(s, 1, j))
      BY <2>2, <3>1, <3>2, EscapedEven, Zenon
    <3>4. o.server = [out.server EXCEPT !.text = @ \o SubSeq(s, 1, j)]
      BY <1>2, <1>5, <2>1, <3>2, <3>3, ReadsEscaped, Zenon
    <3>5. o.short
      BY <1>2, <2>3, Zenon
    <3>6. QED
      BY <3>4, <3>5, Zenon
  <2>4. CASE ~(n < Len(bytes))
    <3>1. SubSeq(s, 1, Len(s)) = s /\ Len(s) \in 0 .. Len(s)
      OBVIOUS
    <3>2. o.server = Reads(out.server, Escaped(s))
      BY <1>2, <1>3, <2>4, Zenon DEF bytes
    <3>3. o.server = [out.server EXCEPT !.text = @ \o s]
      BY <1>5, <2>1, <3>2, ReadsEscaped, Zenon
    <3>4. QED
      BY <3>1, <3>3, Zenon
  <2>5. QED
    BY <2>3, <2>4, Zenon
<1>6. QED
  BY <1>2, <1>4, <1>5, Zenon DEF o, bytes

LEMMA SendsSize ==
  ASSUME NEW out \in OutState, NEW size \in Size
  PROVE  LET o == Transmit(out, Naws(size), TRUE)
         IN  /\ o \in OutState
             /\ ~o.cut => ~out.cut
             /\ ~o.short => ~out.short
             /\ ~o.short /\ ~out.cut => ~o.cut
             /\ out.server.mode = "data" /\ ~o.cut /\ ~Ambiguous(size) =>
                  /\ o.server.mode = "data"
                  /\ o.server.text = out.server.text
                  /\ \/ o.server.sizes = Append(out.server.sizes, size)
                     \/ o.short /\ o.server.sizes = out.server.sizes
<1> DEFINE bytes == Naws(size)
           o == Transmit(out, bytes, TRUE)
<1>1. bytes \in Seq(Byte) /\ Len(bytes) = 9
  BY NawsReads
<1> HIDE DEF bytes, o
<1>2. PICK n \in 0 .. Len(bytes) :
        /\ o \in OutState
        /\ SubSeq(bytes, 1, n) \in Seq(Byte)
        /\ o.server = Reads(out.server, SubSeq(bytes, 1, n))
        /\ o.short <=> out.short \/ n < Len(bytes)
        /\ o.cut <=> out.cut \/ n \in 1 .. Len(bytes) - 1
  <2>1. TRUE \in BOOLEAN
    OBVIOUS
  <2>2. QED
    BY <1>1, <2>1, Takes, Zenon DEF o
<1>3. /\ ~(n < Len(bytes)) => n \notin 1 .. Len(bytes) - 1 /\ SubSeq(bytes, 1, n) = bytes
      /\ n < Len(bytes) /\ n \notin 1 .. Len(bytes) - 1 => n = 0 /\ SubSeq(bytes, 1, n) = <<>>
  BY <1>1
<1>4. ~o.short /\ ~out.cut => ~o.cut
  BY <1>2, <1>3, Zenon
<1>5. ASSUME out.server.mode = "data", ~o.cut, ~Ambiguous(size)
      PROVE  /\ o.server.mode = "data"
             /\ o.server.text = out.server.text
             /\ \/ o.server.sizes = Append(out.server.sizes, size)
                \/ o.short /\ o.server.sizes = out.server.sizes
  <2>1. out.server \in ParserState
    BY DEF OutState
  <2>2. n \notin 1 .. Len(bytes) - 1
    BY <1>2, <1>5, Zenon
  <2>3. CASE n < Len(bytes)
    <3>1. o.server = out.server
      BY <1>2, <1>3, <2>1, <2>2, <2>3, ReadsEmpty, Zenon
    <3>2. o.short
      BY <1>2, <2>3, Zenon
    <3>3. QED
      BY <1>5, <3>1, <3>2, Zenon
  <2>4. CASE ~(n < Len(bytes))
    <3>1. o.server = Reads(out.server, Naws(size))
      BY <1>2, <1>3, <2>4, Zenon DEF bytes
    <3>2. QED
      BY <1>5, <2>1, <3>1, NawsReads, Zenon
  <2>5. QED
    BY <2>3, <2>4, Zenon
<1>6. QED
  BY <1>2, <1>4, <1>5, Zenon DEF o, bytes

-----------------------------------------------------------------------------
(* Texts without a line that begins like a command.                        *)
LEMMA NoCommandConcat ==
  ASSUME NEW s \in Seq(Byte), NEW t \in Seq(Byte), NoCommandIn(s), NoCommandIn(t)
  PROVE  NoCommandIn(s \o t)
<1> DEFINE u == s \o t
           m == Len(s)
           l == Len(t)
<1>1. /\ u \in Seq(Byte) /\ Len(u) = m + l
      /\ \A i \in 1 .. m : u[i] = s[i]
      /\ \A i \in m + 1 .. m + l : u[i] = t[i - m]
  BY ConcatAt
<1>2. m \in Nat /\ l \in Nat /\ DOMAIN s = 1 .. m /\ DOMAIN t = 1 .. l
  OBVIOUS
<1> HIDE DEF u, m, l
<1>3. ASSUME NEW i \in DOMAIN u, u[i] = HASH
      PROVE  i > 1 /\ u[i - 1] # Last(CRLF)
  <2>1. i \in 1 .. m + l
    BY <1>1
  <2>2. CASE i \in 1 .. m
    <3>1. s[i] = HASH
      BY <1>1, <1>3, <2>2
    <3>2. i > 1 /\ s[i - 1] # Last(CRLF)
      BY <1>2, <2>2, <3>1 DEF NoCommandIn
    <3>3. i - 1 \in 1 .. m
      BY <1>2, <2>2, <3>2
    <3>4. u[i - 1] = s[i - 1]
      BY <1>1, <3>3
    <3>5. QED
      BY <3>2, <3>4
  <2>3. CASE i \notin 1 .. m
    <3>1. i \in m + 1 .. m + l /\ i - m \in 1 .. l
      BY <1>2, <2>1, <2>3
    <3>2. t[i - m] = HASH
      BY <1>1, <1>3, <3>1
    <3>3. i - m > 1 /\ t[(i - m) - 1] # Last(CRLF)
      BY <1>2, <3>1, <3>2 DEF NoCommandIn
    <3>4. i - 1 \in m + 1 .. m + l /\ (i - 1) - m = (i - m) - 1 /\ i > 1
      BY <1>2, <3>1, <3>3
    <3>5. u[i - 1] = t[(i - m) - 1]
      BY <1>1, <3>4
    <3>6. QED
      BY <3>3, <3>4, <3>5
  <2>4. QED
    BY <2>2, <2>3
<1>4. NoCommandIn(u)
  BY <1>3 DEF NoCommandIn
<1>5. QED
  BY <1>4 DEF u

LEMMA NoCommandPrefix ==
  ASSUME NEW s \in Seq(Byte), NoCommandIn(s), NEW j \in 0 .. Len(s)
  PROVE  NoCommandIn(SubSeq(s, 1, j))
<1> DEFINE p == SubSeq(s, 1, j)
<1>1. p \in Seq(Byte) /\ Len(p) = j /\ \A i \in 1 .. j : p[i] = s[i]
  BY PrefixOf
<1>2. j \in Nat /\ \A i \in 1 .. j : i \in DOMAIN s
  OBVIOUS
<1> HIDE DEF p
<1>3. ASSUME NEW i \in DOMAIN p, p[i] = HASH
      PROVE  i > 1 /\ p[i - 1] # Last(CRLF)
  <2>1. i \in 1 .. j /\ i \in DOMAIN s /\ s[i] = HASH
    BY <1>1, <1>2, <1>3
  <2>2. i > 1 /\ s[i - 1] # Last(CRLF)
    BY <2>1 DEF NoCommandIn
  <2>3. i - 1 \in 1 .. j
    BY <1>2, <2>1, <2>2
  <2>4. QED
    BY <1>1, <2>2, <2>3
<1>4. QED
  BY <1>3 DEF NoCommandIn, p

LEMMA NoCommandLine ==
  ASSUME NEW s \in Seq(Byte), NoCommandIn(s)
  PROVE  NoCommandIn(s \o CRLF) /\ CRLF \in Seq(Byte)
<1>1. CRLF \in Seq(Byte)
  BY DEF CRLF, Byte
<1>2. NoCommandIn(CRLF)
  <2>1. \A i \in DOMAIN CRLF : CRLF[i] # HASH
    BY DEF CRLF, HASH
  <2>2. QED
    BY <2>1 DEF NoCommandIn
<1>3. QED
  BY <1>1, <1>2, NoCommandConcat

-----------------------------------------------------------------------------
(* What a connection's output says of the texts T and the sizes Z that     *)
(* were meant for the server.                                              *)
Plain(Z) == \A i \in DOMAIN Z : ~Ambiguous(Z[i])

OutGood(o, T, Z) ==
  /\ o \in OutState
  /\ T \in Seq(Byte) /\ Z \in Seq(Size)
  /\ ~o.short => ~o.cut
  /\ ~o.cut /\ Plain(Z) =>
       /\ o.server.mode = "data"
       /\ LeftOver(o.server.text, T)
       /\ \A i \in DOMAIN o.server.sizes : \E k \in DOMAIN Z : o.server.sizes[i] = Z[k]
  /\ ~o.short /\ Plain(Z) => o.server.text = T /\ o.server.sizes = Z

(* ... and that it has read no line that begins like a command.            *)
Harmless(o, Z) == ~o.cut /\ Plain(Z) => NoCommandIn(o.server.text)

LEMMA TextGood ==
  ASSUME NEW out, NEW T, NEW Z, OutGood(out, T, Z), NEW s \in Seq(Byte)
  PROVE  LET o == Transmit(out, Escaped(s), FALSE)
         IN  /\ OutGood(o, T \o s, Z)
             /\ Harmless(out, Z) /\ NoCommandIn(s) => Harmless(o, Z)
<1> DEFINE o == Transmit(out, Escaped(s), FALSE)
<1>1. out \in OutState /\ T \in Seq(Byte) /\ Z \in Seq(Size) /\ T \o s \in Seq(Byte)
  BY DEF OutGood
<1>2. /\ o \in OutState
      /\ ~o.cut => ~out.cut
      /\ ~o.short => ~out.short
      /\ ~o.short /\ ~out.cut => ~o.cut
      /\ out.server.mode = "data" /\ ~o.cut =>
           \E j \in 0 .. Len(s) :
             /\ o.server = [out.server EXCEPT !.text = @ \o SubSeq(s, 1, j)]
             /\ ~o.short => j = Len(s)
  BY <1>1, SendsText
<1> HIDE DEF o
<1>3. ~o.short => ~o.cut
  BY <1>2, Zenon DEF OutGood
<1>4. out.server \in ParserState /\ out.server.text \in Seq(Byte)
  BY <1>1 DEF OutState, ParserState
<1>5. ASSUME ~o.cut, Plain(Z)
      PROVE  /\ o.server.mode = "data"
             /\ LeftOver(o.server.text, T \o s)
             /\ \A i \in DOMAIN o.server.sizes : \E k \in DOMAIN Z : o.server.sizes[i] = Z[k]
             /\ ~o.short => o.server.text = T \o s /\ o.server.sizes = Z
             /\ Harmless(out, Z) /\ NoCommandIn(s) => NoCommandIn(o.server.text)
  <2>1. /\ ~out.cut /\ out.server.mode = "data" /\ LeftOver(out.server.text, T)
        /\ \A i \in DOMAIN out.server.sizes : \E k \in DOMAIN Z : out.server.sizes[i] = Z[k]
        /\ ~out.short => out.server.text = T /\ out.server.sizes = Z
    BY <1>2, <1>5, Zenon DEF OutGood
  <2>2. PICK j \in 0 .. Len(s) :
             /\ o.server = [out.server EXCEPT !.text = @ \o SubSeq(s, 1, j)]
             /\ ~o.short => j = Len(s)
    BY <1>2, <1>5, <2>1, Zenon
  <2> DEFINE p == SubSeq(s, 1, j)
             x == out.server.text
  <2>3. p \in Seq(Byte) /\ (j = Len(s) => p = s) /\ LeftOver(p, s)
    <3>1. p \in Seq(Byte)
      BY PrefixOf
    <3>2. j = Len(s) => p = s
      OBVIOUS
    <3>3. LeftOver(p, s)
      BY LeftOverRules
    <3>4. QED
      BY <3>1, <3>2, <3>3
  <2>4. NoCommandIn(s) => NoCommandIn(p)
    BY NoCommandPrefix
  <2> HIDE DEF p
  <2>5. o.server = [out.server EXCEPT !.text = x \o p] /\ x \in Seq(Byte)
    BY <1>4, <2>2 DEF p
  <2> HIDE DEF x
  <2>6. /\ o.server.mode = "data" /\ o.server.text = x \o p
        /\ o.server.sizes = out.server.sizes
    BY <1>4, <2>1, <2>5 DEF ParserState
  <2>7. LeftOver(x \o p, T \o s)
    BY <1>1, <2>1, <2>3, <2>5, LeftOverConcat DEF x
  <2>8. ~o.short => o.server.text = T \o s /\ o.server.sizes = Z
    BY <1>2, <2>1, <2>2, <2>3, <2>6, Zenon DEF x
  <2>9. Harmless(out, Z) /\ NoCommandIn(s) => NoCommandIn(o.server.text)
    <3>1. Harmless(out, Z) => NoCommandIn(x)
      BY <1>5, <2>1, Zenon DEF Harmless, x
    <3>2. QED
      BY <2>3, <2>4, <2>5, <2>6, <3>1, NoCommandConcat
  <2>10. QED
    BY <2>1, <2>6, <2>7, <2>8, <2>9, Zenon
<1>6. ~o.short /\ Plain(Z) => o.server.text = T \o s /\ o.server.sizes = Z
  BY <1>3, <1>5, Zenon
<1>7. OutGood(o, T \o s, Z)
  BY <1>1, <1>2, <1>3, <1>5, <1>6, Zenon DEF OutGood
<1>8. Harmless(out, Z) /\ NoCommandIn(s) => Harmless(o, Z)
  BY <1>5, Zenon DEF Harmless
<1>9. QED
  BY <1>7, <1>8, Zenon DEF o

LEMMA SizeGood ==
  ASSUME NEW out, NEW T, NEW Z, OutGood(out, T, Z), NEW size \in Size
  PROVE  LET o == Transmit(out, Naws(size), TRUE)
         IN  /\ OutGood(o, T, Append(Z, size))
             /\ Harmless(out, Z) => Harmless(o, Append(Z, size))
<1> DEFINE o == Transmit(out, Naws(size), TRUE)
           Y == Append(Z, size)
<1>1. out \in OutState /\ T \in Seq(Byte) /\ Z \in Seq(Size)
  BY DEF OutGood
<1>2. /\ o \in OutState
      /\ ~o.cut => ~out.cut
      /\ ~o.short => ~out.short
      /\ ~o.short /\ ~out.cut => ~o.cut
      /\ out.server.mode = "data" /\ ~o.cut /\ ~Ambiguous(size) =>
           /\ o.server.mode = "data"
           /\ o.server.text = out.server.text
           /\ \/ o.server.sizes = Append(out.server.sizes, size)
              \/ o.short /\ o.server.sizes = out.server.sizes
  BY <1>1, SendsSize
<1> HIDE DEF o
<1>3. /\ Y \in Seq(Size) /\ Len(Y) = Len(Z) + 1 /\ Y[Len(Z) + 1] = size
      /\ Len(Z) \in Nat /\ \A i \in 1 .. Len(Z) : Y[i] = Z[i]
      /\ DOMAIN Z = 1 .. Len(Z) /\ DOMAIN Y = 1 .. Len(Z) + 1
  BY <1>1
<1> HIDE DEF Y
<1>4. Plain(Y) => Plain(Z) /\ ~Ambiguous(size)
  <2>1. Len(Z) + 1 \in DOMAIN Y /\ \A i \in DOMAIN Z : i \in DOMAIN Y /\ Y[i] = Z[i]
    BY <1>3
  <2>2. QED
    BY <1>3, <2>1, Zenon DEF Plain
<1>5. ~o.short => ~o.cut
  BY <1>2, Zenon DEF OutGood
<1>6. ASSUME ~o.cut, Plain(Y)
      PROVE  /\ o.server.mode = "data"
             /\ o.server.text = out.server.text
             /\ LeftOver(o.server.text, T)
             /\ \A i \in DOMAIN o.server.sizes : \E k \in DOMAIN Y : o.server.sizes[i] = Y[k]
             /\ ~o.short => o.server.text = T /\ o.server.sizes = Y
  <2>1. /\ ~out.cut /\ out.server.mode = "data" /\ LeftOver(out.server.text, T)
        /\ \A i \in DOMAIN out.server.sizes : \E k \in DOMAIN Z : out.server.sizes[i] = Z[k]
        /\ ~out.short => out.server.text = T /\ out.server.sizes = Z
    BY <1>2, <1>4, <1>6, Zenon DEF OutGood
  <2>2. /\ o.server.mode = "data"
        /\ o.server.text = out.server.text
        /\ \/ o.server.sizes = Append(out.server.sizes, size)
           \/ o.short /\ o.server.sizes = out.server.sizes
    BY <1>2, <1>4, <1>6, <2>1, Zenon
  <2>3. \A i \in DOMAIN out.server.sizes : \E k \in DOMAIN Y : out.server.sizes[i] = Y[k]
    <3>1. \A k \in DOMAIN Z : k \in DOMAIN Y /\ Y[k] = Z[k]
      BY <1>3
    <3>2. QED
      BY <2>1, <3>1, Zenon
  <2>4. \A i \in DOMAIN o.server.sizes : \E k \in DOMAIN Y : o.server.sizes[i] = Y[k]
    <3> DEFINE z == out.server.sizes
    <3>1. z \in Seq(Nat \X Nat)
      BY <1>1 DEF OutState, ParserState
    <3>2. \A i \in DOMAIN z : \E k \in DOMAIN Y : z[i] = Y[k]
      BY <2>3
    <3>3. Len(Z) + 1 \in DOMAIN Y /\ Y[Len(Z) + 1] = size
      BY <1>3
    <3>4. o.server.sizes = Append(z, size) \/ o.server.sizes = z
      BY <2>2
    <3> HIDE DEF z
    <3> DEFINE a == Append(z, size)
    <3>5. \A i \in DOMAIN a : (i \in DOMAIN z /\ a[i] = z[i]) \/ a[i] = size
      BY <3>1
    <3> HIDE DEF a
    <3>6. \A i \in DOMAIN a : \E k \in DOMAIN Y : a[i] = Y[k]
      BY <3>2, <3>3, <3>5, Zenon
    <3>7. o.server.sizes = a \/ o.server.sizes = z
      BY <3>4 DEF a
    <3>8. QED
      BY <3>2, <3>6, <3>7, Zenon
  <2>5. ~o.short => o.server.text = T /\ o.server.sizes = Y
    BY <1>2, <2>1, <2>2, Zenon DEF Y
  <2>6. LeftOver(o.server.text, T)
    BY <2>1, <2>2, Zenon
  <2>7. QED
    BY <2>2, <2>4, <2>5, <2>6, Zenon
<1>7. ~o.short /\ Plain(Y) => o.server.text = T /\ o.server.sizes = Y
  BY <1>5, <1>6, Zenon
<1>8. OutGood(o, T, Y)
  BY <1>1, <1>2, <1>3, <1>5, <1>6, <1>7, Zenon DEF OutGood
<1>9. Harmless(out, Z) => Harmless(o, Y)
  BY <1>2, <1>4, <1>6, Zenon DEF Harmless
<1>10. QED
  BY <1>8, <1>9, Zenon DEF o, Y

-----------------------------------------------------------------------------
(* What a hook returns, sent item by item.                                 *)
Elements == Seq(Byte) \cup {NotString}

Sent(out, result) == FoldLeft(SendItem, out, result)

LEMMA MeantType ==
  ASSUME NEW item \in Elements
  PROVE  /\ Meant(item) \in Seq(Byte)
         /\ item # NotString => item \in Seq(Byte) /\ Meant(item) = item \o CRLF
<1>1. <<>> \in Seq(Byte) /\ \A s \in Seq(Byte) : s \o CRLF \in Seq(Byte)
  BY DEF CRLF, Byte
<1>2. QED
  BY <1>1 DEF Elements, Meant

LEMMA SendItemType ==
  ASSUME NEW o \in OutState, NEW item \in Elements
  PROVE  SendItem(o, item) \in OutState
<1>1. CASE item = NotString
  BY <1>1 DEF SendItem
<1>2. CASE item # NotString
  <2>1. item \o CRLF \in Seq(Byte) /\ SendItem(o, item) = Transmit(o, Escaped(item \o CRLF), FALSE)
    BY <1>2, MeantType DEF SendItem, SendWithCRLF
  <2>2. QED
    BY <2>1, SendsText
<1>3. QED
  BY <1>1, <1>2

SendStep == [item \in Elements |-> [o \in OutState |-> SendItem(o, item)]]

LEMMA SendRun ==
  /\ Loop(SendStep, Elements, OutState)
  /\ \A b \in Elements, p \in OutState : SendStep[b][p] = SendItem(p, b)
  /\ \A from \in OutState, s \in Seq(Elements) :
       Sent(from, s) = Run(SendStep, OutState, from, s)
<1>1. Loop(SendStep, Elements, OutState)
  BY SendItemType DEF SendStep, Loop
<1>2. \A b \in Elements, p \in OutState : SendStep[b][p] = SendItem(p, b)
  BY DEF SendStep
<1>3. ASSUME NEW from \in OutState, NEW s \in Seq(Elements)
      PROVE  Sent(from, s) = Run(SendStep, OutState, from, s)
  <2> DEFINE P == SUBSET DOMAIN s
             Good(f) == f = [S \in P |->
                               IF S = {} THEN from ELSE SendItem(f[S \ {Max(S)}], s[Max(S)])]
             c == CHOOSE f : Good(f)
  <2>1. Sent(from, s) = c[DOMAIN s]
    BY DEF Sent, FoldLeft, MapThenFoldSet
  <2>2. \A i \in DOMAIN s : s[i] \in Elements
    OBVIOUS
  <2>3. \E f : Good(f)
    <3>1. PICK f \in [SUBSET DOMAIN s -> OutState] : FoldOf(f, SendStep, from, s)
      BY <1>1, RunFold
    <3>2. ASSUME NEW S \in P
          PROVE  f[S] = IF S = {} THEN from ELSE SendItem(f[S \ {Max(S)}], s[Max(S)])
      <4>1. f[S \ {Max(S)}] \in OutState
        OBVIOUS
      <4>2. QED
        BY <1>2, <2>2, <3>1, <4>1 DEF FoldOf
    <3>3. f = [S \in P |-> f[S]]
      OBVIOUS
    <3>4. Good(f)
      BY <3>2, <3>3
    <3> HIDE DEF Good
    <3>5. QED
      BY <3>4
  <2>4. Good(c)
    <3> HIDE DEF Good
    <3>1. QED
      BY <2>3
  <2> HIDE DEF c
  <2>5. c[{}] = from
    BY <2>4
  <2>6. ASSUME NEW S \in SUBSET DOMAIN s, S # {}, Max(S) \in DOMAIN s, c[S \ {Max(S)}] \in OutState
        PROVE  c[S] = SendStep[s[Max(S)]][c[S \ {Max(S)}]]
    <3>1. c[S] = SendItem(c[S \ {Max(S)}], s[Max(S)])
      BY <2>4, <2>6
    <3>2. QED
      BY <1>2, <2>2, <2>6, <3>1
  <2> HIDE DEF Good, P
  <2>7. c[DOMAIN s] = Run(SendStep, OutState, from, s)
    <3>1. LoopsAs(c, SendStep, OutState, from, s)
      BY <2>5, <2>6 DEF LoopsAs
    <3>2. QED
      BY <1>1, <3>1, LoopEnds
  <2>8. QED
    BY <2>1, <2>7
<1>4. QED
  BY <1>1, <1>2, <1>3

LEMMA SentAppend ==
  ASSUME NEW o \in OutState, NEW result \in Seq(Elements), NEW item \in Elements
  PROVE  /\ Sent(o, <<>>) = o
         /\ Sent(o, result) \in OutState
         /\ Sent(o, Append(result, item)) = SendItem(Sent(o, result), item)
<1>1. Append(result, item) \in Seq(Elements) /\ <<>> \in Seq(Elements)
  OBVIOUS
<1>2. /\ Run(SendStep, OutState, o, Append(result, item))
          = SendStep[item][Run(SendStep, OutState, o, result)]
      /\ Run(SendStep, OutState, o, <<>>) = o
  BY SendRun, RunAppend, RunEmpty
<1>3. Sent(o, result) \in OutState
  BY SendRun, RunType
<1>4. QED
  BY <1>1, <1>2, <1>3, SendRun

Meants(result) == FlattenSeq([i \in DOMAIN result |-> Meant(result[i])])

LEMMA MeantsAppend ==
  ASSUME NEW result \in Seq(Elements), NEW item \in Elements
  PROVE  /\ Meants(result) \in Seq(Byte)
         /\ Meants(Append(result, item)) = Meants(result) \o Meant(item)
<1> DEFINE f == [x \in Elements |-> Meant(x)]
           E == Seq(Byte)
           m(s) == [i \in DOMAIN s |-> f[s[i]]]
<1>1. f \in [Elements -> E] /\ f[item] = Meant(item) /\ f[item] \in E
  BY MeantType
<1>2. \A s \in Seq(Elements) : Meants(s) = FlattenSeq(m(s))
  <2> SUFFICES ASSUME NEW s \in Seq(Elements)
               PROVE  Meants(s) = FlattenSeq(m(s))
    OBVIOUS
  <2>1. \A i \in DOMAIN s : s[i] \in Elements
    OBVIOUS
  <2>2. [i \in DOMAIN s |-> Meant(s[i])] = m(s)
    BY <2>1
  <2> HIDE DEF m
  <2>3. QED
    BY <2>2 DEF Meants
<1>3. Append(result, item) \in Seq(Elements)
  OBVIOUS
<1>4. m(result) \in Seq(E) /\ m(Append(result, item)) = Append(m(result), f[item])
  <2> HIDE DEF f, E
  <2>1. QED
    BY <1>1, MapAppend
<1> HIDE DEF m, f
<1>5. /\ FlattenSeq(m(result)) \in Seq(Byte)
      /\ FlattenSeq(Append(m(result), f[item])) = FlattenSeq(m(result)) \o f[item]
  BY <1>1, <1>4, FlattenType, FlattenAppend
<1>6. QED
  BY <1>1, <1>2, <1>3, <1>4, <1>5

(* Texts none of which has a line that begins like a command.              *)
NoCommands(result) ==
  \A i \in DOMAIN result : result[i] # NotString => NoCommandIn(result[i])

LEMMA ResultGood ==
  ASSUME NEW out, NEW T, NEW Z, OutGood(out, T, Z), NEW result \in Seq(Elements)
  PROVE  /\ OutGood(Sent(out, result), T \o Meants(result), Z)
         /\ Harmless(out, Z) /\ NoCommands(result) => Harmless(Sent(out, result), Z)
<1> DEFINE Good(r) == /\ OutGood(Sent(out, r), T \o Meants(r), Z)
                      /\ Harmless(out, Z) /\ NoCommands(r) => Harmless(Sent(out, r), Z)
           A == {r \in Seq(Elements) : Good(r)}
<1>1. out \in OutState /\ T \in Seq(Byte) /\ Z \in Seq(Size)
  BY DEF OutGood
<1>2. <<>> \in A
  <2>1. <<>> \in Seq(Elements) /\ T \o <<>> = T
    BY <1>1
  <2>2. Meants(<<>>) = <<>>
    <3>1. [i \in DOMAIN <<>> |-> Meant(<<>>[i])] = <<>>
      OBVIOUS
    <3>2. QED
      BY <3>1, FlattenEmpty DEF Meants
  <2>3. Sent(out, <<>>) = out
    <3>1. Run(SendStep, OutState, out, <<>>) = out
      BY <1>1, SendRun, RunEmpty
    <3>2. QED
      BY <1>1, <2>1, <3>1, SendRun
  <2>4. Good(<<>>)
    BY <2>1, <2>2, <2>3, Zenon
  <2> HIDE DEF Good
  <2>5. QED
    BY <2>1, <2>4
<1>3. ASSUME NEW r \in Seq(Elements), NEW item \in Elements, r \in A
      PROVE  Append(r, item) \in A
  <2> DEFINE q == Append(r, item)
             o == Sent(out, r)
             U == T \o Meants(r)
  <2>1. Good(r)
    BY <1>3
  <2>2. q \in Seq(Elements)
    OBVIOUS
  <2>3. Sent(out, q) = SendItem(o, item)
    BY <1>1, SentAppend
  <2>4. Meants(q) = Meants(r) \o Meant(item) /\ Meants(r) \in Seq(Byte) /\ Meant(item) \in Seq(Byte)
    BY MeantsAppend, MeantType
  <2>5. T \o Meants(q) = U \o Meant(item)
    <3> DEFINE x == Meants(r)
               y == Meant(item)
    <3>1. x \in Seq(Byte) /\ y \in Seq(Byte)
      BY <2>4
    <3> HIDE DEF x, y
    <3>2. T \o (x \o y) = (T \o x) \o y
      BY <1>1, <3>1
    <3>3. QED
      BY <2>4, <3>2 DEF x, y
  <2>6. OutGood(o, U, Z) /\ (Harmless(out, Z) /\ NoCommands(r) => Harmless(o, Z))
    BY <2>1
  <2>7. NoCommands(q) => NoCommands(r) /\ (item # NotString => NoCommandIn(item))
    <3>1. /\ \A i \in DOMAIN r : i \in DOMAIN q /\ q[i] = r[i]
          /\ Len(r) + 1 \in DOMAIN q /\ q[Len(r) + 1] = item
      OBVIOUS
    <3> HIDE DEF q
    <3>2. QED
      BY <3>1, Zenon DEF NoCommands
  <2> HIDE DEF A, Good, q, o, U
  <2>8. CASE item = NotString
    <3>1. SendItem(o, item) = o /\ Meant(item) = <<>>
      BY <2>8 DEF SendItem, Meant
    <3>2. U \o <<>> = U
      <4>1. U \in Seq(Byte)
        BY <2>6 DEF OutGood
      <4>2. QED
        BY <4>1
    <3>3. Good(q)
      BY <2>3, <2>5, <2>6, <2>7, <3>1, <3>2, Zenon DEF Good
    <3>4. QED
      BY <2>2, <3>3 DEF A, q
  <2>9. CASE item # NotString
    <3>1. item \in Seq(Byte) /\ Meant(item) = item \o CRLF /\ item \o CRLF \in Seq(Byte)
      BY <2>9, <2>4, MeantType
    <3>2. SendItem(o, item) = Transmit(o, Escaped(item \o CRLF), FALSE)
      BY <2>9 DEF SendItem, SendWithCRLF
    <3>3. /\ OutGood(SendItem(o, item), U \o Meant(item), Z)
          /\ Harmless(o, Z) /\ NoCommandIn(item \o CRLF) => Harmless(SendItem(o, item), Z)
      <4> DEFINE s == item \o CRLF
      <4>1. s \in Seq(Byte)
        BY <3>1
      <4> HIDE DEF s
      <4>2. /\ OutGood(Transmit(o, Escaped(s), FALSE), U \o s, Z)
            /\ Harmless(o, Z) /\ NoCommandIn(s) => Harmless(Transmit(o, Escaped(s), FALSE), Z)
        BY <2>6, <4>1, TextGood, Zenon
      <4>3. QED
        BY <3>1, <3>2, <4>2, Zenon DEF s
    <3>4. NoCommandIn(item) => NoCommandIn(item \o CRLF)
      BY <3>1, NoCommandLine
    <3>5. Good(q)
      BY <2>3, <2>5, <2>6, <2>7, <2>9, <3>3, <3>4, Zenon DEF Good
    <3>6. QED
      BY <2>2, <3>5 DEF A, q
  <2>10. QED
    BY <2>8, <2>9
<1> HIDE DEF A, Good
<1>4. Seq(Elements) \subseteq A
  BY <1>2, <1>3, SeqSet
<1>5. result \in A
  BY <1>4
<1>6. Good(result)
  BY <1>5 DEF A
<1>7. QED
  BY <1>6 DEF Good

-----------------------------------------------------------------------------
(* The inductive invariant of TelnetOut: what the output says of what was  *)
(* meant holds whether there is a connection or not, the last size is the  *)
(* terminal's, and a connection that has ended leaves nothing behind.      *)
OutInv ==
  /\ connected \in BOOLEAN
  /\ term \in Size
  /\ OutGood(Output, texts, sizes)
  /\ connected => sizes # <<>> /\ Last(sizes) = term
  /\ ~connected => /\ server = Start /\ texts = <<>> /\ sizes = <<>>
                   /\ short = FALSE /\ cut = FALSE

Unharmed == Harmless(Output, sizes)

LEMMA OutputIs ==
  /\ Output.room = room /\ Output.server = server
  /\ Output.short = short /\ Output.cut = cut
BY DEF Output

LEMMA OutputSet ==
  ASSUME NEW out \in OutState, SetOutput(out)
  PROVE  Output' = out
<1>1. out = [room |-> out.room, server |-> out.server, short |-> out.short, cut |-> out.cut]
  BY DEF OutState
<1>2. QED
  BY <1>1, Zenon DEF SetOutput, Output

(* A connection at its start, before and after its first size.             *)
LEMMA FreshGood ==
  ASSUME NEW r \in Nat
  PROVE  LET o == [room |-> r, server |-> Start, short |-> FALSE, cut |-> FALSE]
         IN  OutGood(o, <<>>, <<>>) /\ Harmless(o, <<>>)
<1> DEFINE o == [room |-> r, server |-> Start, short |-> FALSE, cut |-> FALSE]
<1>1. Start \in ParserState
  BY OpeningReads
<1>2. o \in OutState /\ o.server = Start /\ o.short = FALSE /\ o.cut = FALSE
  BY <1>1 DEF OutState
<1>3. /\ Start.mode = "data" /\ Start.text = <<>> /\ Start.sizes = <<>>
  BY DEF Start
<1>4. <<>> \in Seq(Byte) /\ <<>> \in Seq(Size) /\ DOMAIN <<>> = {}
  OBVIOUS
<1>5. LeftOver(<<>>, <<>>)
  BY <1>4, LeftOverRules
<1> HIDE DEF o
<1>6. \A i \in DOMAIN o.server.sizes : \E k \in DOMAIN <<>> : o.server.sizes[i] = <<>>[k]
  BY <1>2, <1>3, <1>4
<1>7. NoCommandIn(<<>>)
  BY <1>4 DEF NoCommandIn
<1>8. OutGood(o, <<>>, <<>>)
  BY <1>2, <1>3, <1>4, <1>5, <1>6 DEF OutGood
<1>9. Harmless(o, <<>>)
  BY <1>2, <1>3, <1>7 DEF Harmless
<1>10. QED
  BY <1>8, <1>9 DEF o

LEMMA OpenGood ==
  ASSUME NEW r \in Nat, NEW size \in Size
  PROVE  LET o == [room |-> r, server |-> Reads(Start, Opening \o Naws(size)),
                   short |-> FALSE, cut |-> FALSE]
         IN  OutGood(o, <<>>, <<size>>) /\ Harmless(o, <<size>>)
<1> DEFINE p == Reads(Start, Opening \o Naws(size))
           o == [room |-> r, server |-> p, short |-> FALSE, cut |-> FALSE]
           Z == <<size>>
<1>1. Start \in ParserState /\ Naws(size) \in Seq(Byte) /\ Opening \in Seq(Byte)
  BY OpeningReads, NawsReads
<1>2. p = Reads(Start, Naws(size)) /\ p \in ParserState
  <2>1. Reads(Start, Opening \o Naws(size)) = Reads(Reads(Start, Opening), Naws(size))
    BY <1>1, ReadsConcat
  <2>2. Reads(Start, Naws(size)) \in ParserState
    BY <1>1, ReadsType
  <2>3. QED
    BY <2>1, <2>2, OpeningReads, Zenon
<1>3. Start.mode = "data" /\ Start.text = <<>> /\ Start.sizes = <<>>
  BY DEF Start
<1> HIDE DEF p
<1>4. o \in OutState /\ o.server = p /\ o.short = FALSE /\ o.cut = FALSE
  BY <1>2 DEF OutState
<1>5. /\ <<>> \in Seq(Byte) /\ Z \in Seq(Size) /\ DOMAIN Z = {1} /\ Z[1] = size
      /\ Append(<<>>, size) = Z
  OBVIOUS
<1> HIDE DEF o, Z
<1>6. ASSUME Plain(Z)
      PROVE  p.mode = "data" /\ p.text = <<>> /\ p.sizes = Z
  <2>1. ~Ambiguous(size)
    BY <1>5, <1>6 DEF Plain
  <2>2. p.mode = "data" /\ p.text = Start.text /\ p.sizes = Append(Start.sizes, size)
    BY <1>1, <1>2, <1>3, <2>1, NawsReads, Zenon
  <2>3. QED
    BY <1>3, <1>5, <2>2, Zenon
<1>7. LeftOver(<<>>, <<>>)
  BY <1>5, LeftOverRules
<1>8. NoCommandIn(<<>>)
  <2>1. DOMAIN <<>> = {}
    OBVIOUS
  <2>2. QED
    BY <2>1 DEF NoCommandIn
<1>9. OutGood(o, <<>>, Z)
  BY <1>4, <1>5, <1>6, <1>7, Zenon DEF OutGood
<1>10. Harmless(o, Z)
  BY <1>4, <1>6, <1>8, Zenon DEF Harmless
<1>11. QED
  BY <1>9, <1>10 DEF o, p, Z

(* The room in the kernel's buffer does not matter to it.                  *)
LEMMA RoomGood ==
  ASSUME NEW out, NEW T, NEW Z, OutGood(out, T, Z), NEW o \in OutState,
         o.server = out.server, o.short = out.short, o.cut = out.cut
  PROVE  OutGood(o, T, Z) /\ (Harmless(out, Z) => Harmless(o, Z))
<1>1. OutGood(o, T, Z)
  BY Zenon DEF OutGood
<1>2. Harmless(out, Z) => Harmless(o, Z)
  BY Zenon DEF Harmless
<1>3. QED
  BY <1>1, <1>2

LEMMA OutInit == OInit => OutInv /\ Unharmed
<1> SUFFICES ASSUME OInit
             PROVE  OutInv /\ Unharmed
  OBVIOUS
<1>1. Room \in Nat
  BY RoomAssumption
<1>2. Output = [room |-> Room, server |-> Start, short |-> FALSE, cut |-> FALSE]
  BY DEF OInit, Output
<1>3. OutGood(Output, <<>>, <<>>) /\ Harmless(Output, <<>>)
  BY <1>1, <1>2, FreshGood
<1>4. term \in Size
  BY SizesAssumption DEF OInit, Size
<1>5. QED
  BY <1>3, <1>4 DEF OInit, OutInv, Unharmed

(* What the hooks return is sequences of texts and of what is none; and    *)
(* the line of a command is never among the texts.                         *)
LEMMA LineResults ==
  ASSUME NEW line \in Lines, NEW result \in HookReturns(line) \cup {IfHookFails(line)}
  PROVE  /\ result \in Seq(Elements)
         /\ (\A r \in Results : NoCommands(r)) => NoCommands(result)
<1>1. line \in Seq(Byte \ {10}) /\ line \in Seq(Byte)
  <2>1. line \in Seq(Byte \ {10})
    BY LinesAssumption
  <2>2. QED
    BY <2>1
<1>2. <<>> \in Seq(Byte) /\ <<>> \in Seq(Elements)
  OBVIOUS
<1>3. \A s \in Seq(Byte) : s \in Elements /\ <<s>> \in Seq(Elements)
  BY DEF Elements
<1>4. \A s : NoCommandIn(s) => NoCommands(<<s>>)
  BY DEF NoCommands
<1>5. NoCommandIn(<<>>) /\ NoCommands(<<>>)
  <2>1. DOMAIN <<>> = {}
    OBVIOUS
  <2>2. QED
    BY <2>1 DEF NoCommandIn, NoCommands
<1>6. CASE IsCommand(line)
  <2>1. result = <<>> \/ result = << <<>> >>
    BY <1>6 DEF HookReturns, IfHookFails
  <2>2. QED
    BY <1>2, <1>3, <1>4, <1>5, <2>1
<1>7. CASE ~IsCommand(line)
  <2>1. result \in Results \/ result = <<line>>
    BY <1>7 DEF HookReturns, IfHookFails
  <2>2. \A r \in Results : r \in Seq(Elements)
    BY ResultsAssumption DEF Elements
  <2>3. NoCommandIn(line)
    <3> SUFFICES ASSUME NEW i \in DOMAIN line, line[i] = HASH
                 PROVE  i > 1 /\ line[i - 1] # Last(CRLF)
      BY DEF NoCommandIn
    <3>1. i \in 1 .. Len(line) /\ line # <<>>
      BY <1>1
    <3>2. i # 1
      BY <1>1, <1>7, <3>1 DEF IsCommand
    <3>3. i - 1 \in 1 .. Len(line)
      BY <1>1, <3>1, <3>2
    <3>4. line[i - 1] \in Byte \ {10}
      BY <1>1, <3>3
    <3>5. Last(CRLF) = 10
      BY DEF CRLF, Last
    <3>6. QED
      BY <3>1, <3>2, <3>4, <3>5
  <2>4. QED
    BY <1>1, <1>3, <1>4, <2>1, <2>2, <2>3
<1>8. QED
  BY <1>6, <1>7

(* No text of the hooks has a line that begins like a command.             *)
AnswersHoldNoCommand == \A result \in Results : NoCommands(result)

LEMMA ResultKeeps ==
  ASSUME OutInv, connected, NEW result \in Seq(Elements), SendHookResult(result)
  PROVE  /\ OutInv'
         /\ Unharmed /\ NoCommands(result) => Unharmed'
<1>1. OutGood(Output, texts, sizes) /\ Output \in OutState
  BY DEF OutInv, OutGood
<1> DEFINE o == Sent(Output, result)
<1>2. /\ OutGood(o, texts \o Meants(result), sizes)
      /\ Harmless(Output, sizes) /\ NoCommands(result) => Harmless(o, sizes)
  BY <1>1, ResultGood, Zenon
<1>3. o \in OutState
  BY <1>2, Zenon DEF OutGood
<1>4. /\ SetOutput(o) /\ texts' = texts \o Meants(result)
      /\ connected' = connected /\ term' = term /\ sizes' = sizes
  BY DEF SendHookResult, Sent, Meants
<1>5. Output' = o
  BY <1>3, <1>4, OutputSet, Zenon
<1>6. OutGood(Output', texts', sizes')
  BY <1>2, <1>4, <1>5, Zenon
<1>7. Unharmed /\ NoCommands(result) => Harmless(Output', sizes')
  BY <1>2, <1>4, <1>5, Zenon DEF Unharmed
<1>8. OutInv'
  BY <1>4, <1>6, Zenon DEF OutInv
<1>9. QED
  BY <1>7, <1>8, Zenon DEF Unharmed

LEMMA OutNext ==
  ASSUME OutInv, [ONext]_ovars
  PROVE  /\ OutInv'
         /\ AnswersHoldNoCommand /\ Unharmed => Unharmed'
<1>1. OutGood(Output, texts, sizes) /\ Output \in OutState /\ room \in Nat
  BY OutputIs DEF OutInv, OutGood, OutState
<1>2. CASE UNCHANGED ovars
  <2>1. Output' = Output
    BY <1>2 DEF ovars, Output
  <2>2. OutInv' /\ (Unharmed => Unharmed')
    BY <1>2, <2>1, Zenon DEF ovars, OutInv, Unharmed
  <2>3. QED
    BY <2>2, Zenon
<1>3. CASE Connect
  <2>1. /\ connected' = TRUE /\ server' = Reads(Start, Opening \o Naws(term))
        /\ sizes' = <<term>> /\ term' = term /\ room' = room /\ texts' = texts
        /\ short' = short /\ cut' = cut /\ ~connected
    BY <1>3 DEF Connect
  <2>2. term \in Size /\ texts = <<>> /\ short = FALSE /\ cut = FALSE
    BY <2>1, Zenon DEF OutInv
  <2>3. Output' = [room |-> room, server |-> Reads(Start, Opening \o Naws(term)),
                   short |-> FALSE, cut |-> FALSE]
    BY <2>1, <2>2, Zenon DEF Output
  <2>4. OutGood(Output', <<>>, <<term>>) /\ Harmless(Output', <<term>>)
    BY <1>1, <2>2, <2>3, OpenGood, Zenon
  <2>5. <<term>> # <<>> /\ Last(<<term>>) = term
    BY DEF Last
  <2>6. OutInv'
    BY <2>1, <2>2, <2>4, <2>5, Zenon DEF OutInv
  <2>7. Unharmed'
    BY <2>1, <2>4, Zenon DEF Unharmed
  <2>8. QED
    BY <2>6, <2>7, Zenon
<1>4. CASE Disconnect
  <2>1. /\ connected' = FALSE /\ server' = Start /\ room' = Room /\ texts' = <<>>
        /\ sizes' = <<>> /\ short' = FALSE /\ cut' = FALSE /\ term' = term
    BY <1>4 DEF Disconnect
  <2>2. Output' = [room |-> Room, server |-> Start, short |-> FALSE, cut |-> FALSE]
    BY <2>1, Zenon DEF Output
  <2>3. OutGood(Output', <<>>, <<>>) /\ Harmless(Output', <<>>)
    BY <2>2, FreshGood, RoomAssumption, Zenon
  <2>4. term \in Size
    BY DEF OutInv
  <2>5. OutInv'
    BY <2>1, <2>3, <2>4, Zenon DEF OutInv
  <2>6. Unharmed'
    BY <2>1, <2>3, Zenon DEF Unharmed
  <2>7. QED
    BY <2>5, <2>6, Zenon
<1>5. ASSUME NEW line \in Lines, UserLine(line)
      PROVE  OutInv' /\ (AnswersHoldNoCommand /\ Unharmed => Unharmed')
  <2>1. CASE UNCHANGED ovars
    BY <1>2, <2>1
  <2>2. CASE /\ connected
             /\ \E result \in HookReturns(line) \cup {IfHookFails(line)} : SendHookResult(result)
    <3>1. PICK result \in HookReturns(line) \cup {IfHookFails(line)} : SendHookResult(result)
      BY <2>2
    <3>2. result \in Seq(Elements) /\ (AnswersHoldNoCommand => NoCommands(result))
      BY LineResults DEF AnswersHoldNoCommand
    <3>3. OutInv' /\ (Unharmed /\ NoCommands(result) => Unharmed')
      BY <2>2, <3>1, <3>2, ResultKeeps, Zenon
    <3>4. QED
      BY <3>2, <3>3, Zenon
  <2>3. QED
    BY <1>5, <2>1, <2>2, Zenon DEF UserLine
<1>6. ASSUME NEW result \in Results, FlushSend(result)
      PROVE  OutInv' /\ (AnswersHoldNoCommand /\ Unharmed => Unharmed')
  <2>1. connected /\ SendHookResult(result)
    BY <1>6 DEF FlushSend
  <2>2. result \in Seq(Elements) /\ (AnswersHoldNoCommand => NoCommands(result))
    BY ResultsAssumption DEF Elements, AnswersHoldNoCommand
  <2>3. OutInv' /\ (Unharmed /\ NoCommands(result) => Unharmed')
    BY <2>1, <2>2, ResultKeeps, Zenon
  <2>4. QED
    BY <2>2, <2>3, Zenon
<1>7. ASSUME NEW size \in Sizes, OnResize(size)
      PROVE  OutInv' /\ (AnswersHoldNoCommand /\ Unharmed => Unharmed')
  <2>1. size \in Size
    BY SizesAssumption DEF Size
  <2>2. term' = size /\ connected' = connected /\ texts' = texts
    BY <1>7 DEF OnResize
  <2>3. CASE connected
    <3> DEFINE o == Transmit(Output, Naws(size), TRUE)
    <3>1. SetOutput(o) /\ sizes' = Append(sizes, size)
      BY <1>7, <2>3 DEF OnResize
    <3>2. /\ OutGood(o, texts, Append(sizes, size))
          /\ Harmless(Output, sizes) => Harmless(o, Append(sizes, size))
      BY <1>1, <2>1, SizeGood, Zenon
    <3> HIDE DEF o
    <3>3. o \in OutState
      BY <3>2, Zenon DEF OutGood
    <3>4. Output' = o
      BY <3>1, <3>3, OutputSet, Zenon
    <3>5. sizes \in Seq(Size)
      BY <1>1, Zenon DEF OutGood
    <3>6. Append(sizes, size) # <<>> /\ Last(Append(sizes, size)) = size
      BY <2>1, <3>5 DEF Last
    <3>7. OutInv'
      BY <2>1, <2>2, <2>3, <3>1, <3>2, <3>4, <3>6, Zenon DEF OutInv
    <3>8. Unharmed => Unharmed'
      BY <3>1, <3>2, <3>4, Zenon DEF Unharmed
    <3>9. QED
      BY <3>7, <3>8, Zenon
  <2>4. CASE ~connected
    <3>1. /\ room' = room /\ server' = server /\ short' = short /\ cut' = cut /\ sizes' = sizes
      BY <1>7, <2>4 DEF OnResize
    <3>2. Output' = Output
      BY <3>1 DEF Output
    <3>3. OutInv'
      BY <2>1, <2>2, <2>4, <3>1, <3>2, Zenon DEF OutInv
    <3>4. Unharmed => Unharmed'
      BY <3>1, <3>2, Zenon DEF Unharmed
    <3>5. QED
      BY <3>3, <3>4, Zenon
  <2>5. QED
    BY <2>3, <2>4
<1>8. ASSUME NEW n \in 1 .. Room, Drain(n)
      PROVE  OutInv' /\ (AnswersHoldNoCommand /\ Unharmed => Unharmed')
  <2>1. /\ connected' = connected /\ term' = term /\ server' = server /\ texts' = texts
        /\ sizes' = sizes /\ short' = short /\ cut' = cut /\ room' = room + n
    BY <1>8 DEF Drain
  <2>2. room' \in Nat
    BY <1>1, <2>1
  <2>3. Output' \in OutState /\ Output'.server = Output.server
        /\ Output'.short = Output.short /\ Output'.cut = Output.cut
    BY <1>1, <2>1, <2>2 DEF Output, OutState
  <2>4. OutGood(Output', texts, sizes) /\ (Harmless(Output, sizes) => Harmless(Output', sizes))
    BY <1>1, <2>3, RoomGood, Zenon
  <2>5. OutInv'
    BY <2>1, <2>4, Zenon DEF OutInv
  <2>6. Unharmed => Unharmed'
    BY <2>1, <2>4, Zenon DEF Unharmed
  <2>7. QED
    BY <2>5, <2>6, Zenon
<1>9. QED
  BY <1>2, <1>3, <1>4, <1>5, <1>6, <1>7, <1>8, Zenon DEF ONext

LEMMA OutKept == OSpec => []OutInv
<1>1. OInit => OutInv
  BY OutInit
<1>2. OutInv /\ [ONext]_ovars => OutInv'
  BY OutNext
<1>3. QED
  BY <1>1, <1>2, PTL DEF OSpec

LEMMA ReadableIs == Readable <=> Plain(sizes)
BY Zenon DEF Readable, Plain

(* The server reads the texts that were meant, with their line ends and    *)
(* every IAC byte in them, and the sizes, in order, as long as every send  *)
(* was taken whole; the last size it was told is the terminal's.           *)
THEOREM TextsArrive == OSpec => []ServerUnderstands
<1>1. OutInv => ServerUnderstands
  <2> SUFFICES ASSUME OutInv, connected, ~short, Readable
               PROVE  /\ server.mode = "data"
                      /\ server.text = texts
                      /\ server.sizes = sizes
                      /\ Last(server.sizes) = term
    BY Zenon DEF ServerUnderstands
  <2>1. Plain(sizes) /\ ~Output.short
    BY ReadableIs, OutputIs, Zenon
  <2>2. OutGood(Output, texts, sizes) /\ Last(sizes) = term
    BY Zenon DEF OutInv
  <2>3. Output.server.mode = "data" /\ Output.server.text = texts /\ Output.server.sizes = sizes
    BY <2>1, <2>2, Zenon DEF OutGood
  <2>4. QED
    BY <2>2, <2>3, OutputIs, Zenon
<1>2. QED
  BY <1>1, OutKept, PTL

(* Whatever the kernel leaves of the sends, the server stays in step and   *)
(* reads what was meant with parts left out, as long as no send ends       *)
(* inside an escape or a size.                                             *)
THEOREM PartsArrive == OSpec => []LossIsConfined
<1>1. OutInv => LossIsConfined
  <2> SUFFICES ASSUME OutInv, connected, ~cut, Readable
               PROVE  /\ server.mode = "data"
                      /\ LeftOver(server.text, texts)
                      /\ \A i \in DOMAIN server.sizes : Told(server.sizes[i])
    BY Zenon DEF LossIsConfined
  <2>1. Plain(sizes) /\ ~Output.cut
    BY ReadableIs, OutputIs, Zenon
  <2>2. OutGood(Output, texts, sizes)
    BY Zenon DEF OutInv
  <2>3. /\ Output.server.mode = "data" /\ LeftOver(Output.server.text, texts)
        /\ \A i \in DOMAIN Output.server.sizes :
             \E k \in DOMAIN sizes : Output.server.sizes[i] = sizes[k]
    BY <2>1, <2>2, Zenon DEF OutGood
  <2>4. QED
    BY <2>3, OutputIs, Zenon DEF Told
<1>2. QED
  BY <1>1, OutKept, PTL

(* When no text of the hooks has a line that begins like a command, none   *)
(* reaches the server: a command that the user enters stays in the client  *)
(* even when its handler fails, wherever the kernel cuts what is sent.     *)
THEOREM CommandsAreHeld ==
  ASSUME \A result \in Results : NoCommands(result)
  PROVE  OSpec => []CommandsStayHere
<1>1. AnswersHoldNoCommand
  BY DEF AnswersHoldNoCommand
<1>2. OInit => OutInv /\ Unharmed
  BY OutInit
<1>3. OutInv /\ Unharmed /\ [ONext]_ovars => (OutInv /\ Unharmed)'
  BY <1>1, OutNext, Zenon
<1>4. OutInv /\ Unharmed => CommandsStayHere
  BY ReadableIs, OutputIs, Zenon DEF Unharmed, Harmless, CommandsStayHere
<1>5. QED
  BY <1>2, <1>3, <1>4, PTL DEF OSpec

=============================================================================
