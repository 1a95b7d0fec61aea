----------------------------- MODULE TabProofs -----------------------------
(***************************************************************************)
(* The completion store, the Tab key and the rows of the screen, for every *)
(* capacity, set of words and terminal height.                             *)
(***************************************************************************)
EXTENDS TabCompletion, FiniteSetTheorems, WellFoundedInduction, TLAPS

USE CapacityAssumption, ResultsAssumption, MinLengthAssumption, AdditionsAssumption,
    FirstCapacityAssumption, LinesAssumption

-----------------------------------------------------------------------------
(* Induction, for a set: the library's theorem takes a predicate.          *)
LEMMA NatSet ==
  ASSUME NEW T, 0 \in T, \A n \in Nat : n \in T => n + 1 \in T
  PROVE  Nat \subseteq T
  <1> DEFINE R == OpToRel(<, Nat)
  <1> SUFFICES ASSUME Nat \ T # {} PROVE FALSE
    OBVIOUS
  <1>1. \A x, y \in Nat : x < y => <<x, y>> \in R
    BY DEF OpToRel
  <1>2. PICK m \in Nat \ T : \A y \in Nat \ T : ~(<<y, m>> \in R)
    <2> HIDE DEF R
    <2>1. IsWellFoundedOn(R, Nat)
      BY NatLessThanWellFounded DEF R
    <2>. QED BY <2>1, WFMin
  <1> HIDE DEF R
  <1>3. m \in Nat /\ m # 0 /\ m - 1 \in Nat /\ m - 1 < m
    OBVIOUS
  <1>4. m - 1 \in T
    <2>1. <<m - 1, m>> \in R
      BY <1>1, <1>3
    <2>. QED BY <1>2, <1>3, <2>1
  <1>. QED BY <1>3, <1>4

(* A set of numbers that is not empty has a least one.                     *)
LEMMA LeastNumber ==
  ASSUME NEW S \in SUBSET Nat, S # {}
  PROVE  \E m \in S : \A n \in S : m <= n
  <1> DEFINE R == OpToRel(<, Nat)
  <1>1. \A x, y \in Nat : x < y => <<x, y>> \in R
    BY DEF OpToRel
  <1>2. PICK m \in S : \A n \in S : ~(<<n, m>> \in R)
    <2> HIDE DEF R
    <2>1. IsWellFoundedOn(R, Nat)
      BY NatLessThanWellFounded DEF R
    <2>. QED BY <2>1, WFMin
  <1> HIDE DEF R
  <1>3. \A n \in S : ~(n < m)
    BY <1>1, <1>2
  <1>4. \A n \in S : m <= n
    BY <1>3
  <1>. QED BY <1>4

-----------------------------------------------------------------------------
(* The nodes on the way to a key are the prefixes of the key.              *)
LEMMA PathIsPrefixes ==
  ASSUME NEW S, NEW key \in Seq(S)
  PROVE  /\ \A p \in Path(key) : p \in Seq(S) /\ IsPrefix(p, key)
         /\ \A p : (\E U : p \in Seq(U)) /\ IsPrefix(p, key) => p \in Path(key)
         /\ key \in Path(key) /\ Root \in Path(key)
  <1>1. ASSUME NEW p \in Path(key) PROVE p \in Seq(S) /\ IsPrefix(p, key)
    <2>1. PICK i \in 0 .. Len(key) : p = SubSeq(key, 1, i)
      BY DEF Path
    <2>2. p \in Seq(S) /\ Len(p) = i /\ Len(p) <= Len(key)
      BY <2>1
    <2>3. SubSeq(p, 1, Len(p)) = SubSeq(key, 1, Len(p))
      BY <2>1, <2>2
    <2>. QED BY <2>2, <2>3 DEF IsPrefix
  <1>2. ASSUME NEW p, NEW U, p \in Seq(U), IsPrefix(p, key) PROVE p \in Path(key)
    <2>1. p = SubSeq(p, 1, Len(p)) /\ Len(p) \in Nat
      BY <1>2
    <2>2. p = SubSeq(key, 1, Len(p)) /\ Len(p) <= Len(key)
      BY <1>2, <2>1 DEF IsPrefix
    <2>3. Len(p) \in 0 .. Len(key)
      BY <2>1, <2>2
    <2>. QED BY <2>2, <2>3 DEF Path
  <1>3. \A i \in 0 .. Len(key) : SubSeq(key, 1, i) \in Path(key)
    BY DEF Path
  <1>4. key \in Path(key) /\ Root \in Path(key)
    <2>1. key = SubSeq(key, 1, Len(key)) /\ <<>> = SubSeq(key, 1, 0) /\ Len(key) \in Nat
      OBVIOUS
    <2>2. 0 \in 0 .. Len(key) /\ Len(key) \in 0 .. Len(key)
      BY <2>1
    <2>3. SubSeq(key, 1, 0) \in Path(key) /\ SubSeq(key, 1, Len(key)) \in Path(key)
      BY <1>3, <2>2
    <2>. QED BY <2>1, <2>3 DEF Root
  <1>. QED BY <1>1, <1>2, <1>4

-----------------------------------------------------------------------------
(* What is inductive about the ring: a word's slot is as far behind the    *)
(* index as additions were made since the word's own.                      *)
AgesAgree ==
  \A w \in DOMAIN words :
    /\ Len(w) >= MinLength
    /\ seq - words[w].seq \in 0 .. Capacity - 1
    /\ \/ order_index = words[w].slot + (seq - words[w].seq) + 1
       \/ order_index = words[w].slot + (seq - words[w].seq) + 1 - Capacity

(* The types of the hash table and the ring; those of the trie follow from *)
(* HashMatchesTrie.                                                        *)
RingTypeOK ==
  /\ DOMAIN words \subseteq Word
  /\ \A w \in DOMAIN words : words[w] \in [seq : Nat, slot : Slot, attached : BOOLEAN]
  /\ word_order \in [Slot -> Word \cup {Nil}]
  /\ order_index \in Slot
  /\ word_count \in Nat
  /\ seq \in Nat

RingInv == RingTypeOK /\ IsFiniteSet(DOMAIN words) /\ HashMatchesRing /\ AgesAgree

(* Lower-case words and prefixes are sequences as long as they were.       *)
LEMMA WordsAreSequences ==
  ASSUME NEW w \in Word \cup Prefix
  PROVE  /\ w \in Seq(ToSet(w)) /\ Lower(w) \in Seq(ToSet(Lower(w)))
         /\ Len(w) \in Nat /\ Len(Lower(w)) = Len(w)
  BY LowerAssumption

(* The empty sequence is none of the words that are stored.                *)
LEMMA LongWords ==
  ASSUME NEW w \in Word, Len(w) >= MinLength
  PROVE  w # Nil
  <1>1. Len(Nil) = 0
    BY DEF Nil
  <1>. QED BY <1>1

(* The word that an addition evicts is the one in the slot it takes, and   *)
(* none other has that slot.                                               *)
LEMMA EvictedWord ==
  ASSUME RingInv, NEW w \in Word, Len(w) >= MinLength
  PROVE  /\ Evicted(w) \in Word \cup {Nil}
         /\ Evicted(w) # w
         /\ Evicted(w) # Nil => /\ Evicted(w) \in DOMAIN words
                               /\ words[Evicted(w)].slot = order_index
         /\ \A u \in DOMAIN words : u # w /\ words[u].slot = order_index => u = Evicted(w)
         /\ Nil \notin DOMAIN words
  <1>1. /\ word_order \in [Slot -> Word \cup {Nil}] /\ order_index \in Slot
        /\ DOMAIN words \subseteq Word
        /\ \A u \in DOMAIN words : words[u].slot \in Slot /\ word_order[words[u].slot] = u
        /\ \A s \in Slot : word_order[s] # Nil =>
              word_order[s] \in DOMAIN words /\ words[word_order[s]].slot = s
    BY DEF RingInv, RingTypeOK, HashMatchesRing
  <1>2. w # Nil
    BY LongWords
  <1>3. CASE w \in DOMAIN words
    <2>1. ClearOldSlot(w) = [word_order EXCEPT ![words[w].slot] = Nil]
      BY <1>3 DEF ClearOldSlot
    <2>2. Evicted(w) = IF order_index = words[w].slot THEN Nil ELSE word_order[order_index]
      BY <1>1, <1>3, <2>1 DEF Evicted
    <2>. QED BY <1>1, <1>2, <1>3, <2>2, LongWords DEF RingInv, AgesAgree
  <1>4. CASE w \notin DOMAIN words
    <2>1. Evicted(w) = word_order[order_index]
      BY <1>4 DEF ClearOldSlot, Evicted
    <2>. QED BY <1>1, <1>2, <1>4, <2>1, LongWords DEF RingInv, AgesAgree
  <1>. QED BY <1>3, <1>4

(* What the hash table holds after an addition, the cached node aside.     *)
LEMMA WordsAfter ==
  ASSUME RingInv, NEW w \in Word, AddWord(w)
  PROVE  /\ DOMAIN words' = (DOMAIN words \ {Evicted(w)}) \cup {w}
         /\ words'[w].seq = seq + 1 /\ words'[w].slot = order_index
         /\ \A u \in DOMAIN words \ {Evicted(w), w} :
              /\ words'[u] = WordsAfterEviction(w)[u]
              /\ words'[u].seq = words[u].seq /\ words'[u].slot = words[u].slot
              /\ words'[u].attached = (words[u].attached /\
                                         Lower(u) \in DOMAIN TrieAfterEviction(w))
         /\ words'[w].attached = IF w \in DOMAIN words
              THEN words[w].attached /\ Lower(w) \in DOMAIN TrieAfterEviction(w) ELSE TRUE
         /\ \A u \in DOMAIN words' :
              words'[u] \in [seq : Nat, slot : Slot, attached : BOOLEAN]
  <1> DEFINE others == WordsAfterEviction(w)
             attached == IF w \in DOMAIN words THEN others[w].attached ELSE TRUE
  <1>1. /\ \A u \in DOMAIN words : words[u] \in [seq : Nat, slot : Slot, attached : BOOLEAN]
        /\ seq \in Nat /\ order_index \in Slot /\ Len(w) >= MinLength
    BY DEF RingInv, RingTypeOK, AddWord
  <1>2. Evicted(w) # w
    BY <1>1, EvictedWord
  <1>3. /\ DOMAIN others = DOMAIN words \ {Evicted(w)}
        /\ \A u \in DOMAIN others :
             /\ others[u].seq = words[u].seq /\ others[u].slot = words[u].slot
             /\ others[u].attached = (words[u].attached /\
                                        Lower(u) \in DOMAIN TrieAfterEviction(w))
             /\ others[u] \in [seq : Nat, slot : Slot, attached : BOOLEAN]
    <2>1. ASSUME NEW u \in DOMAIN others
          PROVE  /\ others[u].seq = words[u].seq /\ others[u].slot = words[u].slot
                 /\ others[u].attached = (words[u].attached /\
                                            Lower(u) \in DOMAIN TrieAfterEviction(w))
                 /\ others[u] \in [seq : Nat, slot : Slot, attached : BOOLEAN]
      <3> DEFINE a == words[u].attached /\ Lower(u) \in DOMAIN TrieAfterEviction(w)
      <3>1. others[u] = [words[u] EXCEPT !.attached = a]
        BY DEF WordsAfterEviction
      <3>2. a \in BOOLEAN /\ words[u] \in [seq : Nat, slot : Slot, attached : BOOLEAN]
        BY <1>1 DEF WordsAfterEviction
      <3> HIDE DEF a, others
      <3>3. others[u] = [seq |-> words[u].seq, slot |-> words[u].slot, attached |-> a]
        BY <3>1, <3>2
      <3>. QED BY <3>2, <3>3 DEF a
    <2>. QED BY <2>1 DEF WordsAfterEviction
  <1>4. words' = [u \in DOMAIN others \cup {w} |-> IF u = w THEN
                    [seq |-> seq + 1, slot |-> order_index, attached |-> attached]
                    ELSE others[u]]
    BY DEF AddWord
  <1> HIDE DEF others
  <1>5. attached \in BOOLEAN
    BY <1>2, <1>3
  <1>6. attached = IF w \in DOMAIN words
          THEN words[w].attached /\ Lower(w) \in DOMAIN TrieAfterEviction(w) ELSE TRUE
    BY <1>2, <1>3
  <1> HIDE DEF attached
  <1>7. words'[w] = [seq |-> seq + 1, slot |-> order_index, attached |-> attached]
    BY <1>4
  <1>8. \A u \in DOMAIN words \ {Evicted(w), w} : words'[u] = others[u]
    BY <1>3, <1>4
  <1>9. DOMAIN words' = (DOMAIN words \ {Evicted(w)}) \cup {w}
    BY <1>3, <1>4
  <1>10. words'[w] \in [seq : Nat, slot : Slot, attached : BOOLEAN]
    BY <1>1, <1>5, <1>7
  <1>11. \A u \in DOMAIN words \ {Evicted(w), w} :
           /\ words'[u].seq = words[u].seq /\ words'[u].slot = words[u].slot
           /\ words'[u].attached = (words[u].attached /\
                                      Lower(u) \in DOMAIN TrieAfterEviction(w))
           /\ words'[u] \in [seq : Nat, slot : Slot, attached : BOOLEAN]
    BY <1>3, <1>8
  <1>12. words'[w].attached = attached
    BY <1>7
  <1>13. words'[w].seq = seq + 1 /\ words'[w].slot = order_index
    BY <1>7
  <1>14. \A u \in DOMAIN words' :
           words'[u] \in [seq : Nat, slot : Slot, attached : BOOLEAN]
    BY <1>9, <1>10, <1>11
  <1>15. \A u \in DOMAIN words \ {Evicted(w), w} :
           words'[u] = WordsAfterEviction(w)[u]
    BY <1>8 DEF others
  <1>16. words'[w].attached = IF w \in DOMAIN words
          THEN words[w].attached /\ Lower(w) \in DOMAIN TrieAfterEviction(w) ELSE TRUE
    BY <1>6, <1>12
  <1>. QED BY <1>9, <1>11, <1>13, <1>14, <1>15, <1>16

(* add-word-to-store keeps the hash table, the ring and the count in step. *)
LEMMA AddRing ==
  ASSUME RingInv, NEW w \in Word, AddWord(w)
  PROVE  RingInv'
  <1> DEFINE ev == Evicted(w)
  <1>0. /\ word_order \in [Slot -> Word \cup {Nil}] /\ order_index \in Slot
        /\ DOMAIN words \subseteq Word /\ seq \in Nat /\ word_count \in Nat
        /\ \A u \in DOMAIN words : /\ words[u].slot \in Slot /\ words[u].seq \in Nat
                                   /\ word_order[words[u].slot] = u
        /\ \A s \in Slot : word_order[s] # Nil =>
              word_order[s] \in DOMAIN words /\ words[word_order[s]].slot = s
        /\ word_count = Cardinality(DOMAIN words) /\ IsFiniteSet(DOMAIN words)
        /\ Len(w) >= MinLength /\ w # Nil
    BY LongWords DEF RingInv, RingTypeOK, HashMatchesRing, AddWord
  <1>1. /\ ev \in Word \cup {Nil} /\ ev # w
        /\ ev # Nil => ev \in DOMAIN words /\ words[ev].slot = order_index
        /\ \A u \in DOMAIN words : u # w /\ words[u].slot = order_index => u = ev
        /\ Nil \notin DOMAIN words
    BY <1>0, EvictedWord
  <1>2. /\ DOMAIN words' = (DOMAIN words \ {ev}) \cup {w}
        /\ words'[w].seq = seq + 1 /\ words'[w].slot = order_index
        /\ \A u \in DOMAIN words \ {ev, w} :
             words'[u].seq = words[u].seq /\ words'[u].slot = words[u].slot
        /\ \A u \in DOMAIN words' :
             words'[u] \in [seq : Nat, slot : Slot, attached : BOOLEAN]
    BY WordsAfter
  <1> DEFINE cleared == ClearOldSlot(w)
  <1>3. /\ cleared \in [Slot -> Word \cup {Nil}]
        /\ \A s \in Slot : cleared[s] = IF w \in DOMAIN words /\ s = words[w].slot
                                        THEN Nil ELSE word_order[s]
    BY <1>0 DEF ClearOldSlot
  <1>4. /\ word_order' = [cleared EXCEPT ![order_index] = w]
        /\ seq' = seq + 1 /\ order_index' = NextIndex /\ word_count' = CountAfter(w)
    BY DEF AddWord
  <1> HIDE DEF cleared, ev
  <1>5. /\ word_order' \in [Slot -> Word \cup {Nil}]
        /\ word_order'[order_index] = w
        /\ \A s \in Slot \ {order_index} : word_order'[s] = cleared[s]
    BY <1>0, <1>3, <1>4
  <1>6. order_index' \in Slot
    BY <1>0, <1>4 DEF NextIndex, Slot
  <1>7. IsFiniteSet(DOMAIN words')
    <2>1. IsFiniteSet(DOMAIN words \ {ev})
      BY <1>0, FS_RemoveElement
    <2>2. IsFiniteSet((DOMAIN words \ {ev}) \cup {w})
      BY <2>1, FS_AddElement
    <2>. QED BY <1>2, <2>2
  <1>8. word_count' = Cardinality(DOMAIN words')
    <2>1. /\ IsFiniteSet(DOMAIN words \ {ev})
          /\ Cardinality(DOMAIN words \ {ev}) =
               IF ev \in DOMAIN words THEN word_count - 1 ELSE word_count
      BY <1>0, FS_RemoveElement
    <2>2. Cardinality((DOMAIN words \ {ev}) \cup {w}) =
            IF w \in DOMAIN words \ {ev} THEN Cardinality(DOMAIN words \ {ev})
            ELSE Cardinality(DOMAIN words \ {ev}) + 1
      BY <2>1, FS_AddElement
    <2>3. ev \in DOMAIN words <=> ev # Nil
      BY <1>1
    <2>. QED BY <1>0, <1>1, <1>2, <1>4, <2>1, <2>2, <2>3 DEF CountAfter, ev
  <1>9. RingTypeOK'
    <2>1. word_count' \in Nat
      BY <1>7, <1>8, FS_CardinalityType
    <2>2. DOMAIN words' \subseteq Word /\ seq' \in Nat
      BY <1>0, <1>2, <1>4
    <2>. QED BY <1>2, <1>5, <1>6, <2>1, <2>2 DEF RingTypeOK
  <1>10. HashMatchesRing'
    <2>1. ASSUME NEW u \in DOMAIN words' PROVE word_order'[words'[u].slot] = u
      <3>1. CASE u = w
        BY <1>2, <1>5, <3>1
      <3>2. CASE u # w
        <4>1. u \in DOMAIN words /\ u # ev /\ words'[u].slot = words[u].slot
          BY <1>2, <2>1, <3>2
        <4>2. words[u].slot \in Slot \ {order_index} /\ word_order[words[u].slot] = u
          BY <1>0, <1>1, <3>2, <4>1
        <4>3. cleared[words[u].slot] = u
          BY <1>0, <1>3, <3>2, <4>2
        <4>. QED BY <1>5, <4>1, <4>2, <4>3
      <3>. QED BY <3>1, <3>2
    <2>2. ASSUME NEW s \in Slot, word_order'[s] # Nil
          PROVE  word_order'[s] \in DOMAIN words' /\ words'[word_order'[s]].slot = s
      <3>1. CASE s = order_index
        BY <1>2, <1>5, <3>1
      <3>2. CASE s # order_index
        <4>1. word_order'[s] = cleared[s]
          BY <1>5, <3>2
        <4>2. cleared[s] = word_order[s] /\ ~(w \in DOMAIN words /\ s = words[w].slot)
          BY <1>3, <2>2, <4>1
        <4>3. word_order[s] \in DOMAIN words /\ words[word_order[s]].slot = s
          BY <1>0, <2>2, <4>1, <4>2
        <4>4. word_order[s] # w /\ word_order[s] # ev
          BY <1>1, <3>2, <4>2, <4>3
        <4>. QED BY <1>2, <4>1, <4>2, <4>3, <4>4
      <3>. QED BY <3>1, <3>2
    <2>. QED BY <1>8, <2>1, <2>2 DEF HashMatchesRing
  <1>11. AgesAgree'
    <2> SUFFICES ASSUME NEW u \in DOMAIN words'
                 PROVE  /\ Len(u) >= MinLength
                        /\ seq' - words'[u].seq \in 0 .. Capacity - 1
                        /\ \/ order_index' = words'[u].slot + (seq' - words'[u].seq) + 1
                           \/ order_index' = words'[u].slot + (seq' - words'[u].seq) + 1
                                               - Capacity
      BY DEF AgesAgree
    <2>1. CASE u = w
      <3>1. /\ seq' - words'[u].seq = 0 /\ words'[u].slot = order_index
        BY <1>0, <1>2, <1>4, <2>1
      <3>. QED BY <1>0, <1>4, <2>1, <3>1 DEF NextIndex, Slot
    <2>2. CASE u # w
      <3>1. u \in DOMAIN words /\ u # ev /\ words'[u].slot = words[u].slot
            /\ words'[u].seq = words[u].seq /\ words[u].slot # order_index
        BY <1>1, <1>2, <2>2
      <3> DEFINE age == seq - words[u].seq
                 slot == words[u].slot
      <3>2. /\ Len(u) >= MinLength /\ age \in 0 .. Capacity - 1
            /\ \/ order_index = slot + age + 1
               \/ order_index = slot + age + 1 - Capacity
        BY <3>1 DEF RingInv, AgesAgree
      <3>3. /\ seq' - words'[u].seq = age + 1 /\ words'[u].slot = slot
            /\ slot \in 0 .. Capacity - 1 /\ order_index \in 0 .. Capacity - 1
        BY <1>0, <1>4, <3>1 DEF Slot
      <3>4. slot # order_index
        BY <3>1
      <3> HIDE DEF age, slot
      <3>5. age + 1 \in 0 .. Capacity - 1
        BY <3>2, <3>3, <3>4
      <3>6. \/ order_index' = slot + (age + 1) + 1
            \/ order_index' = slot + (age + 1) + 1 - Capacity
        BY <1>4, <3>2, <3>3, <3>4 DEF NextIndex
      <3>. QED BY <3>2, <3>3, <3>5, <3>6
    <2>. QED BY <2>1, <2>2
  <1>. QED BY <1>7, <1>9, <1>10, <1>11 DEF RingInv

-----------------------------------------------------------------------------
(* The entries of a trie's node, for the words of a hash table, and the    *)
(* nodes for those words.                                                  *)
NodesOf(W) == {Root} \cup UNION {Path(Lower(u)) : u \in W}

Holds(t, table, W) ==
  /\ DOMAIN t = NodesOf(W)
  /\ \A p \in DOMAIN t :
       t[p] = {Entry(u, table[u].seq, table[u].slot) : u \in {v \in W : Lower(v) = p}}

(* The trie of a set of words has a node for each, and the others have the *)
(* nodes they had when one word is taken out.                              *)
LEMMA OwnNode ==
  ASSUME NEW W \in SUBSET Word, NEW u \in W
  PROVE  Lower(u) \in NodesOf(W) /\ Lower(u) \in Path(Lower(u))
  <1>1. Lower(u) \in Seq(ToSet(Lower(u)))
    BY WordsAreSequences
  <1>2. Lower(u) \in Path(Lower(u))
    BY <1>1, PathIsPrefixes
  <1>. QED BY <1>2 DEF NodesOf

(* trie-remove-entry! takes out one word and the nodes that were for it    *)
(* alone.                                                                  *)
LEMMA RemoveOne ==
  ASSUME NEW W \in SUBSET Word, NEW table, NEW t, NEW w \in W, Holds(t, table, W),
         t = [p \in DOMAIN t |-> t[p]]
  PROVE  /\ Holds(TrieRemove(t, w), table, W \ {w})
         /\ TrieRemove(t, w) = [p \in DOMAIN TrieRemove(t, w) |-> TrieRemove(t, w)[p]]
  <1> DEFINE E(u) == Entry(u, table[u].seq, table[u].slot)
             key == Lower(w)
             rest == W \ {w}
             less == [t EXCEPT ![key] = LeafRemove(@, w)]
  <1>1. /\ DOMAIN t = NodesOf(W) /\ key \in DOMAIN t
        /\ \A p \in DOMAIN t : t[p] = {E(u) : u \in {v \in W : Lower(v) = p}}
    BY OwnNode DEF Holds
  <1>2. \A u : E(u).word = u
    BY DEF Entry
  <1> HIDE DEF E
  <1>3. E(w) \in t[key] /\ LeafOf(t, key) # {}
    BY <1>1 DEF LeafOf
  <1>4. LeafRemove(t[key], w) = {E(u) : u \in {v \in rest : Lower(v) = key}}
    BY <1>1, <1>2 DEF LeafRemove
  <1>5. /\ DOMAIN less = DOMAIN t /\ less = [p \in DOMAIN less |-> less[p]]
        /\ \A p \in DOMAIN t : less[p] = {E(u) : u \in {v \in rest : Lower(v) = p}}
    <2>1. DOMAIN less = DOMAIN t /\ less = [p \in DOMAIN less |-> less[p]]
      OBVIOUS
    <2>2. less[key] = LeafRemove(t[key], w)
      BY <1>1
    <2>3. ASSUME NEW p \in DOMAIN t, p # key
          PROVE  less[p] = {E(u) : u \in {v \in rest : Lower(v) = p}}
      <3>1. less[p] = t[p]
        BY <2>3
      <3>2. {v \in rest : Lower(v) = p} = {v \in W : Lower(v) = p}
        BY <2>3
      <3>. QED BY <1>1, <3>1, <3>2
    <2>. QED BY <1>4, <2>1, <2>2, <2>3
  <1> HIDE DEF less
  <1>6. TrieRemove(t, w) = IF less[key] # {} THEN less
                           ELSE [p \in DOMAIN t \ Empty(less, key) |-> less[p]]
    BY <1>3 DEF TrieRemove, less
  <1>7. \A u \in rest : /\ Path(Lower(u)) \subseteq DOMAIN t /\ Lower(u) \in DOMAIN t
                        /\ Lower(u) \in Path(Lower(u)) /\ E(u) \in less[Lower(u)]
    BY <1>1, <1>5, OwnNode DEF NodesOf
  <1>8. \A q \in DOMAIN t : less[q] # {} => \E u \in rest : Lower(u) = q
    BY <1>5
  <1>9. CASE less[key] # {}
    <2>1. PICK u \in rest : Lower(u) = key
      BY <1>1, <1>8, <1>9
    <2>2. NodesOf(W) = NodesOf(rest)
      <3>1. W = rest \cup {w}
        OBVIOUS
      <3>2. Path(Lower(w)) = Path(Lower(u))
        BY <2>1
      <3>. QED BY <2>1, <3>1, <3>2 DEF NodesOf
    <2>3. TrieRemove(t, w) = less
      BY <1>6, <1>9
    <2>. QED BY <1>1, <1>5, <2>2, <2>3 DEF Holds, E
  <1>10. CASE less[key] = {}
    <2> DEFINE left == DOMAIN t \ Empty(less, key)
    <2>1. NodesOf(rest) \subseteq left
      <3>1. Root \in left
        BY <1>1 DEF NodesOf, Empty
      <3>2. ASSUME NEW u \in rest, NEW p \in Path(Lower(u)) PROVE p \in left
        <4>1. IsPrefix(p, Lower(u))
          <5>1. Lower(u) \in Seq(ToSet(Lower(u)))
            BY WordsAreSequences
          <5>. QED BY <5>1, PathIsPrefixes
        <4>2. Lower(u) \in DOMAIN less /\ less[Lower(u)] # {} /\ p \in DOMAIN t
          BY <1>5, <1>7
        <4>. QED BY <4>1, <4>2 DEF Empty
      <3>. QED BY <3>1, <3>2 DEF NodesOf
    <2>2. left \subseteq NodesOf(rest)
      <3> SUFFICES ASSUME NEW p \in left, p # Root PROVE p \in NodesOf(rest)
        BY DEF NodesOf
      <3>1. PICK v \in W : p \in Path(Lower(v))
        BY <1>1 DEF NodesOf
      <3>2. CASE v # w
        BY <3>1, <3>2 DEF NodesOf
      <3>3. CASE v = w
        <4>1. PICK q \in DOMAIN t : IsPrefix(p, q) /\ less[q] # {}
          BY <1>5, <3>1, <3>3 DEF Empty
        <4>2. PICK u \in rest : Lower(u) = q
          BY <1>8, <4>1
        <4>3. p \in Seq(ToSet(key))
          <5>1. key \in Seq(ToSet(key))
            BY WordsAreSequences
          <5>. QED BY <3>1, <3>3, <5>1, PathIsPrefixes
        <4>4. p \in Path(q)
          <5>1. q \in Seq(ToSet(q))
            BY <4>2, WordsAreSequences
          <5>. QED BY <4>1, <4>3, <5>1, PathIsPrefixes
        <4>. QED BY <4>2, <4>4 DEF NodesOf
      <3>. QED BY <3>2, <3>3
    <2>3. TrieRemove(t, w) = [p \in left |-> less[p]]
      BY <1>6, <1>10
    <2> HIDE DEF left
    <2>. QED BY <1>5, <2>1, <2>2, <2>3 DEF Holds, E, left
  <1>. QED BY <1>9, <1>10

TrieInv == HashMatchesTrie /\ trie = [p \in DOMAIN trie |-> trie[p]]

(* HashMatchesTrie in terms of the words a trie holds.                     *)
LEMMA TrieHolds ==
  /\ HashMatchesTrie <=> /\ \A u \in DOMAIN words : words[u].attached
                         /\ Holds(trie, words, DOMAIN words)
  /\ HashMatchesTrie' <=> /\ \A u \in DOMAIN words' : words'[u].attached
                          /\ Holds(trie', words', DOMAIN words')
  BY DEF HashMatchesTrie, Holds, NodesOf

(* add-word-to-store keeps the trie in step with the hash table: whichever *)
(* way the word is known, and whichever word it evicts.                    *)
LEMMA AddTrie ==
  ASSUME RingInv, TrieInv, NEW w \in Word, AddWord(w)
  PROVE  TrieInv'
  <1> DEFINE ev == Evicted(w)
             W == DOMAIN words \ {ev}
             t == TrieAfterEviction(w)
             key == Lower(w)
             entry == Entry(w, seq + 1, order_index)
             E(u) == Entry(u, words[u].seq, words[u].slot)
             F(u) == Entry(u, words'[u].seq, words'[u].slot)
  <1>0. Len(w) >= MinLength /\ DOMAIN words \subseteq Word
    BY DEF AddWord, RingInv, RingTypeOK
  <1>1. ev # w /\ (ev # Nil => ev \in DOMAIN words) /\ Nil \notin DOMAIN words
    BY <1>0, EvictedWord
  <1>2. /\ DOMAIN words' = W \cup {w}
        /\ F(w) = entry
        /\ \A u \in W \ {w} : /\ F(u) = E(u)
                             /\ words'[u].attached = (words[u].attached /\ Lower(u) \in DOMAIN t)
        /\ words'[w].attached = IF w \in DOMAIN words
              THEN words[w].attached /\ key \in DOMAIN t ELSE TRUE
    <2>0. W \ {w} = DOMAIN words \ {ev, w}
      OBVIOUS
    <2>1. /\ DOMAIN words' = W \cup {w}
          /\ words'[w].seq = seq + 1 /\ words'[w].slot = order_index
      BY WordsAfter
    <2>2. \A u \in W \ {w} :
            /\ words'[u].seq = words[u].seq /\ words'[u].slot = words[u].slot
            /\ words'[u].attached = (words[u].attached /\ Lower(u) \in DOMAIN t)
      BY <2>0, WordsAfter
    <2>3. words'[w].attached = IF w \in DOMAIN words
            THEN words[w].attached /\ key \in DOMAIN t ELSE TRUE
      BY WordsAfter
    <2>. QED BY <2>1, <2>2, <2>3
  <1>3. Holds(t, words, W) /\ t = [p \in DOMAIN t |-> t[p]]
    <2>1. Holds(trie, words, DOMAIN words) /\ trie = [p \in DOMAIN trie |-> trie[p]]
      BY TrieHolds DEF TrieInv
    <2>2. CASE ev = Nil
      <3>1. W = DOMAIN words /\ t = trie
        BY <1>1, <2>2 DEF TrieAfterEviction
      <3>. QED BY <2>1, <3>1
    <2>3. CASE ev # Nil
      <3>1. t = TrieRemove(trie, ev) /\ ev \in DOMAIN words
        BY <1>1, <2>3 DEF TrieAfterEviction
      <3>. QED BY <1>0, <2>1, <3>1, RemoveOne
    <2>. QED BY <2>2, <2>3
  <1>4. \A u \in DOMAIN words : words[u].attached
    BY TrieHolds DEF TrieInv
  <1> HIDE DEF ev, t, entry, E, F
  <1>5. \A u \in W : Lower(u) \in DOMAIN t
    BY <1>0, <1>3, OwnNode DEF Holds
  <1>6. \A u \in DOMAIN words' : words'[u].attached
    BY <1>1, <1>2, <1>4, <1>5
  <1>7. \A p \in DOMAIN t : t[p] = {E(u) : u \in {v \in W : Lower(v) = p}}
    BY <1>3 DEF Holds, E
  <1>8. trie' = IF w \notin DOMAIN words THEN TrieInsert(t, key, entry)
                ELSE EntryReplaced(t, w, entry)
    <2>1. w \in DOMAIN words => WordsAfterEviction(w)[w].attached
      <3>1. ASSUME w \in DOMAIN words PROVE WordsAfterEviction(w)[w].attached
        <4>1. w \in W /\ words[w] \in [seq : Nat, slot : Slot, attached : BOOLEAN]
          BY <1>1, <3>1 DEF RingInv, RingTypeOK
        <4>2. WordsAfterEviction(w)[w].attached = (words[w].attached /\ key \in DOMAIN t)
          BY <4>1 DEF WordsAfterEviction, ev, t
        <4>. QED BY <1>4, <1>5, <4>1, <4>2
      <3>. QED BY <3>1
    <2>. QED BY <2>1 DEF AddWord, t, entry
  <1>9. \A p : p # key => {F(u) : u \in {v \in W \cup {w} : Lower(v) = p}} =
                          {E(u) : u \in {v \in W : Lower(v) = p}}
    BY <1>2
  <1>10. CASE w \notin DOMAIN words
    <2>1. trie' = [p \in DOMAIN t \cup Path(key) |->
                     IF p = key THEN LeafOf(t, p) \cup {entry} ELSE LeafOf(t, p)]
      BY <1>8, <1>10 DEF TrieInsert
    <2>2. key \in Path(key) /\ w \notin W
      BY <1>10, OwnNode
    <2>3. \A p : LeafOf(t, p) = {E(u) : u \in {v \in W : Lower(v) = p}}
      BY <1>5, <1>7 DEF LeafOf
    <2>4. {F(u) : u \in {v \in W \cup {w} : Lower(v) = key}} =
            {E(u) : u \in {v \in W : Lower(v) = key}} \cup {entry}
      BY <1>2, <2>2
    <2>5. DOMAIN trie' = NodesOf(W \cup {w})
      BY <1>3, <2>1 DEF NodesOf, Holds
    <2>6. Holds(trie', words', W \cup {w})
      BY <1>9, <2>1, <2>3, <2>4, <2>5 DEF Holds, F
    <2>. QED BY <1>2, <1>6, <2>1, <2>6, TrieHolds DEF TrieInv
  <1>11. CASE w \in DOMAIN words
    <2>1. w \in W /\ key \in DOMAIN t
      BY <1>1, <1>5, <1>11
    <2>2. trie' = [t EXCEPT ![key] = LeafRemove(@, w) \cup {entry}]
      BY <1>8, <1>11 DEF EntryReplaced
    <2>3. \A u : E(u).word = u
      BY DEF E, Entry
    <2>4. LeafRemove(t[key], w) = {E(u) : u \in {v \in W \ {w} : Lower(v) = key}}
      BY <1>7, <2>1, <2>3 DEF LeafRemove
    <2>5. {F(u) : u \in {v \in W \cup {w} : Lower(v) = key}} =
            {E(u) : u \in {v \in W \ {w} : Lower(v) = key}} \cup {entry}
      BY <1>2
    <2>6. DOMAIN trie' = NodesOf(W \cup {w})
      BY <1>3, <2>1, <2>2 DEF NodesOf, Holds
    <2>7. ASSUME NEW p \in DOMAIN t
          PROVE  trie'[p] = {F(u) : u \in {v \in W \cup {w} : Lower(v) = p}}
      <3>1. CASE p = key
        BY <2>1, <2>2, <2>4, <2>5, <3>1
      <3>2. CASE p # key
        BY <1>7, <1>9, <2>2, <3>2
      <3>. QED BY <3>1, <3>2
    <2>8. trie' = [p \in DOMAIN trie' |-> trie'[p]] /\ DOMAIN trie' = DOMAIN t
      BY <2>2
    <2>9. Holds(trie', words', W \cup {w})
      BY <2>6, <2>7, <2>8 DEF Holds, F
    <2>. QED BY <1>2, <1>6, <2>8, <2>9, TrieHolds DEF TrieInv
  <1>. QED BY <1>10, <1>11

(* The inductive invariant of the store.                                   *)
StoreInv == RingInv /\ TrieInv

(* The inductive invariant of the store gives the property the run checks. *)
LEMMA StoreAgrees == StoreInv => StructuresAgree
  <1> SUFFICES ASSUME StoreInv PROVE StructuresAgree
    OBVIOUS
  <1>1. Root \in DOMAIN trie
    BY DEF StoreInv, TrieInv, HashMatchesTrie
  <1>2. \A p \in DOMAIN trie : trie[p] \subseteq [word : Word, seq : Nat, slot : Slot]
    <2>1. \A u \in DOMAIN words :
            Entry(u, words[u].seq, words[u].slot) \in [word : Word, seq : Nat, slot : Slot]
      BY DEF StoreInv, RingInv, RingTypeOK, Entry
    <2>. QED BY <2>1 DEF StoreInv, TrieInv, HashMatchesTrie
  <1>. QED BY <1>1, <1>2 DEF StoreInv, RingInv, RingTypeOK, TrieInv, StructuresAgree, TypeOK

(* The empty store.                                                        *)
LEMMA InitStore == Init => StoreInv
  <1> SUFFICES ASSUME Init PROVE StoreInv
    OBVIOUS
  <1>1. DOMAIN words = {} /\ IsFiniteSet(DOMAIN words) /\ Cardinality(DOMAIN words) = 0
    BY FS_EmptySet DEF Init
  <1>2. RingTypeOK
    BY <1>1 DEF Init, RingTypeOK, Slot
  <1>3. HashMatchesRing /\ AgesAgree
    BY <1>1 DEF Init, HashMatchesRing, AgesAgree
  <1>4. TrieInv
    <2>1. DOMAIN trie = {Root} /\ trie[Root] = {}
      BY DEF Init
    <2>2. trie = [p \in DOMAIN trie |-> trie[p]]
      BY DEF Init
    <2>. QED BY <1>1, <2>1, <2>2 DEF TrieInv, HashMatchesTrie
  <1>. QED BY <1>1, <1>2, <1>3, <1>4 DEF StoreInv, RingInv

(* Every step of the store keeps its three structures in step.             *)
LEMMA StepStore == StoreInv /\ [Next]_vars => StoreInv'
  <1> SUFFICES ASSUME StoreInv, [Next]_vars PROVE StoreInv'
    OBVIOUS
  <1>1. CASE Next
    BY <1>1, AddRing, AddTrie DEF Next, StoreInv
  <1>2. CASE UNCHANGED vars
    <2>1. RingTypeOK' /\ IsFiniteSet(DOMAIN words')
      BY <1>2 DEF vars, StoreInv, RingInv, RingTypeOK
    <2>2. HashMatchesRing'
      BY <1>2 DEF vars, StoreInv, RingInv, HashMatchesRing
    <2>3. AgesAgree'
      BY <1>2 DEF vars, StoreInv, RingInv, AgesAgree
    <2>4. TrieInv'
      <3>1. words' = words /\ trie' = trie
        BY <1>2 DEF vars
      <3>2. HashMatchesTrie'
        BY <3>1 DEF StoreInv, TrieInv, HashMatchesTrie
      <3>. QED BY <3>1, <3>2 DEF StoreInv, TrieInv
    <2>. QED BY <2>1, <2>2, <2>3, <2>4 DEF StoreInv, RingInv
  <1>. QED BY <1>1, <1>2

(* Every step of the Tab key and of the screen leaves the store alone, and *)
(* the server's text takes a step of the store.                            *)
LEMMA TabSpecIsSpec == TabSpec => Spec
  <1>1. TabInit => Init
    BY DEF TabInit
  <1>2. [TabNext]_tvars => [Next]_vars
    BY DEF TabNext, Key, StdinProcessed, ServerText, Resize, tvars
  <1>. QED BY <1>1, <1>2, PTL DEF TabSpec, Spec

(* The inductive invariant holds of the store.                             *)
LEMMA SpecStore == Spec => []StoreInv
  BY InitStore, StepStore, PTL DEF Spec

(* The hash table, the ring and the trie of the completion store agree     *)
(* after any sequence of additions, duplicates and evictions, and every    *)
(* node that the hash table caches is in the trie.                         *)
THEOREM StoreStructuresAgree == TabSpec => []StructuresAgree
  BY TabSpecIsSpec, SpecStore, StoreAgrees, PTL

(* One addition to the store is one addition to the words that RecentWords *)
(* remembers: the word evicted from the ring is the one that has grown too *)
(* old.                                                                    *)
LEMMA StepRecent == StoreInv /\ [Next]_vars => [Recent!Next]_([w \in DOMAIN words |-> seq - words[w].seq])
  <1> DEFINE age == [w \in DOMAIN words |-> seq - words[w].seq]
  <1> SUFFICES ASSUME StoreInv, [Next]_vars PROVE Recent!Next \/ UNCHANGED age
    OBVIOUS
  <1>1. CASE UNCHANGED vars
    BY <1>1 DEF vars
  <1>2. ASSUME NEW w \in Word, AddWord(w) PROVE Recent!Add(w)
    <2> DEFINE kept == {u \in DOMAIN age : u # w /\ age[u] + 1 < Capacity}
               ev == Evicted(w)
    <2>0. /\ DOMAIN words \subseteq Word /\ seq \in Nat /\ order_index \in 0 .. Capacity - 1
          /\ Len(w) >= MinLength /\ seq' = seq + 1
          /\ \A u \in DOMAIN words : words[u].slot \in 0 .. Capacity - 1 /\ words[u].seq \in Nat
      BY <1>2 DEF AddWord, StoreInv, RingInv, RingTypeOK, Slot
    <2>1. /\ ev # w
          /\ ev # Nil => ev \in DOMAIN words /\ words[ev].slot = order_index
          /\ \A u \in DOMAIN words : u # w /\ words[u].slot = order_index => u = ev
          /\ Nil \notin DOMAIN words
      BY <2>0, EvictedWord DEF StoreInv
    <2>2. /\ DOMAIN words' = (DOMAIN words \ {ev}) \cup {w} /\ words'[w].seq = seq + 1
          /\ \A u \in DOMAIN words \ {ev, w} : words'[u].seq = words[u].seq
      BY <1>2, WordsAfter DEF StoreInv
    <2> HIDE DEF ev
    <2>3. \A u \in DOMAIN words : u # w => (u # ev <=> seq - words[u].seq + 1 < Capacity)
      <3> SUFFICES ASSUME NEW u \in DOMAIN words, u # w
                   PROVE  u # ev <=> seq - words[u].seq + 1 < Capacity
        OBVIOUS
      <3> DEFINE a == seq - words[u].seq
                 slot == words[u].slot
      <3>1. /\ a \in 0 .. Capacity - 1 /\ slot \in 0 .. Capacity - 1
            /\ order_index = slot + a + 1 \/ order_index = slot + a + 1 - Capacity
        BY <2>0 DEF StoreInv, RingInv, AgesAgree
      <3>2. u # ev <=> slot # order_index
        BY <2>1
      <3> HIDE DEF a, slot
      <3>3. slot # order_index <=> a + 1 < Capacity
        BY <2>0, <3>1
      <3>. QED BY <3>2, <3>3 DEF a
    <2>4. kept = DOMAIN words \ {ev, w}
      BY <2>3
    <2>5. DOMAIN words' = kept \cup {w}
      BY <2>1, <2>2, <2>4
    <2>6. age' = [u \in kept \cup {w} |-> seq' - words'[u].seq]
      BY <2>5
    <2>7. \A u \in kept \cup {w} : seq' - words'[u].seq = IF u = w THEN 0 ELSE age[u] + 1
      <3>1. seq' - words'[w].seq = 0
        BY <2>0, <2>2
      <3>2. ASSUME NEW u \in kept PROVE seq' - words'[u].seq = age[u] + 1 /\ u # w
        <4>1. u \in DOMAIN words \ {ev, w}
          BY <2>4
        <4>2. words'[u].seq = words[u].seq /\ words[u].seq \in Nat /\ u # w
          BY <2>0, <2>2, <4>1
        <4>3. age[u] = seq - words[u].seq
          BY <4>1
        <4> HIDE DEF age
        <4>. QED BY <2>0, <4>2, <4>3
      <3> HIDE DEF kept, age
      <3>. QED BY <3>1, <3>2
    <2>8. age' = [u \in kept \cup {w} |-> IF u = w THEN 0 ELSE age[u] + 1]
      BY <2>6, <2>7
    <2>. QED BY <2>0, <2>8 DEF Recent!Add
  <1>. QED BY <1>1, <1>2 DEF Next, Recent!Next

(* The completion store implements RecentWords: it remembers exactly the   *)
(* words among the last Capacity additions.                                *)
THEOREM StoreImplementsRecentWords == TabSpec => RecentSpec
  <1>1. Init => Recent!Init
    BY DEF Init, Recent!Init
  <1>. QED BY <1>1, StepRecent, SpecStore, TabSpecIsSpec, PTL DEF Spec, RecentSpec, Recent!Spec

-----------------------------------------------------------------------------
(* A capacity that is doubled often enough exceeds any number.             *)
LEMMA Doubled ==
  ASSUME NEW first \in Nat \ {0}, NEW n \in Nat
  PROVE  LET d[i \in 0 .. n] == IF i = 0 THEN first ELSE 2 * d[i - 1]
         IN \A i \in 0 .. n : d[i] \in Nat /\ d[i] > i
  <1> DEFINE Good(f, m) == f = [i \in 0 .. m |-> IF i = 0 THEN first ELSE 2 * f[i - 1]]
             T == {m \in Nat : \E f : Good(f, m)}
  <1>1. Nat \subseteq T
    <2>1. 0 \in T
      <3> DEFINE f == [i \in 0 .. 0 |-> first]
      <3>1. f = [i \in 0 .. 0 |-> IF i = 0 THEN first ELSE 2 * f[i - 1]]
        OBVIOUS
      <3>2. Good(f, 0)
        BY <3>1
      <3> HIDE DEF f, Good
      <3>. QED BY <3>2
    <2>2. \A m \in Nat : m \in T => m + 1 \in T
      <3> SUFFICES ASSUME NEW m \in Nat, NEW f, Good(f, m) PROVE m + 1 \in T
        OBVIOUS
      <3> DEFINE g == [i \in 0 .. m + 1 |-> IF i = m + 1 THEN 2 * f[m] ELSE f[i]]
      <3>1. g = [i \in 0 .. m + 1 |-> IF i = 0 THEN first ELSE 2 * g[i - 1]]
        <4> SUFFICES ASSUME NEW i \in 0 .. m + 1
                     PROVE  g[i] = IF i = 0 THEN first ELSE 2 * g[i - 1]
          OBVIOUS
        <4>1. CASE i = m + 1
          BY <4>1
        <4>2. CASE i \in 0 .. m
          <5>1. f[i] = IF i = 0 THEN first ELSE 2 * f[i - 1]
            BY <4>2
          <5>2. g[i] = f[i] /\ (i # 0 => g[i - 1] = f[i - 1])
            BY <4>2
          <5>. QED BY <5>1, <5>2
        <4>. QED BY <4>1, <4>2
      <3>2. Good(g, m + 1)
        BY <3>1
      <3> HIDE DEF g, Good
      <3>. QED BY <3>2
    <2> HIDE DEF T
    <2>. QED BY <2>1, <2>2, NatSet
  <1> DEFINE d == CHOOSE f : Good(f, n)
  <1>2. Good(d, n)
    <2>1. \E f : Good(f, n)
      BY <1>1
    <2> HIDE DEF Good
    <2>. QED BY <2>1
  <1>3. \A i \in 0 .. n : d[i] = IF i = 0 THEN first ELSE 2 * d[i - 1]
    <2> HIDE DEF d
    <2>. QED BY <1>2
  <1> HIDE DEF T
  <1> DEFINE U == {i \in Nat : i <= n => d[i] \in Nat /\ d[i] > i}
  <1>4. Nat \subseteq U
    <2> HIDE DEF d, Good
    <2>1. 0 \in U
      BY <1>3
    <2>2. \A m \in Nat : m \in U => m + 1 \in U
      <3> SUFFICES ASSUME NEW m \in Nat, m \in U, m + 1 <= n
                   PROVE  d[m + 1] \in Nat /\ d[m + 1] > m + 1
        OBVIOUS
      <3>1. d[m] \in Nat /\ d[m] > m
        OBVIOUS
      <3>2. m + 1 \in 0 .. n /\ m + 1 # 0 /\ (m + 1) - 1 = m
        OBVIOUS
      <3>3. d[m + 1] = 2 * d[m]
        BY <1>3, <3>2
      <3>. QED BY <3>1, <3>3
    <2> HIDE DEF U
    <2>. QED BY <2>1, <2>2, NatSet
  <1>5. \A i \in 0 .. n : d[i] \in Nat /\ d[i] > i
    BY <1>4
  <1>. QED BY <1>5

(* The capacity that lisp_x_complete_prefix grows to holds what is needed. *)
LEMMA GrownHolds ==
  ASSUME NEW cap \in Nat, NEW needed \in Nat
  PROVE  Grown(cap, needed) \in Nat /\ Grown(cap, needed) >= needed
  <1> DEFINE first == IF cap = 0 THEN FirstCapacity ELSE 2 * cap
             d[i \in 0 .. needed] == IF i = 0 THEN first ELSE 2 * d[i - 1]
             enough == {i \in 0 .. needed : d[i] >= needed}
  <1>1. first \in Nat \ {0}
    OBVIOUS
  <1> HIDE DEF first
  <1>2. \A i \in 0 .. needed : d[i] \in Nat /\ d[i] > i
    BY <1>1, Doubled
  <1> HIDE DEF d
  <1>3. needed \in enough /\ enough \subseteq Nat
    BY <1>2
  <1>4. \E i \in enough : \A j \in enough : i <= j
    <2> HIDE DEF enough
    <2>. QED BY <1>3, LeastNumber
  <1> DEFINE least == CHOOSE i \in enough : \A j \in enough : i <= j
  <1>5. least \in enough
    BY <1>4
  <1> HIDE DEF least
  <1>6. d[least] \in Nat /\ d[least] >= needed
    BY <1>2, <1>5
  <1>7. Grown(cap, needed) = IF cap >= needed THEN cap ELSE d[least]
    BY DEF Grown, least, d, first
  <1>. QED BY <1>6, <1>7

(* The store completes a prefix with some words or with none.              *)
LEMMA CompletionsType ==
  ASSUME StoreInv, NEW prefix, GetCompletions(prefix) # <<>>
  PROVE  Len(GetCompletions(prefix)) \in Nat \ {0}
  <1> DEFINE all == {Entry(w, words[w].seq, words[w].slot) : w \in DOMAIN words}
             found == Collected(prefix)
             n == IF Cardinality(found) < MaxResults THEN Cardinality(found) ELSE MaxResults
  <1>1. IsFiniteSet(all)
    <2> DEFINE f == [w \in DOMAIN words |-> Entry(w, words[w].seq, words[w].slot)]
    <2>1. f \in Surjection(DOMAIN words, all)
      BY DEF Surjection
    <2> HIDE DEF f, all
    <2>. QED BY <2>1, FS_Surjection DEF StoreInv, RingInv
  <1>2. found \subseteq all
    BY DEF StoreInv, TrieInv, HashMatchesTrie, Collected
  <1>3. Cardinality(found) \in Nat
    <2> HIDE DEF found, all
    <2>. QED BY <1>1, <1>2, FS_Subset, FS_CardinalityType
  <1> HIDE DEF found, all
  <1>4. n \in Nat
    BY <1>3
  <1> HIDE DEF n
  <1>5. \E value : GetCompletions(prefix) = [i \in 1 .. n |-> value[i]]
    <2> DEFINE c == GetCompletions(prefix)
    <2>1. c = [i \in 1 .. n |-> c[i]]
      BY DEF GetCompletions, n, found
    <2>. QED BY <2>1
  <1>6. PICK value : GetCompletions(prefix) = [i \in 1 .. n |-> value[i]]
    BY <1>5
  <1>7. n # 0
    <2>1. ASSUME n = 0 PROVE FALSE
      BY <1>6, <2>1
    <2>. QED BY <2>1
  <1>. QED BY <1>4, <1>6, <1>7

-----------------------------------------------------------------------------
Ascending(key, s, n) == \A i, j \in 1 .. n : i < j => key[s[i]] < key[s[j]]

(* A finite set whose elements have different keys is sorted in one way.   *)
LEMMA SortedOnce ==
  ASSUME NEW S, IsFiniteSet(S), NEW n, n = Cardinality(S), NEW key \in [S -> Int],
         \A x, y \in S : key[x] = key[y] => x = y
  PROVE  \E s \in [1 .. n -> S] :
           /\ Ascending(key, s, n)
           /\ \A t \in [1 .. n -> S] : Ascending(key, t, n) => t = s
  <1>1. n \in Nat
    BY FS_CardinalityType
  <1> DEFINE below == [x \in S |-> {y \in S : key[y] < key[x]}]
  <1>b. \A x \in S : below[x] \subseteq S /\ \A y \in S : y \in below[x] <=> key[y] < key[x]
    OBVIOUS
  <1> HIDE DEF below
  <1> DEFINE rank == [x \in S |-> Cardinality(below[x]) + 1]
  <1>2. ASSUME NEW x \in S
        PROVE  IsFiniteSet(below[x]) /\ Cardinality(below[x]) \in Nat
    BY <1>b, FS_Subset, FS_CardinalityType
  <1>3. ASSUME NEW x \in S, NEW y \in S, key[x] < key[y] PROVE rank[x] < rank[y]
    <2>1. below[x] \cup {x} \subseteq below[y] /\ x \notin below[x]
      BY <1>b, <1>3
    <2>2. Cardinality(below[x] \cup {x}) = Cardinality(below[x]) + 1
      BY <1>2, <2>1, FS_AddElement
    <2>3. Cardinality(below[x] \cup {x}) <= Cardinality(below[y])
      BY <1>2, <2>1, FS_Subset
    <2>. QED BY <1>2, <2>2, <2>3
  <1>4. rank \in [S -> 1 .. n]
    <2>1. ASSUME NEW x \in S PROVE Cardinality(below[x]) + 1 <= n
      <3>1. below[x] \cup {x} \subseteq S /\ x \notin below[x]
        BY <1>b
      <3>2. Cardinality(below[x] \cup {x}) <= n
        BY <3>1, FS_Subset
      <3>3. Cardinality(below[x] \cup {x}) = Cardinality(below[x]) + 1
        BY <1>2, <3>1, FS_AddElement
      <3>. QED BY <3>2, <3>3
    <2>. QED BY <1>1, <1>2, <2>1
  <1> HIDE DEF rank
  <1>5. \A x, y \in S : rank[x] = rank[y] => x = y
    <2>1. \A x \in S : rank[x] \in Nat
      BY <1>1, <1>4
    <2>2. \A x, y \in S : key[x] < key[y] => rank[x] < rank[y]
      BY <1>3
    <2>. QED BY <2>1, <2>2
  <1>6. \A i \in 1 .. n : \E x \in S : rank[x] = i
    <2>1. rank \in Injection(S, 1 .. n)
      BY <1>4, <1>5 DEF Injection, IsInjective
    <2>2. IsFiniteSet(1 .. n) /\ Cardinality(1 .. n) = n
      BY <1>1, FS_Interval
    <2>3. rank \in Surjection(S, 1 .. n)
      BY <2>1, <2>2, FS_Injection
    <2>. QED BY <2>3 DEF Surjection
  <1> DEFINE s == [i \in 1 .. n |-> CHOOSE x \in S : rank[x] = i]
  <1>7. s \in [1 .. n -> S] /\ \A i \in 1 .. n : rank[s[i]] = i
    BY <1>6
  <1> HIDE DEF s
  <1>8. Ascending(key, s, n)
    <2> SUFFICES ASSUME NEW i \in 1 .. n, NEW j \in 1 .. n, i < j,
                        ~(key[s[i]] < key[s[j]])
                 PROVE  FALSE
      BY DEF Ascending
    <2>1. s[i] \in S /\ s[j] \in S /\ rank[s[i]] = i /\ rank[s[j]] = j
      BY <1>7
    <2>2. key[s[j]] < key[s[i]] \/ s[i] = s[j]
      BY <2>1
    <2>3. rank[s[j]] < rank[s[i]] \/ s[i] = s[j]
      BY <1>3, <2>1, <2>2
    <2>. QED BY <2>1, <2>3
  <1>9. ASSUME NEW t \in [1 .. n -> S], Ascending(key, t, n)
        PROVE  t = s
    <2>0. \A i, j \in 1 .. n : i < j => key[t[i]] < key[t[j]]
      BY <1>9 DEF Ascending
    <2>1. ASSUME NEW i \in 1 .. n PROVE rank[t[i]] = i
      <3> DEFINE first == [j \in 1 .. i - 1 |-> t[j]]
      <3>1. first \in [1 .. i - 1 -> below[t[i]]]
        BY <1>1, <1>b, <2>0
      <3>2. \A j, k \in 1 .. i - 1 : first[j] = first[k] => j = k
        <4>1. \A j, k \in 1 .. n : j < k => t[j] # t[k]
          BY <1>1, <2>0
        <4>. QED BY <1>1, <4>1
      <3>3. ASSUME NEW y \in below[t[i]] PROVE \E j \in 1 .. i - 1 : first[j] = y
        <4>1. \E k \in 1 .. n : t[k] = y
          <5>1. t \in Injection(1 .. n, S)
            <6>1. \A j, k \in 1 .. n : j < k => t[j] # t[k]
              BY <1>1, <2>0
            <6>. QED BY <1>1, <6>1 DEF Injection, IsInjective
          <5>2. Cardinality(1 .. n) = n
            BY <1>1, FS_Interval
          <5>3. t \in Surjection(1 .. n, S)
            BY <5>1, <5>2, FS_Injection
          <5>. QED BY <1>b, <5>3 DEF Surjection
        <4>2. PICK k \in 1 .. n : t[k] = y
          BY <4>1
        <4>3. ~(i < k) /\ i # k
          BY <1>b, <2>0, <4>2
        <4>. QED BY <1>1, <4>2, <4>3
      <3> HIDE DEF first
      <3>4. ExistsBijection(1 .. i - 1, below[t[i]])
        BY <3>1, <3>2, <3>3
           DEF ExistsBijection, Bijection, Injection, Surjection, IsInjective
      <3>5. IsFiniteSet(1 .. i - 1) /\ Cardinality(1 .. i - 1) = i - 1
        <4>1. i - 1 \in Int /\ 1 \in Int /\ (1 > i - 1 => i = 1) /\ (i - 1) - 1 + 1 = i - 1
          BY <1>1
        <4>. QED BY <4>1, FS_Interval
      <3>6. Cardinality(below[t[i]]) = i - 1
        BY <3>4, <3>5, FS_Bijection
      <3>. QED BY <1>1, <3>6 DEF rank
    <2>2. \A i \in 1 .. n : t[i] = s[i]
      BY <1>5, <1>7, <2>1
    <2>3. t = [i \in 1 .. n |-> t[i]]
      BY <1>9
    <2>4. s = [i \in 1 .. n |-> s[i]]
      BY <1>7
    <2>5. [i \in 1 .. n |-> t[i]] = [i \in 1 .. n |-> s[i]]
      BY <2>2
    <2>. QED BY <2>3, <2>4, <2>5
  <1>. QED BY <1>7, <1>8, <1>9

(* The entry that the trie has for a word of the hash table.               *)
EntryOf(w) == Entry(w, words[w].seq, words[w].slot)

(* The sorted entries in the set E are the n words in the set W.           *)
Alike(W, E, n) ==
  /\ IsFiniteSet(W) /\ n \in Nat /\ Cardinality(E) = n
  /\ SortedBySeq(E) \in [1 .. n -> E]
  /\ Recent!NewestFirst(W) \in [1 .. n -> W]
  /\ \A i \in 1 .. n : SortedBySeq(E)[i].word = Recent!NewestFirst(W)[i]

(* The entries of some words, sorted by their numbers, are the words from  *)
(* the newest to the oldest.                                               *)
LEMMA SameOrder ==
  ASSUME StoreInv, NEW W \in SUBSET DOMAIN words, NEW E, E = {EntryOf(w) : w \in W},
         NEW n, n = Cardinality(W)
  PROVE  Alike(W, E, n)
  <1>1. /\ IsFiniteSet(W) /\ n \in Nat
        /\ \A w \in W : words[w].seq \in Nat /\ seq - words[w].seq \in Int
    BY FS_Subset, FS_CardinalityType DEF StoreInv, RingInv, RingTypeOK
  <1>2. \A u, w \in W : words[u].seq = words[w].seq => u = w
    <2> SUFFICES ASSUME NEW u \in W, NEW w \in W, words[u].seq = words[w].seq PROVE u = w
      OBVIOUS
    <2>1. /\ words[u].slot \in Slot /\ words[w].slot \in Slot /\ seq \in Nat
          /\ words[u].seq \in Nat /\ order_index \in Slot
          /\ word_order[words[u].slot] = u /\ word_order[words[w].slot] = w
      BY DEF StoreInv, RingInv, RingTypeOK, HashMatchesRing
    <2>2. \A v \in {u, w} :
            \/ order_index = words[v].slot + (seq - words[v].seq) + 1
            \/ order_index = words[v].slot + (seq - words[v].seq) + 1 - Capacity
      BY DEF StoreInv, RingInv, AgesAgree
    <2>3. words[u].slot = words[w].slot
      BY <2>1, <2>2 DEF Slot
    <2>. QED BY <2>1, <2>3
  <1>3. \A w : EntryOf(w).word = w /\ EntryOf(w).seq = words[w].seq
    BY DEF EntryOf, Entry
  <1>4. \A e \in E : e.word \in W /\ e = EntryOf(e.word) /\ e.seq = words[e.word].seq
    BY <1>3
  <1> DEFINE key == [w \in W |-> seq - words[w].seq]
  <1>5. /\ key \in [W -> Int]
        /\ \A u, w \in W : key[u] = key[w] => u = w
        /\ \A u, w \in W : key[u] < key[w] <=> words[u].seq > words[w].seq
    <2>1. seq \in Nat
      BY DEF StoreInv, RingInv, RingTypeOK
    <2>. QED BY <1>1, <1>2, <2>1
  <1>6. \A w \in W : [u \in DOMAIN words |-> seq - words[u].seq][w] = key[w]
    OBVIOUS
  <1> HIDE DEF key
  <1>7. PICK s \in [1 .. n -> W] :
          /\ Ascending(key, s, n)
          /\ \A t \in [1 .. n -> W] : Ascending(key, t, n) => t = s
    BY <1>1, <1>5, SortedOnce
  <1>8. Cardinality(E) = n
    <2> DEFINE f == [w \in W |-> EntryOf(w)]
    <2>1. f \in [W -> E] /\ (\A u, w \in W : f[u] = f[w] => u = w)
          /\ \A e \in E : \E w \in W : f[w] = e
      BY <1>3
    <2> HIDE DEF f
    <2>2. ExistsBijection(W, E)
      BY <2>1 DEF ExistsBijection, Bijection, Injection, Surjection, IsInjective
    <2>. QED BY <1>1, <2>2, FS_Bijection
  <1>9. Recent!NewestFirst(W) = s
    <2> DEFINE age == [u \in DOMAIN words |-> seq - words[u].seq]
               Sorted(t) == \A i, j \in DOMAIN t : i < j => age[t[i]] < age[t[j]]
    <2>1. \A t \in [1 .. n -> W] :
            Sorted(t) <=> Ascending(key, t, n)
      <3> SUFFICES ASSUME NEW t \in [1 .. n -> W] PROVE Sorted(t) <=> Ascending(key, t, n)
        OBVIOUS
      <3>1. DOMAIN t = 1 .. n /\ \A i \in 1 .. n : t[i] \in W /\ age[t[i]] = key[t[i]]
        BY <1>6
      <3> HIDE DEF age
      <3>. QED BY <3>1 DEF Ascending
    <2>2. Recent!NewestFirst(W) = CHOOSE t \in [1 .. n -> W] : Sorted(t)
      <3>1. Recent!Cardinality(W) = Cardinality(W)
        BY DEF Recent!Cardinality, Cardinality
      <3>2. Recent!NewestFirst(W) = CHOOSE t \in [1 .. Recent!Cardinality(W) -> W] : Sorted(t)
        BY DEF Recent!NewestFirst
      <3> HIDE DEF Sorted
      <3>. QED BY <3>1, <3>2
    <2> HIDE DEF Sorted
    <2>. QED BY <1>7, <2>1, <2>2
  <1>10. SortedBySeq(E) \in [1 .. n -> E] /\ \A i \in 1 .. n : SortedBySeq(E)[i].word = s[i]
    <2> DEFINE Sorted(t) == \A i, j \in DOMAIN t : i < j => t[i].seq > t[j].seq
               es == [i \in 1 .. n |-> EntryOf(s[i])]
    <2>1. SortedBySeq(E) = CHOOSE t \in [1 .. n -> E] : Sorted(t)
      BY <1>8 DEF SortedBySeq
    <2>2. es \in [1 .. n -> E] /\ Sorted(es)
      BY <1>3, <1>5, <1>7 DEF Ascending
    <2>3. ASSUME NEW t \in [1 .. n -> E], Sorted(t), NEW i \in 1 .. n PROVE t[i].word = s[i]
      <3> DEFINE ws == [j \in 1 .. n |-> t[j].word]
      <3>1. ws \in [1 .. n -> W]
        BY <1>4
      <3>2. Ascending(key, ws, n)
        <4>1. ASSUME NEW j \in 1 .. n, NEW k \in 1 .. n, j < k PROVE t[j].seq > t[k].seq
          BY <2>3, <4>1
        <4>2. \A j \in 1 .. n : t[j] \in E /\ ws[j] = t[j].word
          OBVIOUS
        <4> HIDE DEF ws
        <4>3. ASSUME NEW j \in 1 .. n, NEW k \in 1 .. n, j < k PROVE key[ws[j]] < key[ws[k]]
          <5>1. t[j].seq = words[ws[j]].seq /\ t[k].seq = words[ws[k]].seq
                /\ ws[j] \in W /\ ws[k] \in W
            BY <1>4, <4>2
          <5>. QED BY <1>5, <4>1, <4>3, <5>1
        <4>. QED BY <4>3 DEF Ascending
      <3> HIDE DEF ws
      <3>3. ws = s
        BY <1>7, <3>1, <3>2
      <3>. QED BY <3>3 DEF ws
    <2> HIDE DEF Sorted, es
    <2>4. SortedBySeq(E) \in [1 .. n -> E] /\ Sorted(SortedBySeq(E))
      BY <2>1, <2>2
    <2>. QED BY <2>3, <2>4
  <1>. QED BY <1>1, <1>7, <1>8, <1>9, <1>10 DEF Alike

IsJoin(c, a, b, m, k) ==
  /\ \A i \in 1 .. m : c[i] = a[i]
  /\ \A i \in 1 .. k : c[m + i] = b[i]

(* Two sequences one behind the other.                                     *)
LEMMA Joined ==
  ASSUME NEW S, NEW m \in Nat, NEW k \in Nat, NEW a \in [1 .. m -> S], NEW b \in [1 .. k -> S]
  PROVE  /\ a \o b \in Seq(S) /\ Len(a \o b) = m + k
         /\ IsJoin(a \o b, a, b, m, k)
  <1>1. a \in Seq(S) /\ Len(a) = m /\ b \in Seq(S) /\ Len(b) = k
    OBVIOUS
  <1>. QED BY <1>1 DEF IsJoin

(* What is collected below the node of a prefix are the entries of the     *)
(* words that start with it, in any case.                                  *)
LEMMA CollectedWords ==
  ASSUME StoreInv, NEW prefix \in Prefix
  PROVE  /\ Collected(prefix) = {EntryOf(w) : w \in Recent!AnyCase(prefix)}
         /\ {e \in Collected(prefix) : IsPrefix(prefix, e.word)} =
              {EntryOf(w) : w \in Recent!Exactly(prefix)}
         /\ Recent!Exactly(prefix) \subseteq Recent!AnyCase(prefix)
         /\ Recent!AnyCase(prefix) \subseteq DOMAIN words
  <1>1. /\ DOMAIN words \subseteq Word
        /\ \A p \in DOMAIN trie : trie[p] = {EntryOf(w) : w \in {u \in DOMAIN words : Lower(u) = p}}
        /\ DOMAIN trie = NodesOf(DOMAIN words)
    BY DEF StoreInv, RingInv, RingTypeOK, TrieInv, HashMatchesTrie, NodesOf, EntryOf
  <1>2. \A w \in DOMAIN words : Lower(w) \in DOMAIN trie
    BY <1>1, OwnNode
  <1>3. /\ Recent!AnyCase(prefix) = {w \in DOMAIN words : IsPrefix(Lower(prefix), Lower(w))}
        /\ Recent!Exactly(prefix) = {w \in DOMAIN words : IsPrefix(prefix, w)}
    <2>1. \A p, q : Recent!IsPrefix(p, q) = IsPrefix(p, q)
      BY DEF Recent!IsPrefix, IsPrefix
    <2>. QED BY <2>1 DEF Recent!AnyCase, Recent!Exactly
  <1>4. \A w : EntryOf(w).word = w
    BY DEF EntryOf, Entry
  <1>5. Collected(prefix) = {EntryOf(w) : w \in Recent!AnyCase(prefix)}
    BY <1>1, <1>2, <1>3 DEF Collected
  <1>6. Recent!Exactly(prefix) \subseteq Recent!AnyCase(prefix)
    BY <1>1, <1>3, LettersAssumption
  <1>. QED BY <1>3, <1>4, <1>5, <1>6

(* The trie and the sort return what RecentWords promises.                 *)
LEMMA StoreCompletes == StoreInv => CompletionsAgree
  <1> SUFFICES ASSUME StoreInv, NEW prefix \in Prefix
               PROVE  GetCompletions(prefix) = Recent!Completions(prefix)
    BY DEF CompletionsAgree
  <1>1. CASE prefix = <<>>
    BY <1>1 DEF GetCompletions, Recent!Completions
  <1>2. CASE prefix # <<>>
    <2> DEFINE any == Recent!AnyCase(prefix)
               own == Recent!Exactly(prefix)
               entries == Collected(prefix)
               matched == {e \in entries : IsPrefix(prefix, e.word)}
               n == Cardinality(any)
               m == Cardinality(own)
               k == Cardinality(any \ own)
               a == SortedBySeq(matched)
               b == SortedBySeq(entries \ matched)
               u == Recent!NewestFirst(own)
               v == Recent!NewestFirst(any \ own)
               most == IF n < MaxResults THEN n ELSE MaxResults
    <2>1. /\ entries = {EntryOf(w) : w \in any} /\ matched = {EntryOf(w) : w \in own}
          /\ own \subseteq any /\ any \subseteq DOMAIN words
      BY CollectedWords
    <2>2. entries \ matched = {EntryOf(w) : w \in any \ own}
      <3>1. \A w : EntryOf(w).word = w
        BY DEF EntryOf, Entry
      <3> HIDE DEF entries, matched, any, own
      <3>. QED BY <2>1, <3>1
    <2>3. Alike(any, entries, n) /\ Alike(own, matched, m) /\ Alike(any \ own, entries \ matched, k)
      <3> HIDE DEF any, own, entries, matched
      <3>1. own \in SUBSET DOMAIN words /\ any \ own \in SUBSET DOMAIN words
        BY <2>1
      <3>. QED BY <2>1, <2>2, <3>1, SameOrder
    <2>4. /\ IsFiniteSet(own) /\ m \in Nat /\ a \in [1 .. m -> matched] /\ u \in [1 .. m -> own]
          /\ \A i \in 1 .. m : a[i].word = u[i]
      <3> HIDE DEF any, own, entries, matched
      <3>. QED BY <2>3 DEF Alike
    <2>5. /\ IsFiniteSet(any \ own) /\ k \in Nat
          /\ b \in [1 .. k -> entries \ matched] /\ v \in [1 .. k -> any \ own]
          /\ \A i \in 1 .. k : b[i].word = v[i]
      <3> HIDE DEF any, own, entries, matched
      <3>. QED BY <2>3 DEF Alike
    <2>6. n = m + k /\ n \in Nat /\ Cardinality(entries) = n
      <3> HIDE DEF entries, matched
      <3>1. any = own \cup (any \ own) /\ own \cap (any \ own) = {}
        BY <2>1
      <3>2. Cardinality(own \cap (any \ own)) = 0
        BY <3>1, FS_EmptySet
      <3> HIDE DEF any, own
      <3>3. Cardinality(own \cup (any \ own)) = m + k - Cardinality(own \cap (any \ own))
        BY <2>4, <2>5, FS_Union
      <3>4. n = m + k - 0
        BY <3>1, <3>2, <3>3
      <3>5. n \in Nat /\ Cardinality(entries) = n
        BY <2>3 DEF Alike
      <3> HIDE DEF n, m, k
      <3>. QED BY <2>4, <2>5, <3>4, <3>5
    <2>7. GetCompletions(prefix) = [i \in 1 .. most |-> (a \o b)[i].word]
      <3>1. GetCompletions(prefix) =
              [i \in 1 .. (IF Cardinality(entries) < MaxResults THEN Cardinality(entries)
                           ELSE MaxResults) |-> (a \o b)[i].word]
        BY <1>2 DEF GetCompletions
      <3> HIDE DEF entries, a, b, n
      <3>. QED BY <2>6, <3>1
    <2>8. Recent!Completions(prefix) =
            SubSeq(u \o v, 1, IF Len(u \o v) < MaxResults THEN Len(u \o v) ELSE MaxResults)
      BY <1>2 DEF Recent!Completions
    <2> HIDE DEF any, own, entries, matched, n, m, k, a, b, u, v
    <2>9. /\ a \in [1 .. m -> entries] /\ b \in [1 .. k -> entries]
          /\ u \in [1 .. m -> any] /\ v \in [1 .. k -> any]
      <3>1. matched \subseteq entries
        BY DEF matched
      <3>. QED BY <2>1, <2>4, <2>5, <3>1
    <2>10. IsJoin(a \o b, a, b, m, k)
      BY <2>4, <2>5, <2>9, Joined
    <2>11. u \o v \in Seq(any) /\ Len(u \o v) = n /\ IsJoin(u \o v, u, v, m, k)
      <3>1. u \o v \in Seq(any) /\ Len(u \o v) = m + k /\ IsJoin(u \o v, u, v, m, k)
        BY <2>4, <2>5, <2>9, Joined
      <3>. QED BY <2>6, <3>1
    <2>12. ASSUME NEW i \in 1 .. n PROVE (a \o b)[i].word = (u \o v)[i]
      <3>1. CASE i <= m
        <4>1. i \in 1 .. m
          BY <2>4, <3>1
        <4>. QED BY <2>4, <2>10, <2>11, <4>1 DEF IsJoin
      <3>2. CASE i > m
        <4>1. i - m \in 1 .. k /\ m + (i - m) = i
          BY <2>4, <2>5, <2>6, <3>2
        <4>2. (a \o b)[m + (i - m)] = b[i - m] /\ (u \o v)[m + (i - m)] = v[i - m]
          BY <2>10, <2>11, <4>1 DEF IsJoin
        <4>. QED BY <2>5, <4>1, <4>2
      <3>3. i <= m \/ i > m
        BY <2>4, <2>6
      <3>. QED BY <3>1, <3>2, <3>3
    <2>13. most \in 0 .. n
      BY <2>6, ResultsAssumption
    <2>14. Recent!Completions(prefix) = SubSeq(u \o v, 1, most)
      BY <2>8, <2>11
    <2> HIDE DEF most
    <2>15. SubSeq(u \o v, 1, most) = [i \in 1 .. most |-> (u \o v)[i]]
      BY <2>6, <2>11, <2>13
    <2>16. [i \in 1 .. most |-> (a \o b)[i].word] = [i \in 1 .. most |-> (u \o v)[i]]
      <3>1. \A i \in 1 .. most : i \in 1 .. n
        BY <2>6, <2>13
      <3>2. \A i \in 1 .. most : (a \o b)[i].word = (u \o v)[i]
        BY <2>12, <3>1
      <3>. QED BY <3>2
    <2>. QED BY <2>7, <2>14, <2>15, <2>16
  <1>. QED BY <1>1, <1>2

(* Whatever was added and forgotten, the completions of a prefix are the   *)
(* newest of the words among the last Capacity additions that start with   *)
(* it, those in its own case first.                                        *)
THEOREM AlwaysCompletesAsPromised == TabSpec => []CompletionsAgree
  BY TabSpecIsSpec, SpecStore, StoreCompletes, PTL

-----------------------------------------------------------------------------
(* What is inductive about a cycle: within a read, too, the word at the    *)
(* cursor is the candidate that the last Tab of the read has inserted.     *)
CycleAgrees ==
  /\ completion_ptrs_cap \in Nat
  /\ BorrowIsCurrent
  /\ g_tab_completions # Null => g_tab_count \in Nat \ {0}
  /\ keys \in Nat /\ (keys = 0 => ~g_tab_processed)
  /\ line = [start |-> line.start, word |-> line.word]
  /\ g_tab_completions # Null /\ ~overtyped /\ (g_tab_processed \/ keys = 0) =>
       line = [start |-> g_tab_word_start, word |-> completion_arena[g_tab_index + 1]]

(* No completion is being cycled through at the start.                     *)
LEMMA InitCycle == TabInit => CycleAgrees
  BY DEF TabInit, CycleAgrees, BorrowIsCurrent, Null, EmptyLine

(* Tab goes on with the candidates that are there, or has new ones         *)
(* fetched: in both cases the array is the one that exists.                *)
LEMMA TabCycle ==
  ASSUME StoreInv, CycleAgrees, TabKey, keys' = keys + 1
  PROVE  CycleAgrees'
  <1>0. /\ completion_ptrs_cap \in Nat /\ keys' \in Nat /\ keys' # 0
        /\ line = [start |-> line.start, word |-> line.word]
        /\ g_tab_processed' /\ ~overtyped'
    BY DEF CycleAgrees, TabKey
  <1>1. CASE TabCycles
    <2>1. /\ g_tab_completions # Null /\ g_tab_word_start = line.start
          /\ g_tab_count \in Nat \ {0} /\ g_tab_index \in 0 .. g_tab_count - 1
      BY <1>1 DEF TabCycles, Cycling, CycleAgrees, BorrowIsCurrent
    <2>2. NextCandidate \in 0 .. g_tab_count - 1
      BY <2>1 DEF NextCandidate
    <2>3. line' = [start |-> g_tab_word_start, word |-> completion_arena[g_tab_index' + 1]]
      BY <1>0, <1>1, <2>1 DEF TabCycles, InsertCompletion
    <2>4. BorrowIsCurrent' /\ g_tab_count' \in Nat \ {0} /\ completion_ptrs_cap' \in Nat
      BY <1>0, <1>1, <2>1, <2>2 DEF TabCycles, CycleAgrees, BorrowIsCurrent, storage
    <2>5. g_tab_word_start' = g_tab_word_start /\ completion_arena' = completion_arena
      BY <1>1 DEF TabCycles, storage
    <2>6. line' = [start |-> line'.start, word |-> line'.word]
      BY <2>3
    <2>. QED BY <1>0, <2>3, <2>4, <2>5, <2>6 DEF CycleAgrees
  <1>2. CASE TabFetches
    <2> DEFINE c == GetCompletions(line.word)
    <2>1. c # <<>> => Len(c) \in Nat \ {0} /\ Len(c) + 1 \in Nat
      BY CompletionsType
    <2>2. c # <<>> => /\ Grown(completion_ptrs_cap, Len(c) + 1) \in Nat
                      /\ Grown(completion_ptrs_cap, Len(c) + 1) >= Len(c) + 1
      BY <1>0, <2>1, GrownHolds
    <2> HIDE DEF c
    <2>3. CASE FetchFails(line.word) /\ ForgetCycle /\ UNCHANGED line
      <3>1. completion_ptrs_cap' \in Nat
        BY <1>0, <2>2, <2>3 DEF FetchFails, storage, c
      <3>2. g_tab_completions' = Null
        BY <2>3 DEF ForgetCycle, FreeTabCompletions
      <3>. QED BY <1>0, <2>3, <3>1, <3>2 DEF CycleAgrees, BorrowIsCurrent
    <2>4. CASE /\ FetchFills(line.word)
               /\ g_tab_completions' = completion_ptrs_cap'
               /\ g_tab_count' = Len(completion_arena')
               /\ g_tab_index' = 0
               /\ g_tab_word_start' = line.start
               /\ InsertCompletion(Head(completion_arena'))
      <3>1. /\ c # <<>> /\ completion_arena' = c
            /\ completion_ptrs_cap' = Grown(completion_ptrs_cap, Len(c) + 1)
        BY <2>4 DEF FetchFills, c
      <3>2. /\ g_tab_count' \in Nat \ {0} /\ completion_ptrs_cap' \in Nat
            /\ g_tab_count' + 1 <= completion_ptrs_cap'
        BY <2>1, <2>2, <2>4, <3>1
      <3>3. line' = [start |-> g_tab_word_start', word |-> completion_arena'[g_tab_index' + 1]]
        BY <1>0, <2>4 DEF InsertCompletion
      <3>4. line' = [start |-> line'.start, word |-> line'.word]
        BY <3>3
      <3>5. BorrowIsCurrent'
        BY <2>4, <3>2 DEF BorrowIsCurrent
      <3>. QED BY <1>0, <3>2, <3>3, <3>4, <3>5 DEF CycleAgrees
    <2>. QED BY <1>2, <2>3, <2>4 DEF TabFetches, c
  <1>. QED BY <1>1, <1>2 DEF TabKey

(* Every step keeps the completion that is cycled through in step with the *)
(* input.                                                                  *)
LEMMA StepCycle == StoreInv /\ CycleAgrees /\ [TabNext]_tvars => CycleAgrees'
  <1> SUFFICES ASSUME StoreInv, CycleAgrees, [TabNext]_tvars PROVE CycleAgrees'
    OBVIOUS
  <1>0. keys \in Nat
    BY DEF CycleAgrees
  <1>1. CASE Key
    <2>0. keys' = keys + 1 /\ keys' \in Nat /\ keys' # 0
      BY <1>0, <1>1 DEF Key
    <2>1. CASE TabKey
      BY <2>0, <2>1, TabCycle
    <2>2. CASE EditKey
      <3>1. line' = [start |-> line'.start, word |-> line'.word]
        BY <2>2, EditedAssumption DEF EditKey
      <3>2. /\ UNCHANGED <<g_tab_completions, g_tab_count, g_tab_index, g_tab_word_start,
                           g_tab_processed, completion_arena, completion_ptrs_cap>>
            /\ overtyped' = (overtyped \/ g_tab_processed)
        BY <2>2 DEF EditKey, cycle, storage
      <3>. QED BY <2>0, <3>1, <3>2 DEF CycleAgrees, BorrowIsCurrent
    <2>3. CASE SubmitKey
      BY <2>0, <2>3 DEF SubmitKey, FreeTabCompletions, EmptyLine, CycleAgrees,
         BorrowIsCurrent, storage
    <2>4. CASE OtherKey
      <3>1. UNCHANGED <<g_tab_completions, g_tab_count, g_tab_index, g_tab_word_start,
                        g_tab_processed, completion_arena, completion_ptrs_cap, line, overtyped>>
        BY <2>4 DEF OtherKey, cycle, storage
      <3>. QED BY <2>0, <3>1 DEF CycleAgrees, BorrowIsCurrent
    <2>. QED BY <1>1, <2>1, <2>2, <2>3, <2>4 DEF Key
  <1>2. CASE StdinProcessed
    <2>1. /\ UNCHANGED <<completion_arena, completion_ptrs_cap, line, overtyped>>
          /\ keys' = 0 /\ ~g_tab_processed'
      BY <1>2 DEF StdinProcessed, storage
    <2>2. CASE g_tab_processed
      <3>1. UNCHANGED <<g_tab_completions, g_tab_count, g_tab_index, g_tab_word_start>>
        BY <1>2, <2>2 DEF StdinProcessed, EndCycle, cycle
      <3>. QED BY <2>1, <2>2, <3>1 DEF CycleAgrees, BorrowIsCurrent
    <2>3. CASE ~g_tab_processed
      <3>1. g_tab_completions' = Null
        BY <1>2, <2>3 DEF StdinProcessed, EndCycle, FreeTabCompletions
      <3>. QED BY <2>1, <3>1 DEF CycleAgrees, BorrowIsCurrent
    <2>. QED BY <2>2, <2>3
  <1>3. CASE UNCHANGED tab
    <2>1. UNCHANGED <<g_tab_completions, g_tab_count, g_tab_index, g_tab_word_start,
                      g_tab_processed, completion_arena, completion_ptrs_cap, line, keys, overtyped>>
      BY <1>3 DEF tab, cycle, storage
    <2>. QED BY <2>1 DEF CycleAgrees, BorrowIsCurrent
  <1>. QED BY <1>1, <1>2, <1>3 DEF TabNext, ServerText, Resize, tvars

(* The invariants of the store and of the cycle hold together.             *)
LEMMA SpecCycle == TabSpec => [](StoreInv /\ CycleAgrees)
  <1>1. TabInit => CycleAgrees
    BY InitCycle
  <1>2. TabSpec => []StoreInv
    BY TabSpecIsSpec, SpecStore, PTL
  <1>. QED BY <1>1, <1>2, StepCycle, PTL DEF TabSpec

(* The array that main.c has borrowed from lisp_x_complete_prefix is the   *)
(* one that exists, and its count, index and terminator are within it.     *)
THEOREM BorrowAlwaysCurrent == TabSpec => []BorrowIsCurrent
  <1>1. CycleAgrees => BorrowIsCurrent
    BY DEF CycleAgrees
  <1>. QED BY SpecCycle, <1>1, PTL

(* Between two reads a live cycle is the one the user sees: the next Tab   *)
(* replaces its candidate and nothing that was typed.                      *)
THEOREM CycleAlwaysShown == TabSpec => []CycleIsShown
  <1>1. CycleAgrees => CycleIsShown
    BY DEF CycleAgrees, CycleIsShown
  <1>. QED BY SpecCycle, <1>1, PTL

-----------------------------------------------------------------------------
(* The layout of the screen, with the types of what it is computed from.   *)
LayoutAgrees ==
  /\ LayoutFits
  /\ terminal_height \in Nat /\ content_lines \in 1 .. MaxLines

(* telnet_app_set_terminal_size stacks the rows without a gap.             *)
LEMMA SizeFits ==
  ASSUME NEW height \in Nat, NEW lines \in 1 .. MaxLines,
         View!SetTerminalSize(height, lines), content_lines' = lines
  PROVE  LayoutAgrees'
  BY DEF View!SetTerminalSize, LayoutAgrees, LayoutFits, View!LayoutFits

(* Every step keeps the rows of the screen stacked and inside the terminal.*)
LEMMA StepLayout == LayoutAgrees /\ [TabNext]_tvars => LayoutAgrees'
  <1> SUFFICES ASSUME LayoutAgrees, [TabNext]_tvars PROVE LayoutAgrees'
    OBVIOUS
  <1>1. ASSUME NEW n \in 1 .. MaxLines, View!KeyToInput(n) PROVE LayoutAgrees'
    <2>1. View!SetTerminalSize(terminal_height, n)
      BY <1>1 DEF View!KeyToInput, View!LayoutAfterInput
    <2>. QED BY <1>1, <2>1, SizeFits DEF LayoutAgrees, View!KeyToInput
  <1>2. ASSUME NEW h \in Heights, View!WindowSize(h) PROVE LayoutAgrees'
    <2>1. h \in Nat /\ View!SetTerminalSize(h, content_lines) /\ content_lines' = content_lines
      BY <1>2, HeightsAssumption DEF View!WindowSize
    <2>. QED BY <2>1, SizeFits DEF LayoutAgrees
  <1>3. CASE UNCHANGED <<terminal_height, content_lines, top_border_row, textinput_row,
                         bottom_border_row, viewport_h>>
    BY <1>3 DEF LayoutAgrees, LayoutFits, View!LayoutFits
  <1>4. CASE TabKey \/ EditKey \/ SubmitKey
    BY <1>1, <1>4 DEF TabKey, EditKey, SubmitKey, LayoutAgrees
  <1>5. CASE OtherKey
    BY <1>3, <1>5 DEF OtherKey, View!ToggleFocus, View!KeyElsewhere, View!layout, View!vars
  <1>. QED BY <1>2, <1>3, <1>4, <1>5
    DEF TabNext, Key, StdinProcessed, ServerText, Resize, tvars, app

(* The viewport, the borders and the lines of the text input fill the      *)
(* terminal from top to bottom, each row once, after any mix of resizes,   *)
(* focus changes and keys.                                                 *)
THEOREM LayoutAlwaysFits == TabSpec => []LayoutFits
  <1>1. TabInit => LayoutAgrees
    BY HeightsAssumption DEF TabInit, View!Init, LayoutAgrees, LayoutFits, View!LayoutFits
  <1>2. LayoutAgrees => LayoutFits
    BY DEF LayoutAgrees
  <1>. QED BY <1>1, <1>2, StepLayout, PTL DEF TabSpec
=============================================================================
