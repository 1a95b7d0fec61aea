----------------------------- MODULE WordStore -----------------------------
(***************************************************************************)
(* The completion store of src/lisp/init.lisp: add-word-to-store and       *)
(* get-completions-from-store over three structures that must agree, a     *)
(* hash table of the words, a ring of slots in the order of addition, and  *)
(* a trie of the words in lower case, whose nodes the hash table caches.   *)
(*                                                                         *)
(* The trie maps the path of every node to the entries of its leaf list.   *)
(* A hash entry holds its node by reference: attached says that the node   *)
(* is still the one in the trie.                                           *)
(***************************************************************************)
EXTENDS Naturals, Sequences, FiniteSets, SequencesExt

CONSTANTS
  Word,             (* the words offered to the store                      *)
  Lower(_),         (* string-downcase                                     *)
  Capacity,         (* the length of *completion-word-order*               *)
  MaxResults,       (* *completion-max-results*                            *)
  MinLength,        (* 3 in the code                                       *)
  Prefix,           (* the prefixes asked for                              *)
  MaxAdditions      (* bound: words added                                  *)

ASSUME CapacityAssumption == Capacity \in Nat \ {0}
ASSUME ResultsAssumption == MaxResults \in Nat
ASSUME MinLengthAssumption == MinLength \in Nat \ {0}
ASSUME AdditionsAssumption == MaxAdditions \in Nat
ASSUME LowerAssumption ==
  \A w \in Word \cup Prefix :
    /\ w \in Seq(ToSet(w)) /\ Lower(w) \in Seq(ToSet(Lower(w)))
    /\ Len(Lower(w)) = Len(w) /\ Lower(Lower(w)) = Lower(w)
ASSUME LettersAssumption ==      (* string-downcase works letter by letter *)
  \A p \in Prefix, w \in Word : IsPrefix(p, w) => IsPrefix(Lower(p), Lower(w))

VARIABLES
  words,            (* *completion-words*                                  *)
  word_order,       (* *completion-word-order*, <<>> for nil               *)
  order_index,      (* *completion-word-order-index*                       *)
  word_count,       (* *completion-word-count*                             *)
  seq,              (* *completion-seq*                                    *)
  trie              (* *completion-trie*                                   *)

vars == <<words, word_order, order_index, word_count, seq, trie>>

Nil == <<>>
Root == <<>>
Slot == 0 .. Capacity - 1

Entry(w, n, slot) == [word |-> w, seq |-> n, slot |-> slot]

Init ==
  /\ words = <<>>
  /\ word_order = [s \in Slot |-> Nil]
  /\ order_index = 0
  /\ word_count = 0
  /\ seq = 0
  /\ trie = [p \in {Root} |-> {}]

-----------------------------------------------------------------------------
(* The trie. *)
Path(key) == {SubSeq(key, 1, i) : i \in 0 .. Len(key)}

LeafOf(t, p) == IF p \in DOMAIN t THEN t[p] ELSE {}

(* trie-insert!: the nodes of the path are made if they are missing. *)
TrieInsert(t, key, entry) ==
  [p \in DOMAIN t \cup Path(key) |->
     IF p = key THEN LeafOf(t, p) \cup {entry} ELSE LeafOf(t, p)]

(* trie-leaf-remove *)
LeafRemove(leaf, w) == {e \in leaf : e.word # w}

(* Mutant: only the last node is removed. *)
LastEmpty(t, key) == {p \in {key} : t[p] = {} /\ \A q \in DOMAIN t : ~IsStrictPrefix(p, q)}

(* The nodes on the way to a key that have nothing left at or below them.  *)
Empty(t, key) ==
  {p \in Path(key) \ {Root} : \A q \in DOMAIN t : IsPrefix(p, q) => t[q] = {}}

(* trie-remove-entry!: the entry goes, and nodes left empty are pruned     *)
(* bottom-up.                                                              *)
TrieRemove(t, w) ==
  LET key == Lower(w)
      less == [t EXCEPT ![key] = LeafRemove(@, w)]
  IN IF LeafOf(t, key) = {} THEN t
     ELSE IF less[key] # {} THEN less
     ELSE [p \in DOMAIN t \ Empty(less, key) |-> less[p]]

-----------------------------------------------------------------------------
(* A duplicate gives up its slot. *)
ClearOldSlot(w) ==
  IF w \in DOMAIN words THEN [word_order EXCEPT ![words[w].slot] = Nil]
  ELSE word_order

(* The word whose slot is taken, or nil. *)
Evicted(w) == ClearOldSlot(w)[order_index]

TrieAfterEviction(w) == IF Evicted(w) = Nil THEN trie ELSE TrieRemove(trie, Evicted(w))

(* The hash table without the evicted word; a reference to a node that     *)
(* pruning took out of the trie is stale from then on.                     *)
WordsAfterEviction(w) ==
  [u \in DOMAIN words \ {Evicted(w)} |->
     [words[u] EXCEPT !.attached = @ /\ Lower(u) \in DOMAIN TrieAfterEviction(w)]]

(* The new entry replaces the old one in the cached node. *)
EntryReplaced(t, w, entry) == [t EXCEPT ![Lower(w)] = LeafRemove(@, w) \cup {entry}]

CountAfter(w) ==
  IF w \notin DOMAIN words
  THEN IF Evicted(w) = Nil THEN word_count + 1 ELSE word_count
  ELSE IF Evicted(w) = Nil THEN word_count ELSE word_count - 1

(* Mutant: the last slot is not used. *)
NextIndexShort == IF order_index + 2 >= Capacity THEN 0 ELSE order_index + 1

NextIndex == IF order_index + 1 >= Capacity THEN 0 ELSE order_index + 1

(* add-word-to-store *)
AddWord(w) ==
  LET entry == Entry(w, seq + 1, order_index)
      t == TrieAfterEviction(w)
      known == w \in DOMAIN words
      attached == IF known THEN WordsAfterEviction(w)[w].attached ELSE TRUE
      cached == [seq |-> seq + 1, slot |-> order_index, attached |-> attached]
      others == WordsAfterEviction(w)
  IN /\ Len(w) >= MinLength
     /\ seq < MaxAdditions
     /\ seq' = seq + 1
     /\ trie' = IF ~known THEN TrieInsert(t, Lower(w), entry)
                ELSE IF attached THEN EntryReplaced(t, w, entry)
                ELSE t
     /\ words' = [u \in DOMAIN others \cup {w} |-> IF u = w THEN cached ELSE others[u]]
     /\ word_order' = [ClearOldSlot(w) EXCEPT ![order_index] = w]
     /\ word_count' = CountAfter(w)
     /\ order_index' = NextIndex

Next == \E w \in Word : AddWord(w)

Spec == Init /\ [][Next]_vars

-----------------------------------------------------------------------------
(* get-completions-from-store *)
Collected(prefix) ==
  UNION {trie[p] : p \in {q \in DOMAIN trie : IsPrefix(Lower(prefix), q)}}

(* Mutant: the oldest come first. *)
OldestFirst(entries) ==
  CHOOSE s \in [1 .. Cardinality(entries) -> entries] :
    \A i, j \in DOMAIN s : i < j => s[i].seq < s[j].seq

(* merge-sort-by-seq-desc: no two entries have the same number.            *)
SortedBySeq(entries) ==
  CHOOSE s \in [1 .. Cardinality(entries) -> entries] :
    \A i, j \in DOMAIN s : i < j => s[i].seq > s[j].seq

(* The code sorts before it parts the entries, which keeps both parts      *)
(* sorted.                                                                 *)
GetCompletions(prefix) ==
  LET entries == Collected(prefix)
      count == Cardinality(entries)
      matched == {e \in entries : IsPrefix(prefix, e.word)}
      result == SortedBySeq(matched) \o SortedBySeq(entries \ matched)
  IN IF prefix = <<>> THEN <<>>
     ELSE [i \in 1 .. (IF count < MaxResults THEN count ELSE MaxResults)
             |-> result[i].word]

-----------------------------------------------------------------------------
TypeOK ==
  /\ DOMAIN words \subseteq Word
  /\ \A w \in DOMAIN words : words[w] \in [seq : Nat, slot : Slot, attached : BOOLEAN]
  /\ word_order \in [Slot -> Word \cup {Nil}]
  /\ order_index \in Slot
  /\ word_count \in Nat
  /\ seq \in Nat
  /\ Root \in DOMAIN trie
  /\ \A p \in DOMAIN trie : trie[p] \subseteq [word : Word, seq : Nat, slot : Slot]

(* Every word of the hash table is in the slot it names, no other slot     *)
(* holds a word, and the count is the number of words: after duplicates    *)
(* whose slot is, or is not, the one about to be taken.                    *)
HashMatchesRing ==
  /\ \A w \in DOMAIN words : word_order[words[w].slot] = w
  /\ \A s \in Slot :
       word_order[s] # Nil => word_order[s] \in DOMAIN words /\ words[word_order[s]].slot = s
  /\ word_count = Cardinality(DOMAIN words)

(* The trie holds one entry per word of the hash table, at the word in     *)
(* lower case and with the same number and slot, and the node that the     *)
(* hash table caches is that node ("allows O(1) leaf updates on            *)
(* duplicates"): evicting one case variant leaves the others reachable.    *)
(* Its nodes are those on the way to a word, so that it does not grow with *)
(* the words that were forgotten.                                          *)
HashMatchesTrie ==
  /\ \A w \in DOMAIN words : words[w].attached
  /\ \A p \in DOMAIN trie :
       trie[p] = {Entry(w, words[w].seq, words[w].slot) :
                    w \in {u \in DOMAIN words : Lower(u) = p}}
  /\ DOMAIN trie = {Root} \cup UNION {Path(Lower(w)) : w \in DOMAIN words}

(* The store implements RecentWords: a word's age is the number of words   *)
(* added after it, whatever duplicates and evictions did to the ring.      *)
Recent == INSTANCE RecentWords WITH age <- [w \in DOMAIN words |-> seq - words[w].seq]

RecentSpec == Recent!Spec

(* What the trie and the sort return for a prefix is what RecentWords      *)
(* promises for it.                                                        *)
CompletionsAgree ==
  \A prefix \in Prefix : GetCompletions(prefix) = Recent!Completions(prefix)
=============================================================================
