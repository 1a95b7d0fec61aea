---------------------------- MODULE RecentWords ----------------------------
(***************************************************************************)
(* What the completion store of src/lisp/init.lisp promises: it remembers  *)
(* the words among the last Capacity additions, and completes a prefix     *)
(* with them, most recent first, those in the prefix's own case before the *)
(* others.  Nothing is said of hash tables, slots or tries.                *)
(*                                                                         *)
(* A word is a sequence of letters.                                        *)
(***************************************************************************)
EXTENDS Naturals, Sequences, FiniteSets, SequencesExt

CONSTANTS
  Word,             (* the words offered to the store                      *)
  Lower(_),         (* string-downcase                                     *)
  Capacity,         (* *completion-word-store-size*                        *)
  MaxResults,       (* *completion-max-results*                            *)
  MinLength         (* shorter words are not stored                        *)

VARIABLE age        (* for every stored word, the additions since its last *)

Init == age = <<>>

Add(w) ==
  /\ Len(w) >= MinLength
  /\ LET kept == {u \in DOMAIN age : u # w /\ age[u] + 1 < Capacity}
     IN age' = [u \in kept \cup {w} |-> IF u = w THEN 0 ELSE age[u] + 1]

Next == \E w \in Word : Add(w)

Spec == Init /\ [][Next]_age

(* The words that start with the prefix, in its own case or in any. *)
Exactly(prefix) == {w \in DOMAIN age : IsPrefix(prefix, w)}
AnyCase(prefix) == {w \in DOMAIN age : IsPrefix(Lower(prefix), Lower(w))}

(* The newest word of a set, then the next, and so on. *)
NewestFirst(S) ==
  CHOOSE s \in [1 .. Cardinality(S) -> S] :
    \A i, j \in DOMAIN s : i < j => age[s[i]] < age[s[j]]

Completions(prefix) ==
  LET all == NewestFirst(Exactly(prefix)) \o
             NewestFirst(AnyCase(prefix) \ Exactly(prefix))
  IN IF prefix = <<>> THEN <<>>
     ELSE SubSeq(all, 1, IF Len(all) < MaxResults THEN Len(all) ELSE MaxResults)
=============================================================================
