----------------------------- MODULE LogFilter -----------------------------
(***************************************************************************)
(* The filter that decides which log messages reach the viewport,          *)
(* src/src/logging.c: the option -L, the Lisp function set-log-filter and  *)
(* mudlark_log.                                                            *)
(*                                                                         *)
(* A specification is its list of parts between commas; a part without a   *)
(* colon has no level.                                                     *)
(***************************************************************************)
EXTENDS Integers, SequencesExt

CONSTANTS
  MaxEntries,   (* MAX_FILTER_ENTRIES, 16 in the code                      *)
  Tags          (* the tags messages have; NoTag is NULL                   *)

ASSUME FilterAssumption == MaxEntries \in Nat /\ Tags \subseteq STRING

(* What is written behind -L, part by part.                                *)
FilterSpec == Seq([tag : STRING, level : STRING])

DEBUG == 0
INFO == 1
WARN == 2
ERROR == 3
AboveAll == ERROR + 1
Levels == DEBUG .. ERROR

NoColon == "no colon"
NoTag == "NULL"
Star == "*"

(* What parse_level makes of a word it does not know. *)
ParseLevel(word) ==
  CASE word = "DEBUG" -> DEBUG [] word = "WARN" -> WARN
    [] word = "ERROR" -> ERROR [] OTHER -> INFO

Off == [active |-> FALSE, entries |-> <<>>, default |-> AboveAll, open |-> TRUE]

(* One turn of the loop of mudlark_log_set_filter.  A part without a colon *)
(* becomes part of the tag of the next one, a tag that no message has, and *)
(* a full table ends the loop.                                             *)
AddPart(filter, part, joined) ==
  IF ~filter.open \/ Len(filter.entries) >= MaxEntries
  THEN [filter EXCEPT !.open = FALSE]
  ELSE IF part.level = NoColon THEN filter
  ELSE IF part.tag = Star /\ ~joined
  THEN [filter EXCEPT !.default = ParseLevel(part.level)]
  ELSE [filter EXCEPT !.entries = Append(@,
          [tag |-> IF joined THEN "joined" ELSE part.tag,
           min |-> ParseLevel(part.level)])]

(* The parts of a specification, one after the other.                      *)
AddParts(empty, spec) ==
  LET after[i \in 0 .. Len(spec)] ==
        IF i = 0 THEN empty
        ELSE AddPart(after[i - 1], spec[i], i > 1 /\ spec[i - 1].level = NoColon)
  IN  after[Len(spec)]

(* Mutant: the default of an earlier filter stays. *)
SetFilterKeepingDefault(old, spec) ==
  IF spec = <<>> THEN Off
  ELSE AddParts([Off EXCEPT !.active = TRUE, !.default = old.default], spec)

(* mudlark_log_set_filter: the filter that was there is forgotten.         *)
SetFilter(old, spec) ==
  IF spec = <<>> THEN Off ELSE AddParts([Off EXCEPT !.active = TRUE], spec)

(* filter_allows: the first entry with the message's tag, or the default.  *)
Allows(filter, level, tag) ==
  LET entry == SelectInSeq(filter.entries, LAMBDA e : e.tag = tag)
  IN  /\ filter.active
      /\ level >= IF tag # NoTag /\ entry # 0 THEN filter.entries[entry].min
                  ELSE filter.default

-----------------------------------------------------------------------------
(* What logging.h says of a specification: a list of pairs tag:LEVEL in    *)
(* which * stands for every tag without a pair of its own (and for no      *)
(* tag); without a specification logging is off.                           *)
AsWritten(spec, level, tag) ==
  LET of(t) == { i \in DOMAIN spec : spec[i].tag = t }
      own == IF tag \in {NoTag, Star} THEN {} ELSE of(tag)
  IN  CASE own # {} -> level >= ParseLevel(spec[Min(own)].level)
        [] own = {} /\ of(Star) # {} -> level >= ParseLevel(spec[Max(of(Star))].level)
        [] OTHER -> FALSE

(* A list of pairs that fits in the table. *)
WellFormed(spec) ==
  /\ \A i \in DOMAIN spec : spec[i].level # NoColon
  /\ Cardinality({ i \in DOMAIN spec : spec[i].tag # Star }) < MaxEntries
=============================================================================
