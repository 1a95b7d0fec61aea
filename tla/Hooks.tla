------------------------------- MODULE Hooks -------------------------------
(***************************************************************************)
(* One hook of a session's table in src/src/lisp_extension.c: add-hook,    *)
(* remove-hook, clear-hook, and the three ways to run it.                  *)
(*                                                                         *)
(* A hook's list is a chain of cons cells, and a run holds a pointer into  *)
(* it while handlers, which are Lisp functions, add and remove handlers or *)
(* run the hook again.  So the cells are modelled: what is copied and what *)
(* is shared decides what a run sees.  A cell also remembers when its      *)
(* handler was added, which the code does not.                             *)
(***************************************************************************)
EXTENDS Naturals, Sequences, SequencesExt

CONSTANTS
  Handler,          (* the symbols of the handlers                         *)
  Priority,         (* the priorities they are added with                  *)
  Text,             (* the texts that are transformed                      *)
  Given,            (* the values a hook is run on and its handlers return *)
  MaxCells,         (* bound: cells allocated                              *)
  MaxDepth,         (* bound: runs inside runs                             *)
  MaxItems          (* bound: items of a list that is transformed          *)

ASSUME PriorityAssumption == Priority \subseteq Nat
ASSUME GivenAssumption ==
  \A value \in Given :
    value \in [list : BOOLEAN, items : Seq(Text)] /\ value.items # <<>>
ASSUME BoundsAssumption == MaxCells \in Nat /\ MaxDepth \in Nat /\ MaxItems \in Nat

VARIABLES
  heap,             (* the cells allocated so far, by address              *)
  hook_list,        (* the list in the table: its first cell, 0 for NIL    *)
  kind,             (* how the program runs this hook: one of Kind         *)
  runs,             (* the runs under way, the innermost last              *)
  registered        (* history: handlers added and not removed             *)

vars == <<heap, hook_list, kind, runs, registered>>

NIL == 0

(* The cells of the list that starts at a cell, in order. *)
Cells(h, start) ==
  LET from[c \in 0 .. Len(h)] == IF c = NIL THEN <<>> ELSE <<c>> \o from[h[c].next]
  IN from[start]

Entries(h, start) == [i \in DOMAIN Cells(h, start) |-> h[Cells(h, start)[i]].entry]
Functions(h, start) == [i \in DOMAIN Cells(h, start) |-> h[Cells(h, start)[i]].entry.fn]

(* run-hook, run-filter-hook, run-transform-hook *)
Kind == {"event", "filter", "transform"}

Init ==
  /\ heap = <<>>
  /\ hook_list = NIL
  /\ kind \in Kind
  /\ runs = <<>>
  /\ registered = {}

-----------------------------------------------------------------------------
(* New cells for some entries, in front of a list that is shared.  What    *)
(* address a cell gets means nothing: here the last one gets the lowest.   *)
Spine(h, entries, rest) ==
  [i \in DOMAIN entries |->
     [entry |-> entries[Len(entries) + 1 - i],
      next  |-> IF i = 1 THEN rest ELSE Len(h) + i - 1]]

(* The table's list becomes the new cells with the shared rest. *)
SetList(entries, rest) ==
  /\ Len(heap) + Len(entries) <= MaxCells
  /\ heap' = heap \o Spine(heap, entries, rest)
  /\ hook_list' = IF entries = <<>> THEN rest ELSE Len(heap) + Len(entries)

(* hooks_has_fn *)
HasFn(fn) == fn \in ToSet(Functions(heap, hook_list))

(* Mutant: before those of the same priority. *)
BeforeEqual(priority) ==
  SelectInSeq(Entries(heap, hook_list), LAMBDA e : priority <= e.priority)

(* The position of the first entry with a greater priority, 0 if none. *)
BeforeGreater(priority) ==
  SelectInSeq(Entries(heap, hook_list), LAMBDA e : priority < e.priority)

(* hooks_insert_sorted: at the head, the old list is shared; anywhere else *)
(* the whole spine is new.                                                 *)
InsertSorted(entry) ==
  LET entries == Entries(heap, hook_list)
      i == BeforeGreater(entry.priority)
  IN IF i = 1 THEN SetList(<<entry>>, hook_list)
     ELSE IF i = 0 THEN SetList(Append(entries, entry), NIL)
     ELSE SetList(InsertAt(entries, i, entry), NIL)

(* add-hook does nothing for a function that is already in the list. *)
AddHook(fn, priority) ==
  /\ IF HasFn(fn) THEN UNCHANGED <<heap, hook_list>>
     ELSE InsertSorted([fn |-> fn, priority |-> priority, added |-> Len(heap)])
  /\ registered' = registered \cup {fn}
  /\ UNCHANGED <<kind, runs>>

(* Mutant: the cell before it is linked past it. *)
RemoveInPlace(fn) ==
  LET cells == Cells(heap, hook_list)
      i == SelectInSeq(Entries(heap, hook_list), LAMBDA e : e.fn = fn)
  IN IF i < 2 THEN hook_list' = (IF i = 0 THEN hook_list ELSE heap[hook_list].next) /\ heap' = heap
     ELSE /\ heap' = [heap EXCEPT ![cells[i - 1]].next = heap[cells[i]].next]
          /\ UNCHANGED hook_list

(* hooks_remove_fn: the cells before the entry are new, those behind it    *)
(* are shared; without the entry, the whole spine is new.                  *)
RemoveFn(fn) ==
  LET cells == Cells(heap, hook_list)
      entries == Entries(heap, hook_list)
      i == SelectInSeq(entries, LAMBDA e : e.fn = fn)
  IN IF i = 0 THEN SetList(entries, NIL)
     ELSE SetList(SubSeq(entries, 1, i - 1), heap[cells[i]].next)

RemoveHook(fn) ==
  /\ hook_list # NIL
  /\ RemoveFn(fn)
  /\ registered' = registered \ {fn}
  /\ UNCHANGED <<kind, runs>>

ClearHook ==
  /\ hook_list' = NIL
  /\ registered' = {}
  /\ UNCHANGED <<heap, kind, runs>>

-----------------------------------------------------------------------------
(* Values: nil, a text, or a list of texts that is not empty. *)
Nothing == [list |-> FALSE, items |-> <<>>]
OneText(t) == [list |-> FALSE, items |-> <<t>>]
ListOf(items) == IF items = <<>> THEN Nothing ELSE [list |-> TRUE, items |-> items]

Returned == Given \cup {Nothing}

Error == [list |-> FALSE, items |-> <<NIL>>]

(* What is still to be mapped of a value: a list goes item by item.        *)
ItemsOf(value) == IF value.list THEN value.items ELSE <<>>

(* run-hook, run-filter-hook, run-transform-hook: the first handler is     *)
(* called.  With an empty list they return at once.  Only transforms are   *)
(* run on lists.                                                           *)
RunHook(value) ==
  /\ Len(runs) < MaxDepth
  /\ kind # "transform" => ~value.list
  /\ hook_list # NIL
  /\ runs' = Append(runs,
       [at |-> hook_list, value |-> value, consumed |-> FALSE,
        elems |-> ItemsOf(value), results |-> <<>>,
        left |-> Functions(heap, hook_list), given |-> value, kept |-> TRUE])
  /\ UNCHANGED <<heap, hook_list, kind, registered>>

Top == Last(runs)

(* The handler's next cell, when it is done with the value; the run ends   *)
(* behind the last.                                                        *)
Advance(run) ==
  LET next == heap[run.at].next
  IN runs' = IF next = NIL THEN Front(runs)
             ELSE Append(Front(runs),
                    [run EXCEPT !.at = next, !.left = Tail(@), !.results = <<>>,
                                !.elems = ItemsOf(run.value)])

EventReturns ==
  /\ runs # <<>> /\ kind = "event"
  /\ Advance(Top)
  /\ UNCHANGED <<heap, hook_list, kind, registered>>

(* Every handler gets the value itself; nil from one of them consumes it,  *)
(* an error does not.                                                      *)
FilterReturns(outcome) ==
  /\ runs # <<>> /\ kind = "filter"
  /\ Advance([Top EXCEPT !.consumed = @ \/ outcome = Nothing])
  /\ UNCHANGED <<heap, hook_list, kind, registered>>

(* A handler that keeps the texts it is given, or fails. *)
Keeps(outcome, items) == outcome = Error \/ outcome.items = items

ScalarReturns(outcome) ==
  /\ runs # <<>> /\ kind = "transform" /\ ~Top.value.list
  /\ Advance([Top EXCEPT !.value = IF outcome = Error THEN @ ELSE outcome,
                         !.kept = @ /\ Keeps(outcome, Top.value.items)])
  /\ UNCHANGED <<heap, hook_list, kind, registered>>

(* Mutant: the item of a handler that fails is dropped. *)
MappedOrDropped(item, outcome) == IF outcome = Error THEN <<>> ELSE outcome.items

(* What takes an item's place: nothing for nil, the items of a list, or    *)
(* the item itself after an error.                                         *)
Mapped(item, outcome) == IF outcome = Error THEN <<item>> ELSE outcome.items

ListReturns(outcome) ==
  /\ runs # <<>> /\ kind = "transform" /\ Top.value.list
  /\ LET item == Head(Top.elems)
         results == Top.results \o Mapped(item, outcome)
         kept == Top.kept /\ Keeps(outcome, <<item>>)
     IN /\ Len(results) <= MaxItems
        /\ IF Len(Top.elems) > 1
           THEN runs' = Append(Front(runs),
                  [Top EXCEPT !.elems = Tail(@), !.results = results, !.kept = kept])
           ELSE Advance([Top EXCEPT !.value = ListOf(results), !.kept = kept])
  /\ UNCHANGED <<heap, hook_list, kind, registered>>

HandlerReturns ==
  \/ EventReturns
  \/ \E outcome \in Returned \cup {Error} :
       FilterReturns(outcome) \/ ScalarReturns(outcome) \/ ListReturns(outcome)

Next ==
  \/ \E fn \in Handler, priority \in Priority : AddHook(fn, priority)
  \/ \E fn \in Handler : RemoveHook(fn)
  \/ ClearHook
  \/ \E value \in Given : RunHook(value)
  \/ HandlerReturns

Spec == Init /\ [][Next]_vars

-----------------------------------------------------------------------------
Entry == [fn : Handler, priority : Priority, added : Nat]

Value == [list : BOOLEAN, items : Seq(Text \cup {NIL})]

Run == [at : Nat, value : Value, consumed : BOOLEAN, elems : Seq(Text \cup {NIL}),
        results : Seq(Text \cup {NIL}), left : Seq(Handler), given : Value, kept : BOOLEAN]

TypeOK ==
  /\ heap \in Seq([entry : Entry, next : Nat])
  /\ \A c \in DOMAIN heap : heap[c].next \in 0 .. Len(heap)
  /\ hook_list \in 0 .. Len(heap)
  /\ registered \subseteq Handler
  /\ kind \in Kind
  /\ runs \in Seq(Run)
  /\ \A i \in DOMAIN runs : runs[i].at \in DOMAIN heap

(* The list holds exactly the handlers that were added and not removed,    *)
(* each once: neither the shared tail nor the copied front loses one.      *)
HoldsRegistered ==
  /\ ToSet(Functions(heap, hook_list)) = registered
  /\ \A i, j \in DOMAIN Functions(heap, hook_list) :
       Functions(heap, hook_list)[i] = Functions(heap, hook_list)[j] => i = j

(* Handlers are called in the order of their priorities, and those of one  *)
(* priority in the order they were added ("sorted list of (fn . priority)  *)
(* cons cells").                                                           *)
SortedByPriority ==
  LET entries == Entries(heap, hook_list)
  IN \A i, j \in DOMAIN entries :
       i < j => \/ entries[i].priority < entries[j].priority
                \/ /\ entries[i].priority = entries[j].priority
                   /\ entries[i].added < entries[j].added

(* add-hook and remove-hook keep the table's list: what is registered, in  *)
(* the order it is to be called.                                           *)
ListIsRegistered == HoldsRegistered /\ SortedByPriority

(* A run calls the handlers that were in the list when it began, in that   *)
(* order, whatever they add, remove, clear or run meanwhile: no handler is *)
(* skipped, called twice or called although it was added later.            *)
RunsWhatItFound ==
  \A i \in DOMAIN runs : Functions(heap, runs[i].at) = runs[i].left

(* A transform loses, doubles and reorders nothing by itself: while every  *)
(* handler has failed or given back the text it was called with, the texts *)
(* of the value are those it began with ("On error, keep original          *)
(* element", "On error, keep previous value").                             *)
TransformKeeps ==
  \A i \in DOMAIN runs :
    runs[i].kept =>
      IF runs[i].value.list THEN runs[i].results \o runs[i].elems = runs[i].given.items
      ELSE runs[i].value.items = runs[i].given.items
=============================================================================
