--------------------------- MODULE TabCompletion ---------------------------
(***************************************************************************)
(* The Tab key: src/src/main.c asks Lisp for the completions of the word   *)
(* at the cursor, borrows the array that lisp_x_complete_prefix fills, and *)
(* goes through it on further Tabs.  Between them the server's text goes   *)
(* on adding words to the store, other keys change the line, and one read  *)
(* of the terminal may hold several keys.                                  *)
(*                                                                         *)
(* The line is the word at the cursor and the place where it starts; a     *)
(* block of memory is named by its capacity, as realloc() only makes it    *)
(* larger.                                                                 *)
(***************************************************************************)
EXTENDS WordStore, Integers

CONSTANTS
  Edited,        (* what editing can leave at the cursor: a word and the   *)
                 (* place where it starts                                  *)
  MaxKeys,       (* bound: keys in one read of the terminal                *)
  FirstCapacity, (* 16 in the code                                         *)
  Heights, MaxLines

ASSUME EditedAssumption == Edited \subseteq [start : Nat, word : Prefix]
ASSUME MaxKeysAssumption == MaxKeys \in Nat
ASSUME FirstCapacityAssumption == FirstCapacity \in Nat \ {0}
ASSUME HeightsAssumption == Heights \subseteq Nat \ {0}
ASSUME LinesAssumption == MaxLines \in Nat \ {0}

VARIABLES
  g_tab_completions,     (* the borrowed block, Null if there is none      *)
  g_tab_count, g_tab_index, g_tab_word_start, g_tab_processed,
  completion_arena,      (* the strings that the block points to           *)
  completion_ptrs_cap,   (* the block of pointers that exists              *)
  line,                  (* boba's text input: the word at the cursor      *)
  keys,                  (* keys of the current read handled, 0 between    *)
  overtyped,             (* history: the candidate was edited in the read  *)
                         (* that inserted it                               *)
  focused_widget, terminal_height, content_lines,
  top_border_row, textinput_row, bottom_border_row, viewport_h

cycle   == <<g_tab_completions, g_tab_count, g_tab_index, g_tab_word_start>>
storage == <<completion_arena, completion_ptrs_cap>>
app     == <<focused_widget, terminal_height, content_lines,
             top_border_row, textinput_row, bottom_border_row, viewport_h>>
tab     == <<cycle, g_tab_processed, storage, line, keys, overtyped>>
tvars   == <<vars, tab, app>>

View == INSTANCE App

Null == 0
NoStart == -1
EmptyLine == [start |-> 0, word |-> <<>>]

TabInit ==
  /\ Init
  /\ View!Init
  /\ g_tab_completions = Null
  /\ g_tab_count = 0
  /\ g_tab_index = 0
  /\ g_tab_word_start = NoStart
  /\ g_tab_processed = FALSE
  /\ completion_arena = <<>>
  /\ completion_ptrs_cap = 0
  /\ line = EmptyLine
  /\ keys = 0
  /\ overtyped = FALSE

-----------------------------------------------------------------------------
(* free_tab_completions: the array is borrowed, so only the reference is   *)
(* dropped.                                                                *)
FreeTabCompletions ==
  /\ g_tab_completions' = Null
  /\ g_tab_count' = 0
  /\ g_tab_index' = 0
  /\ g_tab_word_start' = NoStart

(* Mutant: the pointers are written past the end of the block. *)
NotGrown(cap, needed) == IF cap = 0 THEN FirstCapacity ELSE cap

(* The capacity that holds so many pointers: doubled until they fit.       *)
Grown(cap, needed) ==
  LET first == IF cap = 0 THEN FirstCapacity ELSE 2 * cap
      doubled[i \in 0 .. needed] == IF i = 0 THEN first ELSE 2 * doubled[i - 1]
      enough == {i \in 0 .. needed : doubled[i] >= needed}
  IN IF cap >= needed THEN cap
     ELSE doubled[CHOOSE i \in enough : \A j \in enough : i <= j]

(* lisp_x_complete_prefix returns NULL: the hook fails or has nothing, or  *)
(* memory runs out, before or after the storage of the last call was taken *)
(* over.                                                                   *)
FetchFails(prefix) ==
  /\ \/ UNCHANGED storage
     \/ /\ GetCompletions(prefix) # <<>>
        /\ completion_ptrs_cap' = Grown(completion_ptrs_cap, Len(GetCompletions(prefix)) + 1)
        /\ \E n \in 0 .. Len(GetCompletions(prefix)) - 1 :
             completion_arena' = SubSeq(GetCompletions(prefix), 1, n)

(* It packs the candidates into the storage that the last call returned.   *)
FetchFills(prefix) ==
  /\ GetCompletions(prefix) # <<>>
  /\ completion_ptrs_cap' = Grown(completion_ptrs_cap, Len(GetCompletions(prefix)) + 1)
  /\ completion_arena' = GetCompletions(prefix)

InsertCompletion(word) == line' = [line EXCEPT !.word = word]

(* Mutant: a live cycle is gone on with, wherever the cursor is. *)
CycleAnywhere == g_tab_completions # Null

(* Tab goes on with the candidates fetched at the same place. *)
Cycling == g_tab_completions # Null /\ g_tab_word_start = line.start

NextCandidate == (g_tab_index + 1) % g_tab_count

TabCycles ==
  /\ Cycling
  /\ g_tab_index' = NextCandidate
  /\ InsertCompletion(completion_arena[NextCandidate + 1])
  /\ UNCHANGED <<g_tab_completions, g_tab_count, g_tab_word_start, storage>>

ForgetCycle == FreeTabCompletions

TabFetches ==
  /\ ~Cycling
  /\ \/ /\ FetchFails(line.word)
        /\ ForgetCycle
        /\ UNCHANGED line
     \/ /\ FetchFills(line.word)
        /\ g_tab_completions' = completion_ptrs_cap'
        /\ g_tab_count' = Len(completion_arena')
        /\ g_tab_index' = 0
        /\ g_tab_word_start' = line.start
        /\ InsertCompletion(Head(completion_arena'))

(* TUI_CMD_TAB_COMPLETE: the text input has the focus. *)
TabKey ==
  /\ focused_widget = 0
  /\ g_tab_processed' = TRUE
  /\ TabCycles \/ TabFetches
  /\ overtyped' = FALSE
  /\ View!KeyToInput(content_lines)

(* Any other key that the text input takes: it edits the word or moves to  *)
(* another one, and main.c does not hear of it.                            *)
EditKey ==
  /\ line' \in Edited
  /\ \E n \in 1 .. MaxLines : View!KeyToInput(n)
  /\ overtyped' = (overtyped \/ g_tab_processed)
  /\ UNCHANGED <<cycle, g_tab_processed, storage>>

(* Return: TUI_CMD_LINE_SUBMIT. *)
SubmitKey ==
  /\ line' = EmptyLine
  /\ View!KeyToInput(1)
  /\ FreeTabCompletions
  /\ overtyped' = FALSE
  /\ UNCHANGED <<g_tab_processed, storage>>

(* Shift-Tab, and the keys that do not reach the text input. *)
OtherKey ==
  /\ View!ToggleFocus \/ View!KeyElsewhere
  /\ UNCHANGED <<cycle, g_tab_processed, storage, line, overtyped>>

(* The next key of a read. *)
Key ==
  /\ keys < MaxKeys
  /\ keys' = keys + 1
  /\ TabKey \/ EditKey \/ SubmitKey \/ OtherKey
  /\ UNCHANGED vars

EndCycle == IF g_tab_processed THEN UNCHANGED cycle ELSE FreeTabCompletions

(* on_stdin_processed, at the end of a read. *)
StdinProcessed ==
  /\ keys > 0
  /\ keys' = 0
  /\ EndCycle
  /\ g_tab_processed' = FALSE
  /\ UNCHANGED <<vars, app, storage, line, overtyped>>

(* The other events: text that adds a word, and a new window size. *)
ServerText == keys = 0 /\ Next /\ UNCHANGED <<tab, app>>

Resize ==
  /\ keys = 0
  /\ \E h \in Heights : View!WindowSize(h)
  /\ UNCHANGED <<vars, tab>>

TabNext == Key \/ StdinProcessed \/ ServerText \/ Resize

TabSpec == TabInit /\ [][TabNext]_tvars

-----------------------------------------------------------------------------
(* A borrowed array is the one that exists, it holds as many candidates as *)
(* main.c counted, its terminator has room, and the index is one of them:  *)
(* whatever the fetches in between did to the storage ("valid only until   *)
(* the next call").                                                        *)
BorrowIsCurrent ==
  g_tab_completions # Null =>
    /\ g_tab_completions = completion_ptrs_cap
    /\ g_tab_count = Len(completion_arena)
    /\ g_tab_count + 1 <= completion_ptrs_cap
    /\ g_tab_index \in 0 .. g_tab_count - 1

(* Between two reads of the terminal a live cycle is the one that the user *)
(* sees: the word at the cursor is its current candidate, at its place, so *)
(* that the next Tab replaces that candidate by its successor and nothing  *)
(* that was typed.  (A key behind a Tab in the same read is not noticed:   *)
(* such a word is replaced by the next Tab.)                               *)
CycleIsShown ==
  keys = 0 /\ g_tab_completions # Null /\ ~overtyped =>
    line = [start |-> g_tab_word_start, word |-> completion_arena[g_tab_index + 1]]

(* The rows of the layout are those of App, for the input as it is now.    *)
LayoutFits == View!LayoutFits

(* The hash table, the ring and the trie of the store have their types and *)
(* agree (see WordStore).                                                  *)
StructuresAgree == TypeOK /\ HashMatchesRing /\ HashMatchesTrie
=============================================================================
