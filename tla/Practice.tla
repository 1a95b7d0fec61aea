------------------------------ MODULE Practice ------------------------------
(***************************************************************************)
(* Practice mode, src/lisp/contrib/practice.lisp: a command is repeated    *)
(* while it fails; without mana the character sleeps, a timer asks for the *)
(* prompt, and the practice goes on when the prompt shows full mana.       *)
(*                                                                         *)
(* The module is the script with what surrounds it: the user's /p, the     *)
(* timers of the event loop (a timer in the list may fire at any time),    *)
(* the sends on their way, and a game that answers each line.  A text of   *)
(* the game is what the script's patterns find in it.                      *)
(***************************************************************************)
EXTENDS Naturals, Sequences

CONSTANTS
  MaxCommands,   (* bound: commands that alternate                         *)
  MaxSends,      (* bound: lines on their way when one more is added       *)
  MaxTimers      (* bound: timers in the list                              *)

ASSUME MaxCommandsAssumption == MaxCommands \in Nat \ {0}
ASSUME MaxSendsAssumption == MaxSends \in Nat
ASSUME MaxTimersAssumption == MaxTimers \in Nat \ {0}

Mana == {"low", "some", "full"}     (* under the threshold, up to 99, 100  *)
Pattern == {"none", "retry", "no mana", "hunger"}

VARIABLES
  practice_mode,
  practice_command,       (* how many commands alternate, 0 without one    *)
  practice_command_index,
  practice_sleep_mode,
  practice_sleep_timer,   (* the timer, Nil if there is none               *)
  timer_list,             (* the practice's timers in *timer-list*         *)
  sends,                  (* lines queued and not yet with the game        *)
  heard,                  (* the text that is read next                    *)
  asleep, mana,           (* the game's character                          *)
  gone                    (* the game has ended the connection             *)

practice == <<practice_mode, practice_command, practice_command_index,
              practice_sleep_mode, practice_sleep_timer, timer_list>>
game == <<asleep, mana, gone>>
vars == <<practice, sends, heard, game>>

Nil == 0
Silence == [mana |-> "none", pattern |-> "none"]
Command == 0 .. MaxCommands - 1
Line == {"sleep", "stand", "quit", "empty", "command"}

Init ==
  /\ practice_mode = FALSE
  /\ practice_command = 0
  /\ practice_command_index = 0
  /\ practice_sleep_mode = FALSE
  /\ practice_sleep_timer = Nil
  /\ timer_list = {}
  /\ sends = <<>>
  /\ heard = Silence
  /\ asleep = FALSE
  /\ mana = "full"
  /\ gone = FALSE

-----------------------------------------------------------------------------
Advanced(index, count) == (index + 1) % count

(* The bound on lines: the user and the timer wait until some have gone.  *)
Room == Len(sends) < MaxSends

(* practice-start *)
PracticeStart(count) ==
  /\ ~practice_mode /\ Room
  /\ practice_mode' = TRUE
  /\ practice_command' = count
  /\ practice_command_index' = Advanced(0, count)
  /\ practice_sleep_mode' = FALSE
  /\ practice_sleep_timer' = Nil
  /\ sends' = sends \o <<"command">>
  /\ UNCHANGED <<timer_list, heard, game>>

(* Mutant: the timer is forgotten, not cancelled. *)
Forgotten(list, timer) == list

(* cancel-timer *)
Cancelled(list, timer) == list \ {timer}

(* practice-stop *)
Stop ==
  /\ practice_mode' = FALSE
  /\ practice_command' = 0
  /\ practice_command_index' = 0
  /\ practice_sleep_mode' = FALSE
  /\ practice_sleep_timer' = Nil
  /\ timer_list' = Cancelled(timer_list, practice_sleep_timer)

PracticeStop ==
  /\ practice_mode
  /\ Stop
  /\ UNCHANGED <<sends, heard, game>>

(* A timer that is not in the list, for run-at-time. *)
NewTimer == CHOOSE t \in 1 .. MaxTimers + 1 : t \notin timer_list

(* practice-enter-sleep *)
EnterSleep ==
  /\ practice_sleep_mode' = TRUE
  /\ practice_sleep_timer' = NewTimer
  /\ timer_list' = timer_list \cup {NewTimer}
  /\ sends' = sends \o <<"sleep">>
  /\ UNCHANGED <<practice_mode, practice_command, practice_command_index>>

(* practice-exit-sleep *)
ExitSleep ==
  /\ practice_sleep_mode' = FALSE
  /\ practice_sleep_timer' = Nil
  /\ timer_list' = Cancelled(timer_list, practice_sleep_timer)
  /\ sends' = sends \o <<"stand", "command">>
  /\ practice_command_index' = Advanced(practice_command_index, practice_command)
  /\ UNCHANGED <<practice_mode, practice_command>>

Retry ==
  /\ sends' = sends \o <<"command">>
  /\ practice_command_index' = Advanced(practice_command_index, practice_command)
  /\ UNCHANGED <<practice_mode, practice_command, practice_sleep_mode,
                 practice_sleep_timer, timer_list>>

(* practice-quit-on-hunger-thirst *)
QuitOnHunger == Stop /\ sends' = sends \o <<"quit">>

(* Mutant: more than all of the mana. *)
AboveFull(text) == text.mana \notin Mana \cup {"none"}

Restored(text) == text.mana = "full"

(* practice-telnet-hook: the first clause that applies to the text.        *)
PracticeTelnetHook ==
  /\ heard # Silence
  /\ heard' = Silence
  /\ LET hungry == heard.pattern = "hunger"
         spent  == heard.pattern = "no mana" \/ heard.mana = "low"
         awake  == practice_mode /\ ~practice_sleep_mode
     IN  CASE practice_mode /\ hungry                              -> QuitOnHunger
           [] awake /\ ~hungry /\ spent                            -> EnterSleep
           [] awake /\ ~hungry /\ ~spent /\ heard.pattern = "retry" -> Retry
           [] practice_sleep_mode /\ ~hungry /\ Restored(heard)    -> ExitSleep
           [] OTHER                          -> UNCHANGED <<practice, sends>>
  /\ UNCHANGED game

(* practice-send-empty, called by the timer. *)
PracticeSendEmpty ==
  /\ timer_list # {} /\ Room
  /\ sends' = IF practice_mode /\ practice_sleep_mode THEN sends \o <<"empty">>
              ELSE sends
  /\ UNCHANGED <<practice, heard, game>>

-----------------------------------------------------------------------------
AtMost(m) ==
  CASE m = "low" -> {"low"} [] m = "some" -> {"low", "some"} [] OTHER -> Mana

(* The game answers a line.  Only a command that a character who is awake  *)
(* gives takes mana or fails; a text may end before its prompt.            *)
Answer ==
  /\ sends # <<>> /\ heard = Silence
  /\ sends' = Tail(sends)
  /\ LET line == Head(sends)
         cast == line = "command" /\ ~asleep
     IN  /\ gone' = (gone \/ line = "quit")
         /\ asleep' = CASE line = "sleep" -> TRUE [] line = "stand" -> FALSE
                        [] OTHER -> asleep
         /\ mana' \in IF cast /\ ~gone THEN AtMost(mana) ELSE {mana}
         /\ heard' \in
              IF gone' THEN {Silence}
              ELSE [mana : {mana'} \cup (IF cast THEN {"none"} ELSE {}),
                    pattern : IF cast THEN Pattern \ {"hunger"} ELSE {"none"}]
  /\ UNCHANGED practice

(* "Your hunger gnaws at you" needs no line. *)
Hunger ==
  /\ heard = Silence /\ ~gone
  /\ heard' = [mana |-> "none", pattern |-> "hunger"]
  /\ UNCHANGED <<practice, sends, game>>

(* Sleep takes longer than the lines on their way, the empty ones aside.   *)
Rest ==
  /\ asleep /\ mana # "full"
  /\ \A i \in DOMAIN sends : sends[i] = "empty"
  /\ mana' = IF mana = "low" THEN "some" ELSE "full"
  /\ UNCHANGED <<practice, sends, heard, asleep, gone>>

Next ==
  \/ \E count \in 1 .. MaxCommands : PracticeStart(count)
  \/ PracticeStop \/ PracticeTelnetHook \/ PracticeSendEmpty
  \/ Answer \/ Hunger \/ Rest

(* Fairness: the event loop runs due timers and reads what has come, and   *)
(* the game answers lines and in time restores the mana of a character who *)
(* sleeps, however often lines come in between.                            *)
Fairness ==
  /\ WF_vars(PracticeTelnetHook) /\ WF_vars(PracticeSendEmpty)
  /\ WF_vars(Answer) /\ SF_vars(Rest)

Spec == Init /\ [][Next]_vars /\ Fairness

-----------------------------------------------------------------------------
TypeOK ==
  /\ practice_mode \in BOOLEAN /\ practice_sleep_mode \in BOOLEAN
  /\ practice_command \in 0 .. MaxCommands
  /\ practice_command_index \in Command
  /\ practice_sleep_timer \in 0 .. MaxTimers + 1
  /\ timer_list \subseteq 1 .. MaxTimers + 1
  /\ sends \in Seq(Line)
  /\ heard \in [mana : Mana \cup {"none"}, pattern : Pattern]
  /\ asleep \in BOOLEAN /\ mana \in Mana /\ gone \in BOOLEAN

(* The timer exists exactly while the practice sleeps, and there is one:   *)
(* waking, stopping and quitting in any order leave none that would go on  *)
(* sending, and a second sleep does not start a second one.                *)
TimerWhileAsleep ==
  timer_list = IF practice_mode /\ practice_sleep_mode
               THEN {practice_sleep_timer} ELSE {}

(* A practice that sleeps goes on or stops; it does not sleep for ever     *)
(* while the game answers.                                                 *)
WakesOrStops == practice_sleep_mode ~> (~practice_sleep_mode \/ gone)
=============================================================================
