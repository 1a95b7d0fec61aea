--------------------------- MODULE PracticeProofs ---------------------------
(***************************************************************************)
(* The timer of practice mode, for every number of commands and timers.    *)
(***************************************************************************)
EXTENDS Practice, TLAPS

USE MaxCommandsAssumption, MaxSendsAssumption, MaxTimersAssumption

(* What is inductive about the modes: the practice sleeps only while it is *)
(* on, it has commands then, and awake it holds no timer.                  *)
ModesAgree ==
  /\ practice_sleep_mode => practice_mode
  /\ practice_mode => practice_command \in 1 .. MaxCommands
  /\ practice_sleep_mode => practice_sleep_timer # Nil
  /\ ~practice_sleep_mode => practice_sleep_timer = Nil

IInv == TypeOK /\ ModesAgree /\ TimerWhileAsleep

(* practice--advance stays within the commands.                            *)
LEMMA AdvancedType ==
  ASSUME NEW index \in Nat, NEW count \in 1 .. MaxCommands
  PROVE  Advanced(index, count) \in Command
  <1>1. Advanced(index, count) \in 0 .. count - 1
    BY DEF Advanced
  <1>. QED BY <1>1 DEF Command

(* A timer made while none is listed is one that can be told from Nil.     *)
LEMMA NewTimerType == timer_list = {} => NewTimer \in 1 .. MaxTimers + 1
  <1> SUFFICES ASSUME timer_list = {} PROVE NewTimer \in 1 .. MaxTimers + 1
    OBVIOUS
  <1>1. 1 \in 1 .. MaxTimers + 1 /\ 1 \notin timer_list
    OBVIOUS
  <1>2. \E t \in 1 .. MaxTimers + 1 : t \notin timer_list
    BY <1>1
  <1>. QED BY <1>2 DEF NewTimer

(* The clause that practice-telnet-hook takes, each under its condition.   *)
LEMMA HookClauses ==
  ASSUME PracticeTelnetHook
  PROVE  \/ practice_mode /\ QuitOnHunger
         \/ practice_mode /\ ~practice_sleep_mode /\ EnterSleep
         \/ practice_mode /\ ~practice_sleep_mode /\ Retry
         \/ practice_sleep_mode /\ ExitSleep
         \/ UNCHANGED <<practice, sends>>
  BY DEF PracticeTelnetHook

(* Every operation of the script keeps the types of what it changes, and   *)
(* a new practice, a stop, a sleep and a wake-up each leave the timer list *)
(* as it belongs to their mode.                                            *)
LEMMA StepPractice ==
  ASSUME IInv, PracticeTelnetHook \/ PracticeStop \/ PracticeSendEmpty
                 \/ \E count \in 1 .. MaxCommands : PracticeStart(count)
  PROVE  IInv'
  <1>0. /\ practice_mode \in BOOLEAN /\ practice_sleep_mode \in BOOLEAN
        /\ practice_command \in 0 .. MaxCommands /\ practice_command_index \in Command
        /\ practice_command_index \in Nat
        /\ practice_sleep_timer \in 0 .. MaxTimers + 1
        /\ timer_list \subseteq 1 .. MaxTimers + 1 /\ sends \in Seq(Line)
        /\ heard \in [mana : Mana \cup {"none"}, pattern : Pattern]
        /\ asleep \in BOOLEAN /\ mana \in Mana /\ gone \in BOOLEAN
    BY DEF IInv, TypeOK, Command
  <1>1. 0 \in Command
    BY DEF Command
  <1>2. /\ sends \o <<"command">> \in Seq(Line) /\ sends \o <<"sleep">> \in Seq(Line)
        /\ sends \o <<"quit">> \in Seq(Line) /\ sends \o <<"empty">> \in Seq(Line)
        /\ sends \o <<"stand", "command">> \in Seq(Line)
    BY <1>0 DEF Line
  <1>3. Silence \in [mana : Mana \cup {"none"}, pattern : Pattern]
    BY DEF Silence, Pattern
  <1>4. ASSUME NEW count \in 1 .. MaxCommands, PracticeStart(count) PROVE IInv'
    <2>1. Advanced(0, count) \in Command
      BY AdvancedType
    <2>2. timer_list' = {}
      BY <1>4 DEF PracticeStart, IInv, TimerWhileAsleep
    <2>3. practice_sleep_timer' \in 0 .. MaxTimers + 1
      BY <1>4 DEF PracticeStart, Nil
    <2>4. ModesAgree' /\ TimerWhileAsleep'
      BY <1>4, <2>2 DEF PracticeStart, ModesAgree, TimerWhileAsleep
    <2>5. practice_command' \in 0 .. MaxCommands /\ sends' \in Seq(Line)
      BY <1>2, <1>4 DEF PracticeStart
    <2>. QED
      BY <1>0, <1>4, <2>1, <2>2, <2>3, <2>4, <2>5 DEF IInv, PracticeStart, TypeOK, game
  <1>5. ASSUME Stop
        PROVE  /\ practice_mode' \in BOOLEAN /\ practice_sleep_mode' \in BOOLEAN
               /\ practice_command' \in 0 .. MaxCommands
               /\ practice_command_index' \in Command
               /\ practice_sleep_timer' \in 0 .. MaxTimers + 1
               /\ timer_list' \subseteq 1 .. MaxTimers + 1
               /\ ModesAgree' /\ TimerWhileAsleep'
    <2>1. timer_list' = {}
      BY <1>5 DEF Stop, Cancelled, IInv, ModesAgree, TimerWhileAsleep
    <2>2. ModesAgree' /\ TimerWhileAsleep'
      BY <1>5, <2>1 DEF Stop, ModesAgree, TimerWhileAsleep
    <2>3. 0 \in 0 .. MaxCommands /\ Nil \in 0 .. MaxTimers + 1
      BY DEF Nil
    <2>. QED BY <1>1, <1>5, <2>1, <2>2, <2>3 DEF Stop
  <1>6. CASE PracticeStop
    BY <1>0, <1>5, <1>6 DEF PracticeStop, IInv, TypeOK, game
  <1>7. CASE PracticeSendEmpty
    BY <1>0, <1>2, <1>7 DEF PracticeSendEmpty, practice, game, IInv, TypeOK,
       ModesAgree, TimerWhileAsleep
  <1>8. CASE PracticeTelnetHook
    <2>0. /\ heard' \in [mana : Mana \cup {"none"}, pattern : Pattern]
          /\ asleep' \in BOOLEAN /\ mana' \in Mana /\ gone' \in BOOLEAN
      BY <1>0, <1>3, <1>8 DEF PracticeTelnetHook, game
    <2>1. CASE QuitOnHunger
      BY <1>0, <1>2, <1>5, <2>0, <2>1 DEF QuitOnHunger, IInv, TypeOK
    <2>2. CASE practice_mode /\ ~practice_sleep_mode /\ EnterSleep
      <3>1. timer_list = {} /\ NewTimer \in 1 .. MaxTimers + 1
        BY <2>2, NewTimerType DEF IInv, TimerWhileAsleep
      <3>. QED
        BY <1>0, <1>2, <2>0, <2>2, <3>1 DEF EnterSleep, IInv, TypeOK, ModesAgree,
           TimerWhileAsleep, Nil
    <2>3. CASE practice_mode /\ ~practice_sleep_mode /\ Retry
      <3>1. practice_command_index' \in Command
        BY <1>0, <2>3, AdvancedType DEF Retry, IInv, ModesAgree
      <3>. QED
        BY <1>0, <1>2, <2>0, <2>3, <3>1 DEF Retry, IInv, TypeOK, ModesAgree,
           TimerWhileAsleep
    <2>4. CASE practice_sleep_mode /\ ExitSleep
      <3>1. practice_command_index' \in Command
        BY <1>0, <2>4, AdvancedType DEF ExitSleep, IInv, ModesAgree
      <3>2. timer_list' = {}
        BY <2>4 DEF ExitSleep, Cancelled, IInv, ModesAgree, TimerWhileAsleep
      <3>3. ModesAgree' /\ TimerWhileAsleep'
        BY <2>4, <3>2 DEF ExitSleep, IInv, ModesAgree, TimerWhileAsleep
      <3>4. practice_sleep_timer' \in 0 .. MaxTimers + 1
        BY <2>4 DEF ExitSleep, Nil
      <3>. QED
        BY <1>0, <1>2, <2>0, <2>4, <3>1, <3>2, <3>3, <3>4 DEF ExitSleep, IInv, TypeOK
    <2>5. CASE UNCHANGED <<practice, sends>>
      BY <1>0, <2>0, <2>5 DEF practice, IInv, TypeOK, ModesAgree, TimerWhileAsleep
    <2>. QED BY <1>8, <2>1, <2>2, <2>3, <2>4, <2>5, HookClauses
  <1>. QED BY <1>4, <1>6, <1>7, <1>8

(* The game changes nothing of the practice, and stays within its types.   *)
LEMMA StepGame == IInv /\ (Answer \/ Hunger \/ Rest \/ UNCHANGED vars) => IInv'
  <1> SUFFICES ASSUME IInv, Answer \/ Hunger \/ Rest \/ UNCHANGED vars PROVE IInv'
    OBVIOUS
  <1>0. UNCHANGED practice
    BY DEF Answer, Hunger, Rest, vars
  <1>1. /\ sends \in Seq(Line)
        /\ heard \in [mana : Mana \cup {"none"}, pattern : Pattern]
        /\ asleep \in BOOLEAN /\ mana \in Mana /\ gone \in BOOLEAN
    BY DEF IInv, TypeOK
  <1>2. /\ sends' \in Seq(Line) /\ asleep' \in BOOLEAN /\ mana' \in Mana
        /\ gone' \in BOOLEAN
        /\ heard' \in [mana : Mana \cup {"none"}, pattern : Pattern]
    <2>1. CASE Answer
      <3>1. sends' \in Seq(Line)
        BY <1>1, <2>1 DEF Answer
      <3>2. gone' \in BOOLEAN
        BY <1>1, <2>1 DEF Answer
      <3>3. asleep' \in BOOLEAN
        BY <1>1, <2>1 DEF Answer
      <3>4. mana' \in Mana
        <4>1. AtMost(mana) \subseteq Mana
          BY <1>1 DEF AtMost, Mana
        <4>. QED BY <1>1, <2>1, <4>1 DEF Answer
      <3>5. heard' \in [mana : Mana \cup {"none"}, pattern : Pattern]
        <4>1. Silence \in [mana : Mana \cup {"none"}, pattern : Pattern]
          BY DEF Silence, Pattern
        <4>2. "none" \in Pattern
          BY DEF Pattern
        <4>3. /\ \A c \in BOOLEAN :
                   [mana : {mana'} \cup (IF c THEN {"none"} ELSE {}),
                    pattern : IF c THEN Pattern \ {"hunger"} ELSE {"none"}]
                   \subseteq [mana : Mana \cup {"none"}, pattern : Pattern]
          BY <3>4, <4>2
        <4>. QED BY <2>1, <4>1, <4>3 DEF Answer
      <3>. QED BY <3>1, <3>2, <3>3, <3>4, <3>5
    <2>2. CASE Hunger
      BY <1>1, <2>2 DEF Hunger, game, Pattern
    <2>3. CASE Rest
      BY <1>1, <2>3 DEF Rest, Mana
    <2>4. CASE UNCHANGED vars
      BY <1>1, <2>4 DEF vars, game
    <2>. QED BY <2>1, <2>2, <2>3, <2>4
  <1>. QED BY <1>0, <1>2 DEF practice, IInv, TypeOK, ModesAgree, TimerWhileAsleep

(* The inductive invariant holds throughout.                               *)
LEMMA SpecIInv == Spec => []IInv
  <1>1. Init => IInv
    <2> SUFFICES ASSUME Init PROVE IInv
      OBVIOUS
    <2>1. ModesAgree /\ TimerWhileAsleep
      BY DEF Init, ModesAgree, TimerWhileAsleep
    <2>2. /\ practice_command \in 0 .. MaxCommands /\ practice_command_index \in Command
          /\ practice_sleep_timer \in 0 .. MaxTimers + 1
          /\ timer_list \subseteq 1 .. MaxTimers + 1
      BY DEF Init, Command, Nil
    <2>3. /\ sends \in Seq(Line) /\ mana \in Mana
          /\ heard \in [mana : Mana \cup {"none"}, pattern : Pattern]
      BY DEF Init, Silence, Mana, Pattern
    <2>4. /\ practice_mode \in BOOLEAN /\ practice_sleep_mode \in BOOLEAN
          /\ asleep \in BOOLEAN /\ gone \in BOOLEAN
      BY DEF Init
    <2>. QED BY <2>1, <2>2, <2>3, <2>4 DEF IInv, TypeOK
  <1>2. IInv /\ [Next]_vars => IInv'
    BY StepPractice, StepGame DEF Next
  <1>. QED BY <1>1, <1>2, PTL DEF Spec

(* Type correctness of practice.lisp's variables and of the game's.        *)
THEOREM PracticeTypeOK == Spec => []TypeOK
  <1>1. IInv => TypeOK
    BY DEF IInv
  <1>. QED BY SpecIInv, <1>1, PTL

(* practice.lisp keeps one timer exactly while it sleeps: waking, /p stop  *)
(* and a hunger message, in any order, leave none that would go on         *)
(* sending.                                                                *)
THEOREM TimerExactlyWhileAsleep == Spec => []TimerWhileAsleep
  <1>1. IInv => TimerWhileAsleep
    BY DEF IInv
  <1>. QED BY SpecIInv, <1>1, PTL
=============================================================================
