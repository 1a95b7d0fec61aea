------------------------------- MODULE Timers -------------------------------
(***************************************************************************)
(* The timers of src/lisp/init.lisp (run-at-time, cancel-timer,            *)
(* run-timers) and the tick of the event loop that runs them.              *)
(*                                                                         *)
(* run-timers calls a Lisp function for every due timer, and that function *)
(* may schedule timers, cancel timers or signal an error; time goes on     *)
(* meanwhile.  So a run is a walk in steps, with the callback in between.  *)
(* A timer is an object with an identity, its number; its fire time is     *)
(* changed in place (set-car!).                                            *)
(***************************************************************************)
EXTENDS Integers, Sequences, SequencesExt

CONSTANTS
  MaxTimers,    (* bound: timers created                                   *)
  MaxTime,      (* bound: where the clock stops                            *)
  Delays,       (* run-at-time's TIME                                      *)
  Repeats,      (* run-at-time's REPEAT, 0 for nil                         *)
  CallbackOps   (* what callbacks do: "schedule", "cancel", "fail"         *)

ASSUME MaxTimersAssumption == MaxTimers \in Nat
ASSUME MaxTimeAssumption == MaxTime \in Nat
ASSUME DelaysAssumption == Delays \subseteq Nat
ASSUME RepeatsAssumption == Repeats \subseteq Nat
ASSUME CallbackOpsAssumption == CallbackOps \subseteq {"schedule", "cancel", "fail"}

Timer == 1 .. MaxTimers

VARIABLES
  now,              (* current-time-ms                                     *)
  timer_list,       (* *timer-list*                                        *)
  timer_next_id,    (* *timer-next-id*                                     *)
  next_fire_ms,     (* *timer-next-fire-ms*, the loop's timeout            *)
  fire_time,        (* the timers' second elements                         *)
  repeat_ms,        (* the timers' third elements                          *)
  pc,               (* "loop", or in run-timers "walk" or "callback"       *)
  run_now,          (* run-timers: now                                     *)
  remaining,        (* run-timers: the detached timers not yet walked      *)
  repeaters,        (* run-timers: the repeating timers that fired         *)
  scheduled,        (* history: the fire time run-at-time gave a timer     *)
  fired,            (* history: how often a timer's function was called    *)
  active,           (* history: timers with a call to come, not cancelled  *)
  touched,          (* history: timers that a callback scheduled or        *)
                    (* cancelled, or that were detached when one failed    *)
  failed            (* history: the last run ended in an error             *)

timers  == <<timer_list, timer_next_id, next_fire_ms, fire_time, repeat_ms>>
run     == <<run_now, remaining, repeaters>>
history == <<scheduled, fired, active, touched, failed>>
vars    == <<now, timers, pc, run, history>>

None == -1

Init ==
  /\ now = 0
  /\ timer_list = <<>>
  /\ timer_next_id = 1
  /\ next_fire_ms = None
  /\ fire_time = [t \in Timer |-> 0]
  /\ repeat_ms = [t \in Timer |-> 0]
  /\ pc = "loop"
  /\ run_now = 0
  /\ remaining = <<>>
  /\ repeaters = <<>>
  /\ scheduled = [t \in Timer |-> 0]
  /\ fired = [t \in Timer |-> 0]
  /\ active = {}
  /\ touched = {}
  /\ failed = FALSE

-----------------------------------------------------------------------------
(* timer--update-cache, for a timer list and the timers' fire times. *)
FirstFire(list, fire) == IF list = <<>> THEN None ELSE fire[Head(list)]

(* Mutant: a new timer goes to the end. *)
AppendTimer(t, list, fire) == Append(list, t)

(* timer--insert-sorted: before the first timer that is not earlier. *)
InsertSorted(t, list, fire) ==
  LET i == SelectInSeq(list, LAMBDA u : fire[t] <= fire[u])
  IN IF i = 0 THEN Append(list, t) ELSE InsertAt(list, i, t)

(* The timers a callback has touched, when it touches those of S as well. *)
Touch(S) == IF pc = "callback" THEN touched \cup S ELSE touched

RunAtTime(delay, repeat) ==
  LET t == timer_next_id
  IN /\ pc = "loop" \/ (pc = "callback" /\ "schedule" \in CallbackOps)
     /\ t <= MaxTimers
     /\ timer_next_id' = t + 1
     /\ fire_time' = [fire_time EXCEPT ![t] = now + delay]
     /\ repeat_ms' = [repeat_ms EXCEPT ![t] = repeat]
     /\ timer_list' = InsertSorted(t, timer_list, fire_time')
     /\ next_fire_ms' = FirstFire(timer_list', fire_time')
     /\ scheduled' = [scheduled EXCEPT ![t] = now + delay]
     /\ active' = active \cup {t}
     /\ touched' = Touch({t})
     /\ UNCHANGED <<now, pc, run, fired, failed>>

(* Mutant: cancelling does not look at the cache. *)
CacheKept(t) == next_fire_ms

(* Mutant: timers are compared by their fire time. *)
WithoutEqual(t) == SelectSeq(timer_list, LAMBDA u : fire_time[u] # fire_time[t])

(* What is left of the list without one timer, element by element (filter). *)
Without(t) ==
  LET left[i \in 0 .. Len(timer_list)] ==
        IF i = 0 THEN <<>>
        ELSE IF timer_list[i] = t THEN left[i - 1]
        ELSE Append(left[i - 1], timer_list[i])
  IN left[Len(timer_list)]

(* The cache is refreshed only if the timer was in the list. *)
CacheAfterCancel(t) ==
  IF t \in ToSet(timer_list) THEN FirstFire(timer_list', fire_time) ELSE next_fire_ms

CancelTimer(t) ==
  /\ pc = "loop" \/ (pc = "callback" /\ "cancel" \in CallbackOps)
  /\ t < timer_next_id
  /\ timer_list' = Without(t)
  /\ next_fire_ms' = CacheAfterCancel(t)
  /\ active' = active \ {t}
  /\ touched' = Touch({t})
  /\ UNCHANGED <<now, timer_next_id, fire_time, repeat_ms, pc, run,
                 scheduled, fired, failed>>

-----------------------------------------------------------------------------
(* "Detach list so callbacks that schedule timers don't interfere". *)
Detached == <<>>

(* run-timers, called by the tick. *)
RunTimers ==
  /\ pc = "loop"
  /\ timer_list # <<>>
  /\ pc' = "walk"
  /\ run_now' = now
  /\ remaining' = timer_list
  /\ repeaters' = <<>>
  /\ timer_list' = Detached
  /\ failed' = FALSE
  /\ UNCHANGED <<now, timer_next_id, next_fire_ms, fire_time, repeat_ms,
                 scheduled, fired, active, touched>>

(* Mutant: due a tick early. *)
DueSoon(t) == fire_time[t] <= run_now + 1

Due(t) == fire_time[t] <= run_now

(* The next due timer's function is called. *)
Fire ==
  /\ pc = "walk"
  /\ remaining # <<>>
  /\ Due(Head(remaining))
  /\ pc' = "callback"
  /\ fired' = [fired EXCEPT ![Head(remaining)] = @ + 1]
  /\ active' = IF repeat_ms[Head(remaining)] > 0 THEN active
               ELSE active \ {Head(remaining)}
  /\ UNCHANGED <<now, timers, run, scheduled, touched, failed>>

(* Mutant: the next call counts from now, not from the planned time. *)
FromNow(t) == now + repeat_ms[t]

NextTime(t) == fire_time[t] + repeat_ms[t]

(* A repeating timer is moved on by its period and kept for later. *)
CallbackReturns ==
  /\ pc = "callback"
  /\ pc' = "walk"
  /\ remaining' = Tail(remaining)
  /\ LET t == Head(remaining)
     IN \/ /\ repeat_ms[t] > 0
           /\ fire_time' = [fire_time EXCEPT ![t] = NextTime(t)]
           /\ repeaters' = Cons(t, repeaters)
        \/ /\ repeat_ms[t] = 0
           /\ UNCHANGED <<fire_time, repeaters>>
  /\ UNCHANGED <<now, timer_list, timer_next_id, next_fire_ms, repeat_ms,
                 run_now, history>>

(* An error ends run-timers where it is; lisp_x_run_timers logs it. *)
CallbackFails ==
  /\ pc = "callback"
  /\ "fail" \in CallbackOps
  /\ pc' = "loop"
  /\ remaining' = <<>>
  /\ repeaters' = <<>>
  /\ touched' = Touch(ToSet(remaining \o repeaters))
  /\ failed' = TRUE
  /\ UNCHANGED <<now, timers, run_now, scheduled, fired, active>>

(* The timers that are not due replace the list, if there are any; the     *)
(* repeating ones are inserted.                                            *)
ListAfterRun ==
  LET list[i \in 0 .. Len(repeaters)] ==
        IF i = 0 THEN IF remaining # <<>> THEN remaining ELSE timer_list
        ELSE InsertSorted(repeaters[i], list[i - 1], fire_time)
  IN list[Len(repeaters)]

WalkEnds ==
  /\ pc = "walk"
  /\ remaining # <<>> => ~Due(Head(remaining))
  /\ pc' = "loop"
  /\ timer_list' = ListAfterRun
  /\ next_fire_ms' = FirstFire(timer_list', fire_time)
  /\ remaining' = <<>>
  /\ repeaters' = <<>>
  /\ UNCHANGED <<now, timer_next_id, fire_time, repeat_ms, run_now, history>>

Clock ==
  /\ now < MaxTime
  /\ now' = now + 1
  /\ UNCHANGED <<timers, pc, run, history>>

-----------------------------------------------------------------------------
(* The event loop's timeout has run out: get_tick_timeout_ms returned 0. *)
TickDue == next_fire_ms # None /\ next_fire_ms <= now /\ RunTimers

Walk == Fire \/ CallbackReturns \/ WalkEnds

Next ==
  \/ \E delay \in Delays, repeat \in Repeats : RunAtTime(delay, repeat)
  \/ \E t \in Timer : CancelTimer(t)
  \/ RunTimers \/ Walk \/ CallbackFails \/ Clock

Spec == Init /\ [][Next]_vars

(* Fairness: the loop's timeout runs out at the cached time, and functions *)
(* return.                                                                 *)
Fairness == WF_vars(TickDue) /\ WF_vars(Walk)

FairSpec == Spec /\ Fairness

-----------------------------------------------------------------------------
TypeOK ==
  /\ now \in Nat
  /\ timer_list \in Seq(Timer)
  /\ timer_next_id \in 1 .. MaxTimers + 1
  /\ next_fire_ms \in Nat \cup {None}
  /\ fire_time \in [Timer -> Nat]
  /\ repeat_ms \in [Timer -> Nat]
  /\ pc \in {"loop", "walk", "callback"}
  /\ run_now \in Nat
  /\ remaining \in Seq(Timer)
  /\ repeaters \in Seq(Timer)
  /\ scheduled \in [Timer -> Nat]
  /\ fired \in [Timer -> Nat]
  /\ active \subseteq Timer
  /\ touched \subseteq Timer
  /\ failed \in BOOLEAN

SortedByTime(list) ==
  \A i, j \in DOMAIN list : i < j => fire_time[list[i]] <= fire_time[list[j]]

(* run-timers stops at the first timer that is not due, so the list must   *)
(* stay in order of fire time through every insertion, cancellation and    *)
(* run; and a timer is in one place, in the list, waiting in the run, or   *)
(* set aside to be inserted again, whatever callbacks do.                  *)
ListSorted ==
  LET all == timer_list \o remaining \o repeaters
  IN /\ SortedByTime(timer_list) /\ SortedByTime(remaining)
     /\ \A i, j \in DOMAIN all : all[i] = all[j] => i = j

(* *timer-next-fire-ms*: "Cached fire-time of the earliest timer, or -1 if *)
(* none.  Read by C for select() timeout" (init.lisp:406).  Between events *)
(* it is current: a stale later time delays a timer, a stale earlier one   *)
(* makes the event loop spin.  After a run that ended in an error it may   *)
(* be stale, but is never later than a listed timer.                       *)
CacheCurrent ==
  LET times == {fire_time[t] : t \in ToSet(timer_list)}
  IN pc = "loop" =>
       IF failed THEN \A time \in times : next_fire_ms # None /\ next_fire_ms <= time
       ELSE next_fire_ms = IF times = {} THEN None ELSE Min(times)

(* The list and its cache are what the tick and the next run rely on.      *)
ScheduleAgrees == ListSorted /\ CacheCurrent

(* Between events, the timers in the list are those with a call to come: a *)
(* run loses none and brings none back, and an error or a cancellation     *)
(* disturbs no timer but those it touched.                                 *)
UntouchedKept == pc = "loop" => ToSet(timer_list) \ touched = active \ touched

(* No timer is lost, those that callbacks schedule included (init.lisp:457 *)
(* "Detach list so callbacks that schedule timers don't interfere", :475   *)
(* "Merge any callbacks-added timers with survivors").                     *)
NoneLost == pc = "loop" => active \subseteq ToSet(timer_list)

(* A repeating timer keeps to its plan: its next call is due a whole       *)
(* number of periods after the first, however late the loop ran it         *)
(* (init.lisp:472 "Drift fix: advance from scheduled time").               *)
OnPlan ==
  \A t \in Timer :
    t < timer_next_id /\ t \notin touched /\ ~(pc = "callback" /\ t = Head(remaining)) =>
      fire_time[t] = scheduled[t] + fired[t] * repeat_ms[t]

(* No function is called before its time, a one-shot timer's is called     *)
(* once, and none after its timer was cancelled between runs.              *)
FiresRightly ==
  [][\A t \in Timer : fired'[t] # fired[t] =>
       fire_time[t] <= now /\ t \in active \cup touched]_vars

(* A due timer's function is called, unless the timer is cancelled first   *)
(* or touched by a callback that failed.                                   *)
DueFires ==
  \A t \in Timer :
    (t \in active \ touched /\ fire_time[t] <= now)
      ~> (t \notin active \ touched \/ fire_time[t] > now)
=============================================================================
