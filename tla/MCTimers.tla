------------------------------ MODULE MCTimers ------------------------------
(* Timers on a small instance: one-shot and repeating timers, delays of    *)
(* nothing and of one tick, so that a run finds due and other timers.      *)
EXTENDS Timers

MCDelays == {0, 1}
MCRepeats == {0, 1}
=============================================================================
