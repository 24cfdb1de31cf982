------------------------------- MODULE SimTime -------------------------------
(***************************************************************************)
(* Simulation time: `SimTime`, `Duration` and `TickStatus` of              *)
(* primitive/time/sim_time.rs, and `MicroStep` of micro_step.rs.           *)
(*                                                                         *)
(* Ticks are a usize and micro-steps a u64 in the code, and every addition *)
(* on them is checked: it panics instead of wrapping.  MaxTime and         *)
(* MaxMicroStep stand for the two largest values, so a small constant      *)
(* makes the overflow paths reachable.                                     *)
(***************************************************************************)
EXTENDS Integers

CONSTANTS MaxTime,       \* the largest tick, usize::MAX in the code
          MaxMicroStep   \* the largest micro-step, u64::MAX in the code

ASSUME MaxTimeAssumption == MaxTime \in Nat
ASSUME MaxMicroStepAssumption == MaxMicroStep \in Nat

Time == 0 .. MaxTime
MicroSteps == 0 .. MaxMicroStep

AddOverflows_OffByOne(t, d) == t + d > MaxTime + 1

(* `SimTime + Duration` panics exactly when the sum is no usize. *)
AddOverflows(t, d) == t + d > MaxTime

(* `a - b` on times and durations panics when it would go below zero. *)
SubOverflows(a, b) == a < b

(* The checked and saturating forms; SimTime and Duration have the same ones. *)
CheckedAdd(t, d) == {x \in {t + d} : ~AddOverflows(t, d)}
SaturatingAdd(t, d) == IF AddOverflows(t, d) THEN MaxTime ELSE t + d
CheckedSub(a, b) == {x \in {a - b} : ~SubOverflows(a, b)}
SaturatingSub(a, b) == IF SubOverflows(a, b) THEN 0 ELSE a - b

(* `MicroStep::next` panics at the largest micro-step. *)
NextMicroStep(step) == {x \in {step + 1} : step < MaxMicroStep}

(* `TickStatus`: a tick, and how many ticks were skipped on the way to it. *)
TickStatuses == [current : Time, skipped : Time]
TickStatus(current, skipped) == [current |-> current, skipped |-> skipped]
InitialTickStatus == TickStatus(0, 0)

(* `TickStatus::previous`: the tick processed before this one. *)
Previous(status) ==
    IF status.current = 0 THEN 0 ELSE status.current - status.skipped - 1

(* Its two subtractions are checked as well. *)
PreviousPanics(status) ==
    /\ status.current # 0
    /\ SubOverflows(status.current, status.skipped + 1)

IsDoneTicks_SkipBlind(status, include_zero_tick, tick_count) ==
    status.current + (IF include_zero_tick THEN 1 ELSE 0) >= tick_count

IsDoneTicks_Strictly(status, include_zero_tick, tick_count) ==
    Previous(status) + (IF include_zero_tick THEN 1 ELSE 0) > tick_count

(* `TickStatus::is_done_ticks`. *)
IsDoneTicks(status, include_zero_tick, tick_count) ==
    Previous(status) + (IF include_zero_tick THEN 1 ELSE 0) >= tick_count
==============================================================================
