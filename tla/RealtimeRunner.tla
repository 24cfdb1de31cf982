----------------------------- MODULE RealtimeRunner -----------------------------
(***************************************************************************)
(* `RealtimeRunner` of execution/runner/instance/realtime.rs: the loop of   *)
(* the StandardRunner, always skipping, with a wait before each tick that   *)
(* ties simulated time to the wall clock.                                  *)
(*                                                                         *)
(* Wall-clock time is counted in some unit from `start_instant`.  It goes   *)
(* on by itself, while the thread sleeps as well as while it works.        *)
(***************************************************************************)
EXTENDS Simulation

CONSTANTS TickUnit,      \* tick_unit_duration
          CastModulus,   \* 2^32, what `as u32` keeps of a tick
          MaxElapsed,    \* the largest Duration or Instant
          MaxWall        \* bound on the wall clock

ASSUME SkipsAssumption == \A r \in Runners : r.skippable
ASSUME WallAssumption ==
    /\ TickUnit \in Nat
    /\ CastModulus \in Nat \ {0}
    /\ MaxElapsed \in Nat /\ MaxWall \in Nat

VARIABLES wall,          \* Instant::now() - start_instant
          wait,          \* "none", "sleeping" or "over", since should_stop said no
          sleep_until    \* when the sleep may end

waitVars == <<wait, sleep_until>>
realtimeVars == <<wall, waitVars>>

RealtimeInit == Init /\ wall = 0 /\ wait = "none" /\ sleep_until = 0

TargetElapsed_FromNow == wall + TickUnit

(* `target_elapsed`: the tick goes through a cast to u32. *)
TargetElapsed == TickUnit * (now % CastModulus)

(* `now < expected_instant`. *)
NeedsSleep == wall < TargetElapsed

(* `should_stop` says no: the runner waits for the wall clock, if it is early. *)
Wait ==
    /\ phase = "peek"
    /\ wait = "none"
    /\ FALSE \in ShouldStop
    /\ IF TargetElapsed > MaxElapsed
       THEN Panic("time overflow") /\ UNCHANGED realtimeVars
       ELSE /\ wait' = IF NeedsSleep THEN "sleeping" ELSE "over"
            /\ sleep_until' = TargetElapsed
            /\ UNCHANGED <<vars, wall>>

CanWake_AnyTime == TRUE

(* `thread::sleep` takes at least as long as it is told, and may take longer. *)
CanWake == wall >= sleep_until

WakeUp_AsksAgain ==
    /\ wait = "sleeping"
    /\ CanWake
    /\ wait' = "none"
    /\ UNCHANGED <<vars, wall, sleep_until>>

WakeUp ==
    /\ wait = "sleeping"
    /\ CanWake
    /\ wait' = "over"
    /\ UNCHANGED <<vars, wall, sleep_until>>

BeginTickInTime ==
    /\ wait = "over"
    /\ BeginTick
    /\ wait' = "none"
    /\ UNCHANGED <<wall, sleep_until>>

(* Everything else is as in the StandardRunner. *)
SharedStep ==
    /\ wait = "none"
    /\ StopRun \/ (phase # "peek" /\ RunnerStep)
    /\ UNCHANGED realtimeVars

(* Wall-clock time passes. *)
Elapse ==
    /\ wall < MaxWall
    /\ wall' = wall + 1
    /\ UNCHANGED <<vars, waitVars>>

RealtimeStep == Wait \/ WakeUp \/ BeginTickInTime \/ SharedStep
UserReturnStep == UserReturn /\ UNCHANGED realtimeVars
UserStep == (Configure \/ UserOperation) /\ UNCHANGED realtimeVars

RealtimeNext == RealtimeStep \/ UserReturnStep \/ UserStep \/ Elapse

RealtimeSpec == RealtimeInit /\ [][RealtimeNext]_<<vars, realtimeVars>>

(* The runner is not held up, user code returns, and time passes. *)
FairRealtimeSpec ==
    /\ RealtimeSpec
    /\ WF_<<vars, realtimeVars>>(RealtimeStep)
    /\ WF_<<vars, realtimeVars>>(UserReturnStep)
    /\ WF_<<vars, realtimeVars>>(Elapse)
==============================================================================
