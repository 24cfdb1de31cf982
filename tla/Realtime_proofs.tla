----------------------------- MODULE Realtime_proofs -----------------------------
(***************************************************************************)
(* Proofs about the RealtimeRunner: what ties the ticks to the wall clock.  *)
(***************************************************************************)
EXTENDS RealtimeProperties, Ticks_proofs

USE DEF vars, schedulerVars, sourceVars, executorVars, batchVars, runnerVars, historyVars
USE DEF waitVars, realtimeVars

(***************************************************************************)
(* Every step is one of the StandardRunner, or none, or the panic of a     *)
(* target that is out of range.                                           *)
(***************************************************************************)
LEMMA RealtimeStepIsAStep ==
    ASSUME [RealtimeNext]_<<vars, realtimeVars>>
    PROVE  [Next]_vars \/ Panic("time overflow")
<1>1. CASE UNCHANGED <<vars, realtimeVars>>
    BY <1>1
<1>2. CASE Wait
    BY <1>2 DEF Wait
<1>3. CASE WakeUp \/ Elapse
    BY <1>3 DEF WakeUp, Elapse
<1>4. CASE BeginTickInTime
    BY <1>4 DEF BeginTickInTime, Next, RunnerStep
<1>5. CASE SharedStep
    BY <1>5 DEF SharedStep, Next, RunnerStep
<1>6. CASE UserReturnStep \/ UserStep
    BY <1>6 DEF UserReturnStep, UserStep, Next
<1>7. QED
    BY <1>1, <1>2, <1>3, <1>4, <1>5, <1>6 DEF RealtimeNext, RealtimeStep

(* So a run keeps its types, and the clock passes nothing that is scheduled. *)
THEOREM RealtimeIsAlwaysTimely == RealtimeSpec => [](TypeOK /\ Timely)
<1>1. RealtimeInit => TypeOK /\ Timely
    BY InitType, InitTimely DEF RealtimeInit
<1>2. TypeOK /\ Timely /\ [RealtimeNext]_<<vars, realtimeVars>> => (TypeOK /\ Timely)'
    <2> SUFFICES ASSUME TypeOK, Timely, [RealtimeNext]_<<vars, realtimeVars>>
                 PROVE  TypeOK' /\ Timely'
        OBVIOUS
    <2>1. CASE [Next]_vars
        BY <2>1, StepType, StepTimely
    <2>2. CASE Panic("time overflow")
        <3>1. "time overflow" \in Panics
            BY DEF Panics
        <3>2. QED
            BY <2>2, <3>1, PanicType, OverflowIsTimely
    <2>3. QED
        BY <2>1, <2>2, RealtimeStepIsAStep
<1>3. QED
    BY <1>1, <1>2, PTL DEF RealtimeSpec

(***************************************************************************)
(* The inductive invariant: a wait is for the target of the tick `run` is  *)
(* about to begin, and what has begun had waited for its target.           *)
(***************************************************************************)
Waiting ==
    /\ wall \in Nat
    /\ wait \in {"none", "sleeping", "over"}
    /\ wait # "none" => phase = "peek"
    /\ wait = "sleeping" => sleep_until = TargetElapsed
    /\ wait = "over" => wall >= TargetElapsed
    /\ Ticking => wall >= TargetElapsed

(* The target is at no time negative, nor later than its tick. *)
LEMMA TargetType ==
    ASSUME TypeOK
    PROVE  /\ TargetElapsed \in Nat
           /\ TargetElapsed <= TickUnit * now
           /\ now < CastModulus => TargetElapsed = TickUnit * now
<1> DEFINE kept == now % CastModulus
<1>1. now \in Nat /\ TickUnit \in Nat /\ CastModulus \in Nat \ {0}
    BY NowType, WallAssumption DEF Time
<1>2. kept \in Nat /\ kept <= now
    <2>1. \A n \in Nat, m \in Nat \ {0} : n % m \in Nat /\ n % m <= n
        OBVIOUS
    <2>2. QED
        BY <1>1, <2>1
<1>3. now < CastModulus => kept = now
    <2>1. \A n \in Nat, m \in Nat \ {0} : n < m => n % m = n
        OBVIOUS
    <2>2. QED
        BY <1>1, <2>1
<1>4. TickUnit * kept \in Nat /\ TickUnit * kept <= TickUnit * now
    <2> DEFINE rest == now - kept
    <2>1. rest \in Nat /\ now = kept + rest
        BY <1>1, <1>2
    <2> HIDE DEF kept, rest
    <2>2. TickUnit * (kept + rest) = TickUnit * kept + TickUnit * rest
        BY <1>1, <1>2, <2>1
    <2>3. TickUnit * rest \in Nat /\ TickUnit * kept \in Nat
        BY <1>1, <1>2, <2>1
    <2>4. QED
        BY <2>1, <2>2, <2>3
<1>5. QED
    BY <1>3, <1>4 DEF TargetElapsed

LEMMA TargetStays ==
    ASSUME UNCHANGED tick_status
    PROVE  UNCHANGED TargetElapsed
BY DEF TargetElapsed, now

(* Outside a tick nothing is to be shown. *)
LEMMA NotWaiting ==
    ASSUME Waiting, wall' = wall, wait' = "none", ~Ticking'
    PROVE  Waiting'
BY DEF Waiting

(* Steps within a tick keep the clock, and so its target. *)
LEMMA TickWaiting ==
    ASSUME TypeOK, Waiting, [Next]_vars, ~BeginTick, UNCHANGED realtimeVars, wait = "none"
    PROVE  Waiting'
<1>1. CASE Ticking'
    <2>1. Ticking /\ UNCHANGED tick_status
        BY <1>1, WaysToTick
    <2>2. QED
        BY <2>1, TargetStays DEF Waiting
<1>2. CASE ~Ticking'
    BY <1>2, NotWaiting
<1>3. QED
    BY <1>1, <1>2

(* User code runs while the runner does not wait. *)
LEMMA UserDoesNotWait ==
    ASSUME phase = "peek"
    PROVE  ~Configure /\ ~UserOperation /\ ~UserReturn
BY DEF Configure, ScheduleEventAt, AddEngineSource, UserOperation, ContextScheduleEvent,
       ContextAddSource, CancelScheduledEvents, CancelScheduledSources, UserReturn,
       RegisterSource, FinishAddSource, FinishFire, FinishHandleEvent, InCallback

LEMMA StepWaiting ==
    ASSUME TypeOK, Waiting, [RealtimeNext]_<<vars, realtimeVars>>
    PROVE  Waiting'
<1>1. CASE UNCHANGED <<vars, realtimeVars>>
    BY <1>1, TargetStays DEF Waiting, Ticking, InMicroStep
<1>2. CASE Wait
    <2>1. phase = "peek" /\ wait = "none"
        BY <1>2 DEF Wait
    <2>2. CASE TargetElapsed > MaxElapsed
        <3>1. phase' = "panicked" /\ UNCHANGED realtimeVars
            BY <1>2, <2>2 DEF Wait, Panic
        <3>2. ~Ticking'
            BY <3>1 DEF Ticking, InMicroStep
        <3>3. QED
            BY <2>1, <3>1, <3>2, NotWaiting
    <2>3. CASE ~(TargetElapsed > MaxElapsed)
        <3>1. /\ wait' = (IF NeedsSleep THEN "sleeping" ELSE "over")
              /\ sleep_until' = TargetElapsed
              /\ UNCHANGED <<vars, wall>>
            BY <1>2, <2>3 DEF Wait
        <3>2. TargetElapsed' = TargetElapsed /\ TargetElapsed \in Nat
            BY <3>1, TargetStays, TargetType
        <3>3. ~NeedsSleep => wall >= TargetElapsed
            BY <3>2 DEF NeedsSleep, Waiting
        <3>4. QED
            BY <2>1, <3>1, <3>2, <3>3 DEF Waiting, Ticking, InMicroStep
    <2>4. QED
        BY <2>2, <2>3
<1>3. CASE WakeUp
    BY <1>3, TargetStays DEF WakeUp, CanWake, Waiting, Ticking, InMicroStep
<1>4. CASE Elapse
    <2>1. wall' \in Nat /\ wall' >= wall /\ UNCHANGED <<vars, waitVars>>
        BY <1>4 DEF Elapse, Waiting
    <2>2. TargetElapsed' = TargetElapsed /\ TargetElapsed \in Nat
        BY <2>1, TargetStays, TargetType
    <2>3. QED
        BY <2>1, <2>2 DEF Waiting, Ticking, InMicroStep
<1>5. CASE BeginTickInTime
    <2>1. wait = "over" /\ wait' = "none" /\ UNCHANGED <<wall, tick_status>>
        BY <1>5 DEF BeginTickInTime, BeginTick
    <2>2. QED
        BY <2>1, TargetStays DEF Waiting
<1>6. CASE SharedStep
    <2>1. [Next]_vars /\ ~BeginTick /\ wait = "none" /\ UNCHANGED realtimeVars
        BY <1>6 DEF SharedStep, Next, RunnerStep, StopRun, BeginTick
    <2>2. QED
        BY <2>1, TickWaiting
<1>7. CASE UserReturnStep \/ UserStep
    <2>1. [Next]_vars /\ UNCHANGED realtimeVars /\ phase # "peek"
        BY <1>7, UserDoesNotWait DEF UserReturnStep, UserStep, Next
    <2>2. QED
        BY <2>1, TickWaiting DEF Waiting, BeginTick
<1>8. QED
    BY <1>1, <1>2, <1>3, <1>4, <1>5, <1>6, <1>7 DEF RealtimeNext, RealtimeStep

(* A tick begins only after the wait for its own target, whatever `as u32` made *)
(* of that target.                                                              *)
THEOREM AlwaysWaiting == RealtimeSpec => []Waiting
<1>1. RealtimeInit => Waiting
    BY DEF RealtimeInit, Init, Waiting, Ticking, InMicroStep
<1>2. TypeOK /\ Waiting /\ [RealtimeNext]_<<vars, realtimeVars>> => Waiting'
    BY StepWaiting
<1>3. QED
    BY <1>1, <1>2, RealtimeIsAlwaysTimely, PTL DEF RealtimeSpec

(* The runner catches up: however late a tick began, the next wait is for a time *)
(* that is counted from the start of the run, at any width of the cast.          *)
THEOREM NeverDrifts == RealtimeSpec => []NoDrift
<1>1. TypeOK /\ Waiting => NoDrift
    BY TargetType DEF Waiting, NoDrift
<1>2. QED
    BY <1>1, AlwaysWaiting, RealtimeIsAlwaysTimely, PTL

(* The ticks a run can reach keep their value in `as u32`.  The code does not *)
(* check it: a run past tick 2^32 is early, which is a finding.               *)
TicksFitTheCast == MaxTime < CastModulus

(* As long as ticks fit the cast, none is worked on before its time has come. *)
THEOREM TicksAreNeverEarly ==
    ASSUME TicksFitTheCast
    PROVE  RealtimeSpec => []NeverEarly
<1>1. TypeOK /\ Waiting => NeverEarly
    <2> SUFFICES ASSUME TypeOK, Waiting, InATick
                 PROVE  wall >= TickUnit * now
        BY DEF NeverEarly
    <2>1. Ticking
        BY DEF InATick, Phases, Ticking, InMicroStep
    <2>2. now < CastModulus
        BY NowType, MaxTimeAssumption, WallAssumption DEF TicksFitTheCast, Time
    <2>3. QED
        BY <2>1, <2>2, TargetType DEF Waiting
<1>2. QED
    BY <1>1, AlwaysWaiting, RealtimeIsAlwaysTimely, PTL
==============================================================================
