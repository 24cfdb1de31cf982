------------------------------ MODULE MCRunners ------------------------------
(***************************************************************************)
(* The runners the instances are checked with.                             *)
(***************************************************************************)
EXTENDS Naturals

(* StandardRunner with skipping and AlwaysContinueStrategy; `run` with a *)
(* should_stop of the caller.                                            *)
AnyRunner == [skippable |-> TRUE, strategy |-> "always", limit |-> 0, allow_errors |-> 0,
              stop_rule |-> "any", include_zero_tick |-> FALSE, tick_count |-> 0]

(* The same under `run_do_ticks`, and under `run_until_idle`. *)
DoTicks(runner, include_zero_tick, tick_count) ==
    [runner EXCEPT !.stop_rule = "do_ticks", !.include_zero_tick = include_zero_tick,
                   !.tick_count = tick_count]
UntilIdle(runner) == [runner EXCEPT !.stop_rule = "idle"]

LimitDiscard(runner, limit) == [runner EXCEPT !.strategy = "limit_discard", !.limit = limit]
LimitAbort(runner, limit, allow_errors) ==
    [runner EXCEPT !.strategy = "limit_abort", !.limit = limit, !.allow_errors = allow_errors]
EveryTick(runner) == [runner EXCEPT !.skippable = FALSE]

AnyRunners == {AnyRunner}

(* One that skips and never discards, one that does the opposite. *)
OppositeRunners == {AnyRunner, EveryTick(LimitDiscard(AnyRunner, 0))}
OneTickRunners == {DoTicks(AnyRunner, TRUE, 1)}
OneMicroStepRunners == {LimitAbort(AnyRunner, 1, 0)}
IdleRunners == {UntilIdle(LimitDiscard(AnyRunner, 1)), UntilIdle(LimitAbort(AnyRunner, 0, 0))}

(* Every strategy, every stop rule, with skipping and without. *)
StrategyRunners ==
    {DoTicks(LimitDiscard(AnyRunner, 1), TRUE, 2),
     DoTicks(EveryTick(AnyRunner), FALSE, 1),
     DoTicks(EveryTick(LimitDiscard(AnyRunner, 0)), TRUE, 2),
     UntilIdle(LimitAbort(AnyRunner, 0, 1)),
     LimitAbort(AnyRunner, 1, 1)}
==============================================================================
