------------------------------- MODULE Samplers -------------------------------
(***************************************************************************)
(* The samplers of modeling/sampler.rs: how durations are drawn, combined   *)
(* and made ticks.                                                         *)
(*                                                                         *)
(* `PendingDuration` is an f64; here it counts tenths of a tick, so that    *)
(* rounding shows.  What an inner sampler draws, and the number a generator *)
(* returns, are arguments.  The distributions (normal, Poisson, ...) are    *)
(* what rand_distr makes them and stay outside.                            *)
(***************************************************************************)
EXTENDS SimTime, Sums, FiniteSets

CONSTANT Tick    \* raw value of one tick: 10 where a draw counts tenths

ASSUME TickAssumption == Tick \in Nat \ {0}

VARIABLE next_index   \* RotateSampler::next_index

(* f64::round, half away from zero, in ticks. *)
Rounded(raw) ==
    IF raw >= 0 THEN (2 * raw + Tick) \div (2 * Tick) ELSE -((Tick - 2 * raw) \div (2 * Tick))

(* `try_to_duration`, an Option. *)
TryToDuration(raw) == {t \in {Rounded(raw)} : t >= 0 /\ t <= MaxTime}

Clamped(x, min, max) == IF x < min THEN min ELSE IF x > max THEN max ELSE x

(* `to_duration_with_clamp`. *)
ToDurationWithClamp(raw, max) ==
    IF raw >= max * Tick THEN max ELSE Clamped(Rounded(raw), 0, max)

Cdf_FromFirstWeight(weights) ==
    [n \in 1 .. Len(weights) |-> Total(SubSeq(weights, 1, n))]

(* The boundaries `ChoiceSampler::new` and `EmpiricalSampler::new` build. *)
Cdf(weights) == [n \in 1 .. Len(weights) + 1 |-> Total(SubSeq(weights, 1, n - 1))]

(* partition_point(|x| x <= r): how many boundaries are no more than r. *)
PartitionPoint(cdf, r) == Cardinality({n \in DOMAIN cdf : cdf[n] <= r})

(* `sample` of the two: the value a draw r in 0 .. total - 1 picks.  The index the   *)
(* code computes is one less, as it counts from zero.                                *)
Choose(weights, values, r) == values[PartitionPoint(Cdf(weights), r)]

(* Both constructors assert that there is a weight, and one that is not zero. *)
ChoicePanics(weights) == weights = <<>> \/ Total(weights) = 0

(* `new` and `new_with_index` of RotateSampler. *)
NewRotatePanics(list, index) == list = <<>> \/ index >= Len(list)
NewRotate(index) == next_index' = index

(* `sample` of RotateSampler: gives list[next_index + 1]. *)
RotateSample(list) == next_index' = (next_index + 1) % Len(list)

(* `sample` of ModeSampler: the sampler of the active index, or the first. *)
ActiveSampler(values, active_index) ==
    IF active_index < Len(values) THEN values[active_index + 1] ELSE values[1]

(* `sample` of DelaySampler and JitterSampler. *)
DelaySample(sampled, delay) == sampled + (IF delay > 0 THEN delay ELSE 0)
JitterSample(sampled, jitter) == sampled + jitter

(* `sample` of EnsureNonNegativeSampler: how often it draws, and what it returns. *)
Tries(draws, limit_try_count) ==
    LET good == {n \in 1 .. limit_try_count : draws[n] >= 0}
    IN  IF good = {} THEN limit_try_count ELSE CHOOSE n \in good : \A k \in good : n <= k
EnsureNonNegative(draws, limit_try_count, fallback) ==
    IF \E n \in 1 .. limit_try_count : draws[n] >= 0
    THEN draws[Tries(draws, limit_try_count)] ELSE fallback * Tick
==============================================================================
