---------------------------------- MODULE Sums ----------------------------------
(***************************************************************************)
(* Adding up a sequence of numbers in a loop, as ChoiceSampler::new and    *)
(* EmpiricalSampler::new do with weights and examples/little_law.rs with    *)
(* stays.                                                                  *)
(***************************************************************************)
EXTENDS Integers, Sequences

Total(numbers) ==
    LET sum[n \in 0 .. Len(numbers)] == IF n = 0 THEN 0 ELSE sum[n - 1] + numbers[n]
    IN  sum[Len(numbers)]
==============================================================================
