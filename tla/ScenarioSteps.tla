----------------------------- MODULE ScenarioSteps -----------------------------
(***************************************************************************)
(* The steps a test of the repository is written in: a call, its arguments  *)
(* and what the test asserts of it.  An answer is a sequence of numbers;    *)
(* a call nothing is asserted of has the empty one.                         *)
(***************************************************************************)
EXTENDS Integers, Sequences

Step(call, args, answer) == [call |-> call, args |-> args, answer |-> answer]

Panicked == <<-1>>   \* the answer of a call that panics

(* The same step n times over. *)
Times(n, step) == [k \in 1 .. n |-> step]
==============================================================================
