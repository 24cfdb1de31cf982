------------------------------ MODULE PhaseQueue ------------------------------
(***************************************************************************)
(* The queue of ready entries a `SourcePhase` or an `EventPhase` holds      *)
(* (execution/phase/source.rs and event.rs), with every way a runner may    *)
(* take entries off it.  The runners of the crate use take_one,             *)
(* take_front_if and take_all; the others are there for runners outside it. *)
(*                                                                         *)
(* An entry is a number: what a predicate looks at.  A predicate is the set *)
(* of the entries it is true of.  What a call hands out belongs to the      *)
(* runner, which may have it handled or discarded in any order.             *)
(***************************************************************************)
EXTENDS Naturals, Sequences

VARIABLES ready_queue,  \* ready_sources or ready_events
          given,        \* what the last call of a take_ method returned
          handled_log,  \* what was given to the model, in order
          discard_log   \* what the discard_ hook was told, in order

phaseQueueVars == <<ready_queue, given, handled_log, discard_log>>

PhaseQueueInit(batch) ==
    /\ ready_queue = batch
    /\ given = <<>>
    /\ handled_log = <<>> /\ discard_log = <<>>

(* `new`, for the next batch. *)
NewPhase(batch) ==
    /\ ready_queue' = batch
    /\ given' = <<>>
    /\ handled_log' = <<>> /\ discard_log' = <<>>

Takes(entries, rest) ==
    /\ given' = entries
    /\ ready_queue' = rest
    /\ UNCHANGED <<handled_log, discard_log>>

(* `take_one`. *)
TakeOne ==
    IF ready_queue = <<>>
    THEN Takes(<<>>, <<>>)
    ELSE Takes(<<Head(ready_queue)>>, Tail(ready_queue))

FrontSatisfies(predicate) == ready_queue # <<>> /\ Head(ready_queue) \in predicate

(* `take_one_if`, by way of `pop_front_if`: the front, or nothing. *)
TakeOneIf(predicate) ==
    IF FrontSatisfies(predicate)
    THEN Takes(<<Head(ready_queue)>>, Tail(ready_queue))
    ELSE Takes(<<>>, ready_queue)

(* `take_front_if`. *)
TakeFrontIf(predicate) ==
    IF FrontSatisfies(predicate)
    THEN Takes(<<Head(ready_queue)>>, Tail(ready_queue))
    ELSE Takes(<<>>, ready_queue)

(* `take_all`. *)
TakeAllEntries == Takes(ready_queue, <<>>)

(* `take_all_if`: a partition that keeps the order on both sides. *)
TakeAllIf(predicate) ==
    Takes(SelectSeq(ready_queue, LAMBDA x : x \in predicate),
          SelectSeq(ready_queue, LAMBDA x : x \notin predicate))

(* `handle_event` and `discard` of an entry that was given. *)
HandleEntry(entry) ==
    handled_log' = Append(handled_log, entry) /\ UNCHANGED <<ready_queue, given, discard_log>>
DiscardEntry(entry) ==
    discard_log' = Append(discard_log, entry) /\ UNCHANGED <<ready_queue, given, handled_log>>
==============================================================================
