---------------------------- MODULE ScheduledQueue ----------------------------
(***************************************************************************)
(* What the two schedulers share: the reading of a binary heap of entries  *)
(* that carry a scheduled_at.  A heap is the set of its entries; an        *)
(* Option is a set of at most one value.                                   *)
(***************************************************************************)
EXTENDS SimTime

Options(S) == {{}} \cup {{x} : x \in S}

(* `peek_next_time`: the time of the head, an Option. *)
PeekNextTime(queue) ==
    {x.scheduled_at : x \in {y \in queue :
                                \A z \in queue : y.scheduled_at <= z.scheduled_at}}

(* What the loop of `drain_ready` pops. *)
DueAt(queue, now) == {x \in queue : x.scheduled_at = now}

(* The assertion in that loop looks at the head, which is overdue exactly *)
(* when some entry is.                                                    *)
Overdue(queue, now) == \E x \in queue : x.scheduled_at < now
==============================================================================
