------------------------------ MODULE HookDelegate ------------------------------
(***************************************************************************)
(* `HookDelegate` of modeling/hook/instance/delegate.rs: every call of a    *)
(* hook is passed on to all registered hooks.  What is called before a      *)
(* piece of work goes through them in registration order, what is called    *)
(* after it in reverse.                                                    *)
(*                                                                         *)
(* A hook is its index in `hooks`.  A call is told by the piece of work it  *)
(* is about, a scope with a key: the tick, the micro-step and the source or *)
(* event, as far as the method is given them.                              *)
(***************************************************************************)
EXTENDS Integers, Sequences

CONSTANT HookCount   \* hooks.len()

ASSUME HookCountAssumption == HookCount \in Nat \ {0}

VARIABLES open,       \* calls whose counterpart is due, the innermost last
          mismatched  \* history: some call did not close the innermost scope

hookVars == <<open, mismatched>>

ScopeNames == {"simulation", "register", "tick", "micro_step", "source_phase", "source",
               "event_phase", "event"}
Scope(name, key) == [scope |-> name, key |-> key]
Scopes == [scope : ScopeNames, key : Seq(Nat)]

HookInit == open = <<>> /\ mismatched = FALSE

(* `delegate`: the calls of the `before_` methods of scopes, in turn. *)
Delegate(scopes) ==
    [k \in 1 .. Len(scopes) * HookCount |->
        <<((k - 1) % HookCount) + 1, scopes[(k - 1) \div HookCount + 1]>>]

ReverseDelegate_Forward(scopes) == Delegate(scopes)

(* `reverse_delegate`: those of the `after_` methods. *)
ReverseDelegate(scopes) ==
    [k \in 1 .. Len(scopes) * HookCount |->
        <<HookCount - ((k - 1) % HookCount), scopes[(k - 1) \div HookCount + 1]>>]

(* The methods passed on in reverse; the cancel_ and discard_ ones are not. *)
CalledInReverse ==
    {"after_simulation", "after_tick", "after_micro_step", "on_discard_remain_micro_step",
     "after_register_source", "after_source", "after_source_phase", "after_event",
     "after_event_phase"}

(* The hooks in the order in which a method of theirs is called. *)
CallOrder(method) ==
    LET calls == IF method \in CalledInReverse THEN ReverseDelegate(<<method>>)
                 ELSE Delegate(<<method>>)
    IN  [k \in DOMAIN calls |-> calls[k][1]]

(* One step calls the `after_` methods of the scopes it left, innermost first, *)
(* then the `before_` methods of those it entered, outermost first.            *)
Call(left, entered) ==
    LET ended == ReverseDelegate(left)
        rest == Len(open) - Len(ended)
    IN  /\ open' = SubSeq(open, 1, rest) \o Delegate(entered)
        /\ mismatched' = (mismatched \/ \E k \in DOMAIN ended :
               rest < 0 \/ open[Len(open) + 1 - k] # ended[k])
==============================================================================
