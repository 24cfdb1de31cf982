------------------------------- MODULE Hook_proofs -------------------------------
(***************************************************************************)
(* Proofs about the calls of hooks.                                        *)
(***************************************************************************)
EXTENDS HookProperties, Ticks_proofs, SequenceTheorems

USE DEF vars, schedulerVars, sourceVars, executorVars, batchVars, runnerVars, historyVars
USE DEF hookVars, toldVars, hookedVars

(***************************************************************************)
(* Hooks only watch: a run with hooks is a run, and what was proved about   *)
(* runs holds for it.                                                      *)
(***************************************************************************)

(* Every step with its calls is a step. *)
LEMMA HookedStep ==
    ASSUME HookedNext
    PROVE  Next
<1>1. CASE SilentUserOperation
    BY <1>1 DEF SilentUserOperation, Next, UserOperation
<1>2. CASE HookedAddSource
    BY <1>2 DEF HookedAddSource, Next, UserOperation
<1>3. CASE HookedUserReturn
    <2>1. \/ \E delay \in Options(Delays) :
                RegisterSource(delay) \/ FinishAddSource(delay) \/ FinishFire(delay)
          \/ FinishHandleEvent
        BY <1>3 DEF HookedUserReturn, HookedRegisterSource, HookedFinishAddSource,
                    HookedFinishFire, HookedFinishHandleEvent
    <2>2. QED
        BY <2>1 DEF Next, UserReturn
<1>4. CASE SilentRunnerStep
    BY <1>4 DEF SilentRunnerStep, Next, RunnerStep
<1>5. CASE HookedRunnerStep
    <2>1. RunnerStep
        BY <1>5 DEF HookedRunnerStep, HookedBeginSimulation, HookedStopRun, HookedBeginTick,
                    HookedStartSourcePhase, HookedFireSource, HookedStartEventPhase,
                    HookedHandleEvent, HookedEndMicroStep, HookedEndTick, RunnerStep
    <2>2. QED
        BY <2>1 DEF Next
<1>6. QED
    BY <1>1, <1>2, <1>3, <1>4, <1>5 DEF HookedNext

(* Registering hooks changes nothing a run does. *)
THEOREM HooksOnlyWatch == HookedSpec => Spec
<1>1. HookedInit => Init
    BY DEF HookedInit
<1>2. [HookedNext]_hookedVars => [Next]_vars
    BY HookedStep
<1>3. QED
    BY <1>1, <1>2, PTL DEF HookedSpec, Spec

(***************************************************************************)
(* `delegate` and `reverse_delegate` as sequences of calls: HookCount calls *)
(* for every scope.                                                        *)
(***************************************************************************)
LEMMA DivMod ==
    ASSUME NEW H \in Nat \ {0}, NEW q \in Int, NEW r \in 0 .. H - 1
    PROVE  (q * H + r) \div H = q /\ (q * H + r) % H = r
OBVIOUS

LEMMA DivModEq ==
    ASSUME NEW H \in Nat \ {0}, NEW a \in Int
    PROVE  a = (a \div H) * H + (a % H) /\ a % H \in 0 .. H - 1 /\ a \div H \in Int
OBVIOUS

(* The calls are numbered from zero here: call a of n * H is for hook a % H of *)
(* scope a \div H.                                                            *)
LEMMA Quotient ==
    ASSUME NEW H \in Nat \ {0}, NEW n \in Nat, NEW a \in Int, 0 <= a, a < n * H
    PROVE  /\ a \div H \in 0 .. n - 1
           /\ a % H \in 0 .. H - 1
           /\ a = (a \div H) * H + (a % H)
<1>1. a = (a \div H) * H + (a % H) /\ a % H \in 0 .. H - 1 /\ a \div H \in Int
    BY DivModEq
<1> DEFINE q == a \div H
           r == a % H
<1>2. q \in Int /\ r \in 0 .. H - 1 /\ a = q * H + r
    BY <1>1
<1> HIDE DEF q, r
<1>3. q >= 0
    <2>1. q <= -1 => q * H <= -H
        BY <1>2
    <2>2. QED
        BY <1>2, <2>1
<1>4. q <= n - 1
    <2>1. q >= n => q * H >= n * H
        BY <1>2
    <2>2. QED
        BY <1>2, <2>1
<1>5. q \in 0 .. n - 1
    BY <1>2, <1>3, <1>4
<1>6. QED
    BY <1>1, <1>5 DEF q, r

(* Delegate and ReverseDelegate are sequences of calls. *)
LEMMA DelegateIsSeq ==
    ASSUME NEW S, NEW s \in Seq(S)
    PROVE  /\ Len(s) * HookCount \in Nat
           /\ Delegate(s) \in Seq((1 .. HookCount) \X S)
           /\ Len(Delegate(s)) = Len(s) * HookCount
           /\ Len(ReverseDelegate(s)) = Len(s) * HookCount
           /\ DOMAIN ReverseDelegate(s) = 1 .. Len(s) * HookCount
           /\ \A k \in 1 .. Len(s) * HookCount :
                 /\ (k - 1) \div HookCount + 1 \in 1 .. Len(s)
                 /\ Delegate(s)[k] =
                       <<((k - 1) % HookCount) + 1, s[(k - 1) \div HookCount + 1]>>
                 /\ ReverseDelegate(s)[k] =
                       <<HookCount - ((k - 1) % HookCount), s[(k - 1) \div HookCount + 1]>>
<1> DEFINE n == Len(s) * HookCount
           C == (1 .. HookCount) \X S
<1>1. Len(s) \in Nat /\ HookCount \in Nat \ {0}
    BY LenProperties, HookCountAssumption
<1>2. n \in Nat
    BY <1>1
<1>3. ASSUME NEW k \in 1 .. n
      PROVE  /\ (k - 1) \div HookCount + 1 \in 1 .. Len(s)
             /\ (k - 1) % HookCount \in 0 .. HookCount - 1
    <2>1. /\ (k - 1) \div HookCount \in 0 .. Len(s) - 1
          /\ (k - 1) % HookCount \in 0 .. HookCount - 1
        <3>1. k - 1 \in Int /\ 0 <= k - 1 /\ k - 1 < n
            BY <1>2
        <3>2. QED
            BY <1>1, <3>1, Quotient
    <2> DEFINE q == (k - 1) \div HookCount
    <2>2. q \in 0 .. Len(s) - 1 => q + 1 \in 1 .. Len(s)
        BY <1>1
    <2>3. QED
        BY <2>1, <2>2
<1>4. \A k \in 1 .. n : Delegate(s)[k] \in C
    <2> TAKE k \in 1 .. n
    <2>1. ((k - 1) % HookCount) + 1 \in 1 .. HookCount
        <3> DEFINE r == (k - 1) % HookCount
        <3>1. r \in 0 .. HookCount - 1 => r + 1 \in 1 .. HookCount
            BY <1>1
        <3>2. QED
            BY <1>3, <3>1
    <2>2. s[(k - 1) \div HookCount + 1] \in S
        BY <1>3, ElementOfSeq
    <2>3. Delegate(s)[k] = <<((k - 1) % HookCount) + 1, s[(k - 1) \div HookCount + 1]>>
        BY DEF Delegate
    <2>4. QED
        BY <2>1, <2>2, <2>3
<1>5. Delegate(s) \in [1 .. n -> C]
    BY <1>4 DEF Delegate
<1>6. Delegate(s) \in Seq(C) /\ Len(Delegate(s)) = n
    BY <1>2, <1>5, SeqDef
<1>7. DOMAIN ReverseDelegate(s) = 1 .. n /\ Len(ReverseDelegate(s)) = n
    BY <1>2 DEF ReverseDelegate
<1>8. QED
    BY <1>2, <1>3, <1>6, <1>7 DEF Delegate, ReverseDelegate

(* Products with the number of hooks. *)
LEMMA Products ==
    ASSUME NEW H \in Nat, NEW a \in Nat, NEW b \in Nat
    PROVE  /\ a * H \in Nat /\ b * H \in Nat
           /\ (a + b) * H = a * H + b * H
           /\ a <= b => a * H <= b * H
<1>1. a * H \in Nat /\ b * H \in Nat /\ (a + b) * H = a * H + b * H
    OBVIOUS
<1>2. ASSUME a <= b
      PROVE  a * H <= b * H
    <2>1. b - a \in Nat /\ b * H = a * H + (b - a) * H /\ (b - a) * H \in Nat
        BY <1>2
    <2>2. QED
        BY <1>1, <2>1
<1>3. QED
    BY <1>1, <1>2

(* Counted from the end, the calls are those of the last scope, last hook first: *)
(* what `reverse_delegate` makes of the scopes in reverse.                       *)
LEMMA EndsMatch ==
    ASSUME NEW S, NEW before \in Seq(S), NEW left \in Seq(S),
           Len(left) <= Len(before),
           \A i \in 1 .. Len(left) : before[Len(before) + 1 - i] = left[i],
           NEW k \in 1 .. Len(left) * HookCount
    PROVE  /\ Len(Delegate(before)) + 1 - k \in 1 .. Len(Delegate(before))
           /\ Delegate(before)[Len(Delegate(before)) + 1 - k] = ReverseDelegate(left)[k]
<1> DEFINE H == HookCount
           N == Len(before)
           q == (k - 1) \div H
           r == (k - 1) % H
           i == N * H + 1 - k
<1>1. H \in Nat \ {0} /\ N \in Nat /\ Len(left) \in Nat /\ Len(left) <= N
    BY HookCountAssumption, LenProperties
<1>2. Len(left) * H \in Nat /\ N * H \in Nat /\ Len(left) * H <= N * H
    BY <1>1, Products
<1>3. q \in 0 .. Len(left) - 1 /\ r \in 0 .. H - 1 /\ k - 1 = q * H + r
    <2>1. k - 1 \in Int /\ 0 <= k - 1 /\ k - 1 < Len(left) * H
        BY <1>2
    <2>2. QED
        BY <1>1, <2>1, Quotient
<1>4. Len(Delegate(before)) = N * H
    BY DelegateIsSeq
<1>5. i \in 1 .. N * H
    BY <1>2
<1>6. (i - 1) \div H = N - 1 - q /\ (i - 1) % H = H - 1 - r
    <2> HIDE DEF q, r, H, N
    <2>1. N - 1 - q \in Int /\ H - 1 - r \in 0 .. H - 1
        BY <1>1, <1>3
    <2>2. i - 1 = N * H - (k - 1) - 1
        BY <1>2
    <2>3. i - 1 = (N - 1 - q) * H + (H - 1 - r)
        BY <1>1, <1>3, <2>2
    <2>4. QED
        BY <1>1, <2>1, <2>3, DivMod, ZenonT(60)
<1>7. Delegate(before)[i] = <<((i - 1) % H) + 1, before[(i - 1) \div H + 1]>>
    BY <1>5, DelegateIsSeq
<1>8. ReverseDelegate(left)[k] = <<H - r, left[q + 1]>>
    BY DelegateIsSeq
<1>9. (H - 1 - r) + 1 = H - r /\ (N - 1 - q) + 1 = N + 1 - (q + 1) /\ q + 1 \in 1 .. Len(left)
    <2> HIDE DEF q, r, H, N
    <2>1. QED
        BY <1>1, <1>3
<1>10. before[N + 1 - (q + 1)] = left[q + 1]
    BY <1>9
<1>11. Delegate(before)[i] = ReverseDelegate(left)[k]
    BY <1>6, <1>7, <1>8, <1>9, <1>10
<1>12. QED
    BY <1>4, <1>5, <1>11

(* The calls of scopes in turn are their calls one scope after the other. *)
LEMMA DelegateConcat ==
    ASSUME NEW S, NEW s \in Seq(S), NEW t \in Seq(S)
    PROVE  Delegate(s \o t) = Delegate(s) \o Delegate(t)
<1> DEFINE H == HookCount
           m == Len(s)
           n == Len(t)
           C == (1 .. H) \X S
<1>1. H \in Nat \ {0} /\ m \in Nat /\ n \in Nat
    BY HookCountAssumption, LenProperties
<1>2. s \o t \in Seq(S) /\ Len(s \o t) = m + n
    BY ConcatProperties
<1>3. (m + n) * H = m * H + n * H /\ m * H \in Nat /\ n * H \in Nat
    BY <1>1, Products
<1>4. /\ Delegate(s) \in Seq(C) /\ Delegate(t) \in Seq(C) /\ Delegate(s \o t) \in Seq(C)
      /\ Len(Delegate(s)) = m * H /\ Len(Delegate(t)) = n * H
      /\ Len(Delegate(s \o t)) = m * H + n * H
    BY <1>2, <1>3, DelegateIsSeq
<1>5. /\ Delegate(s) \o Delegate(t) \in Seq(C)
      /\ Len(Delegate(s) \o Delegate(t)) = m * H + n * H
      /\ \A k \in 1 .. m * H + n * H : (Delegate(s) \o Delegate(t))[k] =
            IF k <= m * H THEN Delegate(s)[k] ELSE Delegate(t)[k - m * H]
    <2> DEFINE d == Delegate(s)
               e == Delegate(t)
    <2> HIDE DEF C, d, e
    <2>1. d \in Seq(C) /\ e \in Seq(C) /\ Len(d) = m * H /\ Len(e) = n * H
        BY <1>4 DEF d, e
    <2>2. /\ d \o e \in Seq(C)
          /\ Len(d \o e) = Len(d) + Len(e)
          /\ \A k \in 1 .. Len(d) + Len(e) :
                (d \o e)[k] = IF k <= Len(d) THEN d[k] ELSE e[k - Len(d)]
        BY <2>1, ConcatProperties
    <2>3. QED
        BY <2>1, <2>2 DEF d, e
<1>6. ASSUME NEW k \in 1 .. m * H + n * H
      PROVE  Delegate(s \o t)[k] = (Delegate(s) \o Delegate(t))[k]
    <2>1. Delegate(s \o t)[k] =
             <<((k - 1) % H) + 1, (s \o t)[(k - 1) \div H + 1]>>
        BY <1>2, <1>3, DelegateIsSeq
    <2>2. CASE k <= m * H
        <3>1. k \in 1 .. m * H
            BY <1>3, <2>2
        <3>2. (k - 1) \div H + 1 \in 1 .. m
            BY <3>1, DelegateIsSeq
        <3>3. (s \o t)[(k - 1) \div H + 1] = s[(k - 1) \div H + 1]
            BY <1>1, <3>2, ConcatProperties
        <3>4. Delegate(s)[k] = <<((k - 1) % H) + 1, s[(k - 1) \div H + 1]>>
            BY <3>1, DelegateIsSeq
        <3>5. QED
            BY <1>5, <2>1, <2>2, <3>3, <3>4
    <2>3. CASE ~(k <= m * H)
        <3> DEFINE j == k - m * H
                   q == (j - 1) \div H
                   r == (j - 1) % H
        <3>1. j \in 1 .. n * H
            BY <1>3, <2>3
        <3>2. q \in 0 .. n - 1 /\ r \in 0 .. H - 1 /\ j - 1 = q * H + r
            <4>1. j - 1 \in Int /\ 0 <= j - 1 /\ j - 1 < n * H
                BY <1>3, <3>1
            <4>2. QED
                BY <1>1, <4>1, Quotient
        <3>3. (k - 1) \div H = m + q /\ (k - 1) % H = r
            <4> HIDE DEF q, r, H, m
            <4>1. m + q \in Int
                BY <1>1, <3>2
            <4>2. k - 1 = (j - 1) + m * H
                BY <1>3
            <4> HIDE DEF j
            <4>3. k - 1 = (m + q) * H + r
                BY <1>1, <3>2, <4>2
            <4>4. QED
                BY <1>1, <3>2, <4>1, <4>3, DivMod, ZenonT(60)
        <3>4. (s \o t)[(m + q) + 1] = t[q + 1]
            <4>1. (m + q) + 1 \in 1 .. m + n /\ ~((m + q) + 1 <= m) /\ ((m + q) + 1) - m = q + 1
                <5> HIDE DEF q, m, n
                <5>1. QED
                    BY <1>1, <3>2
            <4>2. QED
                BY <4>1, ConcatProperties
        <3>5. Delegate(t)[j] = <<r + 1, t[q + 1]>>
            BY <3>1, DelegateIsSeq
        <3>6. (Delegate(s) \o Delegate(t))[k] = Delegate(t)[j]
            BY <1>5, <2>3
        <3>7. Delegate(s \o t)[k] = <<r + 1, t[q + 1]>>
            BY <2>1, <3>3, <3>4
        <3>8. QED
            BY <3>5, <3>6, <3>7
    <2>4. QED
        BY <2>2, <2>3
<1>7. QED
    BY <1>4, <1>5, <1>6, SeqEqual, ZenonT(60)

(* The front of a concatenation. *)
LEMMA Front ==
    ASSUME NEW C, NEW a \in Seq(C), NEW b \in Seq(C)
    PROVE  SubSeq(a \o b, 1, Len(a)) = a
<1>1. Len(a) \in Nat /\ Len(b) \in Nat
    BY LenProperties
<1>2. \A i \in 1 .. Len(a) : (a \o b)[i] = a[i] /\ a[i] \in C
    BY <1>1, ConcatProperties, ElementOfSeq
<1>3. /\ SubSeq(a \o b, 1, Len(a)) \in Seq(C)
      /\ Len(SubSeq(a \o b, 1, Len(a))) = IF 1 <= Len(a) THEN Len(a) - 1 + 1 ELSE 0
      /\ \A i \in 1 .. Len(a) - 1 + 1 : SubSeq(a \o b, 1, Len(a))[i] = (a \o b)[1 + i - 1]
    BY <1>1, <1>2, SubSeqProperties
<1>4. Len(SubSeq(a \o b, 1, Len(a))) = Len(a)
    BY <1>1, <1>3
<1>5. \A i \in 1 .. Len(a) : SubSeq(a \o b, 1, Len(a))[i] = a[i]
    BY <1>1, <1>2, <1>3
<1>6. QED
    BY <1>3, <1>4, <1>5, SeqEqual

(* A step that leaves the innermost scopes, in reverse, and enters others closes *)
(* what was open last, for every hook.                                           *)
LEMMA CallNests ==
    ASSUME NEW S, NEW kept \in Seq(S), NEW outs \in Seq(S), NEW left \in Seq(S),
           NEW entered \in Seq(S),
           Len(left) = Len(outs),
           \A i \in 1 .. Len(left) : outs[Len(outs) + 1 - i] = left[i],
           open = Delegate(kept \o outs), ~mismatched, Call(left, entered)
    PROVE  open' = Delegate(kept \o entered) /\ ~mismatched'
<1> DEFINE H == HookCount
           C == (1 .. H) \X S
           before == kept \o outs
<1>1. /\ Len(kept) \in Nat /\ Len(left) \in Nat /\ H \in Nat
      /\ before \in Seq(S) /\ Len(before) = Len(kept) + Len(left)
    BY HookCountAssumption, LenProperties, ConcatProperties
<1>2. \A i \in 1 .. Len(left) : before[Len(before) + 1 - i] = left[i]
    <2> TAKE i \in 1 .. Len(left)
    <2> DEFINE j == Len(before) + 1 - i
    <2>1. /\ j \in 1 .. Len(kept) + Len(outs) /\ ~(j <= Len(kept))
          /\ j - Len(kept) = Len(outs) + 1 - i
        BY <1>1
    <2>2. before[j] = outs[j - Len(kept)]
        <3> HIDE DEF j
        <3>1. QED
            BY <2>1, ConcatProperties
    <2>3. QED
        BY <2>1, <2>2
<1>3. /\ Delegate(kept) \in Seq(C) /\ Delegate(outs) \in Seq(C)
      /\ Len(Delegate(kept)) = Len(kept) * H
      /\ Len(ReverseDelegate(left)) = Len(left) * H
      /\ DOMAIN ReverseDelegate(left) = 1 .. Len(left) * H
      /\ Len(open) = Len(before) * H
    BY <1>1, DelegateIsSeq
<1>4. open = Delegate(kept) \o Delegate(outs)
    BY DelegateConcat
<1>5. /\ Len(before) * H = Len(kept) * H + Len(left) * H
      /\ Len(kept) * H \in Nat /\ Len(left) * H \in Nat
    <2>1. (Len(kept) + Len(left)) * H = Len(kept) * H + Len(left) * H
        BY <1>1, Products
    <2>2. QED
        BY <1>1, <2>1, Products
<1>6. Len(open) - Len(ReverseDelegate(left)) = Len(Delegate(kept))
      /\ Len(Delegate(kept)) \in Nat
    BY <1>3, <1>5
<1>7. open' = SubSeq(open, 1, Len(Delegate(kept))) \o Delegate(entered)
    BY <1>6 DEF Call
<1>8. SubSeq(open, 1, Len(Delegate(kept))) = Delegate(kept)
    BY <1>3, <1>4, Front
<1>9. open' = Delegate(kept \o entered)
    BY <1>7, <1>8, DelegateConcat
<1>10. \A k \in DOMAIN ReverseDelegate(left) :
          open[Len(open) + 1 - k] = ReverseDelegate(left)[k]
    <2> TAKE k \in DOMAIN ReverseDelegate(left)
    <2>1. k \in 1 .. Len(left) * HookCount /\ Len(left) <= Len(before)
        BY <1>1, <1>3
    <2> HIDE DEF before
    <2>2. Delegate(before)[Len(Delegate(before)) + 1 - k] = ReverseDelegate(left)[k]
        BY <1>1, <1>2, <2>1, EndsMatch
    <2>3. QED
        BY <2>2 DEF before
<1>11. ~mismatched'
    <2>1. ~(Len(open) - Len(ReverseDelegate(left)) < 0)
        BY <1>6
    <2>2. QED
        BY <1>10, <2>1 DEF Call
<1>12. QED
    BY <1>9, <1>11

(***************************************************************************)
(* The scopes that are open at each phase of a run, the outermost first.   *)
(***************************************************************************)
TickPath == <<SimulationScope>> \o <<TickScope>>
StepPath == TickPath \o <<MicroStepScope>>
SourcePhasePath == StepPath \o <<SourcePhaseScope>>
EventPhasePath == StepPath \o <<EventPhaseScope>>
HandlingPath(event) == EventPhasePath \o <<EventScope(event)>>

Opened(path) == open = Delegate(path)

Nested ==
    /\ phase \in {"handling", "adding"} => handled_event # {}
    /\ phase \in {"configure", "stopped"} => Opened(<<>>)
    /\ phase = "registering" => Opened(<<SimulationScope>> \o Registering(reg_slot))
    /\ phase = "peek" => Opened(<<SimulationScope>>)
    /\ phase \in {"micro_step", "continue", "end_tick"} => Opened(TickPath)
    /\ phase = "source_phase" => Opened(SourcePhasePath)
    /\ phase = "firing" => \A source \in firing_source :
          Opened(SourcePhasePath \o <<SourceScope(source)>>)
    /\ phase = "event_phase" => Opened(EventPhasePath)
    /\ phase = "handling" => \A event \in handled_event : Opened(HandlingPath(event))
    /\ phase = "adding" => \A event \in handled_event :
          Opened(HandlingPath(event) \o <<RegisterScope(source_registry)>>)

(* Every scope is one of Scopes. *)
LEMMA ScopeType ==
    ASSUME TypeOK, handled_event \subseteq ScheduledEvents
    PROVE  /\ SimulationScope \in Scopes /\ TickScope \in Scopes /\ MicroStepScope \in Scopes
           /\ SourcePhaseScope \in Scopes /\ EventPhaseScope \in Scopes
           /\ \A slot \in Nat : RegisterScope(slot) \in Scopes
           /\ \A source \in ScheduledSources : SourceScope(source) \in Scopes
           /\ \A event \in ScheduledEvents : EventScope(event) \in Scopes
<1>1. now \in Nat /\ micro_step \in Nat
    BY NowType, LimitType DEF Time
<1>2. /\ <<>> \in Seq(Nat)
      /\ \A a \in Nat : <<a>> \in Seq(Nat)
      /\ \A a, b \in Nat : <<a, b>> \in Seq(Nat)
      /\ \A a, b, c \in Nat : <<a, b, c>> \in Seq(Nat)
    OBVIOUS
<1>3. \A key \in Seq(Nat) : \A name \in ScopeNames : Scope(name, key) \in Scopes
    BY DEF Scope, Scopes
<1>4. SimulationScope \in Scopes
    BY <1>2, <1>3 DEF SimulationScope, ScopeNames
<1>5. TickScope \in Scopes
    BY <1>1, <1>2, <1>3 DEF TickScope, ScopeNames
<1>6. MicroStepScope \in Scopes /\ SourcePhaseScope \in Scopes /\ EventPhaseScope \in Scopes
    BY <1>1, <1>2, <1>3 DEF MicroStepScope, SourcePhaseScope, EventPhaseScope, ScopeNames
<1>7. \A slot \in Nat : RegisterScope(slot) \in Scopes
    BY <1>2, <1>3 DEF RegisterScope, ScopeNames
<1>8. \A source \in ScheduledSources : SourceScope(source) \in Scopes
    BY <1>1, <1>2, <1>3 DEF SourceScope, ScopeNames, ScheduledSources
<1>9. \A event \in ScheduledEvents : EventScope(event) \in Scopes
    BY <1>1, <1>2, <1>3 DEF EventScope, ScopeNames, ScheduledEvents
<1>10. QED
    BY <1>4, <1>5, <1>6, <1>7, <1>8, <1>9

(* And every path is a sequence of them. *)
LEMMA PathType ==
    ASSUME TypeOK, handled_event \subseteq ScheduledEvents
    PROVE  /\ <<>> \in Seq(Scopes) /\ <<SimulationScope>> \in Seq(Scopes)
           /\ TickPath \in Seq(Scopes) /\ StepPath \in Seq(Scopes)
           /\ SourcePhasePath \in Seq(Scopes) /\ EventPhasePath \in Seq(Scopes)
           /\ \A event \in handled_event : HandlingPath(event) \in Seq(Scopes)
<1>1. \A x \in Scopes : <<x>> \in Seq(Scopes)
    OBVIOUS
<1>2. <<>> \in Seq(Scopes) /\ <<SimulationScope>> \in Seq(Scopes)
    BY <1>1, ScopeType
<1>3. TickPath \in Seq(Scopes)
    BY <1>1, <1>2, ScopeType, ConcatProperties DEF TickPath
<1>4. StepPath \in Seq(Scopes)
    BY <1>1, <1>3, ScopeType, ConcatProperties DEF StepPath
<1>5. SourcePhasePath \in Seq(Scopes) /\ EventPhasePath \in Seq(Scopes)
    BY <1>1, <1>4, ScopeType, ConcatProperties DEF SourcePhasePath, EventPhasePath
<1>6. \A event \in handled_event : HandlingPath(event) \in Seq(Scopes)
    BY <1>1, <1>5, ScopeType, ConcatProperties DEF HandlingPath
<1>7. QED
    BY <1>2, <1>3, <1>4, <1>5, <1>6

LEMMA PairConcat ==
    ASSUME NEW S, NEW x \in S, NEW y \in S
    PROVE  <<x>> \o <<y>> = <<x, y>>
<1> DEFINE s == <<x>>
           t == <<y>>
<1>1. /\ s \in Seq(S) /\ t \in Seq(S) /\ <<x, y>> \in Seq(S)
      /\ Len(s) = 1 /\ Len(t) = 1 /\ Len(<<x, y>>) = 2
      /\ s[1] = x /\ t[1] = y
    OBVIOUS
<1> HIDE DEF s, t
<1>2. /\ s \o t \in Seq(S) /\ Len(s \o t) = 2
      /\ (s \o t)[1] = s[1] /\ (s \o t)[2] = t[1]
    <2>1. /\ s \o t \in Seq(S) /\ Len(s \o t) = Len(s) + Len(t)
          /\ \A i \in 1 .. Len(s) + Len(t) :
                (s \o t)[i] = IF i <= Len(s) THEN s[i] ELSE t[i - Len(s)]
        BY <1>1, ConcatProperties
    <2>2. QED
        BY <1>1, <2>1
<1>3. \A i \in 1 .. 2 : (s \o t)[i] = <<x, y>>[i]
    <2>1. <<x, y>>[1] = x /\ <<x, y>>[2] = y
        OBVIOUS
    <2>2. \A i \in 1 .. 2 : i = 1 \/ i = 2
        OBVIOUS
    <2>3. QED
        BY <1>1, <1>2, <2>1, <2>2
<1>4. s \o t = <<x, y>>
    BY <1>1, <1>2, <1>3, SeqEqual
<1>5. QED
    BY <1>4 DEF s, t

(* A step enters one scope ... *)
LEMMA EnterOne ==
    ASSUME NEW S, NEW path \in Seq(S), NEW x \in S,
           Opened(path), ~mismatched, Call(<<>>, <<x>>)
    PROVE  open' = Delegate(path \o <<x>>) /\ ~mismatched'
<1>1. <<>> \in Seq(S) /\ <<x>> \in Seq(S) /\ Len(<<>>) = 0
    OBVIOUS
<1>2. path \o <<>> = path
    BY ConcatEmptySeq
<1>3. \A i \in 1 .. Len(<<>>) : <<>>[Len(<<>>) + 1 - i] = <<>>[i]
    BY <1>1
<1>4. open = Delegate(path \o <<>>)
    BY <1>2 DEF Opened
<1>5. QED
    BY <1>1, <1>3, <1>4, CallNests

(* ... or leaves the innermost one, and may enter another. *)
LEMMA LeaveOne ==
    ASSUME NEW S, NEW path \in Seq(S), NEW x \in S, NEW entered \in Seq(S),
           Opened(path \o <<x>>), ~mismatched, Call(<<x>>, entered)
    PROVE  open' = Delegate(path \o entered) /\ ~mismatched'
<1>1. <<x>> \in Seq(S) /\ Len(<<x>>) = 1
    OBVIOUS
<1>2. \A i \in 1 .. Len(<<x>>) : <<x>>[Len(<<x>>) + 1 - i] = <<x>>[i]
    BY <1>1
<1>3. QED
    BY <1>1, <1>2, CallNests DEF Opened

(* The same for the two innermost ones. *)
LEMMA LeaveTwo ==
    ASSUME NEW S, NEW path \in Seq(S), NEW x \in S, NEW y \in S,
           Opened((path \o <<x>>) \o <<y>>), ~mismatched, Call(<<y, x>>, <<>>)
    PROVE  open' = Delegate(path) /\ ~mismatched'
<1>1. /\ <<x>> \in Seq(S) /\ <<y>> \in Seq(S) /\ <<x, y>> \in Seq(S) /\ <<y, x>> \in Seq(S)
      /\ <<>> \in Seq(S)
      /\ Len(<<x, y>>) = 2 /\ Len(<<y, x>>) = 2
    OBVIOUS
<1>2. (path \o <<x>>) \o <<y>> = path \o <<x, y>>
    <2>1. (path \o <<x>>) \o <<y>> = path \o (<<x>> \o <<y>>)
        BY <1>1, ConcatAssociative
    <2>2. QED
        BY <2>1, PairConcat
<1>3. \A i \in 1 .. Len(<<y, x>>) : <<x, y>>[Len(<<x, y>>) + 1 - i] = <<y, x>>[i]
    <2>1. <<x, y>>[2 + 1 - 1] = <<y, x>>[1] /\ <<x, y>>[2 + 1 - 2] = <<y, x>>[2]
        OBVIOUS
    <2>2. QED
        BY <1>1, <2>1
<1>4. open' = Delegate(path \o <<>>) /\ ~mismatched'
    BY <1>1, <1>2, <1>3, CallNests DEF Opened
<1>5. QED
    BY <1>4, ConcatEmptySeq

(***************************************************************************)
(* The inductive invariant: what is open is what the phase says.           *)
(***************************************************************************)
Nesting == ~mismatched /\ Nested /\ handled_event \subseteq ScheduledEvents

(* Paths depend on the clock and the micro-step alone. *)
LEMMA PathsStay ==
    ASSUME UNCHANGED <<tick_status, micro_step>>
    PROVE  /\ UNCHANGED <<TickPath, StepPath, SourcePhasePath, EventPhasePath>>
           /\ \A source : SourceScope(source)' = SourceScope(source)
           /\ \A event : HandlingPath(event)' = HandlingPath(event)
BY DEF TickPath, TickScope, StepPath, MicroStepScope, SourcePhasePath, SourcePhaseScope,
       EventPhasePath, EventPhaseScope, SourceScope, HandlingPath, EventScope, now

LEMMA TickPathStays ==
    ASSUME UNCHANGED tick_status
    PROVE  UNCHANGED TickPath
BY DEF TickPath, TickScope, now

(* After a panic no hook is called, and there is nothing more to say. *)
LEMMA PanicNesting ==
    ASSUME Nesting, phase' = "panicked", UNCHANGED <<hookVars, handled_event>>
    PROVE  Nesting'
BY DEF Nesting, Nested

(* Silent steps stay where they are. *)
LEMMA StillNesting ==
    ASSUME Nesting, UNCHANGED <<hookVars, handled_event, phase, tick_status, micro_step>>,
           \/ phase = "configure"
           \/ UNCHANGED <<reg_slot, source_registry, firing_source>>
    PROVE  Nesting'
<1>1. /\ UNCHANGED <<TickPath, StepPath, SourcePhasePath, EventPhasePath>>
      /\ \A source : SourceScope(source)' = SourceScope(source)
      /\ \A event : HandlingPath(event)' = HandlingPath(event)
    BY PathsStay
<1>2. CASE phase = "configure"
    BY <1>2 DEF Nesting, Nested, Opened
<1>3. CASE UNCHANGED <<reg_slot, source_registry, firing_source>>
    <2>1. Registering(reg_slot)' = Registering(reg_slot)
        BY <1>3 DEF Registering, RegisterScope
    <2>2. RegisterScope(source_registry)' = RegisterScope(source_registry)
        BY <1>3 DEF RegisterScope
    <2>3. Nested'
        BY <1>1, <1>3, <2>1, <2>2
           DEF Nesting, Nested, Opened, SimulationScope
    <2>4. QED
        BY <2>3 DEF Nesting
<1>4. QED
    BY <1>2, <1>3

(* User operations that call no hook. *)
LEMMA SilentUserNesting ==
    ASSUME Nesting, SilentUserOperation
    PROVE  Nesting'
<1>1. UNCHANGED <<hookVars, handled_event>>
    BY DEF SilentUserOperation, Silently
<1>2. CASE Configure
    BY <1>1, <1>2, StillNesting DEF Configure, ScheduleEventAt, AddEngineSource
<1>3. ASSUME NEW d, NEW p, ContextScheduleEvent(d, p)
      PROVE  Nesting'
    BY <1>1, <1>3, StillNesting, PanicNesting DEF ContextScheduleEvent, Panic
<1>4. ASSUME NEW cancelled, CancelScheduledEvents(cancelled)
      PROVE  Nesting'
    BY <1>1, <1>4, StillNesting DEF CancelScheduledEvents
<1>5. ASSUME NEW cancelled, CancelScheduledSources(cancelled)
      PROVE  Nesting'
    BY <1>1, <1>5, StillNesting DEF CancelScheduledSources, DrainCancelScheduledSources
<1>6. QED
    BY <1>2, <1>3, <1>4, <1>5 DEF SilentUserOperation

(* Runner steps that call no hook. *)
LEMMA SilentRunnerNesting ==
    ASSUME TypeOK, Timely, Nesting, SilentRunnerStep
    PROVE  Nesting'
<1>1. UNCHANGED <<hookVars, handled_event>>
    BY DEF SilentRunnerStep, Silently
<1>2. CASE FinishRegistration
    <2>1. phase = "registering" /\ phase' = "peek" /\ reg_slot = source_registry
        BY <1>2 DEF FinishRegistration
    <2>2. Registering(reg_slot) = <<>>
        BY <2>1 DEF Registering, TypeOK, SourceTypeOK
    <2>3. <<SimulationScope>> \o <<>> = <<SimulationScope>>
        BY PathType, ConcatEmptySeq DEF Nesting
    <2>4. Opened(<<SimulationScope>>)
        BY <2>1, <2>2, <2>3 DEF Nesting, Nested
    <2>5. QED
        BY <1>1, <2>1, <2>4 DEF Nesting, Nested, Opened, SimulationScope
<1>3. CASE ContinueMicroSteps
    <2>1. phase = "continue" /\ phase' = "micro_step" /\ UNCHANGED tick_status
        BY <1>3 DEF ContinueMicroSteps
    <2>2. QED
        BY <1>1, <2>1, TickPathStays DEF Nesting, Nested, Opened
<1>4. CASE DiscardAtLimit
    <2>1. phase = "continue" /\ phase' \in {"end_tick", "micro_step"} /\ UNCHANGED tick_status
        BY <1>4, NotOverdue, Zenon DEF DiscardAtLimit
    <2>2. QED
        BY <1>1, <2>1, TickPathStays DEF Nesting, Nested, Opened
<1>5. QED
    BY <1>2, <1>3, <1>4 DEF SilentRunnerStep

(* What user code enters and leaves. *)
LEMMA UserNesting ==
    ASSUME TypeOK, Nesting, HookedAddSource \/ HookedUserReturn
    PROVE  Nesting'
<1> USE PathType, ScopeType
<1>1. CASE HookedAddSource
    <2>1. /\ phase = "handling" /\ phase' = "adding"
          /\ UNCHANGED <<handled_event, tick_status, micro_step, source_registry>>
          /\ Call(<<>>, <<RegisterScope(source_registry)>>)
        BY <1>1 DEF HookedAddSource, ContextAddSource, Calling
    <2>2. RegisterScope(source_registry) \in Scopes
        BY DEF Nesting, TypeOK, SourceTypeOK
    <2>3. ASSUME NEW event \in handled_event
          PROVE  /\ open' = Delegate(HandlingPath(event) \o <<RegisterScope(source_registry)>>)
                 /\ ~mismatched'
        <3>1. Opened(HandlingPath(event)) /\ ~mismatched
            BY <2>1 DEF Nesting, Nested
        <3>2. HandlingPath(event) \in Seq(Scopes)
            BY DEF Nesting
        <3>3. QED
            BY <2>1, <2>2, <3>1, <3>2, EnterOne
    <2>4. ~mismatched'
        BY <2>1, <2>3 DEF Nesting, Nested
    <2>5. RegisterScope(source_registry)' = RegisterScope(source_registry)
        BY <2>1 DEF RegisterScope
    <2>6. QED
        BY <2>1, <2>3, <2>4, <2>5, PathsStay DEF Nesting, Nested, Opened
<1>2. ASSUME NEW delay, HookedRegisterSource(delay)
      PROVE  Nesting'
    <2>1. /\ phase = "registering" /\ phase' = "registering"
          /\ reg_slot < source_registry /\ reg_slot' = reg_slot + 1
          /\ UNCHANGED <<source_registry, handled_event>>
          /\ Call(<<RegisterScope(reg_slot)>>, Registering(reg_slot + 1))
        BY <1>2 DEF HookedRegisterSource, RegisterSource, InitializeSource, Calling
    <2>2. reg_slot \in Nat /\ reg_slot + 1 \in Nat
        BY DEF TypeOK
    <2>3. RegisterScope(reg_slot) \in Scopes /\ Registering(reg_slot + 1) \in Seq(Scopes)
        BY <2>2 DEF Nesting, Registering
    <2>4. Opened(<<SimulationScope>> \o <<RegisterScope(reg_slot)>>)
        BY <2>1 DEF Nesting, Nested, Registering
    <2>5. /\ open' = Delegate(<<SimulationScope>> \o Registering(reg_slot + 1))
          /\ ~mismatched'
        BY <2>1, <2>3, <2>4, LeaveOne DEF Nesting
    <2>6. Registering(reg_slot)' = Registering(reg_slot + 1)
        BY <2>1 DEF Registering, RegisterScope
    <2>7. QED
        BY <2>1, <2>5, <2>6 DEF Nesting, Nested, Opened, SimulationScope
<1>3. ASSUME NEW delay, HookedFinishAddSource(delay)
      PROVE  Nesting'
    <2>1. CASE phase' = "panicked"
        BY <1>3, <2>1, PanicNesting DEF HookedFinishAddSource, Calling
    <2>2. CASE phase' # "panicked"
        <3>1. /\ phase = "adding" /\ phase' = "handling"
              /\ UNCHANGED <<handled_event, tick_status, micro_step>>
              /\ Call(<<RegisterScope(source_registry)>>, <<>>)
            BY <1>3, <2>2 DEF HookedFinishAddSource, FinishAddSource, Calling, Panic
        <3>2. RegisterScope(source_registry) \in Scopes
            BY DEF Nesting, TypeOK, SourceTypeOK
        <3>3. ASSUME NEW event \in handled_event
              PROVE  open' = Delegate(HandlingPath(event)) /\ ~mismatched'
            <4>1. HandlingPath(event) \in Seq(Scopes) /\ <<>> \in Seq(Scopes)
                BY DEF Nesting
            <4>2. Opened(HandlingPath(event) \o <<RegisterScope(source_registry)>>) /\ ~mismatched
                BY <3>1 DEF Nesting, Nested
            <4>3. open' = Delegate(HandlingPath(event) \o <<>>) /\ ~mismatched'
                BY <3>1, <3>2, <4>1, <4>2, LeaveOne
            <4>4. QED
                BY <4>1, <4>3, ConcatEmptySeq
        <3>4. ~mismatched'
            BY <3>1, <3>3 DEF Nesting, Nested
        <3>5. QED
            BY <3>1, <3>3, <3>4, PathsStay DEF Nesting, Nested, Opened
    <2>3. QED
        BY <2>1, <2>2
<1>4. ASSUME NEW delay, HookedFinishFire(delay)
      PROVE  Nesting'
    <2>1. CASE phase' = "panicked"
        BY <1>4, <2>1, PanicNesting DEF HookedFinishFire, Calling
    <2>2. CASE phase' # "panicked"
        <3>1. PICK source \in firing_source : Calling(<<SourceScope(source)>>, <<>>)
            BY <1>4 DEF HookedFinishFire
        <3>2. /\ phase = "firing" /\ phase' = "source_phase"
              /\ UNCHANGED <<handled_event, tick_status, micro_step>>
              /\ Call(<<SourceScope(source)>>, <<>>)
            BY <1>4, <2>2, <3>1 DEF HookedFinishFire, FinishFire, Calling, Panic
        <3>3. SourceScope(source) \in Scopes /\ SourcePhasePath \in Seq(Scopes)
              /\ <<>> \in Seq(Scopes)
            BY DEF Nesting, TypeOK
        <3>4. Opened(SourcePhasePath \o <<SourceScope(source)>>) /\ ~mismatched
            BY <3>2 DEF Nesting, Nested
        <3>5. open' = Delegate(SourcePhasePath \o <<>>) /\ ~mismatched'
            BY <3>2, <3>3, <3>4, LeaveOne
        <3>6. open' = Delegate(SourcePhasePath)
            BY <3>3, <3>5, ConcatEmptySeq
        <3>7. QED
            BY <3>2, <3>5, <3>6, PathsStay DEF Nesting, Nested, Opened
    <2>3. QED
        BY <2>1, <2>2
<1>5. ASSUME NEW event \in handled_event, HookedFinishHandleEvent(event)
      PROVE  Nesting'
    <2>1. /\ phase = "handling" /\ phase' = "event_phase"
          /\ UNCHANGED <<tick_status, micro_step>> /\ handled_event' = {}
          /\ Call(<<EventScope(event)>>, <<>>)
        BY <1>5 DEF HookedFinishHandleEvent, FinishHandleEvent
    <2>2. EventScope(event) \in Scopes /\ EventPhasePath \in Seq(Scopes) /\ <<>> \in Seq(Scopes)
        BY DEF Nesting
    <2>3. Opened(EventPhasePath \o <<EventScope(event)>>) /\ ~mismatched
        BY <2>1 DEF Nesting, Nested, HandlingPath
    <2>4. open' = Delegate(EventPhasePath \o <<>>) /\ ~mismatched'
        BY <2>1, <2>2, <2>3, LeaveOne
    <2>5. open' = Delegate(EventPhasePath)
        BY <2>2, <2>4, ConcatEmptySeq
    <2>6. QED
        BY <2>1, <2>4, <2>5, PathsStay DEF Nesting, Nested, Opened
<1>6. QED
    BY <1>1, <1>2, <1>3, <1>4, <1>5 DEF HookedUserReturn


(* Where a run of the runner's steps is. *)
LEMMA TickLoopNesting ==
    ASSUME TypeOK, Nesting,
           HookedBeginSimulation \/ HookedStopRun \/ HookedBeginTick
    PROVE  Nesting'
<1> USE PathType, ScopeType
<1>0. handled_event \subseteq ScheduledEvents /\ ~mismatched
    BY DEF Nesting
<1>1. CASE HookedBeginSimulation
    <2>1. /\ phase = "configure" /\ phase' = "registering" /\ reg_slot' = 0
          /\ UNCHANGED <<source_registry, handled_event>>
          /\ Call(<<>>, <<SimulationScope>> \o Registering(0))
        BY <1>1 DEF HookedBeginSimulation, BeginSimulation, FlushPendingSources, Calling
    <2>2. Registering(0) \in Seq(Scopes)
        BY <1>0 DEF Registering
    <2>3. Opened(<<>>)
        BY <2>1 DEF Nesting, Nested
    <2>4. <<>> \in Seq(Scopes) /\ Len(<<>>) = 0 /\ <<SimulationScope>> \in Seq(Scopes)
        BY <1>0
    <2>5. /\ <<SimulationScope>> \o Registering(0) \in Seq(Scopes)
          /\ <<>> \o <<>> = <<>>
          /\ <<>> \o (<<SimulationScope>> \o Registering(0)) = <<SimulationScope>> \o Registering(0)
        <3>1. <<SimulationScope>> \o Registering(0) \in Seq(Scopes)
            BY <2>2, <2>4, ConcatProperties
        <3>2. QED
            BY <2>4, <3>1, ConcatEmptySeq
    <2>6. \A i \in 1 .. Len(<<>>) : <<>>[Len(<<>>) + 1 - i] = <<>>[i]
        BY <2>4
    <2>7. open = Delegate(<<>> \o <<>>)
        BY <2>3, <2>5 DEF Opened
    <2>8. open' = Delegate(<<>> \o (<<SimulationScope>> \o Registering(0))) /\ ~mismatched'
        BY <1>0, <2>1, <2>4, <2>5, <2>6, <2>7, CallNests
    <2>9. open' = Delegate(<<SimulationScope>> \o Registering(0))
        BY <2>5, <2>8
    <2>10. Registering(reg_slot)' = Registering(0)
        BY <2>1 DEF Registering, RegisterScope
    <2>11. QED
        BY <1>0, <2>1, <2>8, <2>9, <2>10 DEF Nesting, Nested, Opened, SimulationScope
<1>2. CASE HookedStopRun
    <2>1. /\ phase = "peek" /\ phase' = "stopped" /\ UNCHANGED handled_event
          /\ Call(<<SimulationScope>>, <<>>)
        BY <1>2 DEF HookedStopRun, StopRun, Calling
    <2>2. SimulationScope \in Scopes /\ <<>> \in Seq(Scopes) /\ <<SimulationScope>> \in Seq(Scopes)
        BY <1>0
    <2>3. <<>> \o <<SimulationScope>> = <<SimulationScope>> /\ <<>> \o <<>> = <<>>
        BY <2>2, ConcatEmptySeq
    <2>4. Opened(<<>> \o <<SimulationScope>>)
        BY <2>1, <2>3 DEF Nesting, Nested
    <2>5. open' = Delegate(<<>> \o <<>>) /\ ~mismatched'
        BY <1>0, <2>1, <2>2, <2>4, LeaveOne
    <2>6. QED
        BY <1>0, <2>1, <2>3, <2>5 DEF Nesting, Nested, Opened
<1>3. CASE HookedBeginTick
    <2>1. /\ phase = "peek" /\ phase' = "micro_step" /\ UNCHANGED <<handled_event, tick_status>>
          /\ Call(<<>>, <<TickScope>>)
        BY <1>3 DEF HookedBeginTick, BeginTick, Calling
    <2>2. SimulationScope \in Scopes /\ TickScope \in Scopes /\ <<SimulationScope>> \in Seq(Scopes)
        BY <1>0
    <2>3. Opened(<<SimulationScope>>)
        BY <2>1 DEF Nesting, Nested
    <2>4. open' = Delegate(TickPath) /\ ~mismatched'
        BY <1>0, <2>1, <2>2, <2>3, EnterOne DEF TickPath
    <2>5. QED
        BY <1>0, <2>1, <2>4, TickPathStays DEF Nesting, Nested, Opened
<1>4. QED
    BY <1>1, <1>2, <1>3

(* The phases of one micro-step. *)
LEMMA MicroStepNesting ==
    ASSUME TypeOK, Timely, Nesting,
           \/ HookedStartSourcePhase
           \/ \E source \in source_batch : HookedFireSource(source)
           \/ HookedStartEventPhase
           \/ \E event \in event_batch : HookedHandleEvent(event)
    PROVE  Nesting'
<1> USE PathType, ScopeType
<1>0. handled_event \subseteq ScheduledEvents /\ ~mismatched
    BY DEF Nesting
<1>1. CASE HookedStartSourcePhase
    <2>1. CASE phase' = "panicked"
        BY <1>1, <2>1, PanicNesting DEF HookedStartSourcePhase, Calling
    <2>2. CASE phase' # "panicked"
        <3>1. /\ phase = "micro_step" /\ phase' = "source_phase"
              /\ UNCHANGED <<handled_event, tick_status, micro_step>>
              /\ Call(<<>>, <<MicroStepScope, SourcePhaseScope>>)
            BY <1>1, <2>2 DEF HookedStartSourcePhase, StartSourcePhase, Panic, Calling
        <3>2. /\ MicroStepScope \in Scopes /\ SourcePhaseScope \in Scopes
              /\ TickPath \in Seq(Scopes) /\ <<>> \in Seq(Scopes) /\ Len(<<>>) = 0
              /\ <<MicroStepScope>> \in Seq(Scopes) /\ <<SourcePhaseScope>> \in Seq(Scopes)
              /\ <<MicroStepScope, SourcePhaseScope>> \in Seq(Scopes)
            BY <1>0
        <3>3. Opened(TickPath)
            BY <3>1 DEF Nesting, Nested
        <3>4. TickPath \o <<>> = TickPath
            BY <3>2, ConcatEmptySeq
        <3>5. \A i \in 1 .. Len(<<>>) : <<>>[Len(<<>>) + 1 - i] = <<>>[i]
            BY <3>2
        <3>6. open = Delegate(TickPath \o <<>>)
            BY <3>3, <3>4 DEF Opened
        <3>7. /\ open' = Delegate(TickPath \o <<MicroStepScope, SourcePhaseScope>>)
              /\ ~mismatched'
            BY <1>0, <3>1, <3>2, <3>5, <3>6, CallNests
        <3>8. TickPath \o <<MicroStepScope, SourcePhaseScope>> = SourcePhasePath
            <4>1. <<MicroStepScope>> \o <<SourcePhaseScope>> = <<MicroStepScope, SourcePhaseScope>>
                BY <3>2, PairConcat
            <4>2. (TickPath \o <<MicroStepScope>>) \o <<SourcePhaseScope>> =
                     TickPath \o (<<MicroStepScope>> \o <<SourcePhaseScope>>)
                BY <3>2, ConcatAssociative
            <4>3. QED
                BY <4>1, <4>2 DEF SourcePhasePath, StepPath
        <3>9. QED
            BY <1>0, <3>1, <3>7, <3>8, PathsStay DEF Nesting, Nested, Opened
    <2>3. QED
        BY <2>1, <2>2
<1>2. ASSUME NEW source \in source_batch, HookedFireSource(source)
      PROVE  Nesting'
    <2>1. /\ phase = "source_phase" /\ phase' = "firing" /\ firing_source' = {source}
          /\ UNCHANGED <<handled_event, tick_status, micro_step>>
          /\ Call(<<>>, <<SourceScope(source)>>)
        BY <1>2 DEF HookedFireSource, FireSource, Calling
    <2>2. SourceScope(source) \in Scopes /\ SourcePhasePath \in Seq(Scopes)
        BY <1>0 DEF TypeOK
    <2>3. Opened(SourcePhasePath)
        BY <2>1 DEF Nesting, Nested
    <2>4. open' = Delegate(SourcePhasePath \o <<SourceScope(source)>>) /\ ~mismatched'
        BY <1>0, <2>1, <2>2, <2>3, EnterOne
    <2>5. SourcePhasePath' = SourcePhasePath /\ SourceScope(source)' = SourceScope(source)
        BY <2>1, PathsStay
    <2>6. QED
        BY <1>0, <2>1, <2>4, <2>5 DEF Nesting, Nested, Opened
<1>3. CASE HookedStartEventPhase
    <2>1. CASE phase' = "panicked"
        BY <1>3, <2>1, PanicNesting DEF HookedStartEventPhase, Calling
    <2>2. CASE phase' # "panicked"
        <3>1. /\ phase = "source_phase" /\ phase' = "event_phase"
              /\ UNCHANGED <<handled_event, tick_status, micro_step>>
              /\ Call(<<SourcePhaseScope>>, <<EventPhaseScope>>)
            BY <1>3, <2>2 DEF HookedStartEventPhase, StartEventPhase, Panic, Calling
        <3>2. /\ SourcePhaseScope \in Scopes /\ StepPath \in Seq(Scopes)
              /\ <<EventPhaseScope>> \in Seq(Scopes)
            BY <1>0
        <3>3. Opened(StepPath \o <<SourcePhaseScope>>)
            BY <3>1 DEF Nesting, Nested, SourcePhasePath
        <3>4. open' = Delegate(StepPath \o <<EventPhaseScope>>) /\ ~mismatched'
            BY <1>0, <3>1, <3>2, <3>3, LeaveOne
        <3>5. open' = Delegate(EventPhasePath)
            BY <3>4 DEF EventPhasePath
        <3>6. QED
            BY <1>0, <3>1, <3>4, <3>5, PathsStay DEF Nesting, Nested, Opened
    <2>3. QED
        BY <2>1, <2>2
<1>4. ASSUME NEW event \in event_batch, HookedHandleEvent(event)
      PROVE  Nesting'
    <2>1. /\ phase = "event_phase" /\ phase' = "handling" /\ handled_event' = {event}
          /\ UNCHANGED <<tick_status, micro_step>>
          /\ Call(<<>>, <<EventScope(event)>>)
        BY <1>4 DEF HookedHandleEvent, HandleEvent
    <2>2. event \in ScheduledEvents
        BY DEF TypeOK
    <2>3. EventScope(event) \in Scopes /\ EventPhasePath \in Seq(Scopes)
        BY <1>0, <2>2
    <2>4. Opened(EventPhasePath)
        BY <2>1 DEF Nesting, Nested
    <2>5. open' = Delegate(HandlingPath(event)) /\ ~mismatched'
        BY <1>0, <2>1, <2>3, <2>4, EnterOne DEF HandlingPath
    <2>6. HandlingPath(event)' = HandlingPath(event)
        BY <2>1, PathsStay
    <2>7. QED
        BY <2>1, <2>2, <2>5, <2>6 DEF Nesting, Nested, Opened
<1>5. QED
    BY <1>1, <1>2, <1>3, <1>4

(* The end of a micro-step, and of a tick. *)
LEMMA EndNesting ==
    ASSUME TypeOK, Timely, Nesting, HookedEndMicroStep \/ HookedEndTick
    PROVE  Nesting'
<1> USE PathType, ScopeType
<1>0. handled_event \subseteq ScheduledEvents /\ ~mismatched
    BY DEF Nesting
<1>1. CASE HookedEndMicroStep
    <2>1. CASE phase' = "panicked"
        BY <1>1, <2>1, PanicNesting DEF HookedEndMicroStep, Silently
    <2>2. CASE phase' # "panicked"
        <3>1. /\ phase = "event_phase" /\ phase' \in {"continue", "end_tick"}
              /\ UNCHANGED <<handled_event, tick_status>>
              /\ Call(<<EventPhaseScope, MicroStepScope>>, <<>>)
            BY <1>1, <2>2 DEF HookedEndMicroStep, EndMicroStep, Panic, MicroStepOver
        <3>2. EventPhaseScope \in Scopes /\ MicroStepScope \in Scopes /\ TickPath \in Seq(Scopes)
            BY <1>0
        <3>3. Opened((TickPath \o <<MicroStepScope>>) \o <<EventPhaseScope>>)
            BY <3>1 DEF Nesting, Nested, EventPhasePath, StepPath
        <3>4. open' = Delegate(TickPath) /\ ~mismatched'
            BY <1>0, <3>1, <3>2, <3>3, LeaveTwo
        <3>5. QED
            BY <1>0, <3>1, <3>4, TickPathStays DEF Nesting, Nested, Opened
    <2>3. QED
        BY <2>1, <2>2
<1>2. CASE HookedEndTick
    <2>1. CASE phase' = "panicked"
        BY <1>2, <2>1, PanicNesting DEF HookedEndTick, Silently
    <2>2. CASE phase' # "panicked"
        <3>1. EndTick
            BY <1>2 DEF HookedEndTick, EndTick
        <3>2. /\ phase = "end_tick"
              /\ phase' = (IF runner_error THEN "stopped" ELSE "peek")
            <4>1. phase = "end_tick"
                BY <3>1 DEF EndTick, EndTickWithIncrementTick, EndTickWithJumpToNextTick
            <4>2. CASE Panic("time overflow")
                BY <2>2, <4>2 DEF Panic
            <4>3. CASE \E next : EndTickWith(next)
                BY <4>1, <4>3 DEF EndTickWith
            <4>4. QED
                BY <3>1, <4>2, <4>3, WaysToEndTick
        <3>3. UNCHANGED handled_event /\ Call(EndingScopes, <<>>)
            BY <1>2, <2>2 DEF HookedEndTick
        <3>4. /\ SimulationScope \in Scopes /\ TickScope \in Scopes
              /\ <<SimulationScope>> \in Seq(Scopes) /\ <<TickScope>> \in Seq(Scopes)
              /\ <<>> \in Seq(Scopes)
            BY <1>0
        <3>5. Opened(<<SimulationScope>> \o <<TickScope>>)
            BY <3>2 DEF Nesting, Nested, TickPath
        <3>6. CASE runner_error
            <4>1. EndingScopes = <<TickScope, SimulationScope>>
                BY <3>4, <3>6, PairConcat DEF EndingScopes
            <4>2. <<>> \o <<SimulationScope>> = <<SimulationScope>>
                BY <3>4, ConcatEmptySeq
            <4>3. Opened((<<>> \o <<SimulationScope>>) \o <<TickScope>>)
                BY <3>5, <4>2
            <4>4. Call(<<TickScope, SimulationScope>>, <<>>)
                BY <3>3, <4>1
            <4>5. open' = Delegate(<<>>) /\ ~mismatched'
                BY <1>0, <3>4, <4>3, <4>4, LeaveTwo
            <4>6. QED
                BY <1>0, <3>2, <3>3, <3>6, <4>5 DEF Nesting, Nested, Opened
        <3>7. CASE ~runner_error
            <4>1. EndingScopes = <<TickScope>>
                BY <3>4, <3>7, ConcatEmptySeq DEF EndingScopes
            <4>2. Call(<<TickScope>>, <<>>)
                BY <3>3, <4>1
            <4>3. open' = Delegate(<<SimulationScope>> \o <<>>) /\ ~mismatched'
                BY <1>0, <3>4, <3>5, <4>2, LeaveOne
            <4>4. open' = Delegate(<<SimulationScope>>)
                BY <3>4, <4>3, ConcatEmptySeq
            <4>5. QED
                BY <1>0, <3>2, <3>3, <3>7, <4>3, <4>4
                   DEF Nesting, Nested, Opened, SimulationScope
        <3>8. QED
            BY <3>6, <3>7
    <2>3. QED
        BY <2>1, <2>2
<1>3. QED
    BY <1>1, <1>2

LEMMA NothingToDelegate == Delegate(<<>>) = <<>>
<1>1. <<>> \in Seq(Scopes) /\ Len(<<>>) = 0
    OBVIOUS
<1>2. 0 * HookCount = 0
    BY HookCountAssumption
<1>3. Delegate(<<>>) \in Seq((1 .. HookCount) \X Scopes) /\ Len(Delegate(<<>>)) = 0
    BY <1>1, <1>2, DelegateIsSeq
<1>4. QED
    BY <1>3, EmptySeq

LEMMA InitNesting == HookedInit => Nesting
BY NothingToDelegate DEF HookedInit, Init, HookInit, Nesting, Nested, Opened

LEMMA StepNesting ==
    ASSUME TypeOK, Timely, Nesting, [HookedNext]_hookedVars
    PROVE  Nesting'
<1>1. CASE UNCHANGED hookedVars
    <2>1. /\ UNCHANGED <<hookVars, handled_event, phase, tick_status, micro_step>>
          /\ UNCHANGED <<reg_slot, source_registry, firing_source>>
        BY <1>1
    <2>2. QED
        BY <2>1, StillNesting
<1>2. CASE HookedNext
    <2>1. CASE SilentUserOperation
        BY <2>1, SilentUserNesting
    <2>2. CASE HookedAddSource \/ HookedUserReturn
        BY <2>2, UserNesting
    <2>3. CASE SilentRunnerStep
        BY <2>3, SilentRunnerNesting
    <2>4. CASE HookedRunnerStep
        BY <2>4, TickLoopNesting, MicroStepNesting, EndNesting DEF HookedRunnerStep
    <2>5. QED
        BY <1>2, <2>1, <2>2, <2>3, <2>4 DEF HookedNext
<1>3. QED
    BY <1>1, <1>2

(* What is open is always exactly what the phase says. *)
THEOREM AlwaysNesting == HookedSpec => []Nesting
<1>1. TypeOK /\ TypeOK' /\ Timely /\ Timely' /\ Nesting /\ [HookedNext]_hookedVars => Nesting'
    BY StepNesting
<1>2. HookedSpec => []TypeOK /\ []Timely
    BY HooksOnlyWatch, TypeCorrect, AlwaysTimely, PTL
<1>3. QED
    BY <1>1, <1>2, InitNesting, PTL DEF HookedSpec

(* What ends is always what began last, for every number of hooks, every        *)
(* strategy and whatever user code does: HookDelegate, and where the engine and *)
(* the phases call it.                                                          *)
THEOREM HooksAlwaysNest == HookedSpec => []HooksNest
<1>1. Nesting => HooksNest
    BY DEF Nesting, HooksNest
<1>2. QED
    BY <1>1, AlwaysNesting, PTL

(* When `run` has returned, with an error of the strategy or without, nothing a *)
(* hook saw begin is still open.                                                *)
THEOREM EveryScopeIsAlwaysClosed == HookedSpec => []EveryScopeIsClosed
<1>1. Nesting => EveryScopeIsClosed
    BY NothingToDelegate DEF Nesting, Nested, Opened, EveryScopeIsClosed
<1>2. QED
    BY <1>1, AlwaysNesting, PTL

(***************************************************************************)
(* The micro-step that `after_tick` is told.                               *)
(***************************************************************************)

(* When the micro-step loop is left without an error, the micro-step is still *)
(* the one that ended last.                                                   *)
Told ==
    /\ phase = "end_tick" /\ ~runner_error => ran_micro_step = micro_step
    /\ phase \in {"configure", "registering", "peek", "stopped"} /\ ~runner_error =>
          told_micro_step = ran_micro_step

LEMMA UserTold ==
    ASSUME Told, SilentUserOperation \/ HookedAddSource \/ HookedUserReturn
    PROVE  Told'
<1>1. CASE SilentUserOperation
    <2>1. /\ UNCHANGED toldVars
          /\ UNCHANGED <<phase, micro_step, runner_error>> \/ phase' = "panicked"
        BY <1>1 DEF SilentUserOperation, Silently, Configure, ScheduleEventAt, AddEngineSource,
                    ContextScheduleEvent, CancelScheduledEvents, CancelScheduledSources, Panic
    <2>2. QED
        BY <2>1 DEF Told
<1>2. CASE HookedAddSource
    BY <1>2 DEF HookedAddSource, ContextAddSource, Calling, Told
<1>3. CASE HookedUserReturn
    <2>1. ASSUME NEW delay, HookedRegisterSource(delay)
          PROVE  Told'
        BY <2>1 DEF HookedRegisterSource, RegisterSource, Calling, Told
    <2>2. ASSUME NEW delay, HookedFinishAddSource(delay)
          PROVE  Told'
        BY <2>2 DEF HookedFinishAddSource, FinishAddSource, Panic, Calling, Told
    <2>3. ASSUME NEW delay, HookedFinishFire(delay)
          PROVE  Told'
        <3>1. phase' \in {"panicked", "source_phase"}
            BY <2>3 DEF HookedFinishFire, FinishFire, Panic
        <3>2. QED
            BY <3>1 DEF Told
    <2>4. ASSUME NEW event, HookedFinishHandleEvent(event)
          PROVE  Told'
        BY <2>4 DEF HookedFinishHandleEvent, FinishHandleEvent, Told
    <2>5. QED
        BY <1>3, <2>1, <2>2, <2>3, <2>4 DEF HookedUserReturn
<1>4. QED
    BY <1>1, <1>2, <1>3

LEMMA RunnerTold ==
    ASSUME TypeOK, Timely, Told, SilentRunnerStep \/ HookedRunnerStep
    PROVE  Told'
<1>1. CASE SilentRunnerStep
    <2>1. CASE FinishRegistration
        BY <1>1, <2>1 DEF SilentRunnerStep, Silently, FinishRegistration, Told
    <2>2. CASE ContinueMicroSteps
        BY <2>2 DEF ContinueMicroSteps, Told
    <2>3. CASE DiscardAtLimit
        <3>1. phase = "continue"
            BY <2>3, Zenon DEF DiscardAtLimit
        <3>2. phase' = (IF runner_error' THEN "end_tick" ELSE "micro_step")
            BY <2>3, <3>1, NotOverdue, Zenon DEF DiscardAtLimit
        <3>3. QED
            BY <3>2 DEF Told
    <2>4. QED
        BY <1>1, <2>1, <2>2, <2>3 DEF SilentRunnerStep
<1>2. CASE HookedBeginSimulation
    BY <1>2 DEF HookedBeginSimulation, BeginSimulation, Calling, Told
<1>3. CASE HookedStopRun
    BY <1>3 DEF HookedStopRun, StopRun, Calling, Told
<1>4. CASE HookedBeginTick
    BY <1>4 DEF HookedBeginTick, BeginTick, Told
<1>5. CASE HookedStartSourcePhase
    BY <1>5 DEF HookedStartSourcePhase, StartSourcePhase, Panic, Told
<1>6. ASSUME NEW source, HookedFireSource(source)
      PROVE  Told'
    BY <1>6 DEF HookedFireSource, FireSource, Told
<1>7. CASE HookedStartEventPhase
    BY <1>7 DEF HookedStartEventPhase, StartEventPhase, Panic, Told
<1>8. ASSUME NEW event, HookedHandleEvent(event)
      PROVE  Told'
    BY <1>8 DEF HookedHandleEvent, HandleEvent, Told
<1>9. CASE HookedEndMicroStep
    <2>1. CASE phase' \in {"panicked", "continue"}
        BY <2>1 DEF Told
    <2>2. CASE phase' \notin {"panicked", "continue"}
        BY <1>9, <2>2 DEF HookedEndMicroStep, EndMicroStep, Panic, Told
    <2>3. QED
        BY <2>1, <2>2
<1>10. CASE HookedEndTick
    <2>1. CASE phase' = "panicked"
        BY <2>1 DEF Told
    <2>2. CASE phase' # "panicked"
        <3>1. EndTick /\ told_micro_step' = micro_step /\ UNCHANGED ran_micro_step
            BY <1>10, <2>2 DEF HookedEndTick, EndTick, LastMicroStep
        <3>2. phase = "end_tick"
            BY <3>1 DEF EndTick, EndTickWithIncrementTick, EndTickWithJumpToNextTick
        <3>3. UNCHANGED runner_error
            <4>1. CASE Panic("time overflow")
                BY <2>2, <4>1 DEF Panic
            <4>2. CASE \E next : EndTickWith(next)
                BY <4>2 DEF EndTickWith
            <4>3. QED
                BY <3>1, <4>1, <4>2, WaysToEndTick
        <3>4. phase' \in {"peek", "stopped"}
            <4>1. CASE Panic("time overflow")
                BY <2>2, <4>1 DEF Panic
            <4>2. CASE \E next : EndTickWith(next)
                BY <4>2 DEF EndTickWith
            <4>3. QED
                BY <3>1, <4>1, <4>2, WaysToEndTick
        <3>5. QED
            BY <3>1, <3>2, <3>3, <3>4 DEF Told
    <2>3. QED
        BY <2>1, <2>2
<1>11. QED
    BY <1>1, <1>2, <1>3, <1>4, <1>5, <1>6, <1>7, <1>8, <1>9, <1>10 DEF HookedRunnerStep

(* `after_tick` is told the micro-step that ended last, though `end_micro_step`  *)
(* advances the status it hands over whenever the tick goes on.                  *)
THEOREM LastMicroStepIsAlwaysTold == HookedSpec => []LastMicroStepIsTold
<1>1. HookedInit => Told
    BY DEF HookedInit, Init, Told
<1>2. TypeOK /\ Timely /\ Told /\ [HookedNext]_hookedVars => Told'
    <2> SUFFICES ASSUME TypeOK, Timely, Told, [HookedNext]_hookedVars
                 PROVE  Told'
        OBVIOUS
    <2>1. CASE UNCHANGED hookedVars
        BY <2>1 DEF Told
    <2>2. CASE HookedNext
        BY <2>2, UserTold, RunnerTold DEF HookedNext
    <2>3. QED
        BY <2>1, <2>2
<1>3. HookedSpec => []TypeOK /\ []Timely
    BY HooksOnlyWatch, TypeCorrect, AlwaysTimely, PTL
<1>4. Told => LastMicroStepIsTold
    BY DEF Told, LastMicroStepIsTold
<1>5. QED
    BY <1>1, <1>2, <1>3, <1>4, PTL DEF HookedSpec
==============================================================================
