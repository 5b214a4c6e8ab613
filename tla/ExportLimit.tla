----------------------------- MODULE ExportLimit -----------------------------
(***************************************************************************)
(* The feed-in limitation: BatteryControl.set_export_limit                 *)
(* (sungrow_inverter/control.py).  The inverter has one limit in two       *)
(* registers, watts and a ratio of its nominal power, and an enable.  On   *)
(* some units the two mirror each other, on others the ratio takes         *)
(* precedence over the watts.                                              *)
(*                                                                         *)
(* A call runs under the control lock on a cache that holds what the       *)
(* inverter answers (FreshMatchesWire of BatteryControl), so there is one  *)
(* call at a time, and the cache is what the call found or read back.      *)
(*                                                                         *)
(* A ratio is a number of tenths of a percent.                             *)
(***************************************************************************)
EXTENDS Integers, Sequences

CONSTANTS
    Nominal,  \* the nominal power, in W, or 0 when it is unknown
    Low,      \* the range of export limits, in W
    High,
    Limits,   \* the limits callers ask for, in W
    HalfUp,   \* of those half-way between two ratios, the ones round() takes up
    Ratios,   \* the ratios a unit that does not mirror may start with
    None      \* Python's None

Full == 1000

ASSUME RangeAssumption ==
    /\ {Nominal, Low, High} \cup Limits \subseteq Nat
    /\ Ratios \subseteq 0..Full
    /\ None \notin Nat

VARIABLES
    mirrors,  \* whether the inverter's registers mirror each other
    wire,     \* the registers: watts, ratio, enabled
    cache,    \* what the call in progress, or the last one, read
    request,  \* the limit asked for, and whether it is to be enabled
    plan,     \* the steps of the call, in write order
    next,     \* the index of its next step
    stage     \* where the call is, or how the last one ended

vars == <<mirrors, wire, cache, request, plan, next, stage>>

Requests == [limit : Limits \cup {None}, on : BOOLEAN]
Ended    == {"idle", "verified", "unchanged", "out_of_range", "failed", "mismatch"}

(***************************************************************************)
(* Ratios.  Python rounds to the nearest tenth; one half-way between two   *)
(* goes up or down as its nearest binary fraction has it, every time.      *)
(***************************************************************************)
Least(a, b) == IF a <= b THEN a ELSE b
Down(a, b)    == {a \div b}
Nearest(a, b) == {n \in {a \div b, (a \div b) + 1} : 2 * ((n * b) - a) \in (-b)..b}

\* The ratio of a limit.
Implied(w) ==
    LET cut  == (Full * w) \div Nominal
        over == 2 * (Full * w - cut * Nominal) - Nominal
    IN  Least(Full, IF over > 0 \/ (over = 0 /\ w \in HalfUp) THEN cut + 1 ELSE cut)

\* The ratios and the watts of an inverter that rounds or cuts off.
RatioOf(w) ==
    {Least(Full, n) : n \in Nearest(Full * w, Nominal) \cup Down(Full * w, Nominal)}
WattsOf(r) == Nearest(r * Nominal, Full) \cup Down(r * Nominal, Full)

\* Mutant of Agree: no tolerance.
AgreeExactly(r, s) == r = s

\* RATIO_TOLERANCE_PCT = 0.15: ratios one tenth apart agree, two do not.
Agree(r, s) == (r - s) \in (-1)..1

(***************************************************************************)
(* The inverter.                                                           *)
(***************************************************************************)
\* The registers after a write.
After(step) ==
    LET plain == [wire EXCEPT ![step.field] = step.target]
    IN  CASE mirrors /\ step.field = "watts" ->
                {[plain EXCEPT !.ratio = r] : r \in RatioOf(step.target)}
          [] mirrors /\ step.field = "ratio" ->
                {[plain EXCEPT !.watts = w] : w \in WattsOf(step.target)}
          [] OTHER -> {plain}

\* The power the registers w let out.
Cap(w) ==
    IF ~w.enabled THEN High
    ELSE IF mirrors \/ w.ratio = None \/ Nominal = 0 THEN w.watts
    ELSE Least(High, (w.ratio * Nominal) \div Full)

(***************************************************************************)
(* The plan.                                                               *)
(***************************************************************************)
Step(f, v) == [field |-> f, target |-> v]

\* Mutants of Ratio: the ratio is left alone, or raised out of the way.
NoRatio(limit, view)    == << >>
RaiseRatio(limit, view) ==
    IF view.ratio \notin {None, Full} THEN <<Step("ratio", Full)>> ELSE << >>

\* The ratio is aligned when it disagrees with the limit.
Ratio(limit, view) ==
    IF view.ratio # None /\ Nominal # 0 /\ ~Agree(view.ratio, Implied(limit))
    THEN <<Step("ratio", Implied(limit))>>
    ELSE << >>

\* Mutants of LimitSteps: the enable comes first; the ratio comes last.
EnableFirst(ratio, limit, on) ==
    <<Step("enabled", on)>> \o ratio \o <<Step("watts", limit)>>
RatioLast(ratio, limit, on) ==
    <<Step("watts", limit)>> \o ratio \o <<Step("enabled", on)>>

LimitSteps(ratio, limit, on) ==
    ratio \o <<Step("watts", limit), Step("enabled", on)>>

Plan(r, view) ==
    IF r.limit = None THEN <<Step("enabled", FALSE)>>
    ELSE LimitSteps(IF r.on THEN Ratio(r.limit, view) ELSE << >>, r.limit, r.on)

InRange(r) == r.limit # None => r.limit \in Low..High

Satisfied(step, view) ==
    IF step.field = "ratio"
    THEN view.ratio # None /\ Agree(view.ratio, step.target)
    ELSE view[step.field] = step.target

(***************************************************************************)
(* The call.                                                               *)
(***************************************************************************)
Registers == [watts : Limits \cup {High}, ratio : {None}, enabled : BOOLEAN]

\* A plain unit holds any ratio, or none; a mirroring one that of its watts.
Init ==
    /\ mirrors \in IF Nominal = 0 THEN {FALSE} ELSE BOOLEAN
    /\ \E w \in Registers :
        \E r \in IF mirrors THEN RatioOf(w.watts) ELSE {None} \cup Ratios :
            wire = [w EXCEPT !.ratio = r]
    /\ cache = wire
    /\ request = [limit |-> None, on |-> FALSE]
    /\ plan = << >>
    /\ next = 1
    /\ stage = "idle"

Call ==
    /\ stage \in Ended
    /\ request' \in Requests
    /\ cache' = wire
    /\ next' = 1
    /\ IF InRange(request')
       THEN plan' = Plan(request', wire) /\ stage' = "writing"
       ELSE plan' = << >> /\ stage' = "out_of_range"
    /\ UNCHANGED <<mirrors, wire>>

\* The registers could not be read: the call ends before it plans.
CallUnread ==
    /\ stage \in Ended
    /\ request' \in Requests
    /\ plan' = << >>
    /\ next' = 1
    /\ stage' = "failed"
    /\ UNCHANGED <<mirrors, wire, cache>>

Skip ==
    /\ stage = "writing"
    /\ next <= Len(plan)
    /\ Satisfied(plan[next], cache)
    /\ next' = next + 1
    /\ UNCHANGED <<mirrors, wire, cache, request, plan, stage>>

Writes == stage = "writing" /\ next <= Len(plan) /\ ~Satisfied(plan[next], cache)

Write ==
    /\ Writes
    /\ wire' \in After(plan[next])
    /\ next' = next + 1
    /\ UNCHANGED <<mirrors, cache, request, plan, stage>>

\* Refused, or unanswered and perhaps taken.
WriteFails ==
    /\ Writes
    /\ wire' \in After(plan[next]) \cup {wire}
    /\ stage' = "failed"
    /\ UNCHANGED <<mirrors, cache, request, plan, next>>

\* A plan with a step that differed from the cache wrote something.
Wrote == \E i \in DOMAIN plan : ~Satisfied(plan[i], cache)

ReadBack ==
    /\ stage = "writing"
    /\ next > Len(plan)
    /\ IF Wrote
       THEN /\ cache' = wire
            /\ stage' = IF \A i \in DOMAIN plan : Satisfied(plan[i], wire)
                        THEN "verified" ELSE "mismatch"
       ELSE stage' = "unchanged" /\ UNCHANGED cache
    /\ UNCHANGED <<mirrors, wire, request, plan, next>>

ReadBackFails ==
    /\ stage = "writing"
    /\ next > Len(plan)
    /\ Wrote
    /\ stage' = "failed"
    /\ UNCHANGED <<mirrors, wire, cache, request, plan, next>>

Next == Call \/ CallUnread \/ Skip \/ Write \/ WriteFails \/ ReadBack \/ ReadBackFails

Spec == Init /\ [][Next]_vars

(***************************************************************************)
(* Properties.                                                             *)
(***************************************************************************)
\* How far the ratio of a limit may be from it: half a tenth by rounding, and
\* one tenth that passes for the same.
Slack == (3 * Nominal) \div (2 * Full) + 1

\* A ratio cannot ask for more than the nominal power.
AsRatio(limit) == IF Nominal = 0 THEN limit ELSE Least(limit, Nominal)

Caps(w, limit) == Cap(w) \in (AsRatio(limit) - Slack)..(limit + Slack)

\* "Enabling never applies a stale limit": when the limitation goes on, what it
\* lets out is the limit of the call that turned it on.
EnablingAppliesTarget ==
    [][~wire.enabled /\ wire'.enabled => Caps(wire', request.limit)]_vars

\* No prefix of a call that sets a limit lets out more than the old limit or
\* the new one, whatever the two registers do to each other.
CapStaysBelow ==
    [][wire' # wire /\ request.on /\ request.limit # None =>
          Cap(wire') <= Cap(wire) \/ Cap(wire') <= request.limit + Slack]_vars

\* "Both registers cap identically": a limit that was verified, or found set,
\* is in force on a unit that mirrors and on one that does not.
LimitInForce ==
    stage \in {"verified", "unchanged"} /\ request.limit # None /\ request.on =>
        wire.enabled /\ Caps(wire, request.limit)

\* On an inverter that takes its writes a call is never reported as a mismatch,
\* however the unit rounds the register the call did not write last.
NeverMismatch == stage # "mismatch"

\* A call that was verified has nothing to write when it is repeated.
RepeatWritesNothing ==
    stage = "verified" =>
        LET again == Plan(request, wire)
        IN  \A i \in DOMAIN again : Satisfied(again[i], wire)
=============================================================================
