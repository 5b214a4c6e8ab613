----------------------------- MODULE BatteryPlan -----------------------------
(***************************************************************************)
(* The pure part of the guarded write layer (sungrow_inverter/control.py): *)
(* the registers a call may write, the ordered plan for a request, when a  *)
(* step counts as satisfied, and the battery mode the settings imply.      *)
(*                                                                         *)
(* A register is named by its field; its value is a number of watts, an    *)
(* enumeration member or a boolean, already at register resolution.  A     *)
(* "view" of the registers is a function from fields to values: the wire,  *)
(* or the last-polled cache, where None means never read (or a word with   *)
(* no meaning).                                                            *)
(***************************************************************************)
EXTENDS Naturals, Sequences

CONSTANTS
    Full,    \* battery_max_power_w: the limit a plan restores, in W
    Fence,   \* fence_power_w: a limit at or below it counts as fenced, in W
    None     \* Python's None

\* _limits: a plan is only made when the fence does not exceed the limit.
ASSUME LimitsAssumption ==
    /\ Full \in Nat
    /\ Fence \in Nat
    /\ Fence <= Full

Limits   == {"max_charge_power", "max_discharge_power"}
Powers   == Limits \cup {"forced_power"}
Fields   == Powers \cup {"charge_command", "ems_mode",
                         "pv_power_limitation"}
Commands == {"charge", "discharge", "stop"}
EmsModes == {"self_consumption", "compulsory", "external_ems", "vpp"}

\* The values a field's register can hold.
ValuesOf(f) ==
    IF f = "charge_command" THEN Commands
    ELSE IF f = "ems_mode" THEN EmsModes
    ELSE IF f = "pv_power_limitation" THEN BOOLEAN
    ELSE Nat

ASSUME NoneAssumption == \A f \in Fields : None \notin ValuesOf(f)

Components   == {"battery_limits", "settings"}
Component(f) == IF f \in Limits THEN "battery_limits" ELSE "settings"

(***************************************************************************)
(* Requests.  A call asks for one of the battery modes apply() accepts,    *)
(* for PV generation to be limited or allowed, or for a start or a stop.   *)
(***************************************************************************)
ForcedModes  == {"forced_charge", "forced_discharge"}
FencedModes  == {"no_charge", "no_discharge", "hold"}
DesiredModes == ForcedModes \cup FencedModes \cup {"self_consumption"}
PvRequests   == {"pv_limit", "pv_allow"}
PowerButtons == {"start", "stop"}

AllRequests ==
    [what : DesiredModes \cup PvRequests \cup PowerButtons,
     power : Nat \cup {None}, verify : BOOLEAN]

\* Mutant of PowerInRange: any power is planned with, even none.
PowerUnchecked(r) == TRUE

\* _power: a forced mode needs a power between 0 and the full power.
PowerInRange(r) ==
    r.what \in ForcedModes => r.power # None /\ r.power <= Full

\* The command a forced mode puts in the charge_command register.
CommandOf(what) == IF what = "forced_charge" THEN "charge" ELSE "discharge"

\* The components a call compares against, so re-reads when they are stale.
Needed(r) ==
    {k \in Components : \/ r.what \in DesiredModes
                        \/ r.what \in PvRequests /\ k = "settings"}

(***************************************************************************)
(* Steps and plans.                                                        *)
(***************************************************************************)
IsStep(s) ==
    /\ s.field \in Fields
    /\ s.target \in ValuesOf(s.field)
    /\ s.atOrBelow \in BOOLEAN

IsPlan(steps) ==
    /\ Len(steps) \in Nat
    /\ DOMAIN steps = 1..Len(steps)
    /\ \A i \in DOMAIN steps : IsStep(steps[i])

Exactly(f, v) == [field |-> f, target |-> v,     atOrBelow |-> FALSE]
FenceOff(f)   == [field |-> f, target |-> Fence, atOrBelow |-> TRUE]

\* Mutant of NotSelfConsumption: compulsory mode is forgotten.
ExternallyForced == {"external_ems", "vpp"}

\* The modes a return to self-consumption leaves before it restores.
NotSelfConsumption == {"compulsory", "external_ems", "vpp"}

Restore == <<Exactly("max_charge_power", Full),
             Exactly("max_discharge_power", Full)>>
ToSelf  == <<Exactly("ems_mode", "self_consumption")>>

\* Mutant of StopBefore: the new direction is written over the old one.
NoStopBefore(command, view) == << >>

\* Reversing a forced mode that is running goes through a STOP first.
StopBefore(command, view) ==
    IF view["ems_mode"] = "compulsory" /\ view["charge_command"] # command
    THEN <<Exactly("charge_command", "stop")>>
    ELSE << >>

\* Mutant of ForceSteps: the mode is entered before its setpoint is written.
ForceModeFirst(command, power) ==
    <<Exactly("ems_mode", "compulsory"),
      Exactly("forced_power", power),
      Exactly("charge_command", command)>>

ForceSteps(command, power) ==
    <<Exactly("forced_power", power),
      Exactly("charge_command", command),
      Exactly("ems_mode", "compulsory")>>

ForcePlan(command, power, view) ==
    Restore \o StopBefore(command, view) \o ForceSteps(command, power)

\* Leaving a forced mode comes before the restore, unlike entering one.
SelfPlan(view) ==
    IF view["ems_mode"] \in NotSelfConsumption
    THEN ToSelf \o Restore
    ELSE Restore \o ToSelf

\* Mutant of StopOnly: the fence is written before the other limit is restored.
FenceBeforeRestore(fenced, other) == <<FenceOff(fenced), Exactly(other, Full)>> \o ToSelf

\* Stopping one direction restores the other limit before it fences its own.
StopOnly(fenced, other) == <<Exactly(other, Full), FenceOff(fenced)>> \o ToSelf

StopBoth == <<FenceOff("max_charge_power"), FenceOff("max_discharge_power")>> \o ToSelf

PvPlan(what) == <<Exactly("pv_power_limitation", what = "pv_limit")>>

\* _plan and set_pv_limitation: the register targets a request needs, in write
\* order.
Plan(r, view) ==
    [self_consumption |-> SelfPlan(view),
     forced_charge    |-> ForcePlan("charge", r.power, view),
     forced_discharge |-> ForcePlan("discharge", r.power, view),
     no_charge        |-> StopOnly("max_charge_power", "max_discharge_power"),
     no_discharge     |-> StopOnly("max_discharge_power", "max_charge_power"),
     hold             |-> StopBoth,
     pv_limit         |-> PvPlan(r.what),
     pv_allow         |-> PvPlan(r.what)][r.what]

\* _satisfied: the current value needs no write, or verifies one.
Satisfied(step, current) ==
    /\ current # None
    /\ IF step.atOrBelow THEN current <= step.target ELSE current = step.target

\* The components a plan writes or skips: what a read-back reads again.
Touched(steps) == {Component(steps[i].field) : i \in DOMAIN steps}

\* Mutant of FinalSteps: only the step written last is verified.
LastStepOnly(steps) == {steps[i] : i \in {Len(steps)}}

\* The steps a read-back verifies: the last one of each field.
FinalSteps(steps) ==
    {steps[i] : i \in {j \in DOMAIN steps :
                          \A k \in DOMAIN steps :
                              k > j => steps[k].field # steps[j].field}}

(***************************************************************************)
(* effective_mode: the battery mode a view of the registers implies.       *)
(* seen is the last-polled running state, recent tells whether an EMS mode *)
(* write of ours was answered within the grace period.                     *)
(***************************************************************************)
ForcedStates == {"compulsory_mode", "external_ems"}

CommandedMode(command) ==
    CASE command = "charge"    -> "forced_charge"
      [] command = "discharge" -> "forced_discharge"
      [] command = "stop"      -> "forced_stop"
      [] OTHER                 -> "inconsistent"

\* A limit at or below the fence stops that direction.
LimitedMode(charge, discharge) ==
    IF None \in {charge, discharge} THEN "inconsistent"
    ELSE CASE charge <= Fence /\ discharge <= Fence -> "hold"
           [] charge <= Fence /\ discharge > Fence  -> "no_charge"
           [] charge > Fence /\ discharge <= Fence  -> "no_discharge"
           [] OTHER                                  -> "self_consumption"

EffectiveMode(view, seen, recent) ==
    CASE view["ems_mode"] = None -> None
      [] view["ems_mode"] = "compulsory" -> CommandedMode(view["charge_command"])
      [] view["ems_mode"] \in {"external_ems", "vpp"} -> view["ems_mode"]
      [] OTHER ->
            IF seen \in ForcedStates /\ ~recent
            THEN "inconsistent"
            ELSE LimitedMode(view["max_charge_power"], view["max_discharge_power"])

\* Mutant of Doubted: the EMS word is always trusted.
NeverDoubted(step, view, seen, recent) == FALSE

\* _doubted: a matching EMS word is not trusted while the state contradicts it.
Doubted(step, view, seen, recent) ==
    /\ step.field = "ems_mode"
    /\ EffectiveMode(view, seen, recent) = "inconsistent"
=============================================================================
