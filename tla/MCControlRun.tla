----------------------------- MODULE MCControlRun -----------------------------
(***************************************************************************)
(* Small instances of ControlRun for TLC.                                  *)
(***************************************************************************)
EXTENDS ControlRun, TLC

Symmetry == Permutations(Callers)

Ask(what, power) == [what |-> what, power |-> power, verify |-> TRUE]

Charge    == Ask("forced_charge", 1)
Restoring == Ask("self_consumption", None)
NoCharge  == Ask("no_charge", None)
Shutdown  == Ask("stop", None)
Unread    == [NoCharge EXCEPT !.verify = FALSE]

\* stop_inverter, as async_stop_inverter calls it.
StopInverter == <<Restoring, Shutdown>>

AllCalls == {Charge, Restoring, NoCharge, Unread, Shutdown}

\* Services that undo one another, and ones that are and are not read back.
StopAndForce == {<<Charge>>, StopInverter}
StopOrFence  == {StopInverter, <<Unread>>}

\* An inverter left in self-consumption, and one left discharging by force.
Wire(command, mode) ==
    [f \in Fields |->
        CASE f \in Limits          -> Full
          [] f = "forced_power"    -> 1
          [] f = "charge_command"  -> command
          [] f = "ems_mode"        -> mode
          [] OTHER                 -> FALSE]
ForcedWire == {Wire("discharge", "compulsory")}
RestWire   == {Wire("stop", "self_consumption")}
=============================================================================
