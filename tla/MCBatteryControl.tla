--------------------------- MODULE MCBatteryControl ---------------------------
(***************************************************************************)
(* Small instances of BatteryControl for TLC.                              *)
(***************************************************************************)
EXTENDS BatteryControl, TLC

Symmetry == Permutations(Callers)

Ask(what, power, verify) == [what |-> what, power |-> power, verify |-> verify]

Plain(what)  == Ask(what, None, TRUE)
Charge(p)    == Ask("forced_charge", p, TRUE)
Discharge(p) == Ask("forced_discharge", p, TRUE)

\* Registers that differ where the plans do: both limits at and around the
\* fence, both directions, in and out of the forced modes.
Registers(limits, powers, commands, modes) ==
    {[f \in Fields |->
        CASE f = "max_charge_power"    -> charge
          [] f = "max_discharge_power" -> discharge
          [] f = "forced_power"        -> power
          [] f = "charge_command"      -> command
          [] f = "ems_mode"            -> mode
          [] OTHER                     -> FALSE] :
     charge \in limits, discharge \in limits, power \in powers,
     command \in commands, mode \in modes}

\* Every battery mode, and a forced one without its power, from every kind of register file.
AllModes == {Charge(1), Discharge(2), Plain("forced_charge"), Plain("self_consumption"),
             Plain("no_charge"), Plain("no_discharge"), Plain("hold")}
AllWires == Registers({Fence, Full}, {1}, {"charge", "stop"},
                      {"self_consumption", "compulsory", "vpp"})

\* Calls that force, fence and limit, and so read each other's registers.
RacingModes == {Charge(1), Plain("no_charge"), Plain("pv_limit")}
RacingWires == Registers({Full}, {2}, {"stop"}, {"self_consumption"})

\* The other calls, a power out of range, and two that leave a forced mode.
OtherCalls == {Plain("pv_limit"), Plain("pv_allow"), Plain("stop"), Plain("start"),
               Charge(3), Plain("self_consumption"), Plain("hold")}

\* Two calls that reverse one another, one of them not read back.
UnverifiedCalls == {Charge(1), Ask("forced_discharge", 2, FALSE)}

\* Registers in and out of a forced mode, for a link that does not forward the
\* EMS mode register.
DoubtWires == Registers({Full}, {2}, {"charge"}, {"self_consumption", "compulsory"})
=============================================================================
