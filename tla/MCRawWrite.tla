------------------------------ MODULE MCRawWrite ------------------------------
(***************************************************************************)
(* Small instances of RawWrite for TLC: an entity sets the charge limit    *)
(* that the services fence and restore.                                    *)
(***************************************************************************)
EXTENDS RawWrite, TLC

Ask(what) == [what |-> what, power |-> None, verify |-> TRUE]

FencingCalls    == {Ask("no_charge"), Ask("self_consumption")}
FencingServices == {<<r>> : r \in FencingCalls}
LimitSettings   == {[field |-> "max_charge_power", value |-> v] : v \in {Fence, Full}}

RestWire ==
    {[f \in Fields |->
        CASE f \in Limits          -> Full
          [] f = "forced_power"    -> 1
          [] f = "charge_command"  -> "stop"
          [] f = "ems_mode"        -> "self_consumption"
          [] OTHER                 -> FALSE]}
=============================================================================
