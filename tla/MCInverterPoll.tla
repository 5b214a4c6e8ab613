---------------------------- MODULE MCInverterPoll ----------------------------
(***************************************************************************)
(* A small instance of InverterPoll and Entities for TLC: two components   *)
(* of the realtime poll, two of the settings poll, one of them optional.   *)
(***************************************************************************)
EXTENDS Entities

RealtimePart == <<"ac_dc", "flows">>
SlowPart     == <<"settings", "start_power">>

Serve(identity, ratings, firmware, ac_dc, flows, settings, start) ==
    [k \in Blocks |->
        CASE k = "identity"    -> identity
          [] k = "ratings"     -> ratings
          [] k = "firmware"    -> firmware
          [] k = "ac_dc"       -> ac_dc
          [] k = "flows"       -> flows
          [] k = "settings"    -> settings
          [] k = "start_power" -> start]

\* The flows stand for themselves, and one component for the rest of its poll.
Standing ==
    [k \in RealtimeNames \cup SlowNames |->
        CASE k = "flows"                 -> "flows"
          [] k \in OptionalNames         -> "start_power"
          [] k \in SlowNames \ OptionalNames -> "settings"
          [] OTHER                       -> "ac_dc"]

\* A dongle that serves the holes, stricter ones, and another model.
Some ==
    {Serve("merged", "merged", "blank", "merged", "narrow", "merged", "none"),
     Serve("narrow", "none", "none", "narrow", "merged", "narrow", "narrow"),
     Serve("foreign", "merged", "merged", "merged", "merged", "merged", "merged")}
=============================================================================
