------------------------------- MODULE Entities -------------------------------
(***************************************************************************)
(* The entities of a loaded entry over the polls of InverterPoll: which    *)
(* descriptions the platforms (sensor.py, binary_sensor.py, number.py,     *)
(* switch.py, select.py, button.py) make entities of, and when one is      *)
(* available (entity.py).                                                  *)
(*                                                                         *)
(* Descriptions that differ only in the field they read are one here; the  *)
(* MPPT count only leaves out sensors of a component that has others.      *)
(*                                                                         *)
(* An instance has a few components to a poll; each stands for several of  *)
(* the inverter's, which are polled alike, so that every description is    *)
(* one over the instance.                                                  *)
(***************************************************************************)
EXTENDS InverterPoll

CONSTANT StandsFor  \* the component of the instance for each of the inverter's

\* What the two polls of the inverter read, and may find not served.
RealtimeNames ==
    {"ac_dc", "flows", "grid_phases", "meter", "backup", "battery", "battery_power"}
SlowNames     == {"settings", "battery_limits", "energy", "start_power", "apl_shadow", "alarms"}
OptionalNames == {"start_power", "apl_shadow", "alarms"}

ASSUME StandsForAssumption ==
    /\ StandsFor \in [RealtimeNames \cup SlowNames -> ToSet(Realtime) \cup ToSet(Slow)]
    /\ \A k \in RealtimeNames : StandsFor[k] \in ToSet(Realtime) \ ToSet(Slow)
    /\ \A k \in SlowNames : StandsFor[k] \in ToSet(Slow) \ ToSet(Realtime)
    /\ \A k \in SlowNames : k \in OptionalNames <=> StandsFor[k] \in Optional

VARIABLE entities  \* the descriptions that have entities

(***************************************************************************)
(* Descriptions: the components named in the update report, the            *)
(* coordinator, and what must be there for the entity to exist: nothing, a *)
(* component, or the active power limit read by the time of the set-up.    *)
(***************************************************************************)
LimitRead == "limit_read"

Description(platform, names, poll, needs) ==
    [platform |-> platform, names |-> names, poll |-> poll, needs |-> needs]

Each(platform, components, poll) == {Description(platform, {k}, poll, None) : k \in components}

\* Sensors whose component may be dropped at setup exist only with it; the blocks
\* read at setup are in no report.
Optionals(platform, components) == {Description(platform, {k}, "settings", k) : k \in components}
AtSetup(components) == {Description("sensor", {}, "settings", k) : k \in components}

PowerSensors ==
    Each("sensor", {"ac_dc", "grid_phases", "battery_power", "flows", "meter", "backup"},
         "realtime")

ElectricalSensors == Each("sensor", {"ac_dc", "grid_phases", "backup", "battery"}, "realtime")

BatterySensors == Each("sensor", {"battery"}, "realtime") \cup Each("sensor", {"energy"}, "settings")

StateSensors ==
    Each("sensor", {"flows"}, "realtime") \cup Each("sensor", {"energy"}, "settings")
    \cup {Description("sensor", {"settings", "battery_limits"}, "settings", None)}

EnergySensors == Each("total", {"energy"}, "settings")

\* Mutant of MirrorSensors: without their poll they are of the default one.
RealtimeMirrors ==
    Each("sensor", {"settings"}, "realtime") \cup Optionals("sensor", {"start_power"})
    \cup AtSetup({"ratings", "firmware"}) \cup {Description("sensor", {}, "settings", None)}

MirrorSensors ==
    Each("sensor", {"settings"}, "settings") \cup Optionals("sensor", {"start_power"})
    \cup AtSetup({"ratings", "firmware"}) \cup {Description("sensor", {}, "settings", None)}

AlarmSensors == Optionals("sensor", {"alarms"})

BinarySensors ==
    Each("binary_sensor", {"flows"}, "realtime")
    \cup {Description("binary_sensor", {"flows", "ac_dc"}, "realtime", None)}
    \cup Optionals("binary_sensor", {"alarms", "apl_shadow"})

Numbers ==
    Each("number", {"settings", "battery_limits"}, "settings")
    \cup {Description("number", {"settings"}, "settings", LimitRead)}

Switches ==
    Each("switch", {"settings"}, "settings")
    \cup {Description("switch", {"settings"}, "settings", LimitRead)}

Selects == Each("select", {"settings"}, "settings")

Buttons == {Description("button", {}, "realtime", None)}

Sensors ==
    PowerSensors \cup ElectricalSensors \cup BatterySensors \cup StateSensors
    \cup EnergySensors \cup MirrorSensors \cup AlarmSensors

Descriptions == Sensors \cup BinarySensors \cup Numbers \cup Switches \cup Selects \cup Buttons

\* All of them, over the components of the instance.
Described ==
    {[d EXCEPT !.names = {StandsFor[k] : k \in @},
               !.needs = IF @ \in DOMAIN StandsFor THEN StandsFor[@] ELSE @]
        : d \in Descriptions}

(***************************************************************************)
(* The platforms are set up when the entry is: an entity that is not added *)
(* then is not there until the next set-up.                                *)
(***************************************************************************)
Exists(d) ==
    CASE d.needs = None      -> TRUE
      [] d.needs = LimitRead -> StandsFor["settings"] \in data["settings"]
      [] OTHER               -> d.needs \in present

EntitiesInit == Init /\ entities = {}

AddEntities ==
    entities' = IF entry # "loaded" /\ entry' = "loaded"
                THEN {d \in Described : Exists(d)'}
                ELSE entities

EntitiesNext == Next /\ AddEntities

EntitiesSpec == EntitiesInit /\ [][EntitiesNext]_<<vars, entities>> /\ Fairness

\* SungrowEntity.available, and that of the statistic sensors.
Available(d) ==
    \/ d.platform = "total"
    \/ success[d.poll] /\ d.names \subseteq data[d.poll]

(***************************************************************************)
(* Properties.                                                             *)
(***************************************************************************)
ServedBy(d) ==
    (d.names \cup (IF d.needs \in Blocks THEN {d.needs} ELSE {})) \subseteq {k \in Blocks : Serving(k)}

\* Whatever set-up and the polls met, an entry has an entity for every value the
\* device serves, but for the ones that depend on a value its first settings poll
\* may have missed, and none for an optional component it does not serve; once
\* nothing goes wrong any more all that are served are available.
EntitiesAreShown ==
    <>[](\/ entry = "error"
         \/ /\ \A d \in entities : ServedBy(d) => Available(d)
            /\ \A d \in entities : d.needs \in Blocks => Serving(d.needs)
            /\ \A d \in Described : ServedBy(d) /\ d.needs # LimitRead => d \in entities)
=============================================================================
