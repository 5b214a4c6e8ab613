----------------------------- MODULE TotalSensor -----------------------------
(***************************************************************************)
(* A statistic sensor (SungrowTotalSensor, custom_components/sungrow/      *)
(* sensor.py): an energy counter of the inverter as Home Assistant is      *)
(* shown it.  It is always available, holds its value while the energy     *)
(* component is not refreshed, takes a dip of at most one percent for a    *)
(* quirk of the firmware, and is restored after a restart.                 *)
(*                                                                         *)
(* The component is read by the settings poll, and by a register dump that *)
(* tells no coordinator; a poll may lose the link after it was read.       *)
(***************************************************************************)
EXTENDS Naturals

CONSTANTS
    Readings,    \* what the counter may read
    MaxChanges,  \* bound: how often it changes
    MaxFaults,   \* bound: reads that fail, links lost, restarts
    None

ASSUME ReadingAssumption == Readings \subseteq Nat /\ None \notin Readings

ASSUME BoundAssumption == MaxChanges \in Nat /\ MaxFaults \in Nat

VARIABLES
    counter,  \* the inverter's register
    cache,    \* the energy component's last-read value
    listed,   \* whether the coordinator's data lists the component as updated
    success,  \* its last_update_success
    added,    \* the entity is part of Home Assistant
    total,    \* the value it shows (_attr_native_value)
    stored,   \* the value Home Assistant stored for it
    behind,   \* history: the cache was read and no coordinator told since
    changes,
    faults

vars == <<counter, cache, listed, success, added, total, stored, behind, changes, faults>>

Init ==
    /\ counter \in Readings
    /\ cache = None
    /\ listed = FALSE
    /\ success = FALSE
    /\ added = FALSE
    /\ total = None
    /\ stored = None
    /\ behind = FALSE
    /\ changes = 0
    /\ faults = 0

Fault == faults < MaxFaults /\ faults' = faults + 1

\* Mutant of TinyDip: the boundary itself counts as a reset.
BelowOnePercent(last, value) == value < last /\ 99 * last < 100 * value

\* A dip of at most one percent.
TinyDip(last, value) == value < last /\ 99 * last <= 100 * value

\* Mutant of Held: whatever is lower is held.
HeldIfLower(last, value) == last # None /\ value < last

Held(last, value) == last # None /\ TinyDip(last, value)

\* _process_data.
Processed(last, value, isListed) ==
    IF ~isListed \/ value = None \/ Held(last, value) THEN last ELSE value

\* The counter counts, is reset, or reads a little less than it did.
Count ==
    /\ changes < MaxChanges
    /\ changes' = changes + 1
    /\ counter' \in Readings \ {counter}
    /\ UNCHANGED <<cache, listed, success, added, total, stored, behind, faults>>

\* Mutant of Restored: the sensor starts from nothing.
RestoredNothing == None

\* async_added_to_hass: the last value stored.
Restored == stored

\* The entry is set up: a first poll has succeeded, with the energy component
\* or without it, and the sensor is added.
SetUp ==
    /\ ~added
    /\ added' = TRUE
    /\ success' = TRUE
    /\ \/ cache' = counter /\ listed' = TRUE /\ UNCHANGED faults
       \/ cache' = None /\ listed' = FALSE /\ Fault
    /\ total' = Processed(Restored, cache', listed')
    /\ behind' = FALSE
    /\ UNCHANGED <<counter, stored, changes>>

\* A poll reads the component: the coordinator tells its entities.
PollUpdates ==
    /\ added
    /\ cache' = counter
    /\ listed' = TRUE
    /\ success' = TRUE
    /\ total' = Processed(total, cache', TRUE)
    /\ behind' = FALSE
    /\ UNCHANGED <<counter, added, stored, changes, faults>>

\* A poll that could not read this component.
PollMisses ==
    /\ added
    /\ Fault
    /\ listed' = FALSE
    /\ success' = TRUE
    /\ total' = Processed(total, cache, FALSE)
    /\ UNCHANGED <<counter, cache, added, stored, behind, changes>>

\* A poll that raised, perhaps after it read the component: the data stays that
\* of an earlier poll, and entities are told of the first failure only.
PollRaises ==
    /\ added
    /\ Fault
    /\ cache' \in {cache, counter}
    /\ success' = FALSE
    /\ total' = IF success THEN Processed(total, cache', listed) ELSE total
    /\ behind' = IF success /\ listed THEN FALSE ELSE behind \/ cache' # cache
    /\ UNCHANGED <<counter, listed, added, stored, changes>>

\* The coordinator tells its entities without a poll.  A poll that is skipped while a
\* control call has the lock returns the report there is.
PollSkipped ==
    /\ added
    /\ success' = TRUE
    /\ total' = Processed(total, cache, listed)
    /\ behind' = (behind /\ ~listed)
    /\ UNCHANGED <<counter, cache, listed, added, stored, changes, faults>>

\* What a control call read back is published (async_apply_snapshot), or taken
\* unavailable (async_mark_failed): other components, and of the last report what a
\* poll that did not fail left in it.
OthersPublished ==
    /\ added
    /\ listed' = (listed /\ success)
    /\ success' = TRUE
    /\ total' = Processed(total, cache, listed')
    /\ behind' = (behind /\ ~listed')
    /\ UNCHANGED <<counter, cache, added, stored, changes, faults>>

\* The register dump reads it too (async_read_raw).
DumpReads ==
    /\ added
    /\ cache' = counter
    /\ behind' = (behind \/ cache' # cache)
    /\ UNCHANGED <<counter, listed, success, added, total, stored, changes, faults>>

\* Home Assistant stores states now and then, and when it stops.
Store ==
    /\ added
    /\ total # None
    /\ stored' = total
    /\ UNCHANGED <<counter, cache, listed, success, added, total, behind, changes, faults>>

\* Mutant of Restart: the SungrowInverter outlives the entry.
RestartKeepsDevice ==
    /\ added
    /\ Fault
    /\ added' = FALSE
    /\ stored' \in {stored} \cup ({total} \ {None})
    /\ listed' = FALSE
    /\ success' = FALSE
    /\ behind' = FALSE
    /\ UNCHANGED <<counter, cache, total, changes>>

\* The entry is unloaded, or Home Assistant ends, with or without storing.
Restart ==
    /\ added
    /\ Fault
    /\ added' = FALSE
    /\ stored' \in {stored} \cup ({total} \ {None})
    /\ cache' = None
    /\ listed' = FALSE
    /\ success' = FALSE
    /\ behind' = FALSE
    /\ UNCHANGED <<counter, total, changes>>

Next ==
    \/ Count
    \/ SetUp
    \/ PollUpdates \/ PollMisses \/ PollRaises
    \/ PollSkipped \/ OthersPublished
    \/ DumpReads
    \/ Store
    \/ Restart

Spec == Init /\ [][Next]_vars

(***************************************************************************)
(* Properties.                                                             *)
(***************************************************************************)

\* The value shown for a counter: its own, or at most one percent more.
Close(shown, value) == shown # None /\ value <= shown /\ 99 * shown <= 100 * value

\* Types; data is only there while the entity is.
TotalTypeOK ==
    /\ counter \in Readings
    /\ cache \in Readings \cup {None}
    /\ total \in Readings \cup {None}
    /\ stored \in Readings \cup {None}
    /\ listed \in BOOLEAN /\ success \in BOOLEAN /\ added \in BOOLEAN /\ behind \in BOOLEAN
    /\ ~added => cache = None /\ ~listed /\ ~success
    /\ changes \in 0..MaxChanges
    /\ faults \in 0..MaxFaults

\* However many small dips follow one another, what is shown stays within one
\* percent of the value last read.
HeldIsClose == added /\ listed /\ ~behind => Close(total, cache)

\* What is shown never falls by a little: statistics take every fall for a
\* reset, also the one from a restored value to the first value read.
OnlyResetsLower ==
    [][added' =>
        LET last == IF added THEN total ELSE stored
        IN  last # None => \/ total' >= last
                           \/ 100 * total' < 99 * last]_vars

\* A total that was stored once is never unknown again, whatever does not answer
\* after a restart.
TotalIsKept == added /\ stored # None => total # None
=============================================================================
