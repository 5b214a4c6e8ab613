----------------------------- MODULE InverterPoll -----------------------------
(***************************************************************************)
(* Setup and polling of one inverter: SungrowInverter                      *)
(* (sungrow_inverter/inverter.py) under the two coordinators of the        *)
(* integration (custom_components/sungrow/coordinator.py, __init__.py) and *)
(* the register dump of its diagnostics.                                   *)
(*                                                                         *)
(* A component is read in one request per block of its read plan; a device *)
(* may refuse a block that spans a documented hole, and the component is   *)
(* then planned once more on the narrow map.  The realtime poll reads      *)
(* without the control lock, the settings poll and the dump under it: two  *)
(* of them may have a read of one component under way.                     *)
(*                                                                         *)
(* An action runs from one read to the next.  What is read does not matter *)
(* here; which components the device serves, and which are shown, does.    *)
(***************************************************************************)
EXTENDS Naturals, SequencesExt

CONSTANTS
    Realtime,   \* the components of the realtime poll, in order
    Slow,       \* those of the settings poll
    Optional,   \* the slow ones a firmware may refuse
    Devices,    \* how a device may serve each block
    MaxFaults,  \* bound: what may go wrong in a behaviour
    None        \* no data yet

SetupBlocks == {"identity", "ratings", "firmware"}
Blocks      == SetupBlocks \cup ToSet(Realtime) \cup ToSet(Slow)
Droppable   == {"ratings", "firmware"} \cup Optional

\* A block is served in merged reads, or only in reads that span no hole; it is
\* blank, or that of another model; or it is refused.
Services == {"merged", "narrow", "blank", "foreign", "none"}

ASSUME DeviceAssumption ==
    /\ Realtime \in Seq(ToSet(Realtime)) /\ Realtime # << >>
    /\ Slow \in Seq(ToSet(Slow)) /\ Slow # << >>
    /\ Optional \subseteq ToSet(Slow)
    /\ \A ks \in SUBSET Blocks : ks # None
    /\ Devices \subseteq [Blocks -> Services]
    /\ \A d \in Devices, k \in Blocks :
        /\ d[k] = "blank" => k = "firmware"
        /\ d[k] = "foreign" => k = "identity"
    /\ MaxFaults \in Nat

VARIABLES
    served,    \* the device: how it serves each block
    link,      \* "up", or "stuck": open, and nothing on it is answered
    faults,    \* how much has gone wrong
    present,   \* the components the library has, not None
    narrowed,  \* those planned on the narrow map
    setUp,     \* is_setup
    entry,     \* the first refresh the set-up of the entry is at, or how it went
    timeouts,  \* the realtime coordinator's count
    data,      \* each coordinator's data.updated
    success,   \* its last_update_success
    todo,      \* the blocks each task has yet to read, the current one among them
    asked,     \* the map its current read was planned on, or "cut"
    updated,   \* the components its report lists as updated
    silent     \* history: the realtime polls since one that showed something

deviceVars == <<served, link, faults>>
objectVars == <<present, narrowed, setUp>>
entryVars  == <<entry, timeouts, data, success, silent>>
taskVars   == <<todo, asked, updated>>
vars       == <<deviceVars, objectVars, entryVars, taskVars>>

Polls == {"realtime", "settings"}
Tasks == Polls \cup {"dump"}

STUCK_LINK_TIMEOUTS == 3

Idle(t) == todo[t] = {}

Init ==
    /\ served \in Devices
    /\ link = "up"
    /\ faults = 0
    /\ present = Blocks
    /\ narrowed = {}
    /\ setUp = FALSE
    /\ entry = "realtime"
    /\ timeouts = 0
    /\ data = [c \in Polls |-> None]
    /\ success = [c \in Polls |-> FALSE]
    /\ todo = [t \in Tasks |-> {}]
    /\ asked = [t \in Tasks |-> "merged"]
    /\ updated = [t \in Tasks |-> {}]
    /\ silent = 0

(***************************************************************************)
(* What is read.  Setup, the polls and the dump each name their blocks in  *)
(* one order.                                                              *)
(***************************************************************************)
Order == <<"identity", "ratings", "firmware">> \o Realtime \o Slow

\* The block of ks that comes first.
Foremost(ks) ==
    CHOOSE k \in ks :
        \E i \in DOMAIN Order :
            Order[i] = k /\ \A j \in DOMAIN Order : Order[j] \in ks => i <= j

\* _async_setup: the blocks that never change, and the optional components.
SetupNames == (({"identity", "ratings"} \cup Optional) \cap present) \cup {"firmware"}

\* The components of each poll, and every block for async_read_raw.
Names(t, have) ==
    have \cap CASE t = "realtime" -> ToSet(Realtime)
                [] t = "settings" -> ToSet(Slow)
                [] t = "dump"     -> Blocks

\* The block a task reads.
Block(t) == Foremost(todo[t])

\* Mutant of Read: the plan of a component stays the one it was made with.
ReadCachedPlan(t, names, narrow) ==
    /\ todo' = [todo EXCEPT ![t] = names]
    /\ asked' = [asked EXCEPT ![t] = "merged"]

\* The next read is planned on the map its component has by then.
Read(t, names, narrow) ==
    /\ todo' = [todo EXCEPT ![t] = names]
    /\ asked' = [asked EXCEPT ![t] = IF Foremost(names) \in narrow THEN "narrow" ELSE "merged"]

Reads(t) == ~Idle(t)

\* The device refuses the block, for a hole in it or altogether.
RefusesMap(t) ==
    served[Block(t)] = "none" \/ (served[Block(t)] = "narrow" /\ asked[t] = "merged")

Listening(t) == Reads(t) /\ link = "up" /\ asked[t] # "cut"

(***************************************************************************)
(* The coordinators, and the end of a poll.                                *)
(***************************************************************************)
Stop(t, others) ==
    /\ todo' = [todo EXCEPT ![t] = {}]
    /\ asked' = [others EXCEPT ![t] = "merged"]
    /\ updated' = [updated EXCEPT ![t] = {}]

\* ConfigEntryNotReady: the next set-up makes a new SungrowInverter (another
\* user of the library updates the one there is again).  The entry was all that
\* held the link, so it is closed.
NotReady ==
    /\ entry' = "realtime"
    /\ timeouts' = 0
    /\ data' = [c \in Polls |-> None]
    /\ success' = [c \in Polls |-> FALSE]
    /\ silent' = 0
    /\ link' = "up"
    /\ \/ present' = Blocks /\ narrowed' = {} /\ setUp' = FALSE
       \/ entry = "realtime" /\ UNCHANGED objectVars

\* A realtime poll that shows nothing is one more of them.
Silence(t) ==
    IF t = "realtime" /\ silent < STUCK_LINK_TIMEOUTS THEN silent + 1 ELSE silent

\* UpdateFailed, once the entry is loaded.
Unavailable(t, count) ==
    /\ success' = [success EXCEPT ![t] = FALSE]
    /\ silent' = Silence(t)
    /\ timeouts' = count
    /\ UNCHANGED <<entry, data, objectVars>>

\* Only the realtime poll counts its timeouts.
Counted(t) == IF t = "realtime" THEN timeouts + 1 ELSE timeouts

\* The third one drops the link: requests of other tasks on it are not answered.
Drops(t) == Counted(t) = STUCK_LINK_TIMEOUTS

Closed(t) == [u \in Tasks |-> IF u # t /\ Reads(u) THEN "cut" ELSE asked[u]]

\* The poll of t ended in a timeout, or in a lost connection.
Raised(t, lost) ==
    /\ IF t = "dump" THEN UNCHANGED <<entryVars, objectVars>>
       ELSE IF entry = "loaded" THEN Unavailable(t, IF Drops(t) THEN 0 ELSE Counted(t))
       ELSE NotReady
    /\ IF Drops(t) \/ lost
       THEN link' = "up" /\ Stop(t, Closed(t))
       ELSE Stop(t, asked) /\ (entry = "loaded" => UNCHANGED link)
    /\ UNCHANGED served

\* Mutant of Heard: the count goes on after a poll that returned.
HeardNothing(t) == timeouts

\* The count after a poll that returned, whatever it could read.
Heard(t) == IF t = "realtime" THEN 0 ELSE timeouts

\* The poll of t has asked for everything: its report goes to the coordinator,
\* and a first refresh takes the set-up of the entry further.
Report(t, names) ==
    /\ Stop(t, asked)
    /\ UNCHANGED served
    /\ \/ t = "dump" /\ UNCHANGED <<entryVars, objectVars, link>>
       \/ /\ t \in Polls /\ names = {}
          /\ IF entry = "loaded"
             THEN Unavailable(t, Heard(t)) /\ UNCHANGED link
             ELSE NotReady
       \/ /\ t \in Polls /\ names # {}
          /\ data' = [data EXCEPT ![t] = names]
          /\ success' = [success EXCEPT ![t] = TRUE]
          /\ timeouts' = Heard(t)
          /\ silent' = IF t = "realtime" THEN 0 ELSE silent
          /\ entry' = IF entry = "realtime" THEN "settings" ELSE "loaded"
          /\ UNCHANGED <<objectVars, link>>

(***************************************************************************)
(* Polls begin.                                                            *)
(***************************************************************************)
Begin(t, names) ==
    /\ Idle(t)
    /\ Read(t, names, narrowed)
    /\ UNCHANGED <<deviceVars, present, setUp, entryVars, updated>>

\* The first update sets the device up.
BeginSetup ==
    /\ ~setUp
    /\ entry = "realtime"
    /\ Begin("realtime", SetupNames)
    /\ narrowed' = narrowed \ {"firmware"}

BeginPoll ==
    \E c \in Polls :
        /\ setUp
        /\ entry \in {c, "loaded"}
        /\ c = "settings" => Idle("dump")
        /\ Begin(c, Names(c, present))
        /\ UNCHANGED narrowed

\* Mutant of BeginDump: the dump does not take the lock.
BeginDumpUnlocked ==
    /\ entry = "loaded"
    /\ Begin("dump", Names("dump", present))
    /\ UNCHANGED narrowed

BeginDump ==
    /\ entry = "loaded"
    /\ Idle("settings")
    /\ Begin("dump", Names("dump", present))
    /\ UNCHANGED narrowed

\* The settings poll is due while the dump has the lock: it returns what it has.
SkipPoll ==
    /\ Reads("dump")
    /\ success' = [success EXCEPT !["settings"] = TRUE]
    /\ UNCHANGED <<deviceVars, objectVars, taskVars, entry, timeouts, data, silent>>

(***************************************************************************)
(* A read in a poll (_async_poll).                                         *)
(***************************************************************************)
\* The component is over and done with: the next one is read.
Proceed(t, names) ==
    \/ /\ todo[t] # {Block(t)}
       /\ Read(t, todo[t] \ {Block(t)}, narrowed)
       /\ updated' = [updated EXCEPT ![t] = names]
       /\ UNCHANGED <<served, link, entryVars, objectVars>>
    \/ /\ todo[t] = {Block(t)}
       /\ Report(t, names)

PollAnswered(t) ==
    /\ setUp
    /\ Listening(t)
    /\ ~RefusesMap(t)
    /\ Proceed(t, updated[t] \cup {Block(t)})
    /\ UNCHANGED faults

\* _narrow: the map of the component is set, and the read made once more.
Narrow(t) ==
    /\ Listening(t)
    /\ RefusesMap(t)
    /\ Block(t) \notin narrowed
    /\ narrowed' = narrowed \cup {Block(t)}
    /\ asked' = [asked EXCEPT ![t] = "narrow"]
    /\ UNCHANGED <<deviceVars, present, setUp, entryVars, todo, updated>>

\* A refusal with nothing left to try, also when another task narrowed the map
\* since this read was planned.  An illegal function is not tried again at all.
Refused(t) ==
    /\ Listening(t)
    /\ RefusesMap(t)
    /\ Block(t) \in narrowed \/ served[Block(t)] = "none"

PollRefused(t) ==
    /\ setUp
    /\ Refused(t)
    /\ Proceed(t, updated[t])
    /\ UNCHANGED faults

Fault == faults < MaxFaults /\ faults' = faults + 1

\* The device is busy once too often: another Modbus error.
PollBusy(t) ==
    /\ setUp
    /\ Listening(t)
    /\ Fault
    /\ Proceed(t, updated[t])

\* A lost answer, or none on a link that is stuck or closed.
Unanswered(t) ==
    /\ Reads(t)
    /\ IF link = "up" /\ asked[t] # "cut" THEN Fault ELSE UNCHANGED faults

\* Mutant of AssumesDead: a timeout is always recorded and the poll goes on.
NeverDead(t) == FALSE

\* Nothing was asked for before: the rest would time out too.
AssumesDead(t) == todo[t] = Names(t, present)

PollTimedOut(t) ==
    /\ setUp
    /\ Unanswered(t)
    /\ IF AssumesDead(t) THEN Raised(t, FALSE) ELSE Proceed(t, updated[t])

ConnectionLost(t) ==
    /\ Unanswered(t)
    /\ Raised(t, asked[t] # "cut")

\* The link stays open and nothing on it is answered any more.
LinkSticks ==
    /\ entry # "error"
    /\ link = "up"
    /\ Fault
    /\ link' = "stuck"
    /\ UNCHANGED <<served, objectVars, entryVars, taskVars>>

(***************************************************************************)
(* A read in setup (_async_setup), which is a realtime poll's.             *)
(***************************************************************************)
\* The last block of setup settles the poll lists, and the poll itself begins.
Settle(have) ==
    /\ present' = have
    /\ LET rest == todo["realtime"] \ {Block("realtime")}
       IN  IF rest # {}
           THEN Read("realtime", rest, narrowed) /\ UNCHANGED setUp
           ELSE Read("realtime", Names("realtime", have), narrowed) /\ setUp' = TRUE
    /\ UNCHANGED <<link, narrowed, entryVars, updated>>

\* UnsupportedModelError: the entry is in error and not set up again.
Unsupported ==
    /\ entry' = "error"
    /\ Stop("realtime", asked)
    /\ UNCHANGED <<link, objectVars, timeouts, data, success, silent>>

SetupAnswered ==
    LET k == Block("realtime")
    IN  /\ ~setUp
        /\ Listening("realtime")
        /\ ~RefusesMap("realtime")
        /\ IF served[k] = "foreign" THEN Unsupported
           ELSE Settle(IF served[k] = "blank" THEN present \ {k} ELSE present \cup {k})
        /\ UNCHANGED <<served, faults>>

SetupRefused ==
    /\ ~setUp
    /\ Refused("realtime")
    /\ IF Block("realtime") = "identity"
       THEN NotReady /\ Stop("realtime", asked)
       ELSE Settle(present \ {Block("realtime")})
    /\ UNCHANGED <<served, faults>>

\* Mutant of SetupFails: an optional block that fails is taken for refused.
SetupDrops ==
    IF Block("realtime") = "identity"
    THEN NotReady /\ Stop("realtime", asked)
    ELSE Settle(present \ {Block("realtime")})

\* Whatever else goes wrong ends the update, and what setup found so far stays.
SetupFails == NotReady /\ Stop("realtime", asked)

SetupUnread ==
    /\ ~setUp
    /\ Unanswered("realtime")
    /\ SetupFails
    /\ UNCHANGED served

(***************************************************************************)
(* The specification.                                                      *)
(***************************************************************************)
Outcome(t) ==
    \/ PollAnswered(t)
    \/ Narrow(t)
    \/ PollRefused(t)
    \/ PollBusy(t)
    \/ PollTimedOut(t)
    \/ ConnectionLost(t)

SetupOutcome == SetupAnswered \/ SetupRefused \/ SetupUnread

Next ==
    \/ BeginSetup \/ BeginPoll \/ BeginDump \/ SkipPoll
    \/ \E t \in Tasks : Outcome(t)
    \/ SetupOutcome
    \/ LinkSticks

Spec == Init /\ [][Next]_vars

\* Every read ends, and every poll comes due again; the settings poll, between
\* the dumps a user asks for.
Fairness ==
    /\ \A t \in Tasks : WF_vars(Outcome(t))
    /\ WF_vars(SetupOutcome)
    /\ WF_vars(BeginSetup)
    /\ \A c \in Polls : SF_vars(BeginPoll /\ Idle(c) /\ Reads(c)')

(***************************************************************************)
(* Properties.                                                             *)
(***************************************************************************)

\* Types, and the discipline of the tasks: the dump and the settings poll share
\* the lock, setup is one task's, and nothing is shown before it was read.
PollTypeOK ==
    /\ link \in {"up", "stuck"}
    /\ faults \in 0..MaxFaults
    /\ present \subseteq Blocks
    /\ narrowed \subseteq Blocks
    /\ setUp \in BOOLEAN
    /\ entry \in {"realtime", "settings", "loaded", "error"}
    /\ timeouts \in 0..(STUCK_LINK_TIMEOUTS - 1)
    /\ silent \in 0..STUCK_LINK_TIMEOUTS
    /\ \A t \in Tasks :
        /\ todo[t] \subseteq Blocks
        /\ asked[t] \in {"merged", "narrow", "cut"}
        /\ updated[t] \subseteq Blocks \ todo[t]
    /\ \A c \in Polls :
        /\ data[c] = None \/ data[c] \subseteq present
        /\ success[c] => data[c] # None
    /\ Idle("settings") \/ Idle("dump")
    /\ ~setUp => Idle("settings") /\ Idle("dump")

\* What setup keeps is what the device serves: nothing it serves is dropped for
\* the life of the entry because a read of it failed or spanned a hole, also when
\* an earlier setup ended half-way.
Serving(k) == served[k] \in {"merged", "narrow"}

SetupSettles ==
    setUp => \A k \in Droppable : k \in present <=> Serving(k)

\* Only a realtime poll that showed nothing counts towards dropping the link, and
\* one that showed something starts the count again: a link that answers is left
\* alone, however many single reads on it time out.
OnlySilenceCounts == timeouts <= silent

\* A link that no longer answers is opened anew, wherever the polls and the setup
\* were when it got stuck.
StuckLinkRecovers == link = "stuck" ~> link = "up"

\* Once nothing goes wrong any more, every component the device serves is shown,
\* and stays shown: what was refused, lost or dropped in between, by this task or
\* another, is found again.
ServedIsShown ==
    <>[](\/ entry = "error"
         \/ \A c \in Polls : success[c] /\ data[c] = {k \in Names(c, Blocks) : Serving(k)})
=============================================================================
