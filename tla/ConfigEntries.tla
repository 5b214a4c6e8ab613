---------------------------- MODULE ConfigEntries ----------------------------
(***************************************************************************)
(* The config entries of the integration: the flows that create them and   *)
(* change their connection (custom_components/sungrow/config_flow.py), and *)
(* their set-up and unloading over shared connections (__init__.py).       *)
(*                                                                         *)
(* A flow awaits the probe of an address, and several flows may do so at   *)
(* once; what follows the answer takes no await.  The message spacing of a *)
(* connection belongs to every entry that uses it.                         *)
(***************************************************************************)
EXTENDS Naturals, FiniteSets

CONSTANTS
    Entries,    \* the entries there may be
    Flows,      \* config flows, each one dialogue at a time
    Inverters,  \* a record each: its serial, or None, and whether it is an SH-T
    Addresses,  \* a record each: a link (host and port) and a unit id
    MaxMoves,   \* bound: how often an inverter takes another address
    None

Serials == {i.serial : i \in Inverters}
Links   == {a.link : a \in Addresses}

ASSUME InverterAssumption ==
    /\ None \notin Inverters \cup Addresses \cup Entries
    /\ \A i \in Inverters : i.supported \in BOOLEAN
    /\ \A i, j \in Inverters : i.serial = j.serial /\ i.serial # None => i = j
    /\ MaxMoves \in Nat

VARIABLES
    at,        \* the inverter that answers at each address, or None
    moves,     \* how often that changed
    serial,    \* each entry's serial, None while there is no such entry
    address,   \* where it finds its inverter
    state,     \* "waiting" to be set up, in "setup", "loaded" or in "error"
    spaced,    \* the links with a message spacing
    flow,      \* each flow: what it awaits a probe for, and where
    moved,     \* history: entries whose inverter moved since it was probed
    released   \* history: entries whose link another one let go since set-up

worldVars == <<at, moves>>
entryVars == <<serial, address, state, spaced>>
history   == <<moved, released>>
vars      == <<worldVars, entryVars, flow, history>>

\* What a flow asks for: a new entry, or another connection of an entry.
NoFlow == [entry |-> None, address |-> None]
New    == "new"

Existing == {e \in Entries : serial[e] # None}

Init ==
    /\ at \in [Addresses -> Inverters \cup {None}]
    /\ \A a, b \in Addresses : at[a] = at[b] /\ at[a] # None => a = b
    /\ moves = 0
    /\ serial = [e \in Entries |-> None]
    /\ address = [e \in Entries |-> None]
    /\ state = [e \in Entries |-> "none"]
    /\ spaced = {}
    /\ flow = [f \in Flows |-> NoFlow]
    /\ moved = {}
    /\ released = {}

(***************************************************************************)
(* Entries.  A set-up keeps the connection it began with, and a reload     *)
(* waits for it: nothing else befalls an entry in set-up.                  *)
(***************************************************************************)
Link(e) == address[e].link

\* The entries that hold their connection.
Holding == {e \in Entries : state[e] \in {"setup", "loaded"}}

\* Mutant of LetGo: the spacing stays with the shared connection.
LeaveSpaced(e) == UNCHANGED <<spaced, released>>

\* on_unload: the spacing of the shared connection is reset.
LetGo(e) ==
    /\ spaced' = spaced \ {Link(e)}
    /\ released' = (released \cup {d \in Holding : Link(d) = Link(e)}) \ {e}

\* Mutant of Unload: what on_unload registered is not called.
UnloadQuietly(e) == UNCHANGED <<spaced, released>>

Unload(e) == IF e \in Holding THEN LetGo(e) ELSE UNCHANGED <<spaced, released>>

\* async_setup_entry up to its first await: the unit and its spacing.  The link
\* may be in use with other settings, which is to wait on.
BeginSetup(e) ==
    /\ state[e] = "waiting"
    /\ state' = [state EXCEPT ![e] = "setup"]
    /\ spaced' = spaced \cup {Link(e)}
    /\ released' = {d \in released : Link(d) # Link(e)}
    /\ UNCHANGED <<worldVars, serial, address, flow, moved>>

Supported(a) == at[a] # None /\ at[a].supported

\* The first refreshes gate on the model; the serial is not compared.
Load(e) ==
    /\ state[e] = "setup"
    /\ Supported(address[e])
    /\ state' = [state EXCEPT ![e] = "loaded"]
    /\ UNCHANGED <<worldVars, serial, address, spaced, flow, history>>

\* ConfigEntryNotReady, or ConfigEntryError for another model.
SetupFails(e) ==
    /\ state[e] = "setup"
    /\ state' = [state EXCEPT ![e] =
                    IF at[address[e]] = None \/ Supported(address[e]) THEN "waiting"
                    ELSE "error"]
    /\ LetGo(e)
    /\ UNCHANGED <<worldVars, serial, address, flow, moved>>

\* The options flow reloads the entry with the new options.
ChangeOptions(e) ==
    /\ state[e] \in {"waiting", "loaded", "error"}
    /\ state' = [state EXCEPT ![e] = "waiting"]
    /\ Unload(e)
    /\ UNCHANGED <<worldVars, serial, address, flow, moved>>

\* The flows that reconfigure an entry end with it.
Remove(e) ==
    /\ e \in Existing
    /\ state[e] # "setup"
    /\ serial' = [serial EXCEPT ![e] = None]
    /\ address' = [address EXCEPT ![e] = None]
    /\ state' = [state EXCEPT ![e] = "none"]
    /\ Unload(e)
    /\ flow' = [f \in Flows |-> IF flow[f].entry = e THEN NoFlow ELSE flow[f]]
    /\ moved' = moved \ {e}
    /\ UNCHANGED worldVars

(***************************************************************************)
(* Flows.                                                                  *)
(***************************************************************************)
\* The form is sent: the address it names is probed.
Ask(f) ==
    /\ flow[f] = NoFlow
    /\ \E e \in {New} \cup Existing, a \in Addresses :
        flow' = [flow EXCEPT ![f] = [entry |-> e, address |-> a]]
    /\ UNCHANGED <<worldVars, entryVars, history>>

\* cannot_connect, unsupported_model, no_serial, wrong_device, or a dialogue
\* closed: nothing is changed, and the form may be sent again.
GiveUp(f) ==
    /\ flow[f] # NoFlow
    /\ flow' = [flow EXCEPT ![f] = NoFlow]
    /\ UNCHANGED <<worldVars, entryVars, history>>

\* The probe got an answer that makes an entry.
Probed(f) ==
    /\ flow[f] # NoFlow
    /\ Supported(flow[f].address)
    /\ at[flow[f].address].serial # None

ProbedSerial(f) == at[flow[f].address].serial

\* The entry is given the address, and what it does after.
Reconnect(f, e, s, a, after) ==
    /\ state[e] # "setup"
    /\ serial' = [serial EXCEPT ![e] = s]
    /\ address' = [address EXCEPT ![e] = a]
    /\ state' = [state EXCEPT ![e] = after]
    /\ Unload(e)
    /\ moved' = moved \ {e}
    /\ flow' = [flow EXCEPT ![f] = NoFlow]
    /\ UNCHANGED worldVars

\* Mutant of Updates: the unit id of an entry that is found again is not updated.
UpdatesHostOnly(f, e) ==
    CHOOSE a \in Addresses :
        /\ a.link = flow[f].address.link
        /\ (\E b \in Addresses : b.link = a.link /\ b.unit = address[e].unit)
           => a.unit = address[e].unit

\* The connection an entry that is found again gets.
Updates(f, e) == flow[f].address

\* Mutant of Known: the inverter is not looked up among the entries.
NeverKnown(f) == {}

\* The entry of the probed inverter, if it has one (async_set_unique_id).
Known(f) == {e \in Existing : serial[e] = ProbedSerial(f)}

\* Home Assistant reloads an entry that is found again when it is loaded or waiting.
Reloaded(e) == IF state[e] = "error" THEN "error" ELSE "waiting"

\* async_step_user, the inverter has an entry: its connection is updated, and
\* it is reloaded if that was a change.
FoundAgain(f) ==
    /\ Probed(f)
    /\ flow[f].entry = New
    /\ \E e \in Known(f) :
        IF Updates(f, e) = address[e]
        THEN /\ flow' = [flow EXCEPT ![f] = NoFlow]
             /\ UNCHANGED <<worldVars, entryVars, history>>
        ELSE Reconnect(f, e, serial[e], Updates(f, e), Reloaded(e))

\* async_step_user, a new inverter.
Create(f) ==
    /\ Probed(f)
    /\ flow[f].entry = New
    /\ Known(f) = {}
    /\ \E e \in Entries \ Existing :
        Reconnect(f, e, ProbedSerial(f), flow[f].address, "waiting")

SameInverter(f, e) == ProbedSerial(f) = serial[e]

\* async_step_reconfigure: only with the inverter the entry is for.
Reconfigure(f) ==
    LET e == flow[f].entry
    IN  /\ Probed(f)
        /\ e \in Existing
        /\ SameInverter(f, e)
        /\ Reconnect(f, e, ProbedSerial(f), flow[f].address, "waiting")

\* A router gives an inverter another address, or switches it off.
Move ==
    /\ moves < MaxMoves
    /\ moves' = moves + 1
    /\ \E a \in Addresses, i \in Inverters \cup {None} :
        /\ at[a] # i
        /\ at' = [b \in Addresses |-> IF b = a THEN i
                                      ELSE IF at[b] = i THEN None ELSE at[b]]
    /\ moved' = moved \cup {e \in Existing : at'[address[e]] # at[address[e]]}
    /\ UNCHANGED <<entryVars, flow, released>>

Next ==
    \/ \E e \in Entries :
        BeginSetup(e) \/ Load(e) \/ SetupFails(e) \/ ChangeOptions(e) \/ Remove(e)
    \/ \E f \in Flows :
        Ask(f) \/ GiveUp(f) \/ FoundAgain(f) \/ Create(f) \/ Reconfigure(f)
    \/ Move

Spec == Init /\ [][Next]_vars

(***************************************************************************)
(* Properties.                                                             *)
(***************************************************************************)

\* Types, and what an entry has from its making to its removal.
EntryTypeOK ==
    /\ \A e \in Entries :
        /\ serial[e] \in Serials \cup {None}
        /\ address[e] \in Addresses \cup {None}
        /\ state[e] \in {"none", "waiting", "setup", "loaded", "error"}
        /\ (state[e] = "none") <=> (serial[e] = None)
        /\ (address[e] = None) <=> (serial[e] = None)
    /\ spaced \subseteq Links
    /\ \A f \in Flows :
        \/ flow[f] = NoFlow
        \/ flow[f].entry \in {New} \cup Existing /\ flow[f].address \in Addresses
    /\ moved \subseteq Existing
    /\ released \subseteq Holding

\* An inverter has one entry, however many flows found it at once and wherever:
\* the serial is the key of every entity's unique id.
OneEntryEach == \A e, d \in Existing : serial[e] = serial[d] => e = d

\* An entry finds its own inverter at its address, unless that one moved since a
\* flow last probed it.
EntryFindsItsInverter ==
    \A e \in Existing \ moved :
        at[address[e]] # None /\ at[address[e]].serial = serial[e]

\* A link is spaced for as long as an entry uses it, unless another entry of the
\* same link let it go, and no longer.
SpacingFollowsEntries ==
    /\ \A e \in Holding \ released : Link(e) \in spaced
    /\ \A l \in spaced : \E e \in Holding : Link(e) = l
=============================================================================
