------------------------------- MODULE RawWrite -------------------------------
(***************************************************************************)
(* The raw control entities (custom_components/sungrow/entity.py): a       *)
(* number, a switch or a select writes one register under the lock of the  *)
(* guarded layer, reads its component back and publishes it.  They share   *)
(* the lock, the cache and its freshness marks with the services of        *)
(* ControlRun, whose plans skip what the cache already holds.              *)
(*                                                                         *)
(* Unlike a service, an entity's write is not shielded: a caller that is   *)
(* cancelled, as an automation in mode restart is, cancels it too.         *)
(***************************************************************************)
EXTENDS ControlRun

CONSTANTS
    Entities,   \* the callers that are raw control entities
    Settings,   \* what users set: a field and its value
    Faults      \* what may befall a raw write: "unanswered", "cancelled"

ASSUME EntityAssumption ==
    /\ Entities \subseteq Callers
    /\ \A s \in Settings : s.field \in Fields /\ s.value \in ValuesOf(s.field)
    /\ Faults \subseteq {"unanswered", "cancelled"}

VARIABLES
    raw,       \* where each entity's write is
    set,       \* the field and the value it writes
    unsettled  \* history: the fields whose cache is off since an entity's write
               \* went unanswered or was cancelled

rawVars    == <<raw, set>>
systemVars == <<allVars, rawVars, unsettled>>

NoSetting == [field |-> "none", value |-> None]
Inside    == {"writing", "reading"}

RawInit ==
    /\ RunInit
    /\ raw = [e \in Entities |-> "idle"]
    /\ set = [e \in Entities |-> NoSetting]
    /\ unsettled = {}

\* A field is settled as soon as its cache is right again.
Unsettle(fs) ==
    unsettled' = {f \in unsettled \cup fs : cache'[f] # Answer(wire')[f]}

\* A write is only asked of an available entity.
RawCall(e) ==
    /\ raw[e] = "idle"
    /\ \E s \in Settings :
        /\ Component(s.field) \in Available
        /\ set' = [set EXCEPT ![e] = s]
    /\ raw' = [raw EXCEPT ![e] = "waiting"]
    /\ Enqueue(e)
    /\ UNCHANGED <<inverterVars, cacheVars, callVars, coordinatorVars, runVars>>

RawAcquire(e) ==
    /\ raw[e] = "waiting"
    /\ TakeLock(e)
    /\ raw' = [raw EXCEPT ![e] = "writing"]
    /\ UNCHANGED <<inverterVars, cacheVars, callVars, coordinatorVars, runVars, set>>

LandSetting(e) == wire' = [wire EXCEPT ![set[e].field] = set[e].value]

\* Mutant of Leave: the lock is kept.
LeaveLocked(e) ==
    /\ raw' = [raw EXCEPT ![e] = "idle"]
    /\ set' = [set EXCEPT ![e] = NoSetting]
    /\ UNCHANGED lockVars

\* The entity's write is over: it leaves the lock.
Leave(e) ==
    /\ lock' = None
    /\ raw' = [raw EXCEPT ![e] = "idle"]
    /\ set' = [set EXCEPT ![e] = NoSetting]
    /\ UNCHANGED waiters

RawWritten(e) ==
    /\ raw[e] = "writing"
    /\ \/ LandSetting(e)
       \/ set[e].field \in MayIgnore /\ UNCHANGED wire
    /\ raw' = [raw EXCEPT ![e] = "reading"]
    /\ UNCHANGED <<powered, cacheVars, lockVars, callVars, coordinatorVars, runVars, set>>

\* raise_for_write_error: refused, or no answer to a write that may have landed.
\* The cache keeps its mark.
RawWriteFailed(e) ==
    /\ raw[e] = "writing"
    /\ \/ UNCHANGED wire
       \/ "unanswered" \in Faults /\ LandSetting(e)
    /\ Leave(e)
    /\ UNCHANGED <<powered, cacheVars, callVars, coordinatorVars, runVars>>
    /\ Unsettle({set[e].field})

\* The read-back answered: the component is published.
RawReadBack(e) ==
    LET k == Component(set[e].field)
    IN  /\ raw[e] = "reading"
        /\ cache' = [f \in Fields |-> IF Component(f) = k THEN Answer(wire)[f] ELSE cache[f]]
        /\ refreshed' = refreshed \cup {k}
        /\ ApplySnapshot({k})
        /\ Leave(e)
        /\ UNCHANGED <<inverterVars, seen, inGrace, callVars, runVars>>

\* Mutant of RawUnread: the component keeps its mark.
RawUnreadButTrusted(e) ==
    /\ raw[e] = "reading"
    /\ MarkFailed({Component(set[e].field)})
    /\ Leave(e)
    /\ UNCHANGED <<inverterVars, cacheVars, callVars, runVars>>

\* Only the read-back failed: the cache is forgotten, its entities unavailable.
RawUnread(e) ==
    /\ raw[e] = "reading"
    /\ Invalidate({Component(set[e].field)})
    /\ MarkFailed({Component(set[e].field)})
    /\ Leave(e)
    /\ UNCHANGED <<inverterVars, cache, seen, inGrace, callVars, runVars>>

\* The caller is cancelled while the write or the read-back is under way: the
\* lock is released and nothing else is done.
RawCancelled(e) ==
    /\ "cancelled" \in Faults
    /\ raw[e] \in Inside
    /\ \/ UNCHANGED wire
       \/ raw[e] = "writing" /\ LandSetting(e)
    /\ Leave(e)
    /\ UNCHANGED <<powered, cacheVars, callVars, coordinatorVars, runVars>>
    /\ Unsettle({set[e].field})

RawStep(e) ==
    \/ (RawAcquire(e) \/ RawWritten(e) \/ RawReadBack(e) \/ RawUnread(e)) /\ Unsettle({})
    \/ RawWriteFailed(e)
    \/ RawCancelled(e)

ServicesAndPoll ==
    /\ \/ \E p \in Callers \ Entities : Serve(p) \/ RunStep(p)
       \/ Background
    /\ UNCHANGED rawVars
    /\ Unsettle({})

RawNext ==
    \/ ServicesAndPoll
    \/ \E e \in Entities : RawCall(e) /\ Unsettle({})
    \/ \E e \in Entities : RawStep(e)

RawSpec == RawInit /\ [][RawNext]_systemVars

(***************************************************************************)
(* Properties.                                                             *)
(***************************************************************************)

\* Types; and the lock is held by whoever works under it, a guarded call, the
\* poll or an entity, and by nobody else.
RawTypeOK ==
    /\ RunTypeOK
    /\ raw \in [Entities -> {"idle", "waiting"} \cup Inside]
    /\ set \in [Entities -> Settings \cup {NoSetting}]
    /\ \A e \in Entities : raw[e] = "idle" <=> set[e] = NoSetting
    /\ \A p \in Processes : lock = p <=> IF p \in Entities THEN raw[p] \in Inside
                                                           ELSE pc[p] \in Holding

\* An entity's write whose read-back failed, and the re-reads of the services
\* outside the lock, leave no mark on a component whose cache is not what the
\* inverter answers, except while its writer is still at it.
MarksAreTrue ==
    \A f \in Fields :
        Component(f) \in refreshed =>
            \/ cache[f] = Answer(wire)[f]
            \/ f \in unsettled
            \/ \E p \in Callers \ Entities : lock = p /\ f \in written[p]
            \/ \E e \in Entities : raw[e] = "reading" /\ f = set[e].field
=============================================================================
