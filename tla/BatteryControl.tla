---------------------------- MODULE BatteryControl ----------------------------
(***************************************************************************)
(* The guarded write layer of one inverter: BatteryControl                 *)
(* (sungrow_inverter/control.py) over the cache and the freshness marks of *)
(* SungrowInverter (sungrow_inverter/inverter.py).                         *)
(*                                                                         *)
(* Callers run apply, set_pv_limitation, start and stop concurrently; each *)
(* takes the one lock, re-reads what is stale, plans, writes the steps     *)
(* that differ and reads the touched components back.  The Poller is the   *)
(* settings poll, under the same lock; the running state is polled without *)
(* it.  Every exchange with the inverter is one action whose outcome is    *)
(* chosen: answered, refused, or unanswered with the value landed or not.  *)
(*                                                                         *)
(* An action runs from one await of a coroutine to the next.               *)
(***************************************************************************)
EXTENDS BatteryPlan

CONSTANTS
    Callers,       \* tasks that make guarded calls
    Poller,        \* the settings poll
    Requests,      \* what the callers may ask for
    InitialWires,  \* the register contents the inverter may start with
    MayIgnore,     \* fields whose write may be answered and yet not taken
    Unserved       \* fields the link does not forward: they read as word 0

Processes == Callers \cup {Poller}

ASSUME ProcessAssumption ==
    /\ Poller \notin Callers
    /\ None \notin Processes

ASSUME RequestAssumption == \A r \in Requests : r \in AllRequests

ASSUME WireAssumption ==
    \A w \in InitialWires : DOMAIN w = Fields /\ \A f \in Fields : w[f] \in ValuesOf(f)

VARIABLES
    wire,       \* the inverter's registers
    powered,    \* whether the last start/stop command it took was a start
    cache,      \* the last-polled value of each field
    refreshed,  \* the components whose cache has a freshness mark
    seen,       \* the last-polled running state
    inGrace,    \* an EMS write of ours was answered less than grace_s ago
    lock,       \* the process holding the lock, or None
    waiters,    \* the processes waiting for the lock, first come first served
    pc,         \* where each process is, or how its last call ended
    request,    \* what each call asked for
    plan,       \* the steps of each call, in write order
    next,       \* the index of each call's next step
    written,    \* the fields each call has written, answered
    toRead,     \* the components each process still has to read
    failed      \* the components of each process's current read that failed

inverterVars == <<wire, powered>>
cacheVars    == <<cache, refreshed, seen, inGrace>>
lockVars     == <<lock, waiters>>
callVars     == <<pc, request, plan, next, written, toRead, failed>>
vars         == <<inverterVars, cacheVars, lockVars, callVars>>

Reading  == {"freshen", "readback", "polling"}
Holding  == Reading \cup {"writing", "commanding"}
Errors   == {"unavailable", "out_of_range", "rejected", "uncertain", "mismatch"}
Outcomes == Errors \cup {"verified", "unverified", "unchanged"}
Resting  == Outcomes \cup {"idle"}

RunningStates == ForcedStates \cup {"running", "stop"}
NoRequest     == [what |-> "none", power |-> None, verify |-> FALSE]

(***************************************************************************)
(* What a read of the registers answers: an unserved one answers word 0,   *)
(* which is the self-consumption code, 0 W, and no command and no boolean. *)
(***************************************************************************)
WordZero(f) ==
    IF f = "ems_mode" THEN "self_consumption"
    ELSE IF f \in Powers THEN 0
    ELSE None

Answer(view) == [f \in Fields |-> IF f \in Unserved THEN WordZero(f) ELSE view[f]]

Init ==
    /\ wire \in InitialWires
    /\ powered = TRUE
    /\ cache = [f \in Fields |-> None]
    /\ refreshed = {}
    /\ seen = None
    /\ inGrace = FALSE
    /\ lock = None
    /\ waiters = << >>
    /\ pc = [p \in Processes |-> "idle"]
    /\ request = [p \in Processes |-> NoRequest]
    /\ plan = [p \in Processes |-> << >>]
    /\ next = [p \in Processes |-> 1]
    /\ written = [p \in Processes |-> {}]
    /\ toRead = [p \in Processes |-> {}]
    /\ failed = [p \in Processes |-> {}]

(***************************************************************************)
(* The lock.                                                               *)
(***************************************************************************)
\* Mutant of Enqueue: the last to ask is served first.
EnqueueInFront(p) ==
    /\ waiters' = <<p>> \o waiters
    /\ UNCHANGED lock

Enqueue(p) ==
    /\ waiters' = Append(waiters, p)
    /\ UNCHANGED lock

\* The first to wait takes the free lock.
TakeLock(p) ==
    /\ lock = None
    /\ waiters # << >>
    /\ Head(waiters) = p
    /\ lock' = p
    /\ waiters' = Tail(waiters)

\* A call ends with an outcome and its locals are gone.
Return(p, outcome) ==
    /\ pc' = [pc EXCEPT ![p] = outcome]
    /\ request' = [request EXCEPT ![p] = NoRequest]
    /\ plan' = [plan EXCEPT ![p] = << >>]
    /\ next' = [next EXCEPT ![p] = 1]
    /\ written' = [written EXCEPT ![p] = {}]
    /\ toRead' = [toRead EXCEPT ![p] = {}]
    /\ failed' = [failed EXCEPT ![p] = {}]
    /\ UNCHANGED waiters

\* Mutant of End: a failed call keeps the lock.
EndHoldingOnError(p, outcome) ==
    /\ lock' = IF outcome \in Errors THEN lock ELSE None
    /\ Return(p, outcome)

\* A process leaves the lock as its call ends.
End(p, outcome) ==
    /\ lock' = None
    /\ Return(p, outcome)

\* _execute: on a failure the touched components lose their freshness.
Invalidate(names) == refreshed' = refreshed \ names

\* Mutant of Fail: the cache is trusted after a failed write sequence.
FailWithoutInvalidate(p, outcome) ==
    /\ UNCHANGED refreshed
    /\ End(p, outcome)

\* A call fails while executing its plan.
Fail(p, outcome) ==
    /\ Invalidate(Touched(plan[p]))
    /\ End(p, outcome)

\* A task calls apply, set_pv_limitation, start or stop.
MakeCall(p, r) ==
    /\ pc[p] \in Resting
    /\ request' = [request EXCEPT ![p] = r]
    /\ pc' = [pc EXCEPT ![p] = "waiting"]
    /\ Enqueue(p)
    /\ UNCHANGED <<plan, next, written, toRead, failed>>

Call(p) ==
    /\ p \in Callers
    /\ \E r \in Requests : MakeCall(p, r)
    /\ UNCHANGED <<inverterVars, cacheVars>>

\* The settings poll is due; it is skipped when the lock is taken.
Poll ==
    /\ pc[Poller] = "idle"
    /\ lock = None
    /\ pc' = [pc EXCEPT ![Poller] = "waiting"]
    /\ Enqueue(Poller)
    /\ UNCHANGED <<inverterVars, cacheVars, request, plan, next, written, toRead, failed>>

(***************************************************************************)
(* _ensure_fresh: of the needed components, those without a freshness mark *)
(* are stale, and so are those whose mark is older than max_age.  How old  *)
(* a mark is depends on the clock alone, so any of them may be.            *)
(***************************************************************************)
\* Mutant of Stale: a component without a mark passes for a fresh one.
StaleByAgeOnly(names, old) == {k \in names : k \in old}

Stale(names, old) == {k \in names : k \notin refreshed \/ k \in old}

\* What a process does first under the lock.
FirstReads(p, old) ==
    IF p = Poller THEN Components ELSE Stale(Needed(request[p]), old)

FirstPlace(p) ==
    IF p = Poller THEN "polling"
    ELSE IF request[p].what \in PowerButtons THEN "commanding"
    ELSE "freshen"

Acquire(p) ==
    /\ pc[p] = "waiting"
    /\ TakeLock(p)
    /\ \E old \in SUBSET Components : toRead' = [toRead EXCEPT ![p] = FirstReads(p, old)]
    /\ pc' = [pc EXCEPT ![p] = FirstPlace(p)]
    /\ UNCHANGED <<inverterVars, cacheVars, request, plan, next, written, failed>>

(***************************************************************************)
(* Reading components one at a time (_async_poll).  An answer refreshes    *)
(* the cache and its mark.  A component that fails is recorded and the     *)
(* others are still read; a lost link, or a first read that times out,     *)
(* raises at once.                                                         *)
(***************************************************************************)
ReadAnswered(p) ==
    /\ pc[p] \in Reading
    /\ \E k \in toRead[p] :
        /\ cache' = [f \in Fields |->
                        IF Component(f) = k THEN Answer(wire)[f] ELSE cache[f]]
        /\ refreshed' = refreshed \cup {k}
        /\ toRead' = [toRead EXCEPT ![p] = @ \ {k}]
    /\ UNCHANGED <<inverterVars, seen, inGrace, lockVars, pc, request, plan, next,
                   written, failed>>

ReadFailed(p) ==
    /\ pc[p] \in Reading
    /\ \E k \in toRead[p] :
        /\ toRead' = [toRead EXCEPT ![p] = @ \ {k}]
        /\ failed' = [failed EXCEPT ![p] = @ \cup {k}]
    /\ UNCHANGED <<inverterVars, cacheVars, lockVars, pc, request, plan, next, written>>

\* The read raises, or ends with a component that failed.
Raised(p) == toRead[p] # {} \/ failed[p] # {}

\* The freshness read of a call leaves no write behind.
FreshenRaised(p) ==
    /\ pc[p] = "freshen"
    /\ Raised(p)
    /\ End(p, "unavailable")
    /\ UNCHANGED <<inverterVars, cacheVars>>

\* A failed read-back leaves the cache suspect.
ReadBackRaised(p) ==
    /\ pc[p] = "readback"
    /\ Raised(p)
    /\ Fail(p, "unavailable")
    /\ UNCHANGED <<inverterVars, cache, seen, inGrace>>

\* The poll ends, or raises half-way: what it has read stays read.
PollEnds ==
    /\ pc[Poller] = "polling"
    /\ End(Poller, "idle")
    /\ UNCHANGED <<inverterVars, cacheVars>>

(***************************************************************************)
(* Planning, on a cache whose needed components are all fresh.             *)
(***************************************************************************)
Freshened(p) == pc[p] = "freshen" /\ toRead[p] = {} /\ failed[p] = {}

MakePlan(p) ==
    /\ Freshened(p)
    /\ PowerInRange(request[p])
    /\ plan' = [plan EXCEPT ![p] = Plan(request[p], cache)]
    /\ pc' = [pc EXCEPT ![p] = "writing"]
    /\ UNCHANGED <<inverterVars, cacheVars, lockVars, request, next, written, toRead,
                   failed>>

\* _power raises outside _execute: nothing is written or forgotten.
RefusePower(p) ==
    /\ Freshened(p)
    /\ ~PowerInRange(request[p])
    /\ End(p, "out_of_range")
    /\ UNCHANGED <<inverterVars, cacheVars>>

(***************************************************************************)
(* Executing the plan.  Skipping a step takes no await, so a call goes     *)
(* straight to the next step it has to write.                              *)
(***************************************************************************)
Skipped(step) ==
    /\ Satisfied(step, cache[step.field])
    /\ ~Doubted(step, cache, seen, inGrace)

ToWrite(p) == {i \in next[p]..Len(plan[p]) : ~Skipped(plan[p][i])}

\* The step a call writes now.
IsNext(p, i) ==
    /\ pc[p] = "writing"
    /\ i \in ToWrite(p)
    /\ \A j \in ToWrite(p) : i <= j

Land(step) == wire' = [wire EXCEPT ![step.field] = step.target]

\* The write does not touch the cache: only a read does.
WriteAnswered(p) ==
    /\ \E i \in DOMAIN plan[p] :
        LET step == plan[p][i] IN
        /\ IsNext(p, i)
        /\ \/ Land(step)
           \/ step.field \in MayIgnore /\ UNCHANGED wire
        /\ written' = [written EXCEPT ![p] = @ \cup {step.field}]
        /\ next' = [next EXCEPT ![p] = i + 1]
        /\ inGrace' = (inGrace \/ step.field = "ems_mode")
    /\ UNCHANGED <<powered, cache, refreshed, seen, lockVars, pc, request,
                   plan, toRead, failed>>

\* The write fails.  The value may have landed before an answer was lost: that
\* of the only try, or of a try that the unit repeated until one was refused.
WriteFailed(p, outcome) ==
    /\ \E i \in DOMAIN plan[p] :
        /\ IsNext(p, i)
        /\ Land(plan[p][i]) \/ UNCHANGED wire
    /\ Fail(p, outcome)
    /\ UNCHANGED <<powered, cache, seen, inGrace>>

WriteRejected(p)   == WriteFailed(p, "rejected")
WriteUnanswered(p) == WriteFailed(p, "uncertain")

\* Nothing is left to write: read back what was written, if asked to.
StartReadBack(p) ==
    /\ pc[p] = "writing"
    /\ ToWrite(p) = {}
    /\ written[p] # {}
    /\ request[p].verify
    /\ pc' = [pc EXCEPT ![p] = "readback"]
    /\ toRead' = [toRead EXCEPT ![p] = Touched(plan[p])]
    /\ UNCHANGED <<inverterVars, cacheVars, lockVars, request, plan, next, written, failed>>

EndUnread(p) ==
    /\ pc[p] = "writing"
    /\ ToWrite(p) = {}
    /\ written[p] = {} \/ ~request[p].verify
    /\ End(p, IF written[p] = {} THEN "unchanged" ELSE "unverified")
    /\ UNCHANGED <<inverterVars, cacheVars>>

ReadBack(p) == pc[p] = "readback" /\ toRead[p] = {} /\ failed[p] = {}

Verifies(steps, view) == \A s \in FinalSteps(steps) : Satisfied(s, view[s.field])

Verify(p) ==
    /\ ReadBack(p)
    /\ Verifies(plan[p], cache)
    /\ End(p, "verified")
    /\ UNCHANGED <<inverterVars, cacheVars>>

Mismatch(p) ==
    /\ ReadBack(p)
    /\ ~Verifies(plan[p], cache)
    /\ Fail(p, "mismatch")
    /\ UNCHANGED <<inverterVars, cache, seen, inGrace>>

(***************************************************************************)
(* start and stop: one write, no cache, no read-back.                      *)
(***************************************************************************)
Command(p) ==
    /\ pc[p] = "commanding"
    /\ \/ /\ End(p, "unverified")
          /\ powered' = (request[p].what = "start")
       \/ /\ \E outcome \in {"uncertain", "rejected"} : End(p, outcome)
          /\ powered' \in {powered, request[p].what = "start"}
    /\ UNCHANGED <<wire, cacheVars>>

(***************************************************************************)
(* The realtime poll reads the running state without the lock, and the     *)
(* running state lags the EMS mode: what was last polled is the state of   *)
(* some earlier registers.  The grace period runs out.                     *)
(***************************************************************************)
StateOf(ems) ==
    IF ~powered THEN "stop"
    ELSE IF ems = "compulsory" THEN "compulsory_mode"
    ELSE IF ems = "external_ems" THEN "external_ems"
    ELSE "running"

PollRunningState ==
    /\ seen' = StateOf(wire["ems_mode"])
    /\ UNCHANGED <<inverterVars, cache, refreshed, inGrace, lockVars, callVars>>

GraceEnds ==
    /\ inGrace
    /\ inGrace' = FALSE
    /\ UNCHANGED <<inverterVars, cache, refreshed, seen, lockVars, callVars>>

(***************************************************************************)
(* The specification.                                                      *)
(***************************************************************************)
\* What process p does once it asked for the lock.
Proceed(p) ==
    \/ Acquire(p)
    \/ ReadAnswered(p)
    \/ ReadFailed(p)
    \/ FreshenRaised(p)
    \/ ReadBackRaised(p)
    \/ MakePlan(p)
    \/ RefusePower(p)
    \/ WriteAnswered(p)
    \/ WriteRejected(p)
    \/ WriteUnanswered(p)
    \/ StartReadBack(p)
    \/ EndUnread(p)
    \/ Verify(p)
    \/ Mismatch(p)
    \/ Command(p)

Next ==
    \/ \E p \in Callers : Call(p)
    \/ Poll
    \/ PollEnds
    \/ \E p \in Processes : Proceed(p)
    \/ PollRunningState
    \/ GraceEnds

Spec == Init /\ [][Next]_vars

\* Every exchange with the inverter ends in an answer, an error or a timeout
\* (modbus_connection's and RetryingUnit's), and asyncio runs every task that
\* is ready; nobody promises that a call is made or that an answer is good.
Fairness ==
    /\ \A p \in Processes : WF_vars(Proceed(p))
    /\ WF_vars(PollEnds)

FairSpec == Spec /\ Fairness

(***************************************************************************)
(* Properties.                                                             *)
(***************************************************************************)

InverterTypeOK ==
    /\ DOMAIN wire = Fields /\ \A f \in Fields : wire[f] \in ValuesOf(f)
    /\ powered \in BOOLEAN

CacheTypeOK ==
    /\ DOMAIN cache = Fields /\ \A f \in Fields : cache[f] \in ValuesOf(f) \cup {None}
    /\ refreshed \in SUBSET Components
    /\ seen \in RunningStates \cup {None}
    /\ inGrace \in BOOLEAN

LockTypeOK ==
    /\ lock \in Processes \cup {None}
    /\ waiters \in Seq(Processes)

CallTypeOK ==
    /\ pc \in [Processes -> Resting \cup Holding \cup {"waiting"}]
    /\ request \in [Processes -> Requests \cup {NoRequest}]
    /\ DOMAIN plan = Processes /\ \A p \in Processes : IsPlan(plan[p])
    /\ next \in [Processes -> Nat \ {0}]
    /\ written \in [Processes -> SUBSET Fields]
    /\ toRead \in [Processes -> SUBSET Components]
    /\ failed \in [Processes -> SUBSET Components]

\* Every variable keeps its type: registers and cached values fit their
\* fields, plans are sequences of steps, and every process is in a known place.
TypeOK == InverterTypeOK /\ CacheTypeOK /\ LockTypeOK /\ CallTypeOK

\* "One lock per inverter serialises calls": a process reads, plans or writes
\* under the lock exactly when it holds it, so never two of them at once, and
\* no ended call keeps it.
OneCallAtATime == \A p \in Processes : pc[p] \in Holding <=> lock = p

\* A component with a freshness mark caches what the inverter would answer,
\* except for the fields the call under way has written: whatever was ignored,
\* refused, half landed or never read back has cost the component its mark.
FreshMatchesWire ==
    \A f \in Fields :
        Component(f) \in refreshed =>
            \/ cache[f] = Answer(wire)[f]
            \/ \E p \in Callers : lock = p /\ f \in written[p]

\* Request r is in force on registers w.
InForce(r, w) ==
    /\ r.what \in PvRequests => w["pv_power_limitation"] = (r.what = "pv_limit")
    /\ r.what \in DesiredModes => EffectiveMode(w, None, TRUE) = r.what
    /\ r.what \in ForcedModes => w["forced_power"] = r.power

Ends(p, outcome) == pc[p] \in Holding /\ pc'[p] = outcome

\* A call reported as verified left the inverter in the requested mode, with
\* the requested power, even if the inverter ignored a write it answered.
VerifiedIsInForce ==
    [][\A p \in Callers : Ends(p, "verified") => InForce(request[p], wire)]_vars

\* A call that found nothing to write is right: the requested mode is in force,
\* whatever earlier calls failed, were ignored or were left half done.
UnchangedIsInForce ==
    [][\A p \in Callers : Ends(p, "unchanged") => InForce(request[p], wire)]_vars

\* "No prefix forces the old direction at the new magnitude": the power of a
\* running forced mode changes only while it is stopped or already runs in the
\* requested direction.
NoReversalAtNewPower ==
    [][\A p \in Callers :
          /\ lock = p
          /\ wire["ems_mode"] = "compulsory"
          /\ wire'["forced_power"] # wire["forced_power"]
          => wire["charge_command"] \in {"stop", CommandOf(request[p].what)}]_vars

\* A forced mode is entered last: at that moment the power, the direction and
\* both limits are those of the call that enters it, never stale ones.
ForcedStartsAsAsked ==
    [][\A p \in Callers :
          /\ lock = p
          /\ wire["ems_mode"] # "compulsory"
          /\ wire'["ems_mode"] = "compulsory"
          => /\ wire["forced_power"] = request[p].power
             /\ wire["charge_command"] = CommandOf(request[p].what)
             /\ \A f \in Limits : wire[f] = Full]_vars

LimitRaised == \E f \in Limits : wire'[f] > wire[f]

\* A return to self-consumption raises no limit before the forced mode is left,
\* so a failure half-way leaves the battery fenced and never forced.
LimitsStayWhileForced ==
    [][\A p \in Callers :
          /\ lock = p
          /\ request[p].what = "self_consumption"
          /\ LimitRaised
          => wire["ems_mode"] = "self_consumption"]_vars

\* A call that fences one direction restores the other first: no failure turns
\* a request to stop charging into a battery that neither charges nor discharges.
FencesAfterRestoring ==
    [][\A p \in Callers, f, g \in Limits :
          /\ lock = p
          /\ request[p].what = (IF f = "max_charge_power" THEN "no_charge"
                                                          ELSE "no_discharge")
          /\ wire'[f] < wire[f]
          /\ g # f
          => wire[g] = Full]_vars

\* Every call ends: the lock is always given back and nobody waits for ever.
CallsEnd == \A p \in Callers : pc[p] = "waiting" ~> pc[p] \in Outcomes

\* When the EMS word says self-consumption and the running state, past the
\* grace period, says the battery is forced, a call that asks to leave the
\* forced mode does leave it, unless it fails or the contradiction is gone.
DoubtedModeIsLeft ==
    \A p \in Callers :
        /\ pc[p] = "waiting"
        /\ request[p].what \in DesiredModes \ ForcedModes
        /\ seen \in ForcedStates
        /\ ~inGrace
        ~> \/ wire["ems_mode"] = "self_consumption"
           \/ pc[p] \in Errors
           \/ seen \notin ForcedStates
=============================================================================
