------------------------------ MODULE ControlRun ------------------------------
(***************************************************************************)
(* The integration around the guarded write layer: the runner of control   *)
(* services (custom_components/sungrow/control.py) and the settings        *)
(* coordinator that decides which components' entities are available       *)
(* (custom_components/sungrow/coordinator.py).                             *)
(*                                                                         *)
(* A service is a sequence of guarded calls.  Each is run to its end by a  *)
(* task of its own: a call whose read-back or write went unanswered is     *)
(* followed by a read outside the lock and planned once more, and what the *)
(* inverter answered is published to the coordinator.                      *)
(*                                                                         *)
(* The calls themselves, the lock, the cache and the poll's reads are the  *)
(* actions of BatteryControl; what a task does between the end of a call   *)
(* and its next await belongs to the same step.                            *)
(***************************************************************************)
EXTENDS BatteryControl

CONSTANT Services   \* the services the callers use: sequences of requests

ASSUME ServiceAssumption ==
    \A s \in Services : s \in Seq(Requests) /\ s # << >>

ASSUME ShownAssumption == \A cs \in SUBSET Components : cs # None

VARIABLES
    shown,      \* the coordinator's data.updated, or None before the first poll
    success,    \* the coordinator's last_update_success
    dumping,    \* the poller's process is the register dump, not the poll
    stage,      \* how far each caller's service is
    todo,       \* the calls each service has left, the current one first
    wrote,      \* the components the first attempt of the current call wrote
    names,      \* the components each task re-reads outside the lock
    left,       \* those it has yet to read
    missed      \* those that failed

coordinatorVars == <<shown, success, dumping>>
runVars         == <<stage, todo, wrote, names, left, missed>>
allVars         == <<vars, coordinatorVars, runVars>>

Calling   == {"first", "again"}
Rereading == {"retrying", "failing", "returning"}
Ended     == {"idle", "verified", "done", "failed"}
Successes == {"verified", "unverified", "unchanged"}

RunInit ==
    /\ Init
    /\ shown = None
    /\ success = FALSE
    /\ dumping = FALSE
    /\ stage = [p \in Callers |-> "idle"]
    /\ todo = [p \in Callers |-> << >>]
    /\ wrote = [p \in Callers |-> {}]
    /\ names = [p \in Callers |-> {}]
    /\ left = [p \in Callers |-> {}]
    /\ missed = [p \in Callers |-> {}]

(***************************************************************************)
(* The settings coordinator, and the register dump of the diagnostics,     *)
(* which reads what the poll does and takes the lock as it does, but has   *)
(* no report.                                                              *)
(***************************************************************************)
\* The components whose entities are available.
Available == IF success /\ shown # None THEN shown ELSE {}

\* async_apply_snapshot: after a failed poll only the named components return.
ApplySnapshot(ks) ==
    /\ shown' = Available \cup ks
    /\ success' = TRUE
    /\ UNCHANGED dumping

\* Mutant of MarkFailed: the suspect components stay available.
MarkNothing(ks) == UNCHANGED coordinatorVars

\* async_mark_failed.
MarkFailed(ks) ==
    /\ shown' = Available \ ks
    /\ success' = TRUE
    /\ UNCHANGED dumping

\* The poll is due while a call or the dump holds the lock: it returns the data it
\* has.
SkipPoll ==
    /\ pc[Poller] = "idle" \/ dumping
    /\ lock # None
    /\ shown # None
    /\ success' = TRUE
    /\ UNCHANGED <<vars, shown, dumping, runVars>>

StartPoll ==
    /\ Poll
    /\ dumping' = FALSE
    /\ UNCHANGED <<shown, success, runVars>>

\* Diagnostics are downloaded.  A dump that finds the lock taken waits in line; one
\* that begins when the lock is free reads in every order with the calls that this
\* allows.
StartDump ==
    /\ shown # None
    /\ Poll
    /\ dumping' = TRUE
    /\ UNCHANGED <<shown, success, runVars>>

PollStep ==
    /\ Proceed(Poller)
    /\ UNCHANGED <<coordinatorVars, runVars>>

Answered == Components \ (failed[Poller] \cup toRead[Poller])

\* Every component was asked: the report of the poll is the coordinator's data.
PollReports ==
    /\ PollEnds
    /\ ~dumping
    /\ toRead[Poller] = {}
    /\ shown' = Answered
    /\ success' = TRUE
    /\ UNCHANGED <<dumping, runVars>>

\* UpdateFailed: the poll raised, here or at a component it reads after these, or no
\* component answered.
PollFails ==
    /\ PollEnds
    /\ ~dumping
    /\ success' = FALSE
    /\ UNCHANGED <<shown, dumping, runVars>>

\* The dump has asked for everything, or raised: no coordinator is told.
DumpEnds ==
    /\ PollEnds
    /\ dumping
    /\ dumping' = FALSE
    /\ UNCHANGED <<shown, success, runVars>>

(***************************************************************************)
(* The runner (async_run).                                                 *)
(***************************************************************************)
\* A service is called once the entry is set up: the first poll has succeeded.
Serve(p) ==
    /\ stage[p] \in Ended
    /\ shown # None
    /\ \E s \in Services :
        /\ todo' = [todo EXCEPT ![p] = s]
        /\ MakeCall(p, Head(s))
    /\ stage' = [stage EXCEPT ![p] = "first"]
    /\ UNCHANGED <<inverterVars, cacheVars, coordinatorVars, wrote, names, left, missed>>

\* The next call of a service: stop_inverter shuts down after the restore.
ServeOn(p) ==
    /\ stage[p] = "next"
    /\ MakeCall(p, Head(todo[p]))
    /\ stage' = [stage EXCEPT ![p] = "first"]
    /\ UNCHANGED <<inverterVars, cacheVars, coordinatorVars, todo, wrote, names, left,
                   missed>>

\* A run ends, and its service with it if it was the last one.
EndRunOf(p, result, last) ==
    /\ stage' = [stage EXCEPT ![p] = IF last THEN result ELSE "next"]
    /\ todo' = [todo EXCEPT ![p] = IF last THEN << >> ELSE Tail(@)]
    /\ wrote' = [wrote EXCEPT ![p] = {}]
    /\ names' = [names EXCEPT ![p] = {}]
    /\ left' = [left EXCEPT ![p] = {}]
    /\ missed' = [missed EXCEPT ![p] = {}]

\* Mutant of Finish: the service goes on after a call that failed.
FinishAndGoOn(p, result) == EndRunOf(p, result, Len(todo[p]) = 1)

\* An error ends the whole service.
Finish(p, result) == EndRunOf(p, result, result = "failed" \/ Len(todo[p]) = 1)

\* The steps a call came to: up to the one whose write failed, if one did.
Reached(p) ==
    IF pc[p] = "writing"
    THEN {i \in DOMAIN plan[p] : \A j \in ToWrite(p) : i <= j}
    ELSE DOMAIN plan[p]

\* The components of a report's writes, of all it lists, and of the field in error.
Wrote(p)   == {Component(f) : f \in written[p]}
Touches(p) == {Component(plan[p][i].field) : i \in Reached(p)}

\* The components ks are to be read again and those in js to be published.
StartReread(p, ks, js, why) ==
    /\ stage' = [stage EXCEPT ![p] = why]
    /\ wrote' = [wrote EXCEPT ![p] = Wrote(p)]
    /\ names' = [names EXCEPT ![p] = js]
    /\ left' = [left EXCEPT ![p] = ks]
    /\ missed' = [missed EXCEPT ![p] = {}]
    /\ UNCHANGED <<coordinatorVars, todo>>

\* _reread: the named components are to be read again, outside the lock.
Reread(p, ks, why) == StartReread(p, ks, ks, why)

\* The call returned a report.  A second attempt with nothing left to write
\* confirms what the first one wrote.
Returned(p, outcome) ==
    LET writes    == wrote[p] \cup Wrote(p)
        touched   == wrote[p] \cup Touches(p)
        confirmed == \/ outcome = "verified"
                     \/ stage[p] = "again" /\ outcome = "unchanged"
    IN  /\ outcome \in Successes
        /\ \/ /\ writes = {}
              /\ Finish(p, IF confirmed THEN "verified" ELSE "done")
              /\ UNCHANGED coordinatorVars
           \/ /\ writes # {}
              /\ confirmed
              /\ ApplySnapshot(touched)
              /\ Finish(p, "verified")
           \/ /\ writes # {}
              /\ ~confirmed
              /\ Reread(p, touched, "returning")

\* The call raised an error with a report: it is published, or re-read.
RaisedReport(p, outcome) ==
    \/ /\ outcome = "mismatch"
       /\ ApplySnapshot(Touches(p))
       /\ Finish(p, "failed")
    \/ /\ \/ outcome = "rejected"
          \/ outcome \in {"uncertain", "unavailable"} /\ stage[p] = "again"
       /\ Reread(p, Touches(p), "failing")
    \/ /\ outcome \in {"uncertain", "unavailable"}
       /\ stage[p] = "first"
       /\ Reread(p, Touches(p), "retrying")

\* The call raised an error with no report, or one that is not published: the
\* settings could not be read, the power is out of range, or a start or stop.
RaisedBare(p, outcome) ==
    /\ outcome \in Errors
    /\ Finish(p, "failed")
    /\ UNCHANGED coordinatorVars

\* _async_run takes over when the call ends.
Continue(p, outcome) ==
    \/ Returned(p, outcome)
    \/ pc[p] \in {"writing", "readback"} /\ RaisedReport(p, outcome)
    \/ pc[p] \in {"freshen", "commanding"} /\ RaisedBare(p, outcome)

CallStep(p) ==
    /\ stage[p] \in Calling
    /\ Proceed(p)
    /\ IF pc'[p] \in Outcomes
       THEN Continue(p, pc'[p])
       ELSE UNCHANGED <<coordinatorVars, runVars>>

(***************************************************************************)
(* The re-read (_reread), concurrent with the calls of other tasks.  What  *)
(* follows the last answer takes no await.                                 *)
(***************************************************************************)
\* sorted(names): the order the components are read in.
First(ks) == IF "battery_limits" \in ks THEN "battery_limits" ELSE "settings"

\* Every named component was asked: those that answered are published.
PublishReread(p, bad) ==
    /\ shown' = (Available \cup names[p]) \ bad
    /\ success' = TRUE
    /\ UNCHANGED dumping

\* Mutant of PlanAgain: the re-read settles it, nothing is planned again.
TrustReread(p) == Finish(p, "verified") /\ UNCHANGED <<lockVars, callVars>>

CallAgain(p, attempt) ==
    /\ MakeCall(p, Head(todo[p]))
    /\ stage' = [stage EXCEPT ![p] = attempt]
    /\ names' = [names EXCEPT ![p] = {}]
    /\ left' = [left EXCEPT ![p] = {}]
    /\ UNCHANGED <<todo, wrote, missed>>

\* Mutant of PlanAgain: the second attempt is taken for a first one.
PlanAfresh(p) == CallAgain(p, "first")

\* The call is planned again, once.
PlanAgain(p) == CallAgain(p, "again")

\* The run ends: an error is raised at last, or the report is returned.
EndRun(p) == Finish(p, IF stage[p] = "returning" THEN "done" ELSE "failed")

\* The component read last has answered or failed; bad are all that failed.
Advance(p, k, bad) ==
    \/ /\ left[p] # {k}
       /\ left' = [left EXCEPT ![p] = @ \ {k}]
       /\ missed' = [missed EXCEPT ![p] = bad]
       /\ UNCHANGED <<lockVars, callVars, coordinatorVars, stage, todo, wrote, names>>
    \/ /\ left[p] = {k}
       /\ PublishReread(p, bad)
       /\ IF stage[p] = "retrying" /\ bad = {}
          THEN PlanAgain(p)
          ELSE EndRun(p) /\ UNCHANGED <<lockVars, callVars>>

RereadAnswered(p) ==
    /\ stage[p] \in Rereading
    /\ LET k == First(left[p])
       IN  /\ cache' = [f \in Fields |->
                           IF Component(f) = k THEN Answer(wire)[f] ELSE cache[f]]
           /\ refreshed' = refreshed \cup {k}
           /\ Advance(p, k, missed[p])
    /\ UNCHANGED <<inverterVars, seen, inGrace>>

RereadFailed(p) ==
    /\ stage[p] \in Rereading
    /\ LET k == First(left[p]) IN Advance(p, k, missed[p] \cup {k})
    /\ UNCHANGED <<inverterVars, cacheVars>>

\* The read raised: every named component is marked failed.
RereadRaised(p) ==
    /\ stage[p] \in Rereading
    /\ MarkFailed(names[p])
    /\ EndRun(p)
    /\ UNCHANGED <<vars>>

(***************************************************************************)
(* The specification.                                                      *)
(***************************************************************************)
RunStep(p) ==
    \/ ServeOn(p)
    \/ CallStep(p)
    \/ RereadAnswered(p)
    \/ RereadFailed(p)
    \/ RereadRaised(p)

Environment ==
    /\ PollRunningState \/ GraceEnds
    /\ UNCHANGED <<coordinatorVars, runVars>>

\* The settings poll, the dump, the running state and the grace period.
Background ==
    \/ SkipPoll
    \/ StartPoll
    \/ StartDump
    \/ PollStep
    \/ PollReports
    \/ PollFails
    \/ DumpEnds
    \/ Environment

RunNext ==
    \/ \E p \in Callers : Serve(p) \/ RunStep(p)
    \/ Background

RunSpec == RunInit /\ [][RunNext]_allVars

\* As for BatteryControl: exchanges end and ready tasks run.
RunFairness ==
    /\ \A p \in Callers : WF_allVars(RunStep(p))
    /\ WF_allVars(PollStep)
    /\ WF_allVars(PollReports \/ PollFails \/ DumpEnds)

FairRunSpec == RunSpec /\ RunFairness

(***************************************************************************)
(* Properties.                                                             *)
(***************************************************************************)

\* Types, and the bookkeeping of the re-reads: only a re-read has names, and
\* what it still has to read or has missed is among them.
RunTypeOK ==
    /\ shown \in {None} \cup SUBSET Components
    /\ success \in BOOLEAN
    /\ success => shown # None
    /\ dumping \in BOOLEAN
    /\ stage \in [Callers -> Calling \cup Rereading \cup Ended \cup {"next"}]
    /\ \A p \in Callers :
        /\ todo[p] \in Seq(Requests)
        /\ todo[p] = << >> <=> stage[p] \in Ended
        /\ wrote[p] \subseteq Components
        /\ names[p] \subseteq Components
        /\ names[p] # {} <=> stage[p] \in Rereading
        /\ left[p] \cup missed[p] \subseteq names[p]

\* When no service is under way, an available entity shows what the inverter
\* would answer: a failed call either read the registers again or took the
\* entities of what it could not read unavailable.
ShownIsTrue ==
    (\A p \in Callers : stage[p] \in Ended) =>
        \A f \in Fields : Component(f) \in Available => cache[f] = Answer(wire)[f]

\* A service reported as verified has put the inverter into the mode it asked
\* for, also when a second attempt confirmed the writes of the first.
VerifiedRunIsInForce ==
    [][\A p \in Callers :
          stage[p] \in Calling \cup Rereading /\ stage'[p] = "verified"
          => InForce(Head(todo[p]), wire)]_allVars

\* A shutdown finds the inverter in self-consumption, so that a later start
\* does not resume a forced mode: stop_inverter restores it first, and does not
\* shut down when the restore failed.
StopFindsSelfConsumption ==
    [][powered /\ ~powered' => wire["ems_mode"] = "self_consumption"]_allVars

\* Every service ends, however its calls, re-reads and second attempts go.
ServicesEnd == \A p \in Callers : stage[p] \in Calling ~> stage[p] \in Ended
=============================================================================
