----------------------------- MODULE RawWriteProofs -----------------------------
(***************************************************************************)
(* Theorems about RawWrite, for any callers, entities, services, settings  *)
(* and faults.                                                             *)
(***************************************************************************)
EXTENDS RawWrite, ControlRunProofs

(***************************************************************************)
(* The lock, with entities next to the guarded calls.                      *)
(***************************************************************************)
RawTables ==
    /\ raw \in [Entities -> {"idle", "waiting"} \cup Inside]
    /\ set \in [Entities -> Settings \cup {NoSetting}]
    /\ \A e \in Entities : raw[e] = "idle" <=> set[e] = NoSetting

Works(p) == IF p \in Entities THEN raw[p] \in Inside ELSE pc[p] \in Holding

\* An entity makes no guarded call.
Discipline ==
    /\ \A p \in Processes : lock = p <=> Works(p)
    /\ \A e \in Entities : pc[e] = "idle"

EntityInv == CallInv /\ RunInv /\ RawTables /\ Discipline

LEMMA EntityProcesses ==
    /\ Entities \subseteq Callers /\ Callers \subseteq Processes /\ Poller \notin Entities
    /\ None \notin Processes
    /\ \A s \in Settings : s # NoSetting
BY EntityAssumption, ProcessAssumption DEF Processes, NoSetting, Fields, Powers, Limits

LEMMA EntityInvIs == EntityInv => RawTypeOK /\ HoldersHold
<1> SUFFICES ASSUME EntityInv PROVE RawTypeOK /\ HoldersHold
  OBVIOUS
<1>1. RawTypeOK
  BY RunInvIs DEF EntityInv, RawTables, Discipline, Works, RawTypeOK
<1>2. HoldersHold
  BY DEF EntityInv, Discipline, Works, HoldersHold, Holding, Reading
<1> QED
  BY <1>1, <1>2

\* What a step of process p does to the lock: nothing, taking it when it is free, or
\* giving it up.
LockStep(p) ==
    /\ \A q \in Processes \ {p} : pc'[q] = pc[q]
    /\ \/ lock' = lock /\ (pc'[p] \in Holding <=> pc[p] \in Holding)
       \/ lock = None /\ lock' = p /\ pc'[p] \in Holding
       \/ pc[p] \in Holding /\ lock' = None /\ pc'[p] \notin Holding

LEMMA EndLockStep ==
    ASSUME TypeOK, NEW p \in Processes, pc[p] \in Holding,
           \E outcome \in Resting : End(p, outcome)
    PROVE  LockStep(p)
<1>1. PICK outcome \in Resting : End(p, outcome)
  OBVIOUS
<1>2. outcome \notin Holding
  BY DEF Resting, Outcomes, Errors, Holding, Reading
<1> QED
  BY <1>1, <1>2 DEF LockStep, End, Return, TypeOK, CallTypeOK

LEMMA ProceedLockStep ==
    ASSUME TypeOK, NEW p \in Processes, Proceed(p)
    PROVE  LockStep(p)
<1> USE DEF lockVars
<1>1. CASE Acquire(p)
  <2>1. FirstPlace(p) \in Holding
    BY DEF FirstPlace, Holding, Reading
  <2> QED
    BY <1>1, <2>1 DEF Acquire, TakeLock, LockStep, TypeOK, CallTypeOK
<1>2. CASE ReadAnswered(p) \/ ReadFailed(p) \/ WriteAnswered(p)
  BY <1>2 DEF ReadAnswered, ReadFailed, WriteAnswered, LockStep
<1>3. CASE MakePlan(p) \/ StartReadBack(p)
  BY <1>3 DEF MakePlan, Freshened, StartReadBack, LockStep, TypeOK, CallTypeOK, Holding, Reading
<1>4. CASE \/ FreshenRaised(p) \/ ReadBackRaised(p) \/ RefusePower(p)
           \/ WriteRejected(p) \/ WriteUnanswered(p) \/ EndUnread(p) \/ Verify(p)
           \/ Mismatch(p) \/ Command(p)
  BY <1>4, EndersHold, EndLockStep
<1> QED
  BY <1>1, <1>2, <1>3, <1>4 DEF Proceed

LEMMA MakeCallLockStep ==
    ASSUME TypeOK, NEW p \in Callers, NEW r \in Requests, MakeCall(p, r)
    PROVE  LockStep(p)
BY DEF MakeCall, Enqueue, LockStep, TypeOK, CallTypeOK, Processes, Resting, Outcomes, Errors,
       Holding, Reading

LEMMA PollLockStep ==
    ASSUME TypeOK, Poll \/ PollEnds
    PROVE  LockStep(Poller)
<1>1. CASE Poll
  BY <1>1 DEF Poll, Enqueue, LockStep, TypeOK, CallTypeOK, Processes, Holding, Reading
<1>2. CASE PollEnds
  BY <1>2, EndLockStep DEF PollEnds, Processes, Resting, Holding, Reading
<1> QED
  BY <1>1, <1>2

\* Every step of the services and the poll moves the lock for one process at most.
LEMMA GuardedLockStep ==
    ASSUME TypeOK, NEW ps \in SUBSET Callers, GuardedStep(ps) \/ OutsideRead(ps)
    PROVE  UNCHANGED <<lock, pc>> \/ \E p \in ps \cup {Poller} : LockStep(p)
<1>1. \A p \in ps \cup {Poller} : p \in Processes
  BY DEF Processes
<1>2. CASE \E p \in ps, r \in Requests : MakeCall(p, r)
  BY <1>2, MakeCallLockStep
<1>3. CASE \E p \in ps \cup {Poller} : Proceed(p)
  BY <1>1, <1>3, ProceedLockStep
<1>4. CASE Poll \/ PollEnds
  BY <1>4, PollLockStep
<1> QED
  BY <1>2, <1>3, <1>4
     DEF GuardedStep, OutsideRead, PollRunningState, GraceEnds, vars, lockVars, callVars

LEMMA ServicesKeepDiscipline ==
    ASSUME TypeOK, Discipline, GuardedStep(Callers \ Entities) \/ OutsideRead(Callers \ Entities),
           UNCHANGED rawVars
    PROVE  Discipline'
<1>1. CASE UNCHANGED <<lock, pc>>
  BY <1>1 DEF Discipline, Works, rawVars
<1>2. ASSUME NEW p \in (Callers \ Entities) \cup {Poller}, LockStep(p) PROVE Discipline'
  <2>1. p \in Processes /\ p \notin Entities /\ p # None
    BY EntityProcesses DEF Processes
  <2>2. \A q \in Processes \ {p} : Works(q)' <=> Works(q)
    BY <1>2 DEF LockStep, Works, rawVars
  <2>3. (Works(p) <=> pc[p] \in Holding) /\ (Works(p)' <=> pc'[p] \in Holding)
    BY <2>1 DEF Works
  <2>4. \A e \in Entities : pc'[e] = "idle"
    BY <1>2, <2>1, EntityProcesses DEF LockStep, Discipline
  <2>5. \A q \in Processes : lock' = q <=> Works(q)'
    <3>1. CASE lock' = lock /\ (pc'[p] \in Holding <=> pc[p] \in Holding)
      BY <2>1, <2>2, <2>3, <3>1 DEF Discipline
    <3>2. CASE lock = None /\ lock' = p /\ pc'[p] \in Holding
      BY <2>1, <2>2, <2>3, <3>2, EntityProcesses DEF Discipline
    <3>3. CASE pc[p] \in Holding /\ lock' = None /\ pc'[p] \notin Holding
      BY <2>1, <2>2, <2>3, <3>3, EntityProcesses DEF Discipline
    <3> QED
      BY <1>2, <3>1, <3>2, <3>3 DEF LockStep
  <2> QED
    BY <2>4, <2>5 DEF Discipline
<1> QED
  BY <1>1, <1>2, GuardedLockStep

(***************************************************************************)
(* The entities' own steps.                                                *)
(***************************************************************************)
LEMMA EntityCallInv ==
    ASSUME CallInv, UNCHANGED callVars, InverterTypeOK', CacheTypeOK', LockTypeOK'
    PROVE  CallInv'
<1>1. CallTypeOK'
  BY DEF CallInv, TypeOK, CallTypeOK, callVars
<1>2. RequestInv' /\ WritersInv' /\ BackInv'
  BY DEF CallInv, RequestInv, WritersInv, BackInv, callVars
<1> QED
  BY <1>1, <1>2 DEF CallInv, TypeOK

\* An entity at work has the lock and a setting, a field with a value of its own.
LEMMA AtWork ==
    ASSUME EntityInv, NEW e \in Entities, raw[e] \in Inside
    PROVE  /\ e \in Processes /\ lock = e /\ e # None
           /\ set[e] \in Settings /\ set[e].field \in Fields
           /\ set[e].value \in ValuesOf(set[e].field)
           /\ Component(set[e].field) \in Components
           /\ \A p \in Processes : pc[p] \notin Holding
           /\ \A d \in Entities : raw[d] \in Inside => d = e
<1>1. e \in Processes /\ lock = e /\ e # None
  BY EntityProcesses DEF EntityInv, Discipline, Works
<1>2. raw[e] # "idle"
  BY DEF Inside
<1>3. set[e] \in Settings
  BY <1>2 DEF EntityInv, RawTables
<1>4. \A p \in Processes : pc[p] \in Holding => p \notin Entities
  BY DEF EntityInv, Discipline, Holding, Reading
<1>5. \A p \in Processes : pc[p] \notin Holding
  BY <1>1, <1>4 DEF EntityInv, Discipline, Works
<1>6. \A d \in Entities : raw[d] \in Inside => d = e
  BY <1>1, EntityProcesses DEF EntityInv, Discipline, Works
<1> QED
  BY <1>1, <1>3, <1>5, <1>6, EntityAssumption, ComponentsAre

\* The registers after an entity's write, landed or not.
LEMMA SettingTypeOK ==
    ASSUME EntityInv, NEW e \in Entities, raw[e] \in Inside,
           LandSetting(e) \/ UNCHANGED wire
    PROVE  /\ DOMAIN wire' = Fields /\ \A f \in Fields : wire'[f] \in ValuesOf(f)
           /\ \A f \in Fields : f # set[e].field => wire'[f] = wire[f]
<1>1. set[e].field \in Fields /\ set[e].value \in ValuesOf(set[e].field)
  BY AtWork
<1> QED
  BY <1>1 DEF LandSetting, EntityInv, CallInv, TypeOK, InverterTypeOK

\* What the entities' steps do to the lock and to their own places.
Leaving(e) == raw[e] \in Inside /\ Leave(e)

LEMMA LeavingKeeps ==
    ASSUME EntityInv, NEW e \in Entities, Leaving(e), UNCHANGED pc
    PROVE  RawTables' /\ Discipline' /\ LockTypeOK'
<1>1. lock' = None /\ raw' = [raw EXCEPT ![e] = "idle"] /\ set' = [set EXCEPT ![e] = NoSetting]
      /\ UNCHANGED waiters
  BY DEF Leaving, Leave
<1>2. RawTables'
  BY <1>1 DEF EntityInv, RawTables
<1>3. \A p \in Processes : ~Works(p)'
  BY <1>1, AtWork DEF Leaving, Works, EntityInv, RawTables, Inside
<1>4. Discipline'
  BY <1>1, <1>3, EntityProcesses DEF EntityInv, Discipline
<1>5. LockTypeOK'
  BY <1>1 DEF EntityInv, CallInv, TypeOK, LockTypeOK
<1> QED
  BY <1>2, <1>4, <1>5

\* Each step of an entity, as far as the lock and the types go.
LEMMA RawCallKeeps ==
    ASSUME EntityInv, NEW e \in Entities, RawCall(e)
    PROVE  EntityInv'
<1> USE DEF inverterVars, cacheVars
<1>1. PICK s \in Settings : set' = [set EXCEPT ![e] = s]
  BY DEF RawCall
<1>2. s # NoSetting /\ raw[e] = "idle" /\ raw' = [raw EXCEPT ![e] = "waiting"]
  BY EntityProcesses DEF RawCall
<1>3. RawTables'
  BY <1>1, <1>2 DEF EntityInv, RawTables
<1>4. /\ UNCHANGED <<inverterVars, cacheVars, callVars, coordinatorVars, runVars, lock>>
      /\ waiters' = Append(waiters, e) /\ e \in Processes
  BY EntityProcesses DEF RawCall, Enqueue
<1>5. Discipline'
  <2>1. pc' = pc /\ lock' = lock
    BY <1>4 DEF callVars
  <2>2. \A d \in Entities : raw'[d] \in Inside <=> raw[d] \in Inside
    BY <1>2 DEF EntityInv, RawTables, Inside
  <2> QED
    BY <2>1, <2>2 DEF EntityInv, Discipline, Works
<1>6. InverterTypeOK' /\ CacheTypeOK' /\ LockTypeOK'
  BY <1>4 DEF EntityInv, CallInv, TypeOK, InverterTypeOK, CacheTypeOK, LockTypeOK
<1>7. RunInv'
  BY <1>4, UnchangedRun, UnchangedShown DEF EntityInv, RunInv
<1> QED
  BY <1>3, <1>4, <1>5, <1>6, <1>7, EntityCallInv DEF EntityInv

LEMMA RawAcquireKeeps ==
    ASSUME EntityInv, NEW e \in Entities, RawAcquire(e)
    PROVE  EntityInv'
<1> USE DEF inverterVars, cacheVars
<1>1. /\ raw[e] = "waiting" /\ raw' = [raw EXCEPT ![e] = "writing"] /\ set' = set
      /\ lock = None /\ lock' = e /\ waiters # << >> /\ waiters' = Tail(waiters)
      /\ UNCHANGED <<inverterVars, cacheVars, callVars, coordinatorVars, runVars>>
      /\ e \in Processes /\ e # None
  BY EntityProcesses DEF RawAcquire, TakeLock
<1>2. RawTables'
  BY <1>1 DEF EntityInv, RawTables, Inside
<1>3. Discipline'
  <2>1. pc' = pc
    BY <1>1 DEF callVars
  <2>2. \A p \in Processes : ~Works(p)
    BY <1>1, EntityProcesses DEF EntityInv, Discipline
  <2>3. \A p \in Processes : Works(p)' <=> p = e
    BY <1>1, <2>1, <2>2 DEF Works, EntityInv, RawTables, Inside
  <2> QED
    BY <1>1, <2>1, <2>3 DEF EntityInv, Discipline
<1>4. InverterTypeOK' /\ CacheTypeOK' /\ LockTypeOK'
  BY <1>1 DEF EntityInv, CallInv, TypeOK, InverterTypeOK, CacheTypeOK, LockTypeOK
<1>5. RunInv'
  BY <1>1, UnchangedRun, UnchangedShown DEF EntityInv, RunInv
<1> QED
  BY <1>1, <1>2, <1>3, <1>4, <1>5, EntityCallInv DEF EntityInv

LEMMA RawWrittenKeeps ==
    ASSUME EntityInv, NEW e \in Entities, RawWritten(e)
    PROVE  EntityInv'
<1> USE DEF inverterVars, cacheVars
<1>1. /\ raw[e] = "writing" /\ raw' = [raw EXCEPT ![e] = "reading"] /\ set' = set
      /\ LandSetting(e) \/ UNCHANGED wire
      /\ UNCHANGED <<powered, cacheVars, lockVars, callVars, coordinatorVars, runVars>>
  BY DEF RawWritten
<1>2. RawTables'
  BY <1>1 DEF EntityInv, RawTables, Inside
<1>3. Discipline'
  <2>1. pc' = pc /\ lock' = lock
    BY <1>1 DEF callVars, lockVars
  <2>2. \A d \in Entities : raw'[d] \in Inside <=> raw[d] \in Inside
    BY <1>1 DEF EntityInv, RawTables, Inside
  <2> QED
    BY <2>1, <2>2 DEF EntityInv, Discipline, Works
<1>4. InverterTypeOK'
  <2>1. raw[e] \in Inside
    BY <1>1 DEF Inside
  <2> QED
    BY <1>1, <2>1, SettingTypeOK DEF EntityInv, CallInv, TypeOK, InverterTypeOK
<1>5. CacheTypeOK' /\ LockTypeOK'
  BY <1>1 DEF EntityInv, CallInv, TypeOK, CacheTypeOK, LockTypeOK, lockVars
<1>6. RunInv'
  BY <1>1, UnchangedRun, UnchangedShown DEF EntityInv, RunInv
<1> QED
  BY <1>1, <1>2, <1>3, <1>4, <1>5, <1>6, EntityCallInv DEF EntityInv

\* The ways out of the lock: a failed or cancelled write, a read-back, or none.
LEMMA RawEndsKeep ==
    ASSUME EntityInv, NEW e \in Entities,
           RawWriteFailed(e) \/ RawReadBack(e) \/ RawUnread(e) \/ RawCancelled(e)
    PROVE  EntityInv' /\ Leaving(e)
<1> USE DEF inverterVars, cacheVars
<1>1. Leaving(e) /\ UNCHANGED <<callVars, runVars>>
  BY DEF RawWriteFailed, RawReadBack, RawUnread, RawCancelled, Leaving, Inside
<1>2. RawTables' /\ Discipline' /\ LockTypeOK'
  BY <1>1, LeavingKeeps DEF callVars
<1>3. Component(set[e].field) \in Components
  BY <1>1, AtWork DEF Leaving
<1>4. InverterTypeOK'
  <2>1. LandSetting(e) \/ UNCHANGED wire
    BY DEF RawWriteFailed, RawReadBack, RawUnread, RawCancelled
  <2>2. powered' = powered
    BY DEF RawWriteFailed, RawReadBack, RawUnread, RawCancelled
  <2> QED
    BY <1>1, <2>1, <2>2, SettingTypeOK DEF Leaving, EntityInv, CallInv, TypeOK, InverterTypeOK
<1>5. CacheTypeOK'
  <2>1. CASE UNCHANGED cacheVars
    BY <2>1 DEF EntityInv, CallInv, TypeOK, CacheTypeOK
  <2>2. CASE RawReadBack(e)
    BY <1>3, <2>2, AnswerTypeOK DEF RawReadBack, EntityInv, CallInv, TypeOK, CacheTypeOK
  <2>3. CASE RawUnread(e)
    BY <2>3 DEF RawUnread, Invalidate, EntityInv, CallInv, TypeOK, CacheTypeOK
  <2> QED
    BY <2>1, <2>2, <2>3 DEF RawWriteFailed, RawCancelled
<1>6. ShownOK'
  <2>1. {Component(set[e].field)} \in SUBSET Components /\ ShownOK
    BY <1>3 DEF EntityInv, RunInv
  <2> QED
    BY <2>1, ApplyKeepsShown, UnchangedShown
       DEF RawWriteFailed, RawReadBack, RawUnread, RawCancelled
<1>7. RunInv'
  BY <1>1, <1>6, UnchangedRun DEF EntityInv, RunInv
<1> QED
  BY <1>1, <1>2, <1>4, <1>5, <1>7, EntityCallInv DEF EntityInv

LEMMA NextEntityInv == EntityInv /\ [RawNext]_systemVars => EntityInv'
<1> SUFFICES ASSUME EntityInv, [RawNext]_systemVars PROVE EntityInv'
  OBVIOUS
<1>1. CASE ServicesAndPoll
  <2> DEFINE ps == Callers \ Entities
  <2>1. ((\E p \in ps : Serve(p) \/ RunStep(p)) \/ Background) /\ UNCHANGED rawVars
    BY <1>1 DEF ServicesAndPoll
  <2>2. ps \in SUBSET Callers /\ CallInv /\ RunInv /\ TypeOK /\ Discipline
    BY DEF EntityInv, CallInv
  <2>3. CallInv' /\ RunInv'
    BY <2>1, <2>2, StepsKeepCalls
  <2>4. GuardedStep(ps) \/ OutsideRead(ps)
    BY <2>1, <2>2, WhatStepsDo
  <2>5. Discipline'
    BY <2>1, <2>2, <2>4, ServicesKeepDiscipline
  <2>6. RawTables'
    BY <2>1 DEF EntityInv, RawTables, rawVars
  <2> QED
    BY <2>3, <2>5, <2>6 DEF EntityInv
<1>2. ASSUME NEW e \in Entities, RawCall(e) \/ RawStep(e) PROVE EntityInv'
  BY <1>2, RawCallKeeps, RawAcquireKeeps, RawWrittenKeeps, RawEndsKeep DEF RawStep
<1>3. CASE UNCHANGED systemVars
  <2>1. /\ UNCHANGED vars /\ UNCHANGED coordinatorVars /\ UNCHANGED runVars
        /\ UNCHANGED rawVars
    BY <1>3 DEF systemVars, allVars
  <2>2. CallInv' /\ RunInv'
    BY <2>1, NextCallInv, UnchangedRun, UnchangedShown DEF EntityInv, RunInv
  <2>3. RawTables' /\ Discipline'
    BY <2>1 DEF EntityInv, RawTables, Discipline, Works, vars, rawVars, lockVars, callVars
  <2> QED
    BY <2>2, <2>3 DEF EntityInv
<1> QED
  BY <1>1, <1>2, <1>3 DEF RawNext

LEMMA InitEntity ==
    ASSUME RawInit
    PROVE  EntityInv
<1>1. RunInit /\ Init
  BY DEF RawInit, RunInit
<1>2. CallInv /\ RunInv
  BY <1>1, InitRun
<1>3. RawTables
  BY EntityProcesses DEF RawInit, RawTables
<1>4. Discipline
  BY <1>1, EntityProcesses DEF RawInit, Init, Discipline, Works, Inside, Holding, Reading
<1> QED
  BY <1>2, <1>3, <1>4 DEF EntityInv

\* One lock for guarded calls, the poll and raw entities: whoever works under it holds
\* it, and nobody else does, cancelled and failed writes included.
THEOREM RawTypes == RawSpec => []RawTypeOK
<1>1. RawInit => EntityInv
  BY InitEntity
<1>2. EntityInv /\ [RawNext]_systemVars => EntityInv'
  BY NextEntityInv
<1>3. EntityInv => RawTypeOK
  BY EntityInvIs
<1> QED
  BY <1>1, <1>2, <1>3, PTL DEF RawSpec

(***************************************************************************)
(* The marks.  A field whose component has one is cached as the inverter   *)
(* answers, or somebody is still at it, or it was left unsettled.  What    *)
(* makes that inductive is ReadBackInv, as in BatteryControlProofs: a      *)
(* call that gives the lock up without an error has read back all it wrote.*)
(***************************************************************************)
Covered(f) ==
    \/ \E p \in Callers \ Entities : lock = p /\ f \in written[p]
    \/ \E e \in Entities : raw[e] = "reading" /\ f = set[e].field

MarksInv == EntityInv /\ ReadBackInv /\ MarksAreTrue

\* What a step owes each field whose component has a mark after it.
LEMMA MarksStep ==
    ASSUME MarksAreTrue, NEW fs, Unsettle(fs),
           \A f \in Fields : Component(f) \in refreshed' =>
               \/ cache'[f] = Answer(wire')[f]
               \/ f \in fs
               \/ Covered(f)'
               \/ /\ Component(f) \in refreshed /\ ~Covered(f)
                  /\ wire'[f] = wire[f] /\ cache'[f] = cache[f]
    PROVE  MarksAreTrue'
<1> SUFFICES ASSUME NEW f \in Fields, Component(f) \in refreshed'
             PROVE  cache'[f] = Answer(wire')[f] \/ f \in unsettled' \/ Covered(f)'
  BY DEF MarksAreTrue, Covered
<1>1. CASE cache'[f] = Answer(wire')[f] \/ Covered(f)'
  BY <1>1
<1>2. CASE f \in fs
  BY <1>2 DEF Unsettle
<1>3. CASE /\ Component(f) \in refreshed /\ ~Covered(f)
           /\ wire'[f] = wire[f] /\ cache'[f] = cache[f]
  <2>1. cache[f] = Answer(wire)[f] \/ f \in unsettled
    BY <1>3 DEF MarksAreTrue, Covered
  <2>2. Answer(wire')[f] = Answer(wire)[f]
    BY <1>3 DEF Answer
  <2>3. f \in unsettled => cache'[f] = Answer(wire')[f] \/ f \in unsettled'
    BY DEF Unsettle
  <2> QED
    BY <1>3, <2>1, <2>2, <2>3
<1> QED
  BY <1>1, <1>2, <1>3

\* What the holder of the lock leaves covered is what it has written.
LEMMA HolderCovers ==
    ASSUME EntityInv, NEW p \in Processes \ Entities, pc[p] \in Holding, NEW f \in Fields,
           Covered(f)
    PROVE  lock = p /\ f \in written[p]
<1>1. lock = p
  BY DEF EntityInv, Discipline, Works
<1>2. \A e \in Entities : raw[e] # "reading"
  BY <1>1, EntityProcesses DEF EntityInv, Discipline, Works, Inside
<1> QED
  BY <1>1, <1>2 DEF Covered

\* A call that ends without a failure leaves nothing it wrote unread.
LEMMA EndKeepsMarks ==
    ASSUME EntityInv, MarksAreTrue, Unsettle({}), NEW p \in Processes \ Entities,
           pc[p] \in Holding, UNCHANGED <<wire, cache, refreshed>>,
           \A f \in written[p] : cache[f] = Answer(wire)[f]
    PROVE  MarksAreTrue'
<1>1. ASSUME NEW f \in Fields PROVE ~Covered(f) \/ cache'[f] = Answer(wire')[f]
  BY HolderCovers
<1> QED
  BY <1>1, MarksStep

\* A call that fails takes the mark of every component it may have written to.
LEMMA FailKeepsMarks ==
    ASSUME EntityInv, MarksAreTrue, Unsettle({}), NEW p \in Processes \ Entities,
           pc[p] \in Holding, NEW outcome, Fail(p, outcome), UNCHANGED cache,
           \A f \in Fields : Component(f) \notin Touched(plan[p]) => wire'[f] = wire[f]
    PROVE  MarksAreTrue'
<1>1. ASSUME NEW f \in Fields, Component(f) \in refreshed'
      PROVE  Component(f) \in refreshed /\ ~Covered(f) /\ wire'[f] = wire[f]
  <2>1. Component(f) \in refreshed /\ Component(f) \notin Touched(plan[p])
    BY <1>1 DEF Fail, Invalidate
  <2>2. f \notin written[p]
    BY <2>1 DEF EntityInv, CallInv, WritersInv
  <2> QED
    BY <2>1, <2>2, HolderCovers
<1> QED
  BY <1>1, MarksStep

\* Nothing a field's mark depends on changes, but for a lock that is taken when free.
LEMMA IdleKeepsMarks ==
    ASSUME EntityInv, MarksAreTrue, Unsettle({}), UNCHANGED <<wire, cache, refreshed, rawVars>>,
           written' = written, lock' = lock \/ lock = None
    PROVE  MarksAreTrue'
<1>1. ASSUME NEW f \in Fields, Covered(f) PROVE Covered(f)'
  BY <1>1, EntityProcesses DEF Covered, rawVars
<1> QED
  BY <1>1, MarksStep

\* A read refreshes one component, whoever reads it.
LEMMA ReadKeepsMarks ==
    ASSUME MarksAreTrue, Unsettle({}), UNCHANGED <<wire, rawVars, written, lock>>, NEW k,
           cache' = [f \in Fields |-> IF Component(f) = k THEN Answer(wire)[f] ELSE cache[f]],
           refreshed' = refreshed \cup {k}
    PROVE  MarksAreTrue'
<1>1. ASSUME NEW f \in Fields, Component(f) \in refreshed'
      PROVE  \/ cache'[f] = Answer(wire')[f] \/ Covered(f)'
             \/ Component(f) \in refreshed /\ ~Covered(f) /\ cache'[f] = cache[f]
  <2>1. CASE Component(f) = k
    BY <2>1
  <2>2. CASE Component(f) # k
    <3>1. Component(f) \in refreshed /\ cache'[f] = cache[f]
      BY <1>1, <2>2
    <3>2. Covered(f) => Covered(f)'
      BY DEF Covered, rawVars
    <3> QED
      BY <3>1, <3>2
  <2> QED
    BY <2>1, <2>2
<1> QED
  BY <1>1, MarksStep

LEMMA WriteKeepsMarks ==
    ASSUME EntityInv, MarksAreTrue, Unsettle({}), UNCHANGED rawVars,
           NEW p \in Processes \ Entities, WriteAnswered(p)
    PROVE  MarksAreTrue'
<1> USE DEF lockVars
<1>1. PICK i \in DOMAIN plan[p] :
        /\ IsNext(p, i)
        /\ Land(plan[p][i]) \/ UNCHANGED wire
        /\ written' = [written EXCEPT ![p] = @ \cup {plan[p][i].field}]
  BY DEF WriteAnswered
<1>2. pc[p] \in Holding /\ p \in Callers \ Entities
  BY <1>1 DEF IsNext, Holding, EntityInv, CallInv, WritersInv, InCall, Processes
<1>3. lock = p /\ lock' = p /\ cache' = cache /\ refreshed' = refreshed
  BY <1>2 DEF WriteAnswered, EntityInv, Discipline, Works
<1>4. written'[p] = written[p] \cup {plan[p][i].field}
  BY <1>1 DEF EntityInv, CallInv, TypeOK, CallTypeOK
<1>5. ASSUME NEW f \in Fields PROVE Covered(f)' \/ (~Covered(f) /\ wire'[f] = wire[f])
  <2>1. CASE f \in written'[p]
    <3>1. p \in Callers \ Entities /\ lock' = p /\ f \in written'[p]
      BY <1>2, <1>3, <2>1
    <3> QED
      BY <3>1 DEF Covered
  <2>2. CASE f \notin written'[p]
    <3>1. ~Covered(f)
      BY <1>2, <1>4, <2>2, HolderCovers
    <3>2. wire'[f] = wire[f]
      BY <1>1, <1>4, <2>2 DEF Land, EntityInv, CallInv, TypeOK, InverterTypeOK
    <3> QED
      BY <3>1, <3>2
  <2> QED
    BY <2>1, <2>2
<1> QED
  BY <1>3, <1>5, MarksStep

\* Every step of the services' calls and of the poll.
LEMMA GuardedKeepsMarks ==
    ASSUME \A r \in Requests : r.verify, MarksInv, Unsettle({}), UNCHANGED rawVars,
           GuardedStep(Callers \ Entities)
    PROVE  MarksAreTrue'
<1> USE DEF MarksInv, inverterVars, cacheVars, lockVars, callVars
<1> DEFINE ps == Callers \ Entities
<1>1. ASSUME NEW p \in ps \cup {Poller}, Proceed(p) PROVE MarksAreTrue'
  <2>1. p \in Processes \ Entities /\ TypeOK /\ WritersInv /\ RequestInv
    BY EntityProcesses DEF Processes, EntityInv, CallInv
  <2>2. CASE Acquire(p) \/ ReadFailed(p) \/ MakePlan(p) \/ StartReadBack(p)
    BY <2>2, IdleKeepsMarks DEF Acquire, TakeLock, ReadFailed, MakePlan, StartReadBack
  <2>3. CASE ReadAnswered(p)
    BY <2>3, ReadKeepsMarks DEF ReadAnswered
  <2>4. CASE WriteAnswered(p)
    BY <2>1, <2>4, WriteKeepsMarks
  <2>5. CASE FreshenRaised(p) \/ RefusePower(p) \/ Command(p)
    <3>1. pc[p] \in Holding /\ written[p] = {}
      BY <2>1, <2>5 DEF FreshenRaised, RefusePower, Freshened, Command, Holding, Reading,
                        WritersInv
    <3> QED
      BY <2>1, <2>5, <3>1, EndKeepsMarks DEF FreshenRaised, RefusePower, Command
  <2>6. CASE EndUnread(p)
    <3>1. request[p].verify
      BY <2>1, <2>6 DEF EndUnread, RequestInv, InCall
    <3>2. pc[p] \in Holding /\ written[p] = {}
      BY <2>6, <3>1 DEF EndUnread, Holding
    <3> QED
      BY <2>1, <2>6, <3>2, EndKeepsMarks DEF EndUnread
  <2>7. CASE Verify(p)
    <3>1. pc[p] \in Holding /\ \A f \in written[p] : cache[f] = Answer(wire)[f]
      BY <2>1, <2>7 DEF Verify, ReadBack, ReadBackInv, Holding, Reading
    <3> QED
      BY <2>1, <2>7, <3>1, EndKeepsMarks DEF Verify
  <2>8. CASE ReadBackRaised(p) \/ Mismatch(p)
    <3>1. pc[p] \in Holding
      BY <2>1, <2>8, EndersHold
    <3> QED
      BY <2>1, <2>8, <3>1, FailKeepsMarks DEF ReadBackRaised, Mismatch
  <2>9. CASE WriteRejected(p) \/ WriteUnanswered(p)
    <3>1. pc[p] \in Holding
      BY <2>1, <2>9, EndersHold
    <3>2. PICK i \in DOMAIN plan[p] : Land(plan[p][i]) \/ UNCHANGED wire
      BY <2>9 DEF WriteRejected, WriteUnanswered, WriteFailed
    <3>3. Component(plan[p][i].field) \in Touched(plan[p])
      BY DEF Touched
    <3>4. \A f \in Fields : Component(f) \notin Touched(plan[p]) => wire'[f] = wire[f]
      BY <2>1, <3>2, <3>3 DEF Land, TypeOK, InverterTypeOK
    <3> QED
      BY <2>1, <2>9, <3>1, <3>4, FailKeepsMarks
         DEF WriteRejected, WriteUnanswered, WriteFailed
  <2> QED
    BY <1>1, <2>2, <2>3, <2>4, <2>5, <2>6, <2>7, <2>8, <2>9 DEF Proceed
<1>2. CASE PollEnds
  <2>1. Poller \in Processes \ Entities /\ pc[Poller] \in Holding /\ written[Poller] = {}
    BY <1>2, EntityProcesses
       DEF PollEnds, Processes, Holding, Reading, EntityInv, CallInv, WritersInv
  <2> QED
    BY <1>2, <2>1, EndKeepsMarks DEF PollEnds
<1>3. CASE \/ /\ \E p \in ps, r \in Requests : MakeCall(p, r)
              /\ UNCHANGED <<inverterVars, cacheVars>>
           \/ Poll \/ PollRunningState \/ GraceEnds \/ UNCHANGED vars
  BY <1>3, IdleKeepsMarks DEF MakeCall, Poll, Enqueue, PollRunningState, GraceEnds, vars
<1> QED
  BY <1>1, <1>2, <1>3 DEF GuardedStep

\* A service's read outside the lock.
LEMMA OutsideKeepsMarks ==
    ASSUME MarksInv, NEW ps \in SUBSET Callers, OutsideRead(ps), Unsettle({}), UNCHANGED rawVars
    PROVE  MarksAreTrue' /\ ReadBackInv'
<1> USE DEF inverterVars, lockVars, callVars
<1>1. PICK k \in Components :
        /\ cache' = [f \in Fields |-> IF Component(f) = k THEN Answer(wire)[f] ELSE cache[f]]
        /\ refreshed' = refreshed \cup {k}
  BY DEF OutsideRead
<1>2. wire' = wire /\ written' = written /\ lock' = lock /\ toRead' = toRead /\ failed' = failed
  BY DEF OutsideRead, MakeCall, Enqueue
<1>3. MarksAreTrue'
  BY <1>1, <1>2, ReadKeepsMarks DEF MarksInv
<1>4. \A p \in Processes : pc'[p] = "readback" => pc[p] = "readback"
  BY DEF OutsideRead, MakeCall, MarksInv, EntityInv, CallInv, TypeOK, CallTypeOK
<1>5. \A f \in Fields : cache[f] = Answer(wire)[f] => cache'[f] = Answer(wire)[f]
  BY <1>1
<1>6. \A p \in Processes : written[p] \subseteq Fields
  BY DEF MarksInv, EntityInv, CallInv, TypeOK, CallTypeOK
<1>7. ReadBackInv'
  BY <1>2, <1>4, <1>5, <1>6 DEF MarksInv, ReadBackInv
<1> QED
  BY <1>3, <1>7

\* Every step of an entity.
LEMMA EntityKeepsMarks ==
    ASSUME MarksInv, NEW e \in Entities, (RawCall(e) /\ Unsettle({})) \/ RawStep(e)
    PROVE  MarksAreTrue'
<1> USE DEF MarksInv, inverterVars, cacheVars, lockVars, callVars
<1>1. CASE (RawCall(e) \/ RawAcquire(e)) /\ Unsettle({})
  <2>1. /\ UNCHANGED <<wire, cache, refreshed, written>>
        /\ lock' = lock \/ lock = None
    BY <1>1 DEF RawCall, Enqueue, RawAcquire, TakeLock
  <2>2. \A d \in Entities : raw[d] = "reading" => raw'[d] = "reading" /\ set'[d] = set[d]
    BY <1>1 DEF RawCall, RawAcquire, EntityInv, RawTables
  <2>3. ASSUME NEW f \in Fields, Covered(f) PROVE Covered(f)'
    BY <2>1, <2>2, <2>3, EntityProcesses DEF Covered
  <2> QED
    BY <1>1, <2>1, <2>3, MarksStep
<1>2. ASSUME raw[e] \in Inside
      PROVE  /\ \A p \in Callers \ Entities : lock # p
             /\ \A d \in Entities : raw[d] = "reading" => d = e
             /\ set[e].field \in Fields
  BY <1>2, AtWork DEF Inside
<1>3. CASE RawWritten(e) /\ Unsettle({})
  <2>1. /\ raw[e] = "writing" /\ raw'[e] = "reading" /\ set' = set
        /\ UNCHANGED <<cache, refreshed>>
        /\ LandSetting(e) \/ UNCHANGED wire
    BY <1>3 DEF RawWritten, EntityInv, RawTables
  <2>2. raw[e] \in Inside
    BY <2>1 DEF Inside
  <2>3. \A f \in Fields : f # set[e].field => wire'[f] = wire[f]
    <3>1. EntityInv
      OBVIOUS
    <3> QED
      BY ONLY <2>1, <2>2, <3>1, SettingTypeOK, e \in Entities
  <2>4. ASSUME NEW f \in Fields PROVE Covered(f)' \/ (~Covered(f) /\ wire'[f] = wire[f])
    <3>1. ~Covered(f)
      BY <1>2, <2>1, <2>2 DEF Covered
    <3>2. f = set[e].field => Covered(f)'
      BY <2>1 DEF Covered
    <3> QED
      BY <2>3, <3>1, <3>2
  <2> QED
    BY <1>3, <2>1, <2>4, MarksStep
<1>4. CASE RawWriteFailed(e) \/ RawCancelled(e)
  <2>1. /\ raw[e] \in Inside /\ UNCHANGED <<cache, refreshed>>
        /\ LandSetting(e) \/ UNCHANGED wire
        /\ Unsettle({set[e].field})
    BY <1>4 DEF RawWriteFailed, RawCancelled, Inside
  <2>2. \A f \in Fields : f # set[e].field => wire'[f] = wire[f]
    <3>1. EntityInv
      OBVIOUS
    <3> QED
      BY ONLY <2>1, <3>1, SettingTypeOK, e \in Entities
  <2>3. ASSUME NEW f \in Fields PROVE f = set[e].field \/ (~Covered(f) /\ wire'[f] = wire[f])
    <3>1. f # set[e].field => ~Covered(f)
      BY <1>2, <2>1 DEF Covered
    <3> QED
      BY <2>2, <3>1
  <2> QED
    BY <2>1, <2>3, MarksStep
<1>5. CASE (RawReadBack(e) \/ RawUnread(e)) /\ Unsettle({})
  <2> DEFINE k == Component(set[e].field)
  <2>1. raw[e] \in Inside /\ wire' = wire
    BY <1>5 DEF RawReadBack, RawUnread, Inside
  <2>2. \A f \in Fields : Component(f) # k => ~Covered(f)
    BY <1>2, <2>1 DEF Covered
  <2>3. ASSUME NEW f \in Fields, Component(f) \in refreshed'
        PROVE  \/ cache'[f] = Answer(wire')[f]
               \/ Component(f) # k /\ Component(f) \in refreshed /\ cache'[f] = cache[f]
    <3>1. CASE RawReadBack(e)
      BY <2>1, <2>3, <3>1 DEF RawReadBack
    <3>2. CASE RawUnread(e)
      BY <2>1, <2>3, <3>2 DEF RawUnread, Invalidate
    <3> QED
      BY <1>5, <3>1, <3>2
  <2> QED
    BY <1>5, <2>1, <2>2, <2>3, MarksStep
<1> QED
  BY <1>1, <1>3, <1>4, <1>5 DEF RawStep

\* While an entity is at work no call reads back.
LEMMA EntityKeepsReadBack ==
    ASSUME MarksInv, NEW e \in Entities, RawCall(e) \/ RawStep(e)
    PROVE  ReadBackInv'
<1> USE DEF MarksInv, inverterVars, cacheVars, callVars
<1>1. UNCHANGED callVars
  BY DEF RawCall, RawStep, RawAcquire, RawWritten, RawWriteFailed, RawReadBack, RawUnread,
         RawCancelled
<1>2. CASE RawCall(e) \/ RawAcquire(e)
  BY <1>1, <1>2 DEF RawCall, RawAcquire, ReadBackInv, Answer
<1>3. CASE \/ RawWritten(e) \/ RawWriteFailed(e) \/ RawReadBack(e) \/ RawUnread(e)
           \/ RawCancelled(e)
  <2>1. raw[e] \in Inside
    BY <1>3 DEF RawWritten, RawWriteFailed, RawReadBack, RawUnread, RawCancelled, Inside
  <2>2. \A p \in Processes : pc'[p] # "readback"
    BY <1>1, <2>1, AtWork DEF Holding, Reading
  <2> QED
    BY <2>2 DEF ReadBackInv
<1> QED
  BY <1>2, <1>3 DEF RawStep

LEMMA NextMarks ==
    ASSUME \A r \in Requests : r.verify, MarksInv, [RawNext]_systemVars
    PROVE  MarksInv'
<1>1. EntityInv'
  BY NextEntityInv DEF MarksInv
<1>2. CASE ServicesAndPoll
  <2> DEFINE ps == Callers \ Entities
  <2>1. /\ (\E p \in ps : Serve(p) \/ RunStep(p)) \/ Background
        /\ UNCHANGED rawVars /\ Unsettle({})
    BY <1>2 DEF ServicesAndPoll
  <2>2. /\ ps \in SUBSET Callers /\ RunInv /\ TypeOK /\ WritersInv
        /\ ReadBackInv /\ HoldersHold
    BY EntityInvIs DEF MarksInv, EntityInv, CallInv
  <2>3. GuardedStep(ps) \/ OutsideRead(ps)
    BY <2>1, <2>2, WhatStepsDo
  <2>4. CASE GuardedStep(ps)
    <3>1. ReadBackInv'
      BY <2>2, <2>4, GuardedIsNext, NextReadBack
    <3> QED
      BY <1>1, <2>1, <2>4, <3>1, GuardedKeepsMarks DEF MarksInv
  <2>5. CASE OutsideRead(ps)
    BY <1>1, <2>1, <2>2, <2>5, OutsideKeepsMarks DEF MarksInv
  <2> QED
    BY <2>3, <2>4, <2>5
<1>3. ASSUME NEW e \in Entities, (RawCall(e) /\ Unsettle({})) \/ RawStep(e) PROVE MarksInv'
  BY <1>1, <1>3, EntityKeepsMarks, EntityKeepsReadBack DEF MarksInv
<1>4. CASE UNCHANGED systemVars
  <2> USE DEF systemVars, allVars, vars, inverterVars, cacheVars, lockVars, callVars, rawVars
  <2>1. ReadBackInv'
    BY <1>4 DEF MarksInv, ReadBackInv, Answer
  <2>2. MarksAreTrue'
    BY <1>4 DEF MarksInv, MarksAreTrue, Answer
  <2> QED
    BY <1>1, <2>1, <2>2 DEF MarksInv
<1> QED
  BY <1>2, <1>3, <1>4 DEF RawNext

\* With entities, services and re-reads outside the lock next to one another, a
\* freshness mark is wrong only while its writer is at it or after an entity's write
\* that went unanswered or was cancelled, which takes no mark: nothing else that fails,
\* is ignored or lands unseen leaves a service to plan on what the inverter does not say.
THEOREM MarksStayTrue ==
    ASSUME \A r \in Requests : r.verify
    PROVE  RawSpec => []MarksAreTrue
<1>1. RawInit => MarksInv
  <2> SUFFICES ASSUME RawInit PROVE MarksInv
    OBVIOUS
  <2>1. Init
    BY DEF RawInit, RunInit
  <2>2. ReadBackInv /\ MarksAreTrue
    BY <2>1 DEF Init, ReadBackInv, MarksAreTrue
  <2> QED
    BY <2>2, InitEntity DEF MarksInv
<1>2. MarksInv /\ [RawNext]_systemVars => MarksInv'
  BY NextMarks
<1>3. MarksInv => MarksAreTrue
  BY DEF MarksInv
<1> QED
  BY <1>1, <1>2, <1>3, PTL DEF RawSpec
================================================================================
