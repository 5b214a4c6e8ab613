-------------------------- MODULE BatteryControlProofs --------------------------
(***************************************************************************)
(* Theorems about BatteryControl, for every set of callers, every request  *)
(* and register file, every fence and full power.                          *)
(***************************************************************************)
EXTENDS BatteryControl, TLAPS

Targets == UNION {ValuesOf(f) : f \in Fields}
Steps   == {s \in [field : Fields, target : Targets, atOrBelow : BOOLEAN] : IsStep(s)}

\* The constructors of a plan make steps of their fields.
LEMMA StepConstructors ==
    /\ \A f \in Fields : \A v \in ValuesOf(f) : Exactly(f, v) \in Steps
    /\ \A f \in Limits : Exactly(f, Full) \in Steps /\ FenceOff(f) \in Steps
<1>1. \A f \in Limits : f \in Fields /\ ValuesOf(f) = Nat
  BY DEF Fields, Powers, Limits, ValuesOf
<1>2. \A f \in Fields : \A v \in ValuesOf(f) : v \in Targets
  BY DEF Targets
<1>3. \A f \in Fields : \A v \in ValuesOf(f) : Exactly(f, v) \in Steps
  BY <1>2 DEF Steps, IsStep, Exactly
<1>4. \A f \in Limits : FenceOff(f) \in Steps
  BY <1>1, <1>2, LimitsAssumption DEF Steps, IsStep, FenceOff
<1>5. \A f \in Limits : Exactly(f, Full) \in Steps
  BY <1>1, <1>3, LimitsAssumption
<1> QED
  BY <1>3, <1>4, <1>5

LEMMA SequencesArePlans == \A s \in Seq(Steps) : IsPlan(s)
BY DEF IsPlan, Steps

\* _plan returns a sequence of steps with values of their registers, for every
\* request whose power was accepted and whatever the cache holds.
LEMMA PlanIsPlan ==
    ASSUME NEW r \in Requests, r.what \notin PowerButtons, PowerInRange(r), NEW view
    PROVE  IsPlan(Plan(r, view))
<1>1. r \in AllRequests
  BY RequestAssumption
<1>2. Restore \in Seq(Steps) /\ ToSelf \in Seq(Steps)
  <2>1. \A f \in Limits : Exactly(f, Full) \in Steps
    BY StepConstructors
  <2>2. Exactly("ems_mode", "self_consumption") \in Steps
    BY StepConstructors DEF Fields, Powers, ValuesOf, EmsModes
  <2> QED
    BY <2>1, <2>2 DEF Restore, ToSelf, Limits
<1>3. \A c \in Commands : StopBefore(c, view) \in Seq(Steps)
  <2>1. Exactly("charge_command", "stop") \in Steps
    BY StepConstructors DEF Fields, Powers, ValuesOf, Commands
  <2> QED
    BY <2>1 DEF StopBefore
<1>4. ASSUME r.what \in ForcedModes, NEW c \in Commands
      PROVE  ForcePlan(c, r.power, view) \in Seq(Steps)
  <2>1. r.power \in Nat
    BY <1>1, <1>4 DEF PowerInRange, AllRequests
  <2>2. Exactly("forced_power", r.power) \in Steps
    BY <2>1, StepConstructors DEF Fields, Powers, ValuesOf
  <2>3. Exactly("charge_command", c) \in Steps
    BY <1>4, StepConstructors DEF Fields, Powers, ValuesOf
  <2>4. Exactly("ems_mode", "compulsory") \in Steps
    BY StepConstructors DEF Fields, Powers, ValuesOf, EmsModes
  <2>5. ForceSteps(c, r.power) \in Seq(Steps)
    BY <2>2, <2>3, <2>4 DEF ForceSteps
  <2> QED
    BY <1>2, <1>3, <2>5 DEF ForcePlan
<1>5. SelfPlan(view) \in Seq(Steps)
  BY <1>2 DEF SelfPlan
<1>6. \A f, g \in Limits : StopOnly(f, g) \in Seq(Steps)
  BY <1>2, StepConstructors DEF StopOnly
<1>7. StopBoth \in Seq(Steps)
  BY <1>2, StepConstructors DEF StopBoth, Limits
<1>8. PvPlan(r.what) \in Seq(Steps)
  <2>1. Exactly("pv_power_limitation", r.what = "pv_limit") \in Steps
    BY StepConstructors DEF Fields, Powers, ValuesOf
  <2> QED
    BY <2>1 DEF PvPlan
<1>9. r.what \in DesiredModes \cup PvRequests
  BY <1>1 DEF AllRequests
<1>10. Plan(r, view) \in Seq(Steps)
  <2>1. CASE r.what \in ForcedModes
    BY <2>1, <1>4 DEF Plan, ForcedModes, Commands
  <2>2. CASE r.what \in {"self_consumption", "no_charge", "no_discharge", "hold"}
    BY <2>2, <1>5, <1>6, <1>7 DEF Plan, Limits
  <2>3. CASE r.what \in PvRequests
    BY <2>3, <1>8 DEF Plan, PvRequests
  <2> QED
    BY <1>9, <2>1, <2>2, <2>3 DEF DesiredModes, FencedModes
<1> QED
  BY <1>10, SequencesArePlans

(***************************************************************************)
(* Type correctness.                                                       *)
(***************************************************************************)
LEMMA InitTypeOK == Init => TypeOK
<1> SUFFICES ASSUME Init PROVE TypeOK
  OBVIOUS
<1>1. InverterTypeOK
  BY WireAssumption DEF Init, InverterTypeOK
<1>2. CacheTypeOK
  BY DEF Init, CacheTypeOK
<1>3. LockTypeOK
  BY DEF Init, LockTypeOK
<1>4. CallTypeOK
  <2>1. IsPlan(<< >>)
    BY DEF IsPlan
  <2> QED
    BY <2>1 DEF Init, CallTypeOK, Resting
<1> QED
  BY <1>1, <1>2, <1>3, <1>4 DEF TypeOK

\* A call that ends leaves the lock and call variables well typed.
LEMMA EndTypeOK ==
    ASSUME TypeOK, NEW p \in Processes, NEW outcome \in Resting, End(p, outcome)
    PROVE  LockTypeOK' /\ CallTypeOK'
BY DEF TypeOK, LockTypeOK, CallTypeOK, End, Return, IsPlan

LEMMA FailTypeOK ==
    ASSUME TypeOK, NEW p \in Processes, NEW outcome \in Resting, Fail(p, outcome),
           UNCHANGED <<cache, seen>>, inGrace' \in BOOLEAN
    PROVE  CacheTypeOK' /\ LockTypeOK' /\ CallTypeOK'
<1>1. LockTypeOK' /\ CallTypeOK'
  BY EndTypeOK DEF Fail
<1>2. CacheTypeOK'
  BY DEF TypeOK, CacheTypeOK, Fail, Invalidate
<1> QED
  BY <1>1, <1>2

\* Whatever a read answers fits the field it is cached in.
LEMMA AnswerTypeOK ==
    ASSUME TypeOK, NEW f \in Fields
    PROVE  Answer(wire)[f] \in ValuesOf(f) \cup {None}
BY DEF TypeOK, InverterTypeOK, Answer, WordZero, ValuesOf, Fields, Powers, Limits, EmsModes

LEMMA LandTypeOK ==
    ASSUME TypeOK, NEW s, IsStep(s), Land(s)
    PROVE  DOMAIN wire' = Fields /\ \A f \in Fields : wire'[f] \in ValuesOf(f)
BY DEF TypeOK, InverterTypeOK, IsStep, Land

(***************************************************************************)
(* A process that plans or executes is doing what a caller asked for.      *)
(***************************************************************************)
InCall == {"freshen", "writing", "readback"}

RequestInv ==
    \A p \in Processes :
        /\ pc[p] = "waiting" /\ p # Poller => request[p] \in Requests
        /\ pc[p] \in InCall => request[p] \in Requests /\ request[p].what \notin PowerButtons

LEMMA InitRequestInv == Init => RequestInv
BY DEF Init, RequestInv, InCall

LEMMA EndRequestInv ==
    ASSUME TypeOK, RequestInv, NEW p \in Processes, NEW outcome \in Resting, End(p, outcome)
    PROVE  RequestInv'
BY DEF TypeOK, CallTypeOK, RequestInv, End, Return, InCall, Resting, Outcomes, Errors

LEMMA NextRequestInv == TypeOK /\ RequestInv /\ [Next]_vars => RequestInv'
<1> SUFFICES ASSUME TypeOK, RequestInv, [Next]_vars PROVE RequestInv'
  OBVIOUS
<1> USE DEF callVars
<1>u. ASSUME UNCHANGED callVars PROVE RequestInv'
  BY <1>u DEF RequestInv
<1>1. ASSUME NEW p \in Callers, Call(p) PROVE RequestInv'
  BY <1>1 DEF Call, MakeCall, RequestInv, InCall, TypeOK, CallTypeOK, Processes
<1>2. ASSUME Poll PROVE RequestInv'
  BY <1>2 DEF Poll, RequestInv, InCall, TypeOK, CallTypeOK, Processes
<1>3. ASSUME NEW p \in Processes, NEW outcome \in Resting, End(p, outcome)
      PROVE  RequestInv'
  BY <1>3, EndRequestInv
<1>4. ASSUME NEW p \in Processes, Acquire(p) PROVE RequestInv'
  BY <1>4 DEF Acquire, TakeLock, FirstPlace, RequestInv, InCall, TypeOK, CallTypeOK, Processes
<1>5. ASSUME NEW p \in Processes, pc' = pc, request' = request PROVE RequestInv'
  BY <1>5 DEF RequestInv
<1>6. ASSUME NEW p \in Processes, MakePlan(p) PROVE RequestInv'
  BY <1>6 DEF MakePlan, Freshened, RequestInv, InCall, TypeOK, CallTypeOK
<1>7. ASSUME NEW p \in Processes, StartReadBack(p) PROVE RequestInv'
  BY <1>7 DEF StartReadBack, RequestInv, InCall, TypeOK, CallTypeOK
<1>8. ASSUME NEW p \in Processes, Proceed(p) PROVE RequestInv'
  <2>1. CASE \E outcome \in Resting : End(p, outcome)
    BY <2>1, <1>3
  <2>2. CASE \A outcome \in Resting : ~End(p, outcome)
    BY <1>8, <2>2, <1>4, <1>5, <1>6, <1>7
       DEF Proceed, ReadAnswered, ReadFailed, FreshenRaised, ReadBackRaised, Fail,
           RefusePower, WriteAnswered, WriteRejected, WriteUnanswered, WriteFailed,
           EndUnread, Verify,
           Mismatch, Command, Resting, Outcomes, Errors
  <2> QED
    BY <2>1, <2>2
<1> QED
  BY <1>u, <1>1, <1>2, <1>3, <1>8
     DEF Next, PollEnds, PollRunningState, GraceEnds, vars, Processes, Resting

LEMMA NextTypeOK == TypeOK /\ RequestInv /\ [Next]_vars => TypeOK'
<1> SUFFICES ASSUME TypeOK, RequestInv, [Next]_vars PROVE TypeOK'
  OBVIOUS
<1> USE DEF inverterVars, cacheVars, lockVars, callVars
<1>u. ASSUME UNCHANGED vars PROVE TypeOK'
  BY <1>u DEF vars, TypeOK, InverterTypeOK, CacheTypeOK, LockTypeOK, CallTypeOK
<1>1. ASSUME NEW p \in Callers, Call(p) PROVE TypeOK'
  <2>1. p \in Processes
    BY DEF Processes
  <2> QED
    BY <1>1, <2>1 DEF Call, MakeCall, Enqueue, TypeOK, InverterTypeOK, CacheTypeOK, LockTypeOK,
                      CallTypeOK
<1>2. ASSUME Poll PROVE TypeOK'
  BY <1>2 DEF Poll, Enqueue, Processes, TypeOK, InverterTypeOK, CacheTypeOK, LockTypeOK,
              CallTypeOK
<1>3. ASSUME PollEnds PROVE TypeOK'
  <2>1. LockTypeOK' /\ CallTypeOK'
    BY <1>3, EndTypeOK DEF PollEnds, Processes, Resting
  <2> QED
    BY <1>3, <2>1 DEF PollEnds, TypeOK, InverterTypeOK, CacheTypeOK
<1>4. ASSUME NEW p \in Processes, Acquire(p) PROVE TypeOK'
  <2>1. LockTypeOK'
    BY <1>4 DEF Acquire, TakeLock, TypeOK, LockTypeOK
  <2>2. \A old : FirstReads(p, old) \in SUBSET Components
    BY DEF FirstReads, Stale, Needed
  <2>3. FirstPlace(p) \in Holding
    BY DEF FirstPlace, Holding, Reading
  <2> QED
    BY <1>4, <2>1, <2>2, <2>3
       DEF Acquire, TakeLock, TypeOK, InverterTypeOK, CacheTypeOK, CallTypeOK
<1>5. ASSUME NEW p \in Processes, ReadAnswered(p) PROVE TypeOK'
  <2>1. CacheTypeOK'
    BY <1>5, AnswerTypeOK DEF ReadAnswered, TypeOK, CacheTypeOK, CallTypeOK
  <2>2. CallTypeOK'
    BY <1>5 DEF ReadAnswered, TypeOK, CallTypeOK
  <2> QED
    BY <1>5, <2>1, <2>2 DEF ReadAnswered, TypeOK, InverterTypeOK, LockTypeOK
<1>6. ASSUME NEW p \in Processes, ReadFailed(p) PROVE TypeOK'
  BY <1>6 DEF ReadFailed, TypeOK, InverterTypeOK, CacheTypeOK, LockTypeOK, CallTypeOK
<1>7. ASSUME NEW p \in Processes, FreshenRaised(p) PROVE TypeOK'
  <2>1. LockTypeOK' /\ CallTypeOK'
    BY <1>7, EndTypeOK DEF FreshenRaised, Resting, Outcomes, Errors
  <2> QED
    BY <1>7, <2>1 DEF FreshenRaised, TypeOK, InverterTypeOK, CacheTypeOK
<1>8. ASSUME NEW p \in Processes, ReadBackRaised(p) PROVE TypeOK'
  <2>1. CacheTypeOK' /\ LockTypeOK' /\ CallTypeOK'
    BY <1>8, FailTypeOK DEF ReadBackRaised, Resting, Outcomes, Errors, TypeOK, CacheTypeOK
  <2> QED
    BY <1>8, <2>1 DEF ReadBackRaised, TypeOK, InverterTypeOK
<1>9. ASSUME NEW p \in Processes, MakePlan(p) PROVE TypeOK'
  <2>1. IsPlan(Plan(request[p], cache))
    BY <1>9, PlanIsPlan DEF MakePlan, Freshened, RequestInv, InCall
  <2> QED
    BY <1>9, <2>1 DEF MakePlan, TypeOK, InverterTypeOK, CacheTypeOK, LockTypeOK,
                      CallTypeOK, Holding
<1>10. ASSUME NEW p \in Processes, NEW outcome \in Resting, End(p, outcome),
              UNCHANGED <<inverterVars, cacheVars>>
       PROVE  TypeOK'
  <2>1. LockTypeOK' /\ CallTypeOK'
    BY <1>10, EndTypeOK
  <2> QED
    BY <1>10, <2>1 DEF TypeOK, InverterTypeOK, CacheTypeOK
<1>11. ASSUME NEW p \in Processes, NEW outcome \in Resting, Fail(p, outcome),
              UNCHANGED <<inverterVars, cache, seen, inGrace>>
       PROVE  TypeOK'
  <2>1. CacheTypeOK' /\ LockTypeOK' /\ CallTypeOK'
    BY <1>11, FailTypeOK DEF TypeOK, CacheTypeOK
  <2> QED
    BY <1>11, <2>1 DEF TypeOK, InverterTypeOK
<1>12. ASSUME NEW p \in Processes, WriteAnswered(p) PROVE TypeOK'
  <2>1. PICK i \in DOMAIN plan[p] :
          /\ IsNext(p, i)
          /\ Land(plan[p][i]) \/ UNCHANGED wire
          /\ written' = [written EXCEPT ![p] = @ \cup {plan[p][i].field}]
          /\ next' = [next EXCEPT ![p] = i + 1]
          /\ inGrace' = (inGrace \/ plan[p][i].field = "ems_mode")
    BY <1>12 DEF WriteAnswered
  <2>2. IsStep(plan[p][i]) /\ i \in Nat \ {0}
    BY <2>1 DEF TypeOK, CallTypeOK, IsPlan
  <2>3. InverterTypeOK'
    BY <1>12, <2>1, <2>2, LandTypeOK DEF WriteAnswered, TypeOK, InverterTypeOK
  <2>4. CallTypeOK'
    BY <1>12, <2>1, <2>2 DEF WriteAnswered, TypeOK, CallTypeOK, IsStep
  <2>5. CacheTypeOK'
    <3>1. inGrace' \in BOOLEAN
      BY <2>1
    <3> QED
      BY <1>12, <3>1 DEF WriteAnswered, TypeOK, CacheTypeOK
  <2> QED
    BY <1>12, <2>3, <2>4, <2>5 DEF WriteAnswered, TypeOK, LockTypeOK
<1>13. ASSUME NEW p \in Processes, NEW outcome \in Resting, WriteFailed(p, outcome)
       PROVE  TypeOK'
  <2>1. PICK i \in DOMAIN plan[p] : Land(plan[p][i]) \/ UNCHANGED wire
    BY <1>13 DEF WriteFailed
  <2>2. IsStep(plan[p][i])
    BY <2>1 DEF TypeOK, CallTypeOK, IsPlan
  <2>3. InverterTypeOK'
    BY <1>13, <2>1, <2>2, LandTypeOK DEF WriteFailed, TypeOK, InverterTypeOK
  <2>4. CacheTypeOK' /\ LockTypeOK' /\ CallTypeOK'
    BY <1>13, FailTypeOK DEF WriteFailed, TypeOK, CacheTypeOK
  <2> QED
    BY <2>3, <2>4 DEF TypeOK
<1>14. ASSUME NEW p \in Processes, StartReadBack(p) PROVE TypeOK'
  <2>1. Touched(plan[p]) \in SUBSET Components
    BY DEF Touched, Component, Components
  <2> QED
    BY <1>14, <2>1 DEF StartReadBack, TypeOK, InverterTypeOK, CacheTypeOK, LockTypeOK,
                       CallTypeOK, Holding, Reading
<1>15. ASSUME NEW p \in Processes, Command(p) PROVE TypeOK'
  <2>1. LockTypeOK' /\ CallTypeOK'
    BY <1>15, EndTypeOK DEF Command, Resting, Outcomes, Errors
  <2>2. powered' \in BOOLEAN
    BY <1>15 DEF Command, TypeOK, InverterTypeOK
  <2> QED
    BY <1>15, <2>1, <2>2 DEF Command, TypeOK, InverterTypeOK, CacheTypeOK
<1>16. ASSUME PollRunningState \/ GraceEnds PROVE TypeOK'
  <2>1. StateOf(wire["ems_mode"]) \in RunningStates
    BY DEF StateOf, RunningStates, ForcedStates
  <2> QED
    BY <1>16, <2>1 DEF PollRunningState, GraceEnds, TypeOK, InverterTypeOK, CacheTypeOK,
                       LockTypeOK, CallTypeOK
<1>17. ASSUME NEW p \in Processes, Proceed(p) PROVE TypeOK'
  <2>1. RefusePower(p) \/ EndUnread(p) \/ Verify(p) => TypeOK'
    BY <1>10 DEF RefusePower, EndUnread, Verify, Resting, Outcomes, Errors
  <2>2. Mismatch(p) => TypeOK'
    BY <1>11 DEF Mismatch, Resting, Outcomes, Errors
  <2>3. WriteRejected(p) \/ WriteUnanswered(p) => TypeOK'
    BY <1>13 DEF WriteRejected, WriteUnanswered, Resting, Outcomes, Errors
  <2> QED
    BY <1>17, <2>1, <2>2, <2>3, <1>4, <1>5, <1>6, <1>7, <1>8, <1>9, <1>12, <1>14, <1>15
       DEF Proceed
<1> QED
  BY <1>u, <1>1, <1>2, <1>3, <1>16, <1>17 DEF Next

\* Spec => []TypeOK: no interleaving of calls, polls and failures puts a value
\* in a register or in the cache that its field cannot hold.
THEOREM TypeCorrect == Spec => []TypeOK
<1>1. Init => TypeOK /\ RequestInv
  BY InitTypeOK, InitRequestInv
<1>2. TypeOK /\ RequestInv /\ [Next]_vars => (TypeOK /\ RequestInv)'
  BY NextTypeOK, NextRequestInv
<1> QED
  BY <1>1, <1>2, PTL DEF Spec

(***************************************************************************)
(* Mutual exclusion.  OneCallAtATime is inductive by itself: a process     *)
(* gets the lock only when it is free, and gives it up exactly when its    *)
(* call ends.                                                              *)
(***************************************************************************)
LEMMA InitOneCall == Init => OneCallAtATime
BY ProcessAssumption DEF Init, OneCallAtATime, Holding, Reading

LEMMA EndOneCall ==
    ASSUME TypeOK, OneCallAtATime, NEW p \in Processes, NEW outcome \in Resting,
           pc[p] \in Holding, End(p, outcome)
    PROVE  OneCallAtATime'
<1>1. lock = p /\ lock' = None /\ pc' = [pc EXCEPT ![p] = outcome]
  BY DEF OneCallAtATime, End, Return
<1>2. outcome \notin Holding
  BY DEF Resting, Outcomes, Errors, Holding, Reading
<1>3. \A q \in Processes : pc'[q] \notin Holding /\ lock' # q
  BY <1>1, <1>2, ProcessAssumption DEF OneCallAtATime, TypeOK, CallTypeOK
<1> QED
  BY <1>3 DEF OneCallAtATime

\* Every action that ends a call is one of a process inside the lock.
LEMMA EndersHold ==
    ASSUME TypeOK, NEW p \in Processes,
           \/ FreshenRaised(p) \/ ReadBackRaised(p) \/ RefusePower(p) \/ WriteRejected(p)
           \/ WriteUnanswered(p) \/ EndUnread(p) \/ Verify(p) \/ Mismatch(p) \/ Command(p)
    PROVE  pc[p] \in Holding /\ \E outcome \in Resting : End(p, outcome)
BY DEF FreshenRaised, ReadBackRaised, RefusePower, WriteRejected, WriteUnanswered, WriteFailed,
       EndUnread, Verify, Mismatch, Command, Fail, Freshened, ReadBack, IsNext, Resting, Outcomes,
       Errors, Holding, Reading

LEMMA NextOneCall == TypeOK /\ OneCallAtATime /\ [Next]_vars => OneCallAtATime'
<1> SUFFICES ASSUME TypeOK, OneCallAtATime, [Next]_vars PROVE OneCallAtATime'
  OBVIOUS
<1> USE DEF lockVars, callVars
<1>u. ASSUME UNCHANGED <<lock, pc>> PROVE OneCallAtATime'
  BY <1>u DEF OneCallAtATime
<1>1. ASSUME NEW p \in Callers, Call(p) PROVE OneCallAtATime'
  BY <1>1 DEF Call, MakeCall, Enqueue, OneCallAtATime, TypeOK, CallTypeOK, Processes, Resting,
              Outcomes, Errors, Holding, Reading
<1>2. ASSUME Poll PROVE OneCallAtATime'
  BY <1>2 DEF Poll, Enqueue, OneCallAtATime, TypeOK, CallTypeOK, Processes, Holding, Reading
<1>3. ASSUME PollEnds PROVE OneCallAtATime'
  BY <1>3, EndOneCall DEF PollEnds, Processes, Resting, Holding, Reading
<1>4. ASSUME NEW p \in Processes, Acquire(p) PROVE OneCallAtATime'
  <2>1. \A q \in Processes : pc[q] \notin Holding
    BY <1>4, ProcessAssumption DEF Acquire, TakeLock, OneCallAtATime
  <2>2. FirstPlace(p) \in Holding
    BY DEF FirstPlace, Holding, Reading
  <2> QED
    BY <1>4, <2>1, <2>2 DEF Acquire, TakeLock, OneCallAtATime, TypeOK, CallTypeOK
<1>5. ASSUME NEW p \in Processes, MakePlan(p) \/ StartReadBack(p) PROVE OneCallAtATime'
  BY <1>5 DEF MakePlan, Freshened, StartReadBack, OneCallAtATime, TypeOK, CallTypeOK,
              Holding, Reading
<1>6. ASSUME NEW p \in Processes, Proceed(p) PROVE OneCallAtATime'
  <2>1. CASE ReadAnswered(p) \/ ReadFailed(p) \/ WriteAnswered(p)
    BY <2>1, <1>u DEF ReadAnswered, ReadFailed, WriteAnswered
  <2>2. CASE \/ FreshenRaised(p) \/ ReadBackRaised(p) \/ RefusePower(p)
             \/ WriteRejected(p) \/ WriteUnanswered(p) \/ EndUnread(p) \/ Verify(p)
             \/ Mismatch(p) \/ Command(p)
    BY <2>2, EndersHold, EndOneCall
  <2> QED
    BY <1>6, <2>1, <2>2, <1>4, <1>5 DEF Proceed
<1> QED
  BY <1>u, <1>1, <1>2, <1>3, <1>6 DEF Next, PollRunningState, GraceEnds, vars

\* Spec => []OneCallAtATime: for any number of callers and whatever fails, the
\* process inside the lock is the only one that reads, plans or writes under it.
THEOREM MutualExclusion == Spec => []OneCallAtATime
<1>1. Init => OneCallAtATime
  BY InitOneCall
<1>2. TypeOK /\ OneCallAtATime /\ [Next]_vars => OneCallAtATime'
  BY NextOneCall
<1> QED
  BY <1>1, <1>2, TypeCorrect, PTL DEF Spec

(***************************************************************************)
(* Coherence of the cache.  FreshMatchesWire alone is not inductive: what  *)
(* makes a marked component honest again after a write is that the writer  *)
(* either fails, and takes the marks of every component it touched, or     *)
(* reads all of them back.                                                 *)
(***************************************************************************)

\* Only a call that executes its plan has written fields, all of them of
\* components its plan touches; the poll never executes one.
WritersInv ==
    /\ pc[Poller] \notin InCall
    /\ \A p \in Processes :
          /\ written[p] # {} => pc[p] \in {"writing", "readback"}
          /\ \A f \in written[p] : Component(f) \in Touched(plan[p])

\* In a read-back that has not failed, a written field is still to be read or
\* is cached as the wire has it.
ReadBackInv ==
    \A p \in Processes :
        pc[p] = "readback" /\ failed[p] = {} =>
            \A f \in written[p] :
                Component(f) \in toRead[p] \/ cache[f] = Answer(wire)[f]

CoherenceInv == RequestInv /\ OneCallAtATime /\ WritersInv /\ ReadBackInv /\ FreshMatchesWire

LEMMA InitCoherence == Init => WritersInv /\ ReadBackInv /\ FreshMatchesWire
BY DEF Init, WritersInv, ReadBackInv, FreshMatchesWire, InCall, Processes

\* What the end of a call does to the call variables.
LEMMA EndWriters ==
    ASSUME TypeOK, WritersInv, NEW p \in Processes, NEW outcome \in Resting, End(p, outcome)
    PROVE  WritersInv'
BY DEF TypeOK, CallTypeOK, WritersInv, End, Return, InCall, Resting, Outcomes, Errors, Processes

LEMMA NextWriters == TypeOK /\ WritersInv /\ [Next]_vars => WritersInv'
<1> SUFFICES ASSUME TypeOK, WritersInv, [Next]_vars PROVE WritersInv'
  OBVIOUS
<1> USE DEF callVars
<1>u. ASSUME UNCHANGED <<pc, plan, written>> PROVE WritersInv'
  BY <1>u DEF WritersInv
<1>1. ASSUME NEW p \in Callers, Call(p) PROVE WritersInv'
  BY <1>1, ProcessAssumption
     DEF Call, MakeCall, WritersInv, InCall, TypeOK, CallTypeOK, Processes, Resting, Outcomes, Errors
<1>2. ASSUME Poll PROVE WritersInv'
  BY <1>2 DEF Poll, WritersInv, InCall, TypeOK, CallTypeOK, Processes
<1>3. ASSUME NEW p \in Processes, NEW outcome \in Resting, End(p, outcome) PROVE WritersInv'
  BY <1>3, EndWriters
<1>4. ASSUME NEW p \in Processes, Acquire(p) PROVE WritersInv'
  BY <1>4 DEF Acquire, TakeLock, FirstPlace, WritersInv, InCall, TypeOK, CallTypeOK, Processes
<1>5. ASSUME NEW p \in Processes, MakePlan(p) PROVE WritersInv'
  <2>1. p # Poller /\ written[p] = {}
    BY <1>5 DEF MakePlan, Freshened, WritersInv, InCall
  <2> QED
    BY <1>5, <2>1 DEF MakePlan, WritersInv, InCall, TypeOK, CallTypeOK
<1>6. ASSUME NEW p \in Processes, StartReadBack(p) PROVE WritersInv'
  BY <1>6 DEF StartReadBack, WritersInv, InCall, TypeOK, CallTypeOK
<1>7. ASSUME NEW p \in Processes, WriteAnswered(p) PROVE WritersInv'
  <2>1. PICK i \in DOMAIN plan[p] :
          IsNext(p, i) /\ written' = [written EXCEPT ![p] = @ \cup {plan[p][i].field}]
    BY <1>7 DEF WriteAnswered
  <2>2. Component(plan[p][i].field) \in Touched(plan[p])
    BY <2>1 DEF Touched
  <2> QED
    BY <1>7, <2>1, <2>2 DEF WriteAnswered, IsNext, WritersInv, TypeOK, CallTypeOK
<1>8. ASSUME NEW p \in Processes, Proceed(p) PROVE WritersInv'
  <2>1. CASE ReadAnswered(p) \/ ReadFailed(p)
    BY <2>1, <1>u DEF ReadAnswered, ReadFailed
  <2>2. CASE \/ FreshenRaised(p) \/ ReadBackRaised(p) \/ RefusePower(p)
             \/ WriteRejected(p) \/ WriteUnanswered(p) \/ EndUnread(p) \/ Verify(p)
             \/ Mismatch(p) \/ Command(p)
    BY <2>2, EndersHold, <1>3
  <2> QED
    BY <1>8, <2>1, <2>2, <1>4, <1>5, <1>6, <1>7 DEF Proceed
<1> QED
  BY <1>u, <1>1, <1>2, <1>3, <1>8
     DEF Next, PollEnds, PollRunningState, GraceEnds, vars, Processes, Resting

\* Whoever reads, plans or writes under the lock holds it: the half of OneCallAtATime
\* that is left where others use the lock as well.
HoldersHold == \A p \in Processes : pc[p] \in Holding => lock = p

LEMMA EndReadBackInv ==
    ASSUME TypeOK, ReadBackInv, HoldersHold, NEW p \in Processes, pc[p] \in Holding,
           NEW outcome \in Resting, End(p, outcome)
    PROVE  ReadBackInv'
<1>1. \A q \in Processes : pc'[q] # "readback"
  BY ProcessAssumption
     DEF TypeOK, CallTypeOK, HoldersHold, End, Return, Holding, Reading, Resting, Outcomes, Errors
<1> QED
  BY <1>1 DEF ReadBackInv

LEMMA NextReadBack ==
    TypeOK /\ HoldersHold /\ WritersInv /\ ReadBackInv /\ [Next]_vars => ReadBackInv'
<1> SUFFICES ASSUME TypeOK, HoldersHold, WritersInv, ReadBackInv, [Next]_vars
             PROVE  ReadBackInv'
  OBVIOUS
<1> USE DEF inverterVars, cacheVars, lockVars, callVars
<1>u. ASSUME UNCHANGED <<wire, cache, callVars>> PROVE ReadBackInv'
  BY <1>u DEF ReadBackInv, Answer
<1>1. ASSUME NEW p \in Processes, pc'[p] # "readback",
             UNCHANGED <<wire, cache>>,
             \A q \in Processes \ {p} : /\ pc'[q] = pc[q] /\ failed'[q] = failed[q]
                                       /\ written'[q] = written[q] /\ toRead'[q] = toRead[q]
      PROVE  ReadBackInv'
  BY <1>1 DEF ReadBackInv, Answer
<1>2. ASSUME NEW p \in Callers, Call(p) PROVE ReadBackInv'
  BY <1>2, <1>1 DEF Call, MakeCall, TypeOK, CallTypeOK, Processes
<1>3. ASSUME Poll PROVE ReadBackInv'
  BY <1>3, <1>1 DEF Poll, TypeOK, CallTypeOK, Processes
<1>4. ASSUME NEW p \in Processes, Acquire(p) PROVE ReadBackInv'
  BY <1>4, <1>1 DEF Acquire, TakeLock, FirstPlace, TypeOK, CallTypeOK
<1>5. ASSUME NEW p \in Processes, MakePlan(p) PROVE ReadBackInv'
  BY <1>5, <1>1 DEF MakePlan, TypeOK, CallTypeOK
<1>6. ASSUME NEW p \in Processes, ReadAnswered(p) PROVE ReadBackInv'
  <2> SUFFICES ASSUME NEW q \in Processes, pc'[q] = "readback" /\ failed'[q] = {},
                      NEW f \in written'[q], Component(f) \notin toRead'[q]
               PROVE  cache'[f] = Answer(wire')[f]
    BY DEF ReadBackInv
  <2>1. /\ wire' = wire /\ pc' = pc /\ failed' = failed /\ written' = written
        /\ f \in Fields
    BY <1>6 DEF ReadAnswered, TypeOK, CallTypeOK
  <2>2. PICK k \in toRead[p] :
          /\ cache' = [g \in Fields |-> IF Component(g) = k THEN Answer(wire)[g] ELSE cache[g]]
          /\ toRead' = [toRead EXCEPT ![p] = @ \ {k}]
    BY <1>6 DEF ReadAnswered
  <2>3. CASE Component(f) = k
    BY <2>1, <2>2, <2>3 DEF Answer
  <2>4. CASE Component(f) # k
    <3>1. Component(f) \notin toRead[q]
      BY <2>2, <2>4 DEF TypeOK, CallTypeOK
    <3>2. cache[f] = Answer(wire)[f]
      BY <2>1, <3>1 DEF ReadBackInv
    <3> QED
      BY <2>1, <2>2, <2>4, <3>2 DEF Answer
  <2> QED
    BY <2>3, <2>4
<1>7. ASSUME NEW p \in Processes, ReadFailed(p) PROVE ReadBackInv'
  <2>1. failed'[p] # {} /\ \A q \in Processes \ {p} : failed'[q] = failed[q] /\ toRead'[q] = toRead[q]
    BY <1>7 DEF ReadFailed, TypeOK, CallTypeOK
  <2> QED
    BY <1>7, <2>1 DEF ReadFailed, ReadBackInv, Answer
<1>8. ASSUME NEW p \in Processes, StartReadBack(p) PROVE ReadBackInv'
  BY <1>8 DEF StartReadBack, ReadBackInv, WritersInv, Answer, TypeOK, CallTypeOK
<1>9. ASSUME NEW p \in Processes, WriteAnswered(p) PROVE ReadBackInv'
  <2>1. pc[p] = "writing" /\ pc' = pc
    BY <1>9 DEF WriteAnswered, IsNext
  <2>2. \A q \in Processes : pc'[q] # "readback"
    BY <2>1, ProcessAssumption DEF HoldersHold, Holding, Reading
  <2> QED
    BY <2>2 DEF ReadBackInv
<1>10. ASSUME NEW p \in Processes,
              \/ FreshenRaised(p) \/ ReadBackRaised(p) \/ RefusePower(p)
              \/ WriteRejected(p) \/ WriteUnanswered(p) \/ EndUnread(p) \/ Verify(p)
              \/ Mismatch(p) \/ Command(p)
       PROVE  ReadBackInv'
  BY <1>10, EndersHold, EndReadBackInv
<1>11. ASSUME PollEnds PROVE ReadBackInv'
  BY <1>11, EndReadBackInv DEF PollEnds, Processes, Resting, Holding, Reading
<1> QED
  BY <1>u, <1>2, <1>3, <1>4, <1>5, <1>6, <1>7, <1>8, <1>9, <1>10, <1>11
     DEF Next, Proceed, PollRunningState, GraceEnds, vars

\* A call that fails takes the mark of every component it may have written to.
LEMMA FailKeepsFresh ==
    ASSUME TypeOK, OneCallAtATime, WritersInv, FreshMatchesWire,
           NEW p \in Processes, pc[p] \in Holding, NEW outcome \in Resting, Fail(p, outcome),
           UNCHANGED cache,
           \A f \in Fields : Component(f) \notin Touched(plan[p]) => wire'[f] = wire[f]
    PROVE  FreshMatchesWire'
<1> SUFFICES ASSUME NEW f \in Fields, Component(f) \in refreshed'
             PROVE  cache'[f] = Answer(wire')[f]
  BY DEF FreshMatchesWire, Answer
<1>1. Component(f) \in refreshed /\ Component(f) \notin Touched(plan[p])
  BY DEF Fail, Invalidate
<1>2. \A q \in Processes : lock = q => q = p
  BY ProcessAssumption DEF OneCallAtATime
<1>3. cache[f] = Answer(wire)[f]
  BY <1>1, <1>2 DEF FreshMatchesWire, WritersInv, Processes
<1> QED
  BY <1>1, <1>3 DEF Answer

\* A call that ends without a failure has nothing left unread.
LEMMA EndKeepsFresh ==
    ASSUME TypeOK, OneCallAtATime, FreshMatchesWire,
           NEW p \in Processes, pc[p] \in Holding,
           UNCHANGED <<wire, cache, refreshed>>,
           \A f \in written[p] : cache[f] = Answer(wire)[f]
    PROVE  FreshMatchesWire'
<1>1. \A q \in Processes : lock = q => q = p
  BY ProcessAssumption DEF OneCallAtATime
<1>2. \A f \in Fields : Component(f) \in refreshed => cache[f] = Answer(wire)[f]
  BY <1>1 DEF FreshMatchesWire, Processes
<1> QED
  BY <1>2 DEF FreshMatchesWire, Answer

LEMMA NextFresh ==
    ASSUME \A r \in Requests : r.verify
    PROVE  TypeOK /\ CoherenceInv /\ [Next]_vars => FreshMatchesWire'
<1> SUFFICES ASSUME TypeOK, CoherenceInv, [Next]_vars PROVE FreshMatchesWire'
  OBVIOUS
<1> USE DEF CoherenceInv, inverterVars, cacheVars, lockVars, callVars
<1>u. ASSUME UNCHANGED <<wire, cache, refreshed>>, written' = written,
             lock' = lock \/ lock = None
      PROVE  FreshMatchesWire'
  BY <1>u, ProcessAssumption DEF FreshMatchesWire, Answer, Processes
<1>1. ASSUME NEW p \in Processes, Acquire(p) PROVE FreshMatchesWire'
  BY <1>1, <1>u DEF Acquire, TakeLock
<1>2. ASSUME NEW p \in Processes, ReadAnswered(p) PROVE FreshMatchesWire'
  BY <1>2 DEF ReadAnswered, FreshMatchesWire, Answer
<1>3. ASSUME NEW p \in Processes, WriteAnswered(p) PROVE FreshMatchesWire'
  <2>1. PICK i \in DOMAIN plan[p] :
          /\ IsNext(p, i)
          /\ Land(plan[p][i]) \/ UNCHANGED wire
          /\ written' = [written EXCEPT ![p] = @ \cup {plan[p][i].field}]
    BY <1>3 DEF WriteAnswered
  <2>2. p \in Callers /\ lock = p /\ lock' = p
    BY <1>3, <2>1 DEF WriteAnswered, IsNext, OneCallAtATime, WritersInv, InCall, Holding,
                      Processes
  <2>3. \A f \in Fields : wire'[f] = wire[f] \/ f = plan[p][i].field
    BY <2>1 DEF Land, TypeOK, InverterTypeOK
  <2>4. written[p] \subseteq written'[p] /\ plan[p][i].field \in written'[p]
    BY <2>1 DEF TypeOK, CallTypeOK
  <2>5. \A q \in Processes : lock = q => q = p
    BY <2>2
  <2> QED
    BY <1>3, <2>2, <2>3, <2>4, <2>5 DEF WriteAnswered, FreshMatchesWire, Answer, Processes
<1>4. ASSUME NEW p \in Processes, FreshenRaised(p) \/ RefusePower(p) \/ Command(p)
      PROVE  FreshMatchesWire'
  <2>1. pc[p] \in Holding /\ written[p] = {}
    BY <1>4 DEF FreshenRaised, RefusePower, Freshened, Command, Holding, Reading, WritersInv
  <2> QED
    BY <1>4, <2>1, EndKeepsFresh DEF FreshenRaised, RefusePower, Command
<1>5. ASSUME PollEnds PROVE FreshMatchesWire'
  <2>1. Poller \in Processes /\ pc[Poller] \in Holding /\ written[Poller] = {}
    BY <1>5 DEF PollEnds, Processes, Holding, Reading, WritersInv
  <2> QED
    BY <1>5, <2>1, EndKeepsFresh DEF PollEnds
<1>6. ASSUME NEW p \in Processes, EndUnread(p) PROVE FreshMatchesWire'
  <2>1. request[p].verify
    BY <1>6 DEF EndUnread, RequestInv, InCall
  <2>2. pc[p] \in Holding /\ written[p] = {}
    BY <1>6, <2>1 DEF EndUnread, Holding
  <2> QED
    BY <1>6, <2>2, EndKeepsFresh DEF EndUnread
<1>7. ASSUME NEW p \in Processes, Verify(p) PROVE FreshMatchesWire'
  <2>1. pc[p] \in Holding /\ \A f \in written[p] : cache[f] = Answer(wire)[f]
    BY <1>7 DEF Verify, ReadBack, ReadBackInv, Holding, Reading
  <2> QED
    BY <1>7, <2>1, EndKeepsFresh DEF Verify
<1>8. ASSUME NEW p \in Processes, ReadBackRaised(p) \/ Mismatch(p)
      PROVE  FreshMatchesWire'
  <2>1. pc[p] \in Holding
    BY <1>8, EndersHold
  <2> QED
    BY <1>8, <2>1, FailKeepsFresh
       DEF ReadBackRaised, Mismatch, Resting, Outcomes, Errors
<1>9. ASSUME NEW p \in Processes, WriteRejected(p) \/ WriteUnanswered(p)
      PROVE  FreshMatchesWire'
  <2>1. pc[p] \in Holding
    BY <1>9, EndersHold
  <2>2. PICK i \in DOMAIN plan[p] : Land(plan[p][i]) \/ UNCHANGED wire
    BY <1>9 DEF WriteRejected, WriteUnanswered, WriteFailed
  <2>3. Component(plan[p][i].field) \in Touched(plan[p])
    BY DEF Touched
  <2>4. \A f \in Fields : Component(f) \notin Touched(plan[p]) => wire'[f] = wire[f]
    BY <2>2, <2>3 DEF Land, TypeOK, InverterTypeOK
  <2> QED
    BY <1>9, <2>1, <2>4, FailKeepsFresh
       DEF WriteRejected, WriteUnanswered, WriteFailed, Resting, Outcomes, Errors
<1>10. ASSUME NEW p \in Processes, ReadFailed(p) \/ MakePlan(p) \/ StartReadBack(p)
       PROVE  FreshMatchesWire'
  BY <1>10, <1>u DEF ReadFailed, MakePlan, StartReadBack
<1>11. ASSUME \/ \E p \in Callers : Call(p)
              \/ Poll \/ PollRunningState \/ GraceEnds \/ UNCHANGED vars
       PROVE  FreshMatchesWire'
  BY <1>11, <1>u DEF Call, MakeCall, Poll, Enqueue, PollRunningState, GraceEnds, vars
<1> QED
  BY <1>1, <1>2, <1>3, <1>4, <1>5, <1>6, <1>7, <1>8, <1>9, <1>10, <1>11 DEF Next, Proceed

\* When every call is read back, a freshness mark is never wrong: what a call
\* plans on and skips on is what the inverter would answer, whatever failed,
\* was ignored or landed without an answer before it.
THEOREM CacheCoherence ==
    ASSUME \A r \in Requests : r.verify
    PROVE  Spec => []FreshMatchesWire
<1>1. Init => TypeOK /\ CoherenceInv
  BY InitTypeOK, InitRequestInv, InitOneCall, InitCoherence DEF CoherenceInv
<1>2. TypeOK /\ CoherenceInv /\ [Next]_vars => (TypeOK /\ CoherenceInv)'
  <2>1. TypeOK /\ CoherenceInv /\ [Next]_vars => FreshMatchesWire'
    BY NextFresh
  <2> QED
    BY <2>1, NextTypeOK, NextRequestInv, NextOneCall, NextWriters, NextReadBack
       DEF CoherenceInv, OneCallAtATime, HoldersHold
<1>3. CoherenceInv => FreshMatchesWire
  BY DEF CoherenceInv
<1> QED
  BY <1>1, <1>2, <1>3, PTL DEF Spec

(***************************************************************************)
(* What a call reports and in which order it writes.                       *)
(*                                                                         *)
(* CallsInv is what makes reports right: a call executes the plan of its   *)
(* request, on the cache as it is while it writes, once every component it *)
(* compares against is marked, and a read-back caches what it reads.       *)
(* OrderInv adds LandedInv, that the writer finds each step it has passed  *)
(* in force; the order properties then follow from the shapes of plans.    *)
(***************************************************************************)

(***************************************************************************)
(* The shapes of the plans.                                                *)
(***************************************************************************)
FullCharge    == Exactly("max_charge_power", Full)
FullDischarge == Exactly("max_discharge_power", Full)
LeaveForced   == Exactly("ems_mode", "self_consumption")
EnterForced   == Exactly("ems_mode", "compulsory")
ToCommand(c)  == Exactly("charge_command", c)
ToPower(w)    == Exactly("forced_power", w)

\* A reversal of a running forced mode has a STOP between the limits and the power.
Reverses(c, view) == view["ems_mode"] = "compulsory" /\ view["charge_command"] # c

LEMMA ForcePlanShape ==
    ASSUME NEW c, NEW w, NEW view, NEW steps, steps = ForcePlan(c, w, view)
    PROVE  /\ steps[1] = FullCharge /\ steps[2] = FullDischarge
           /\ Reverses(c, view) =>
                /\ Len(steps) = 6 /\ DOMAIN steps = 1..6
                /\ steps[3] = ToCommand("stop") /\ steps[4] = ToPower(w)
                /\ steps[5] = ToCommand(c)      /\ steps[6] = EnterForced
           /\ ~Reverses(c, view) =>
                /\ Len(steps) = 5 /\ DOMAIN steps = 1..5
                /\ steps[3] = ToPower(w)   /\ steps[4] = ToCommand(c)
                /\ steps[5] = EnterForced
<1>1. /\ Restore = <<FullCharge, FullDischarge>>
      /\ ForceSteps(c, w) = <<ToPower(w), ToCommand(c), EnterForced>>
  BY DEF Restore, FullCharge, FullDischarge, ForceSteps, ToPower, ToCommand, EnterForced
<1>2. CASE Reverses(c, view)
  <2>1. StopBefore(c, view) = <<ToCommand("stop")>>
    BY <1>2 DEF StopBefore, Reverses, ToCommand
  <2>2. steps = <<FullCharge, FullDischarge>> \o <<ToCommand("stop")>>
                  \o <<ToPower(w), ToCommand(c), EnterForced>>
    BY <1>1, <2>1 DEF ForcePlan
  <2> QED
    BY <1>2, <2>2
<1>3. CASE ~Reverses(c, view)
  <2>1. StopBefore(c, view) = << >>
    BY <1>3 DEF StopBefore, Reverses
  <2>2. steps = <<FullCharge, FullDischarge>> \o << >>
                  \o <<ToPower(w), ToCommand(c), EnterForced>>
    BY <1>1, <2>1 DEF ForcePlan
  <2> QED
    BY <1>3, <2>2
<1> QED
  BY <1>2, <1>3

LEMMA SelfPlanShape ==
    ASSUME NEW view, NEW steps, steps = SelfPlan(view)
    PROVE  /\ Len(steps) = 3 /\ DOMAIN steps = 1..3
           /\ view["ems_mode"] \in NotSelfConsumption =>
                steps[1] = LeaveForced /\ steps[2] = FullCharge /\ steps[3] = FullDischarge
           /\ view["ems_mode"] \notin NotSelfConsumption =>
                steps[1] = FullCharge /\ steps[2] = FullDischarge /\ steps[3] = LeaveForced
<1>1. /\ Restore = <<FullCharge, FullDischarge>>
      /\ ToSelf = <<LeaveForced>>
  BY DEF Restore, FullCharge, FullDischarge, ToSelf, LeaveForced
<1>2. CASE view["ems_mode"] \in NotSelfConsumption
  <2>1. steps = <<LeaveForced>> \o <<FullCharge, FullDischarge>>
    BY <1>1, <1>2 DEF SelfPlan
  <2> QED
    BY <1>2, <2>1
<1>3. CASE view["ems_mode"] \notin NotSelfConsumption
  <2>1. steps = <<FullCharge, FullDischarge>> \o <<LeaveForced>>
    BY <1>1, <1>3 DEF SelfPlan
  <2> QED
    BY <1>3, <2>1
<1> QED
  BY <1>2, <1>3

LEMMA StopOnlyShape ==
    ASSUME NEW f, NEW g, NEW steps, steps = StopOnly(f, g)
    PROVE  /\ Len(steps) = 3 /\ DOMAIN steps = 1..3
           /\ steps[1] = Exactly(g, Full) /\ steps[2] = FenceOff(f) /\ steps[3] = LeaveForced
<1>1. steps = <<Exactly(g, Full), FenceOff(f)>> \o <<LeaveForced>>
  BY DEF StopOnly, ToSelf, LeaveForced
<1> QED
  BY <1>1

LEMMA StopBothShape ==
    ASSUME NEW steps, steps = StopBoth
    PROVE  /\ Len(steps) = 3 /\ DOMAIN steps = 1..3
           /\ steps[1] = FenceOff("max_charge_power")
           /\ steps[2] = FenceOff("max_discharge_power")
           /\ steps[3] = LeaveForced
<1>1. steps = <<FenceOff("max_charge_power"), FenceOff("max_discharge_power")>> \o <<LeaveForced>>
  BY DEF StopBoth, ToSelf, LeaveForced
<1> QED
  BY <1>1

\* The plan of each request, by its shape.
LEMMA PlanOf ==
    ASSUME NEW r, NEW view
    PROVE  /\ r.what \in ForcedModes => Plan(r, view) = ForcePlan(CommandOf(r.what), r.power, view)
           /\ r.what = "self_consumption" => Plan(r, view) = SelfPlan(view)
           /\ r.what = "no_charge" =>
                Plan(r, view) = StopOnly("max_charge_power", "max_discharge_power")
           /\ r.what = "no_discharge" =>
                Plan(r, view) = StopOnly("max_discharge_power", "max_charge_power")
           /\ r.what = "hold" => Plan(r, view) = StopBoth
           /\ r.what \in PvRequests => Plan(r, view) = PvPlan(r.what)
BY DEF Plan, ForcedModes, PvRequests, CommandOf

\* A step on a field is the last one there that the read-back looks at.
LEMMA FinalStep ==
    ASSUME NEW steps, NEW i \in DOMAIN steps,
           \A k \in DOMAIN steps : k > i => steps[k].field # steps[i].field
    PROVE  steps[i] \in FinalSteps(steps)
BY DEF FinalSteps

(***************************************************************************)
(* A plan is right: registers that satisfy the last step of every field    *)
(* have the mode in force that the request asked for.                      *)
(***************************************************************************)
LEMMA PlanIsRight ==
    ASSUME Fence < Full,
           NEW r \in Requests, r.what \notin PowerButtons, PowerInRange(r), NEW view,
           NEW w, \A f \in Fields : w[f] \in ValuesOf(f),
           Verifies(Plan(r, view), w)
    PROVE  InForce(r, w)
<1> DEFINE steps == Plan(r, view)
<1>a. ASSUME NEW i \in DOMAIN steps,
             \A k \in DOMAIN steps : k > i => steps[k].field # steps[i].field
      PROVE  Satisfied(steps[i], w[steps[i].field])
  BY <1>a, FinalStep DEF Verifies
<1> HIDE DEF steps
<1>b. ASSUME NEW f, NEW v, NEW i \in DOMAIN steps, steps[i] = Exactly(f, v),
             \A k \in DOMAIN steps : k > i => steps[k].field # f
      PROVE  w[f] = v
  BY <1>a, <1>b DEF Exactly, Satisfied
<1>c. ASSUME NEW f, NEW i \in DOMAIN steps, steps[i] = FenceOff(f),
             \A k \in DOMAIN steps : k > i => steps[k].field # f
      PROVE  w[f] <= Fence
  BY <1>a, <1>c DEF FenceOff, Satisfied
<1>d. /\ w["max_charge_power"] \in Nat /\ w["max_discharge_power"] \in Nat
      /\ w["max_charge_power"] # None /\ w["max_discharge_power"] # None
      /\ w["ems_mode"] # None
  BY NoneAssumption DEF Fields, Powers, Limits, ValuesOf
<1> USE DEF FullCharge, FullDischarge, LeaveForced, EnterForced, ToCommand, ToPower
<1>1. CASE r.what \in ForcedModes
  <2> DEFINE c == CommandOf(r.what)
  <2>1. steps = ForcePlan(c, r.power, view)
    BY <1>1, PlanOf DEF steps
  <2>2. w["forced_power"] = r.power /\ w["charge_command"] = c /\ w["ems_mode"] = "compulsory"
    <3>1. CASE Reverses(c, view)
      <4>1. /\ DOMAIN steps = 1..6
            /\ steps[4] = ToPower(r.power) /\ steps[5] = ToCommand(c) /\ steps[6] = EnterForced
        BY <2>1, <3>1, ForcePlanShape
      <4> QED
        BY <4>1, <1>b DEF Exactly
    <3>2. CASE ~Reverses(c, view)
      <4>1. /\ DOMAIN steps = 1..5
            /\ steps[3] = ToPower(r.power) /\ steps[4] = ToCommand(c) /\ steps[5] = EnterForced
        BY <2>1, <3>2, ForcePlanShape
      <4> QED
        BY <4>1, <1>b DEF Exactly
    <3> QED
      BY <3>1, <3>2
  <2> QED
    BY <1>1, <1>d, <2>2 DEF InForce, EffectiveMode, CommandedMode, CommandOf, ForcedModes, PvRequests
<1>2. CASE r.what = "self_consumption"
  <2>1. /\ w["max_charge_power"] = Full /\ w["max_discharge_power"] = Full
        /\ w["ems_mode"] = "self_consumption"
    <3>1. steps = SelfPlan(view)
      BY <1>2, PlanOf DEF steps
    <3> QED
      BY <3>1, <1>b, SelfPlanShape DEF Exactly
  <2> QED
    BY <1>2, <1>d, <2>1, LimitsAssumption
       DEF InForce, EffectiveMode, LimitedMode, ForcedStates, PvRequests, ForcedModes
<1>3. CASE r.what \in {"no_charge", "no_discharge"}
  <2> DEFINE f == IF r.what = "no_charge" THEN "max_charge_power" ELSE "max_discharge_power"
             g == IF r.what = "no_charge" THEN "max_discharge_power" ELSE "max_charge_power"
  <2>1. steps = StopOnly(f, g)
    BY <1>3, PlanOf DEF steps
  <2>2. /\ DOMAIN steps = 1..3
        /\ steps[1] = Exactly(g, Full) /\ steps[2] = FenceOff(f) /\ steps[3] = LeaveForced
    BY <2>1, StopOnlyShape
  <2>3. w[g] = Full /\ w[f] <= Fence /\ w["ems_mode"] = "self_consumption"
    BY <1>3, <2>2, <1>b, <1>c DEF Exactly, FenceOff
  <2> QED
    BY <1>3, <1>d, <2>3, LimitsAssumption
       DEF InForce, EffectiveMode, LimitedMode, ForcedStates, PvRequests, ForcedModes
<1>4. CASE r.what = "hold"
  <2>1. /\ w["max_charge_power"] <= Fence /\ w["max_discharge_power"] <= Fence
        /\ w["ems_mode"] = "self_consumption"
    <3>1. steps = StopBoth
      BY <1>4, PlanOf DEF steps
    <3> QED
      BY <3>1, <1>b, <1>c, StopBothShape DEF Exactly, FenceOff
  <2> QED
    BY <1>4, <1>d, <2>1, LimitsAssumption
       DEF InForce, EffectiveMode, LimitedMode, ForcedStates, PvRequests, ForcedModes
<1>5. CASE r.what \in PvRequests
  <2>1. steps = <<Exactly("pv_power_limitation", r.what = "pv_limit")>>
    BY <1>5, PlanOf DEF steps, PvPlan
  <2>2. w["pv_power_limitation"] = (r.what = "pv_limit")
    BY <2>1, <1>b DEF Exactly
  <2> QED
    BY <1>5, <2>2 DEF InForce, PvRequests, DesiredModes, ForcedModes, FencedModes
<1>6. r.what \in DesiredModes \cup PvRequests
  BY RequestAssumption DEF AllRequests
<1> QED
  BY <1>1, <1>2, <1>3, <1>4, <1>5, <1>6 DEF DesiredModes, FencedModes

(***************************************************************************)
(* What a call knows while it writes and reads back.                       *)
(***************************************************************************)
\* The part of a view a plan depends on.
Views == [{"ems_mode", "charge_command"} -> EmsModes \cup Commands \cup {None}]

\* A call executes a plan of its request.
PlansInv ==
    \A p \in Processes : pc[p] \in {"writing", "readback"} =>
        /\ PowerInRange(request[p])
        /\ \E view \in Views : plan[p] = Plan(request[p], view)

\* While it writes, the plan fits the cache as it is.
FitInv == \A p \in Processes : pc[p] = "writing" => plan[p] = Plan(request[p], cache)

\* A component a read-back has read is cached as the inverter answers.
ReadExactlyInv ==
    \A p \in Processes :
        pc[p] = "readback" =>
            \A f \in Fields :
                Component(f) \in Touched(plan[p]) \ (toRead[p] \cup failed[p]) =>
                    cache[f] = Answer(wire)[f]

\* A call plans once every component it compares against has its mark, and they
\* keep it while the call writes.
MarkedInv ==
    \A p \in Processes :
        /\ pc[p] = "freshen" =>
              Needed(request[p]) \subseteq refreshed \cup toRead[p] \cup failed[p]
        /\ pc[p] = "writing" => Needed(request[p]) \subseteq refreshed

\* The steps a call has passed are those up to the last one it wrote.
PassedInv ==
    \A p \in Processes :
        /\ written[p] = {} => next[p] = 1
        /\ \A f \in written[p] :
              \E i \in DOMAIN plan[p] : i < next[p] /\ plan[p][i].field = f

\* Two processes are never in the lock.
LEMMA OneInside ==
    ASSUME OneCallAtATime, NEW p \in Processes, NEW q \in Processes,
           pc[p] \in Holding, pc[q] \in Holding
    PROVE  p = q
BY DEF OneCallAtATime

\* When the process inside the lock ends its call, nobody is inside.
LEMMA EndEmpties ==
    ASSUME TypeOK, OneCallAtATime, NEW p \in Processes, pc[p] \in Holding,
           NEW outcome \in Resting, End(p, outcome)
    PROVE  \A q \in Processes : pc'[q] \notin Holding
BY DEF TypeOK, CallTypeOK, OneCallAtATime, End, Return, Resting, Outcomes, Errors, Holding, Reading

LEMMA PollEndEmpties ==
    ASSUME TypeOK, OneCallAtATime, PollEnds
    PROVE  \A q \in Processes : pc'[q] \notin Holding
BY EndEmpties DEF PollEnds, Processes, Resting, Holding, Reading

EndsCall(p) ==
    \/ FreshenRaised(p) \/ ReadBackRaised(p) \/ RefusePower(p) \/ WriteRejected(p)
    \/ WriteUnanswered(p) \/ EndUnread(p) \/ Verify(p) \/ Mismatch(p) \/ Command(p)

LEMMA EnderEmpties ==
    ASSUME TypeOK, OneCallAtATime, NEW p \in Processes, EndsCall(p)
    PROVE  \A q \in Processes : pc'[q] \notin Holding
BY EndersHold, EndEmpties DEF EndsCall

\* A plan depends on two fields of the view it is made on.
LEMMA PlanDependsOn ==
    ASSUME NEW r, NEW view
    PROVE  Plan(r, view) = Plan(r, [f \in {"ems_mode", "charge_command"} |-> view[f]])
BY DEF Plan, ForcePlan, StopBefore, SelfPlan

LEMMA NextPlans ==
    TypeOK /\ OneCallAtATime /\ PlansInv /\ [Next]_vars => PlansInv'
<1> SUFFICES ASSUME TypeOK, OneCallAtATime, PlansInv, [Next]_vars PROVE PlansInv'
  OBVIOUS
<1> USE DEF lockVars, callVars
<1>u. ASSUME UNCHANGED <<pc, request, plan>> PROVE PlansInv'
  BY <1>u DEF PlansInv
<1>q. ASSUME \A q \in Processes : pc'[q] \notin Holding PROVE PlansInv'
  BY <1>q DEF PlansInv, Holding, Reading
<1>o. ASSUME NEW p \in Processes, pc'[p] \notin {"writing", "readback"},
             \A q \in Processes \ {p} : /\ pc'[q] = pc[q] /\ request'[q] = request[q]
                                       /\ plan'[q] = plan[q]
      PROVE  PlansInv'
  BY <1>o DEF PlansInv
<1>1. ASSUME NEW p \in Callers, Call(p) PROVE PlansInv'
  BY <1>1, <1>o DEF Call, MakeCall, TypeOK, CallTypeOK, Processes
<1>2. ASSUME Poll PROVE PlansInv'
  BY <1>2, <1>o DEF Poll, TypeOK, CallTypeOK, Processes
<1>3. ASSUME NEW p \in Processes, Acquire(p) PROVE PlansInv'
  BY <1>3, <1>o DEF Acquire, FirstPlace, TypeOK, CallTypeOK
<1>4. ASSUME NEW p \in Processes, ReadAnswered(p) \/ ReadFailed(p) \/ WriteAnswered(p)
      PROVE  PlansInv'
  BY <1>4, <1>u DEF ReadAnswered, ReadFailed, WriteAnswered
<1>5. ASSUME NEW p \in Processes, MakePlan(p) PROVE PlansInv'
  <2> DEFINE view == [f \in {"ems_mode", "charge_command"} |-> cache[f]]
  <2>1. plan'[p] = Plan(request[p], view) /\ PowerInRange(request[p])
    BY <1>5, PlanDependsOn DEF MakePlan, TypeOK, CallTypeOK
  <2>2. view \in Views
    BY DEF Views, TypeOK, CacheTypeOK, Fields, Powers, ValuesOf
  <2> QED
    BY <1>5, <2>1, <2>2 DEF MakePlan, PlansInv, TypeOK, CallTypeOK
<1>6. ASSUME NEW p \in Processes, StartReadBack(p) PROVE PlansInv'
  BY <1>6 DEF StartReadBack, PlansInv, TypeOK, CallTypeOK
<1>7. ASSUME NEW p \in Processes, Proceed(p) PROVE PlansInv'
  <2>1. CASE EndsCall(p)
    BY <2>1, <1>q, EnderEmpties
  <2> QED
    BY <1>7, <2>1, <1>3, <1>4, <1>5, <1>6 DEF Proceed, EndsCall
<1> QED
  BY <1>u, <1>q, <1>1, <1>2, <1>7, PollEndEmpties DEF Next, PollRunningState, GraceEnds, vars

\* Nobody reads under the lock while a call writes.
LEMMA NextFit ==
    TypeOK /\ OneCallAtATime /\ FitInv /\ [Next]_vars => FitInv'
<1> SUFFICES ASSUME TypeOK, OneCallAtATime, FitInv, [Next]_vars PROVE FitInv'
  OBVIOUS
<1> USE DEF inverterVars, cacheVars, lockVars, callVars
<1>u. ASSUME UNCHANGED <<cache, pc, request, plan>> PROVE FitInv'
  BY <1>u DEF FitInv
<1>q. ASSUME \A q \in Processes : pc'[q] # "writing" PROVE FitInv'
  BY <1>q DEF FitInv
<1>o. ASSUME NEW p \in Processes, pc'[p] # "writing", UNCHANGED cache,
             \A q \in Processes \ {p} : /\ pc'[q] = pc[q] /\ request'[q] = request[q]
                                       /\ plan'[q] = plan[q]
      PROVE  FitInv'
  BY <1>o DEF FitInv
<1>1. ASSUME NEW p \in Callers, Call(p) PROVE FitInv'
  BY <1>1, <1>o DEF Call, MakeCall, TypeOK, CallTypeOK, Processes
<1>2. ASSUME Poll PROVE FitInv'
  BY <1>2, <1>o DEF Poll, TypeOK, CallTypeOK, Processes
<1>3. ASSUME NEW p \in Processes, Acquire(p) \/ StartReadBack(p) PROVE FitInv'
  BY <1>3, <1>o DEF Acquire, FirstPlace, StartReadBack, TypeOK, CallTypeOK
<1>4. ASSUME NEW p \in Processes, ReadAnswered(p) PROVE FitInv'
  <2>1. \A q \in Processes : pc[q] # "writing"
    BY <1>4, OneInside DEF ReadAnswered, Holding, Reading
  <2> QED
    BY <1>4, <2>1, <1>q DEF ReadAnswered
<1>5. ASSUME NEW p \in Processes, ReadFailed(p) \/ WriteAnswered(p) PROVE FitInv'
  BY <1>5, <1>u DEF ReadFailed, WriteAnswered
<1>6. ASSUME NEW p \in Processes, MakePlan(p) PROVE FitInv'
  BY <1>6 DEF MakePlan, FitInv, TypeOK, CallTypeOK
<1>7. ASSUME NEW p \in Processes, Proceed(p) PROVE FitInv'
  <2>1. CASE EndsCall(p)
    BY <2>1, <1>q, EnderEmpties DEF Holding
  <2> QED
    BY <1>7, <2>1, <1>3, <1>4, <1>5, <1>6 DEF Proceed, EndsCall
<1> QED
  BY <1>u, <1>q, <1>1, <1>2, <1>7, PollEndEmpties
     DEF Next, PollRunningState, GraceEnds, vars, Holding

LEMMA NextReadExactly ==
    TypeOK /\ OneCallAtATime /\ ReadExactlyInv /\ [Next]_vars => ReadExactlyInv'
<1> SUFFICES ASSUME TypeOK, OneCallAtATime, ReadExactlyInv, [Next]_vars PROVE ReadExactlyInv'
  OBVIOUS
<1> USE DEF inverterVars, cacheVars, lockVars, callVars
<1>u. ASSUME UNCHANGED <<wire, cache, callVars>> PROVE ReadExactlyInv'
  BY <1>u DEF ReadExactlyInv, Answer
<1>q. ASSUME \A q \in Processes : pc'[q] # "readback" PROVE ReadExactlyInv'
  BY <1>q DEF ReadExactlyInv
<1>o. ASSUME NEW p \in Processes, pc'[p] # "readback", UNCHANGED <<wire, cache>>,
             \A q \in Processes \ {p} : /\ pc'[q] = pc[q] /\ plan'[q] = plan[q]
                                       /\ toRead'[q] = toRead[q] /\ failed'[q] = failed[q]
      PROVE  ReadExactlyInv'
  BY <1>o DEF ReadExactlyInv, Answer
<1>1. ASSUME NEW p \in Callers, Call(p) PROVE ReadExactlyInv'
  BY <1>1, <1>o DEF Call, MakeCall, TypeOK, CallTypeOK, Processes
<1>2. ASSUME Poll PROVE ReadExactlyInv'
  BY <1>2, <1>o DEF Poll, TypeOK, CallTypeOK, Processes
<1>3. ASSUME NEW p \in Processes, Acquire(p) PROVE ReadExactlyInv'
  BY <1>3, <1>o DEF Acquire, FirstPlace, TypeOK, CallTypeOK
<1>4. ASSUME NEW p \in Processes, ReadAnswered(p) PROVE ReadExactlyInv'
  <2> SUFFICES ASSUME NEW q \in Processes, pc'[q] = "readback", NEW f \in Fields,
                      Component(f) \in Touched(plan'[q]) \ (toRead'[q] \cup failed'[q])
               PROVE  cache'[f] = Answer(wire')[f]
    BY DEF ReadExactlyInv
  <2>1. wire' = wire /\ pc' = pc /\ plan' = plan /\ failed' = failed
    BY <1>4 DEF ReadAnswered
  <2>2. p = q
    BY <1>4, <2>1, OneInside DEF ReadAnswered, Holding, Reading
  <2>3. PICK k \in toRead[p] :
          /\ cache' = [g \in Fields |-> IF Component(g) = k THEN Answer(wire)[g] ELSE cache[g]]
          /\ toRead' = [toRead EXCEPT ![p] = @ \ {k}]
    BY <1>4 DEF ReadAnswered
  <2>4. toRead'[q] = toRead[q] \ {k}
    BY <2>2, <2>3 DEF TypeOK, CallTypeOK
  <2> QED
    BY <2>1, <2>2, <2>3, <2>4 DEF ReadExactlyInv, Answer
<1>5. ASSUME NEW p \in Processes, ReadFailed(p) PROVE ReadExactlyInv'
  <2>1. \A q \in Processes : toRead[q] \cup failed[q] \subseteq toRead'[q] \cup failed'[q]
    BY <1>5 DEF ReadFailed, TypeOK, CallTypeOK
  <2> QED
    BY <1>5, <2>1 DEF ReadFailed, ReadExactlyInv, Answer
<1>6. ASSUME NEW p \in Processes, MakePlan(p) PROVE ReadExactlyInv'
  BY <1>6, <1>o DEF MakePlan, TypeOK, CallTypeOK
<1>7. ASSUME NEW p \in Processes, WriteAnswered(p) PROVE ReadExactlyInv'
  <2>1. \A q \in Processes : pc[q] # "readback"
    BY <1>7, OneInside DEF WriteAnswered, IsNext, Holding, Reading
  <2> QED
    BY <1>7, <2>1, <1>q DEF WriteAnswered
<1>8. ASSUME NEW p \in Processes, StartReadBack(p) PROVE ReadExactlyInv'
  BY <1>8 DEF StartReadBack, ReadExactlyInv, Answer, TypeOK, CallTypeOK
<1>9. ASSUME NEW p \in Processes, Proceed(p) PROVE ReadExactlyInv'
  <2>1. CASE EndsCall(p)
    BY <2>1, <1>q, EnderEmpties DEF Holding, Reading
  <2> QED
    BY <1>9, <2>1, <1>3, <1>4, <1>5, <1>6, <1>7, <1>8 DEF Proceed, EndsCall
<1> QED
  BY <1>u, <1>q, <1>1, <1>2, <1>9, PollEndEmpties
     DEF Next, PollRunningState, GraceEnds, vars, Holding, Reading

LEMMA NextMarked ==
    TypeOK /\ OneCallAtATime /\ MarkedInv /\ [Next]_vars => MarkedInv'
<1> SUFFICES ASSUME TypeOK, OneCallAtATime, MarkedInv, [Next]_vars PROVE MarkedInv'
  OBVIOUS
<1> USE DEF inverterVars, cacheVars, lockVars, callVars
<1>u. ASSUME UNCHANGED <<refreshed, callVars>> PROVE MarkedInv'
  BY <1>u DEF MarkedInv
<1>q. ASSUME \A q \in Processes : pc'[q] \notin Holding PROVE MarkedInv'
  BY <1>q DEF MarkedInv, Holding, Reading
<1>o. ASSUME NEW p \in Processes, pc'[p] \notin {"freshen", "writing"}, UNCHANGED refreshed,
             \A q \in Processes \ {p} : /\ pc'[q] = pc[q] /\ request'[q] = request[q]
                                       /\ toRead'[q] = toRead[q] /\ failed'[q] = failed[q]
      PROVE  MarkedInv'
  BY <1>o DEF MarkedInv
<1>1. ASSUME NEW p \in Callers, Call(p) PROVE MarkedInv'
  BY <1>1, <1>o DEF Call, MakeCall, TypeOK, CallTypeOK, Processes
<1>2. ASSUME Poll PROVE MarkedInv'
  BY <1>2, <1>o DEF Poll, TypeOK, CallTypeOK, Processes
<1>3. ASSUME NEW p \in Processes, Acquire(p) PROVE MarkedInv'
  <2>1. PICK old \in SUBSET Components : toRead' = [toRead EXCEPT ![p] = FirstReads(p, old)]
    BY <1>3 DEF Acquire
  <2>2. pc'[p] = "freshen" => Needed(request[p]) \subseteq refreshed \cup toRead'[p]
    BY <1>3, <2>1 DEF Acquire, FirstPlace, FirstReads, Stale, TypeOK, CallTypeOK
  <2>3. pc'[p] # "writing"
    BY <1>3 DEF Acquire, FirstPlace, TypeOK, CallTypeOK
  <2> QED
    BY <1>3, <2>1, <2>2, <2>3 DEF Acquire, MarkedInv, TypeOK, CallTypeOK
<1>4. ASSUME NEW p \in Processes, ReadAnswered(p) PROVE MarkedInv'
  BY <1>4 DEF ReadAnswered, MarkedInv, TypeOK, CallTypeOK
<1>5. ASSUME NEW p \in Processes, ReadFailed(p) PROVE MarkedInv'
  BY <1>5 DEF ReadFailed, MarkedInv, TypeOK, CallTypeOK
<1>6. ASSUME NEW p \in Processes, MakePlan(p) PROVE MarkedInv'
  BY <1>6 DEF MakePlan, Freshened, MarkedInv, TypeOK, CallTypeOK
<1>7. ASSUME NEW p \in Processes, WriteAnswered(p) PROVE MarkedInv'
  BY <1>7 DEF WriteAnswered, MarkedInv
<1>8. ASSUME NEW p \in Processes, StartReadBack(p) PROVE MarkedInv'
  BY <1>8, <1>o DEF StartReadBack, TypeOK, CallTypeOK
<1>9. ASSUME NEW p \in Processes, Proceed(p) PROVE MarkedInv'
  <2>1. CASE EndsCall(p)
    BY <2>1, <1>q, EnderEmpties
  <2> QED
    BY <1>9, <2>1, <1>3, <1>4, <1>5, <1>6, <1>7, <1>8 DEF Proceed, EndsCall
<1> QED
  BY <1>u, <1>q, <1>1, <1>2, <1>9, PollEndEmpties DEF Next, PollRunningState, GraceEnds, vars

LEMMA NextPassed ==
    TypeOK /\ WritersInv /\ PassedInv /\ [Next]_vars => PassedInv'
<1> SUFFICES ASSUME TypeOK, WritersInv, PassedInv, [Next]_vars PROVE PassedInv'
  OBVIOUS
<1> USE DEF callVars
<1>u. ASSUME UNCHANGED <<plan, next, written>> PROVE PassedInv'
  BY <1>u DEF PassedInv
<1>1. ASSUME NEW p \in Processes, NEW outcome \in Resting, End(p, outcome) PROVE PassedInv'
  BY <1>1 DEF End, Return, PassedInv, TypeOK, CallTypeOK
<1>2. ASSUME NEW p \in Processes, MakePlan(p) PROVE PassedInv'
  <2>1. written[p] = {}
    BY <1>2 DEF MakePlan, Freshened, WritersInv
  <2> QED
    BY <1>2, <2>1 DEF MakePlan, PassedInv, TypeOK, CallTypeOK
<1>3. ASSUME NEW p \in Processes, WriteAnswered(p) PROVE PassedInv'
  <2>1. PICK i \in DOMAIN plan[p] :
          /\ IsNext(p, i)
          /\ written' = [written EXCEPT ![p] = @ \cup {plan[p][i].field}]
          /\ next' = [next EXCEPT ![p] = i + 1]
    BY <1>3 DEF WriteAnswered
  <2>2. i \in Nat /\ next[p] \in Nat /\ next[p] <= i
    BY <2>1 DEF IsNext, ToWrite, TypeOK, CallTypeOK, IsPlan
  <2>3. DOMAIN plan[p] \subseteq Nat
    BY DEF TypeOK, CallTypeOK, IsPlan
  <2>4. plan' = plan
    BY <1>3 DEF WriteAnswered
  <2>5. written'[p] # {} /\ \A f \in written'[p] :
          \E j \in DOMAIN plan[p] : j < i + 1 /\ plan[p][j].field = f
    <3>1. written'[p] = written[p] \cup {plan[p][i].field}
      BY <2>1 DEF TypeOK, CallTypeOK
    <3> SUFFICES ASSUME NEW f \in written'[p]
                 PROVE  \E j \in DOMAIN plan[p] : j < i + 1 /\ plan[p][j].field = f
      BY <3>1
    <3>2. CASE f = plan[p][i].field
      BY <3>2, <2>2
    <3>3. CASE f \in written[p]
      <4>1. PICK j \in DOMAIN plan[p] : j < next[p] /\ plan[p][j].field = f
        BY <3>3 DEF PassedInv
      <4>2. j < i + 1
        BY <4>1, <2>2, <2>3
      <4> QED
        BY <4>1, <4>2
    <3> QED
      BY <3>1, <3>2, <3>3
  <2>6. next'[p] = i + 1
    BY <2>1 DEF TypeOK, CallTypeOK
  <2>7. \A q \in Processes \ {p} : written'[q] = written[q] /\ next'[q] = next[q]
    BY <2>1 DEF TypeOK, CallTypeOK
  <2> QED
    BY <2>4, <2>5, <2>6, <2>7 DEF PassedInv
<1>4. ASSUME NEW p \in Processes, Proceed(p) PROVE PassedInv'
  <2>1. CASE EndsCall(p)
    BY <2>1, <1>1, EndersHold DEF EndsCall
  <2>2. CASE Acquire(p) \/ ReadAnswered(p) \/ ReadFailed(p) \/ StartReadBack(p)
    BY <2>2, <1>u DEF Acquire, ReadAnswered, ReadFailed, StartReadBack
  <2> QED
    BY <1>4, <2>1, <2>2, <1>2, <1>3 DEF Proceed, EndsCall
<1> QED
  BY <1>u, <1>1, <1>4
     DEF Next, Call, MakeCall, Poll, PollEnds, PollRunningState, GraceEnds, vars, Processes, Resting

(***************************************************************************)
(* A call reported as verified, and one that found nothing to write, have  *)
(* the requested mode in force.                                            *)
(***************************************************************************)
CallsInv == RequestInv /\ OneCallAtATime /\ PlansInv /\ ReadExactlyInv /\ MarkedInv

LEMMA InitCalls == Init => CallsInv /\ PassedInv /\ FitInv
BY InitRequestInv, InitOneCall
   DEF Init, CallsInv, PlansInv, FitInv, ReadExactlyInv, MarkedInv, PassedInv

LEMMA NextCalls == TypeOK /\ CallsInv /\ [Next]_vars => CallsInv'
BY NextRequestInv, NextOneCall, NextPlans, NextReadExactly, NextMarked DEF CallsInv

\* Registers that are all served answer what they hold.
LEMMA ServedAnswers ==
    ASSUME TypeOK, Unserved = {}
    PROVE  \A f \in Fields : Answer(wire)[f] = wire[f]
BY DEF Answer

\* Only the action named for it ends a call with the outcome.
LEMMA VerifyVerifies ==
    ASSUME TypeOK, Next, NEW p \in Callers, Ends(p, "verified")
    PROVE  Verify(p)
<1> USE DEF lockVars, callVars
<1>1. p # Poller /\ p \in Processes
  BY ProcessAssumption DEF Processes
<1>2. ASSUME NEW q \in Processes, Proceed(q) PROVE Verify(p)
  BY <1>2, <1>1
     DEF Ends, Proceed, Acquire, FirstPlace, ReadAnswered, ReadFailed, FreshenRaised, ReadBackRaised,
         MakePlan, RefusePower, WriteAnswered, WriteRejected, WriteUnanswered, WriteFailed,
         StartReadBack, EndUnread, Verify, Mismatch, Command, Fail, End, Return, Holding, Reading,
         TypeOK, CallTypeOK
<1> QED
  BY <1>1, <1>2
     DEF Ends, Next, Call, MakeCall, Poll, PollEnds, End, Return, PollRunningState, GraceEnds,
         Holding, Reading, TypeOK, CallTypeOK

LEMMA UnchangedUnread ==
    ASSUME TypeOK, Next, NEW p \in Callers, Ends(p, "unchanged")
    PROVE  EndUnread(p) /\ written[p] = {}
<1> USE DEF lockVars, callVars
<1>1. p # Poller /\ p \in Processes
  BY ProcessAssumption DEF Processes
<1>2. ASSUME NEW q \in Processes, Proceed(q) PROVE EndUnread(p) /\ written[p] = {}
  BY <1>2, <1>1
     DEF Ends, Proceed, Acquire, FirstPlace, ReadAnswered, ReadFailed, FreshenRaised, ReadBackRaised,
         MakePlan, RefusePower, WriteAnswered, WriteRejected, WriteUnanswered, WriteFailed,
         StartReadBack, EndUnread, Verify, Mismatch, Command, Fail, End, Return, Holding, Reading,
         TypeOK, CallTypeOK
<1> QED
  BY <1>1, <1>2
     DEF Ends, Next, Call, MakeCall, Poll, PollEnds, End, Return, PollRunningState, GraceEnds,
         Holding, Reading, TypeOK, CallTypeOK

\* Registers that satisfy what the read-back compares, or all of a plan, are in
\* the mode it was made for.
LEMMA VerifyInForce ==
    ASSUME Fence < Full, Unserved = {}, TypeOK, CallsInv, NEW p \in Callers, Verify(p)
    PROVE  InForce(request[p], wire)
<1>1. p \in Processes /\ pc[p] = "readback" /\ toRead[p] = {} /\ failed[p] = {}
  BY DEF Verify, ReadBack, Processes
<1>2. PICK view \in Views : plan[p] = Plan(request[p], view)
  BY <1>1 DEF CallsInv, PlansInv
<1>3. /\ request[p] \in Requests /\ request[p].what \notin PowerButtons
      /\ PowerInRange(request[p])
  BY <1>1 DEF CallsInv, RequestInv, InCall, PlansInv
<1>4. \A i \in DOMAIN plan[p] : cache[plan[p][i].field] = wire[plan[p][i].field]
  <2> TAKE i \in DOMAIN plan[p]
  <2>1. plan[p][i].field \in Fields
    BY <1>1 DEF TypeOK, CallTypeOK, IsPlan, IsStep
  <2>2. Component(plan[p][i].field) \in Touched(plan[p])
    BY DEF Touched
  <2> QED
    BY <1>1, <2>1, <2>2, ServedAnswers DEF CallsInv, ReadExactlyInv
<1>5. Verifies(plan[p], wire)
  BY <1>4 DEF Verify, Verifies, FinalSteps
<1>6. \A f \in Fields : wire[f] \in ValuesOf(f)
  BY DEF TypeOK, InverterTypeOK
<1> QED
  BY <1>2, <1>3, <1>5, <1>6, PlanIsRight

\* A call reads what it compares against: every register of its plan is of a
\* component it needs.
LEMMA PlanIsNeeded ==
    ASSUME NEW r \in Requests, r.what \notin PowerButtons, NEW view,
           NEW i \in DOMAIN Plan(r, view), Plan(r, view)[i].field \in Fields
    PROVE  Component(Plan(r, view)[i].field) \in Needed(r)
<1>1. r.what \in DesiredModes \cup PvRequests
  BY RequestAssumption DEF AllRequests
<1>2. CASE r.what \in DesiredModes
  BY <1>2 DEF Needed, Component, Components
<1>3. CASE r.what \in PvRequests
  <2>1. Plan(r, view) = <<Exactly("pv_power_limitation", r.what = "pv_limit")>>
    BY <1>3, PlanOf DEF PvPlan
  <2>2. Plan(r, view)[i].field = "pv_power_limitation"
    BY <2>1 DEF Exactly
  <2> QED
    BY <1>3, <2>2 DEF Needed, Component, Components, Limits
<1> QED
  BY <1>1, <1>2, <1>3

\* What call p has not written is cached as it is answered, where it has a mark.
TrueFor(p) ==
    \A f \in Fields :
        Component(f) \in Needed(request[p]) \cap refreshed =>
            f \in written[p] \/ cache[f] = Answer(wire)[f]

LEMMA FreshIsTrue ==
    ASSUME OneCallAtATime, FreshMatchesWire, NEW p \in Callers, pc[p] \in Holding
    PROVE  TrueFor(p)
<1>1. lock = p
  BY DEF OneCallAtATime, Processes
<1> QED
  BY <1>1 DEF FreshMatchesWire, TrueFor

\* What a call that writes has not written yet is cached as it is on the wire.
LEMMA UnwrittenIsCached ==
    ASSUME Unserved = {}, TypeOK, CallsInv, NEW p \in Callers, pc[p] = "writing", TrueFor(p),
           NEW i \in DOMAIN plan[p], plan[p][i].field \notin written[p]
    PROVE  cache[plan[p][i].field] = wire[plan[p][i].field]
<1> DEFINE f == plan[p][i].field
<1>1. p \in Processes /\ f \in Fields
  BY DEF Processes, TypeOK, CallTypeOK, IsPlan, IsStep
<1>2. \E view \in Views : plan[p] = Plan(request[p], view)
  BY <1>1 DEF CallsInv, PlansInv
<1>3. request[p] \in Requests /\ request[p].what \notin PowerButtons
  BY <1>1 DEF CallsInv, RequestInv, InCall
<1>4. Component(f) \in Needed(request[p])
  BY <1>1, <1>2, <1>3, PlanIsNeeded
<1>5. Component(f) \in refreshed
  BY <1>1, <1>4 DEF CallsInv, MarkedInv
<1> QED
  BY <1>1, <1>4, <1>5, ServedAnswers DEF TrueFor

LEMMA UnchangedInForce ==
    ASSUME Fence < Full, Unserved = {}, TypeOK, CallsInv, PassedInv,
           NEW p \in Callers, EndUnread(p), written[p] = {}, TrueFor(p)
    PROVE  InForce(request[p], wire)
<1>1. p \in Processes /\ pc[p] = "writing" /\ ToWrite(p) = {} /\ next[p] = 1
  BY DEF EndUnread, Processes, PassedInv
<1>2. PICK view \in Views : plan[p] = Plan(request[p], view)
  BY <1>1 DEF CallsInv, PlansInv
<1>3. /\ request[p] \in Requests /\ request[p].what \notin PowerButtons
      /\ PowerInRange(request[p])
  BY <1>1 DEF CallsInv, RequestInv, InCall, PlansInv
<1>4. \A i \in DOMAIN plan[p] : Satisfied(plan[p][i], wire[plan[p][i].field])
  <2> TAKE i \in DOMAIN plan[p]
  <2>1. i \in 1..Len(plan[p])
    BY <1>1 DEF TypeOK, CallTypeOK, IsPlan
  <2>2. Satisfied(plan[p][i], cache[plan[p][i].field])
    BY <1>1, <2>1 DEF ToWrite, Skipped
  <2> QED
    BY <1>1, <2>2, UnwrittenIsCached
<1>5. Verifies(plan[p], wire)
  BY <1>4 DEF Verifies, FinalSteps
<1>6. \A f \in Fields : wire[f] \in ValuesOf(f)
  BY DEF TypeOK, InverterTypeOK
<1> QED
  BY <1>2, <1>3, <1>5, <1>6, PlanIsRight

\* Spec => VerifiedIsInForce, whatever writes the inverter ignores, fails or
\* takes without an answer, for calls that are read back and calls that are not,
\* provided every register is served and a restored limit is not a fenced one.
THEOREM VerifiedRight ==
    ASSUME Fence < Full, Unserved = {}
    PROVE  Spec => VerifiedIsInForce
<1>1. Init => CallsInv
  BY InitCalls
<1>2. TypeOK /\ CallsInv /\ [Next]_vars => CallsInv'
  BY NextCalls
<1>3. TypeOK /\ CallsInv /\ [Next]_vars
        => [\A p \in Callers : Ends(p, "verified") => InForce(request[p], wire)]_vars
  BY VerifyVerifies, VerifyInForce
<1> QED
  BY <1>1, <1>2, <1>3, TypeCorrect, PTL DEF Spec, VerifiedIsInForce

\* Spec => UnchangedIsInForce when every call is read back: what the earlier calls
\* left half done has lost its mark, so a call that skips all of its plan compared
\* it with the registers.
THEOREM UnchangedRight ==
    ASSUME Fence < Full, Unserved = {}, \A r \in Requests : r.verify
    PROVE  Spec => UnchangedIsInForce
<1>1. Init => CallsInv /\ PassedInv /\ WritersInv
  BY InitCalls, InitCoherence
<1>2. TypeOK /\ CallsInv /\ PassedInv /\ WritersInv /\ [Next]_vars
        => (CallsInv /\ PassedInv /\ WritersInv)'
  BY NextCalls, NextPassed, NextWriters
<1>3. TypeOK /\ CallsInv /\ PassedInv /\ FreshMatchesWire /\ [Next]_vars
        => [\A p \in Callers : Ends(p, "unchanged") => InForce(request[p], wire)]_vars
  <2> SUFFICES ASSUME TypeOK, CallsInv, PassedInv, FreshMatchesWire, Next,
                      NEW p \in Callers, Ends(p, "unchanged")
               PROVE  InForce(request[p], wire)
    OBVIOUS
  <2>1. EndUnread(p) /\ written[p] = {}
    BY UnchangedUnread
  <2>2. TrueFor(p)
    BY <2>1, FreshIsTrue DEF EndUnread, Holding, CallsInv
  <2> QED
    BY <2>1, <2>2, UnchangedInForce
<1>4. Spec => []FreshMatchesWire
  BY CacheCoherence
<1> QED
  BY <1>1, <1>2, <1>3, <1>4, TypeCorrect, PTL DEF Spec, UnchangedIsInForce

(***************************************************************************)
(* The order of the writes.  When the inverter does not ignore a write it  *)
(* answers, the registers a call has passed hold what its plan puts there, *)
(* and so does every later one that the call is about to skip.             *)
(***************************************************************************)
\* No step between the two is about the same field.
Latest(steps, i, n) == \A k \in DOMAIN steps : i < k /\ k < n => steps[k].field # steps[i].field

LandedInv ==
    \A p \in Processes :
        pc[p] = "writing" =>
            \A i \in DOMAIN plan[p] :
                i < next[p] /\ Latest(plan[p], i, next[p])
                => Satisfied(plan[p][i], wire[plan[p][i].field])

\* A plan has two steps on a field only to reverse a forced mode, and then the
\* view it was made on does not satisfy the second.
LEMMA RepeatedStep ==
    ASSUME NEW r \in Requests, r.what \notin PowerButtons, NEW view,
           NEW i \in DOMAIN Plan(r, view), NEW j \in DOMAIN Plan(r, view), i < j,
           Plan(r, view)[i].field = Plan(r, view)[j].field
    PROVE  ~Satisfied(Plan(r, view)[j], view[Plan(r, view)[j].field])
<1> DEFINE steps == Plan(r, view)
<1> HIDE DEF steps
<1> SUFFICES ASSUME NEW m \in DOMAIN steps, NEW n \in DOMAIN steps, m < n,
                    steps[m].field = steps[n].field
             PROVE  ~Satisfied(steps[n], view[steps[n].field])
  BY DEF steps
<1> USE DEF FullCharge, FullDischarge, LeaveForced, EnterForced, ToCommand, ToPower
<1>1. CASE r.what \in ForcedModes
  <2> DEFINE c == CommandOf(r.what)
  <2>1. steps = ForcePlan(c, r.power, view)
    BY <1>1, PlanOf DEF steps
  <2>2. CASE Reverses(c, view)
    <3>1. /\ DOMAIN steps = 1..6
          /\ steps[1] = FullCharge /\ steps[2] = FullDischarge /\ steps[3] = ToCommand("stop")
          /\ steps[4] = ToPower(r.power) /\ steps[5] = ToCommand(c) /\ steps[6] = EnterForced
      BY <2>1, <2>2, ForcePlanShape
    <3>2. n = 5
      BY <3>1 DEF Exactly
    <3> QED
      BY <2>2, <3>1, <3>2 DEF Satisfied, Exactly, Reverses
  <2>3. CASE ~Reverses(c, view)
    <3>1. /\ DOMAIN steps = 1..5
          /\ steps[1] = FullCharge /\ steps[2] = FullDischarge /\ steps[3] = ToPower(r.power)
          /\ steps[4] = ToCommand(c) /\ steps[5] = EnterForced
      BY <2>1, <2>3, ForcePlanShape
    <3> QED
      BY <3>1 DEF Exactly
  <2> QED
    BY <2>2, <2>3
<1>2. CASE r.what = "self_consumption"
  <2>1. steps = SelfPlan(view)
    BY <1>2, PlanOf DEF steps
  <2> QED
    BY <2>1, SelfPlanShape DEF Exactly
<1>3. CASE r.what \in {"no_charge", "no_discharge"}
  <2> DEFINE f == IF r.what = "no_charge" THEN "max_charge_power" ELSE "max_discharge_power"
             g == IF r.what = "no_charge" THEN "max_discharge_power" ELSE "max_charge_power"
  <2>1. steps = StopOnly(f, g)
    BY <1>3, PlanOf DEF steps
  <2>2. /\ DOMAIN steps = 1..3
        /\ steps[1] = Exactly(g, Full) /\ steps[2] = FenceOff(f) /\ steps[3] = LeaveForced
    BY <2>1, StopOnlyShape
  <2> QED
    BY <2>2 DEF Exactly, FenceOff
<1>4. CASE r.what = "hold"
  <2>1. steps = StopBoth
    BY <1>4, PlanOf DEF steps
  <2> QED
    BY <2>1, StopBothShape DEF Exactly, FenceOff
<1>5. CASE r.what \in PvRequests
  <2>1. steps = <<Exactly("pv_power_limitation", r.what = "pv_limit")>>
    BY <1>5, PlanOf DEF steps, PvPlan
  <2> QED
    BY <2>1
<1>6. r.what \in DesiredModes \cup PvRequests
  BY RequestAssumption DEF AllRequests
<1> QED
  BY <1>1, <1>2, <1>3, <1>4, <1>5, <1>6 DEF DesiredModes, FencedModes

\* Only a fence is satisfied by less than its target.
LEMMA FencesAreNumbers ==
    ASSUME NEW r \in Requests, r.what \notin PowerButtons, NEW view,
           NEW i \in DOMAIN Plan(r, view)
    PROVE  Plan(r, view)[i].atOrBelow => Plan(r, view)[i].target \in Nat
<1> DEFINE steps == Plan(r, view)
<1> HIDE DEF steps
<1> SUFFICES ASSUME NEW n \in DOMAIN steps, steps[n].atOrBelow PROVE steps[n].target \in Nat
  BY DEF steps
<1>0. Fence \in Nat
  BY LimitsAssumption
<1> USE DEF FullCharge, FullDischarge, LeaveForced, EnterForced, ToCommand, ToPower
<1>1. CASE r.what \in ForcedModes
  <2>1. steps = ForcePlan(CommandOf(r.what), r.power, view)
    BY <1>1, PlanOf DEF steps
  <2>2. CASE Reverses(CommandOf(r.what), view)
    <3>1. /\ DOMAIN steps = 1..6
          /\ steps[1] = FullCharge /\ steps[2] = FullDischarge /\ steps[3] = ToCommand("stop")
          /\ steps[4] = ToPower(r.power) /\ steps[5] = ToCommand(CommandOf(r.what))
          /\ steps[6] = EnterForced
      BY <2>1, <2>2, ForcePlanShape
    <3> QED
      BY <3>1 DEF Exactly
  <2>3. CASE ~Reverses(CommandOf(r.what), view)
    <3>1. /\ DOMAIN steps = 1..5
          /\ steps[1] = FullCharge /\ steps[2] = FullDischarge /\ steps[3] = ToPower(r.power)
          /\ steps[4] = ToCommand(CommandOf(r.what)) /\ steps[5] = EnterForced
      BY <2>1, <2>3, ForcePlanShape
    <3> QED
      BY <3>1 DEF Exactly
  <2> QED
    BY <2>2, <2>3
<1>2. CASE r.what = "self_consumption"
  <2>1. steps = SelfPlan(view)
    BY <1>2, PlanOf DEF steps
  <2> QED
    BY <2>1, SelfPlanShape DEF Exactly
<1>3. CASE r.what \in {"no_charge", "no_discharge"}
  <2> DEFINE f == IF r.what = "no_charge" THEN "max_charge_power" ELSE "max_discharge_power"
             g == IF r.what = "no_charge" THEN "max_discharge_power" ELSE "max_charge_power"
  <2>1. steps = StopOnly(f, g)
    BY <1>3, PlanOf DEF steps
  <2>2. /\ DOMAIN steps = 1..3
        /\ steps[1] = Exactly(g, Full) /\ steps[2] = FenceOff(f) /\ steps[3] = LeaveForced
    BY <2>1, StopOnlyShape
  <2> QED
    BY <1>0, <2>2 DEF Exactly, FenceOff
<1>4. CASE r.what = "hold"
  <2>1. steps = StopBoth
    BY <1>4, PlanOf DEF steps
  <2> QED
    BY <1>0, <2>1, StopBothShape DEF Exactly, FenceOff
<1>5. CASE r.what \in PvRequests
  <2>1. steps = <<Exactly("pv_power_limitation", r.what = "pv_limit")>>
    BY <1>5, PlanOf DEF steps, PvPlan
  <2> QED
    BY <2>1 DEF Exactly
<1>6. r.what \in DesiredModes \cup PvRequests
  BY RequestAssumption DEF AllRequests
<1> QED
  BY <1>1, <1>2, <1>3, <1>4, <1>5, <1>6 DEF DesiredModes, FencedModes

OrderInv == CallsInv /\ FitInv /\ PassedInv /\ FreshMatchesWire /\ LandedInv

\* What the writer finds: everything before the step it writes now has landed.
LEMMA EarlierLanded ==
    ASSUME Unserved = {}, TypeOK, OrderInv, NEW p \in Callers,
           NEW i \in DOMAIN plan[p], IsNext(p, i),
           NEW j \in DOMAIN plan[p], j < i, Latest(plan[p], j, i)
    PROVE  Satisfied(plan[p][j], wire[plan[p][j].field])
<1>1. p \in Processes /\ pc[p] = "writing"
  BY DEF Processes, IsNext
<1>2. /\ DOMAIN plan[p] = 1..Len(plan[p]) /\ Len(plan[p]) \in Nat
      /\ next[p] \in Nat
      /\ next[p] <= i
  BY <1>1 DEF TypeOK, CallTypeOK, IsPlan, IsNext, ToWrite
<1>3. CASE j < next[p]
  <2>1. Latest(plan[p], j, next[p])
    BY <1>2 DEF Latest
  <2> QED
    BY <1>1, <1>3, <2>1 DEF OrderInv, LandedInv
<1>4. CASE ~(j < next[p])
  <2>1. j \in next[p]..Len(plan[p])
    BY <1>2, <1>4
  <2>2. j \notin ToWrite(p)
    BY <1>2 DEF IsNext, ToWrite
  <2>3. Satisfied(plan[p][j], cache[plan[p][j].field])
    BY <2>1, <2>2 DEF ToWrite, Skipped
  <2>4. plan[p][j].field \notin written[p]
    <3> SUFFICES ASSUME plan[p][j].field \in written[p] PROVE FALSE
      OBVIOUS
    <3>1. PICK k \in DOMAIN plan[p] : k < next[p] /\ plan[p][k].field = plan[p][j].field
      BY <1>1 DEF OrderInv, PassedInv
    <3>2. k < j
      BY <1>2, <1>4, <3>1
    <3>3. plan[p] = Plan(request[p], cache)
      BY <1>1 DEF OrderInv, FitInv
    <3>4. request[p] \in Requests /\ request[p].what \notin PowerButtons
      BY <1>1 DEF OrderInv, CallsInv, RequestInv, InCall
    <3> QED
      BY <2>3, <3>1, <3>2, <3>3, <3>4, RepeatedStep
  <2> QED
    BY <1>1, <2>3, <2>4, UnwrittenIsCached, FreshIsTrue DEF OrderInv, CallsInv, Holding
<1> QED
  BY <1>3, <1>4

LEMMA InitLanded == Init => LandedInv
BY DEF Init, LandedInv

LEMMA NextLanded ==
    ASSUME Unserved = {}, MayIgnore = {}
    PROVE  TypeOK /\ OrderInv /\ WritersInv /\ [Next]_vars => LandedInv'
<1> SUFFICES ASSUME TypeOK, OrderInv, WritersInv, [Next]_vars PROVE LandedInv'
  OBVIOUS
<1> USE DEF inverterVars, cacheVars, lockVars, callVars
<1>0. OneCallAtATime /\ LandedInv
  BY DEF OrderInv, CallsInv
<1>u. ASSUME UNCHANGED <<wire, pc, plan, next>> PROVE LandedInv'
  BY <1>u, <1>0 DEF LandedInv
<1>q. ASSUME \A q \in Processes : pc'[q] # "writing" PROVE LandedInv'
  BY <1>q DEF LandedInv
<1>o. ASSUME NEW p \in Processes, pc'[p] # "writing", UNCHANGED wire,
             \A q \in Processes \ {p} : /\ pc'[q] = pc[q] /\ plan'[q] = plan[q]
                                       /\ next'[q] = next[q]
      PROVE  LandedInv'
  BY <1>o, <1>0 DEF LandedInv
<1>1. ASSUME NEW p \in Callers, Call(p) PROVE LandedInv'
  BY <1>1, <1>o DEF Call, MakeCall, TypeOK, CallTypeOK, Processes
<1>2. ASSUME Poll PROVE LandedInv'
  BY <1>2, <1>o DEF Poll, TypeOK, CallTypeOK, Processes
<1>3. ASSUME NEW p \in Processes, Acquire(p) PROVE LandedInv'
  BY <1>3, <1>o DEF Acquire, FirstPlace, TypeOK, CallTypeOK
<1>4. ASSUME NEW p \in Processes, ReadAnswered(p) \/ ReadFailed(p) PROVE LandedInv'
  BY <1>4, <1>u DEF ReadAnswered, ReadFailed
<1>5. ASSUME NEW p \in Processes, MakePlan(p) PROVE LandedInv'
  <2>1. next[p] = 1
    BY <1>5 DEF MakePlan, Freshened, WritersInv, OrderInv, PassedInv
  <2>2. IsPlan(Plan(request[p], cache))
    BY <1>5, PlanIsPlan DEF MakePlan, Freshened, OrderInv, CallsInv, RequestInv, InCall
  <2>3. \A i \in DOMAIN Plan(request[p], cache) : ~(i < 1)
    BY <2>2 DEF IsPlan
  <2> QED
    BY <1>5, <1>0, <2>1, <2>3 DEF MakePlan, LandedInv, TypeOK, CallTypeOK
<1>6. ASSUME NEW p \in Processes, StartReadBack(p) PROVE LandedInv'
  BY <1>6, <1>o DEF StartReadBack, TypeOK, CallTypeOK
<1>7. ASSUME NEW p \in Processes, WriteAnswered(p) PROVE LandedInv'
  <2>1. PICK i \in DOMAIN plan[p] :
          /\ IsNext(p, i)
          /\ Land(plan[p][i])
          /\ next' = [next EXCEPT ![p] = i + 1]
    BY <1>7 DEF WriteAnswered
  <2>2. pc[p] = "writing" /\ pc' = pc /\ plan' = plan
    BY <1>7, <2>1 DEF WriteAnswered, IsNext
  <2>3. p \in Callers
    BY <2>2 DEF WritersInv, InCall, Processes
  <2>4. next'[p] = i + 1 /\ i \in Nat /\ DOMAIN plan[p] \subseteq Nat
    BY <2>1 DEF TypeOK, CallTypeOK, IsPlan
  <2>5. wire' = [wire EXCEPT ![plan[p][i].field] = plan[p][i].target]
    BY <2>1 DEF Land
  <2>6. IsStep(plan[p][i])
    BY DEF TypeOK, CallTypeOK, IsPlan
  <2>7. wire'[plan[p][i].field] = plan[p][i].target
    BY <2>5, <2>6 DEF IsStep, TypeOK, InverterTypeOK
  <2>8. Satisfied(plan[p][i], wire'[plan[p][i].field])
    <3>1. plan[p] = Plan(request[p], cache)
      BY <2>2 DEF OrderInv, FitInv
    <3>2. request[p] \in Requests /\ request[p].what \notin PowerButtons
      BY <2>2 DEF OrderInv, CallsInv, RequestInv, InCall
    <3>3. plan[p][i].atOrBelow => plan[p][i].target \in Nat
      BY <3>1, <3>2, FencesAreNumbers
    <3>4. plan[p][i].target # None
      BY <2>6, NoneAssumption DEF IsStep
    <3> QED
      BY <2>7, <3>3, <3>4 DEF Satisfied
  <2>9. ASSUME NEW j \in DOMAIN plan[p], j < i, Latest(plan[p], j, i + 1)
        PROVE  Satisfied(plan[p][j], wire'[plan[p][j].field])
    <3>1. Latest(plan[p], j, i)
      BY <2>4, <2>9 DEF Latest
    <3>2. plan[p][j].field # plan[p][i].field
      BY <2>4, <2>9 DEF Latest
    <3>3. plan[p][j].field \in Fields
      BY DEF TypeOK, CallTypeOK, IsPlan, IsStep
    <3>4. wire'[plan[p][j].field] = wire[plan[p][j].field]
      BY <2>5, <3>2, <3>3 DEF TypeOK, InverterTypeOK
    <3> QED
      BY <2>1, <2>3, <2>9, <3>1, <3>4, EarlierLanded
  <2> SUFFICES ASSUME NEW q \in Processes, pc'[q] = "writing", NEW j \in DOMAIN plan'[q],
                      j < next'[q], Latest(plan'[q], j, next'[q])
               PROVE  Satisfied(plan'[q][j], wire'[plan'[q][j].field])
    BY DEF LandedInv
  <2>10. q = p
    BY <1>0, <2>2, OneInside DEF Holding
  <2>11. j < i \/ j = i
    BY <2>2, <2>4, <2>10
  <2> QED
    BY <2>2, <2>4, <2>8, <2>9, <2>10, <2>11
<1>8. ASSUME NEW p \in Processes, Proceed(p) PROVE LandedInv'
  <2>1. CASE EndsCall(p)
    BY <2>1, <1>0, <1>q, EnderEmpties DEF Holding
  <2> QED
    BY <1>8, <2>1, <1>3, <1>4, <1>5, <1>6, <1>7 DEF Proceed, EndsCall
<1> QED
  BY <1>0, <1>u, <1>q, <1>1, <1>2, <1>8, PollEndEmpties
     DEF Next, PollRunningState, GraceEnds, vars, Holding

\* A register changes only by the step the process inside the lock writes.
LEMMA WriterLands ==
    ASSUME TypeOK, OneCallAtATime, WritersInv, [Next]_vars, wire' # wire,
           NEW p \in Callers, lock = p
    PROVE  \E i \in DOMAIN plan[p] :
              /\ IsNext(p, i)
              /\ wire' = [wire EXCEPT ![plan[p][i].field] = plan[p][i].target]
<1> USE DEF inverterVars, cacheVars, lockVars, callVars
<1>1. ASSUME NEW q \in Processes, NEW i \in DOMAIN plan[q], IsNext(q, i) PROVE q = p
  BY <1>1 DEF IsNext, OneCallAtATime, Holding
<1>2. ASSUME NEW q \in Processes, WriteAnswered(q)
      PROVE  \E i \in DOMAIN plan[q] : IsNext(q, i) /\ Land(plan[q][i])
  BY <1>2 DEF WriteAnswered
<1>3. ASSUME NEW q \in Processes, WriteRejected(q) \/ WriteUnanswered(q)
      PROVE  \E i \in DOMAIN plan[q] : IsNext(q, i) /\ Land(plan[q][i])
  BY <1>3 DEF WriteRejected, WriteUnanswered, WriteFailed
<1>4. ASSUME NEW q \in Processes, Proceed(q)
      PROVE  WriteAnswered(q) \/ WriteRejected(q) \/ WriteUnanswered(q)
  BY <1>4 DEF Proceed, Acquire, ReadAnswered, ReadFailed, FreshenRaised, ReadBackRaised, MakePlan,
              RefusePower, StartReadBack, EndUnread, Verify, Mismatch, Command
<1>5. \E q \in Processes : Proceed(q)
  BY DEF Next, Call, Poll, PollEnds, PollRunningState, GraceEnds, vars
<1>6. PICK q \in Processes : \E i \in DOMAIN plan[q] : IsNext(q, i) /\ Land(plan[q][i])
  BY <1>2, <1>3, <1>4, <1>5
<1> QED
  BY <1>1, <1>6 DEF Land

\* What the steps and the properties of a call that writes have in common.
LEMMA Writer ==
    ASSUME TypeOK, OrderInv, NEW p \in Callers, NEW i \in DOMAIN plan[p], IsNext(p, i)
    PROVE  /\ p \in Processes /\ pc[p] = "writing"
           /\ plan[p] = Plan(request[p], cache)
           /\ request[p] \in Requests /\ request[p].what \notin PowerButtons
           /\ request[p].what \in DesiredModes \cup PvRequests
           /\ PowerInRange(request[p])
           /\ i \in Nat /\ i <= Len(plan[p])
<1>1. p \in Processes /\ pc[p] = "writing"
  BY DEF Processes, IsNext
<1>2. request[p] \in Requests /\ request[p].what \notin PowerButtons
  BY <1>1 DEF OrderInv, CallsInv, RequestInv, InCall
<1>3. request[p].what \in DesiredModes \cup PvRequests
  BY <1>2, RequestAssumption DEF AllRequests
<1>4. i \in Nat /\ i <= Len(plan[p])
  BY <1>1 DEF TypeOK, CallTypeOK, IsPlan
<1> QED
  BY <1>1, <1>2, <1>3, <1>4 DEF OrderInv, CallsInv, PlansInv, FitInv

\* What a step before the one written now has put into its register is there.
LEMMA EarlierValue ==
    ASSUME Unserved = {}, TypeOK, OrderInv, NEW p \in Callers,
           NEW i \in DOMAIN plan[p], IsNext(p, i), NEW f, NEW v,
           NEW j \in DOMAIN plan[p], j < i, plan[p][j] = Exactly(f, v),
           \A k \in DOMAIN plan[p] : j < k /\ k < i => plan[p][k].field # f
    PROVE  wire[f] = v
<1>1. plan[p][j].field = f /\ plan[p][j].target = v /\ plan[p][j].atOrBelow = FALSE
  BY DEF Exactly
<1>2. Satisfied(plan[p][j], wire[f])
  BY <1>1, EarlierLanded DEF Latest
<1> QED
  BY <1>1, <1>2 DEF Satisfied

\* A register no step before this one is about is on the wire as it is cached.
LEMMA NotYetWritten ==
    ASSUME Unserved = {}, TypeOK, OrderInv, NEW p \in Callers,
           NEW i \in DOMAIN plan[p], IsNext(p, i), NEW f \in Fields,
           request[p].what \in DesiredModes,
           \A k \in DOMAIN plan[p] : k < i => plan[p][k].field # f
    PROVE  cache[f] = wire[f]
<1>1. /\ p \in Processes /\ pc[p] = "writing" /\ lock = p
      /\ next[p] <= i /\ next[p] \in Nat /\ i \in Nat /\ DOMAIN plan[p] \subseteq Nat
  BY DEF Processes, IsNext, ToWrite, OrderInv, CallsInv, OneCallAtATime, Holding, TypeOK,
         CallTypeOK, IsPlan
<1>2. f \notin written[p]
  <2> SUFFICES ASSUME f \in written[p] PROVE FALSE
    OBVIOUS
  <2>1. PICK k \in DOMAIN plan[p] : k < next[p] /\ plan[p][k].field = f
    BY <1>1 DEF OrderInv, PassedInv
  <2> QED
    BY <1>1, <2>1
<1>3. Component(f) \in refreshed
  BY <1>1 DEF OrderInv, CallsInv, MarkedInv, Needed, Component, Components
<1> QED
  BY <1>1, <1>2, <1>3, ServedAnswers DEF OrderInv, FreshMatchesWire

\* The plans that write the forced power, or an EMS mode other than self-consumption, are
\* the forced ones.
LEMMA ForcedFields ==
    ASSUME NEW r \in Requests, r.what \in DesiredModes \cup PvRequests,
           NEW view, NEW i \in DOMAIN Plan(r, view),
           LET s == Plan(r, view)[i]
           IN  \/ s.field = "forced_power"
               \/ s.field = "ems_mode" /\ s.target # "self_consumption"
    PROVE  r.what \in ForcedModes
<1> DEFINE steps == Plan(r, view)
<1> HIDE DEF steps
<1> SUFFICES ASSUME NEW n \in DOMAIN steps,
                    \/ steps[n].field = "forced_power"
                    \/ steps[n].field = "ems_mode" /\ steps[n].target # "self_consumption",
                    r.what \notin ForcedModes
             PROVE  FALSE
  BY DEF steps
<1> USE DEF FullCharge, FullDischarge, LeaveForced
<1>1. CASE r.what = "self_consumption"
  <2>1. steps = SelfPlan(view)
    BY <1>1, PlanOf DEF steps
  <2> QED
    BY <2>1, SelfPlanShape DEF Exactly
<1>2. CASE r.what \in {"no_charge", "no_discharge"}
  <2> DEFINE f == IF r.what = "no_charge" THEN "max_charge_power" ELSE "max_discharge_power"
             g == IF r.what = "no_charge" THEN "max_discharge_power" ELSE "max_charge_power"
  <2>1. steps = StopOnly(f, g)
    BY <1>2, PlanOf DEF steps
  <2>2. /\ DOMAIN steps = 1..3
        /\ steps[1] = Exactly(g, Full) /\ steps[2] = FenceOff(f) /\ steps[3] = LeaveForced
    BY <2>1, StopOnlyShape
  <2> QED
    BY <2>2 DEF Exactly, FenceOff
<1>3. CASE r.what = "hold"
  <2>1. steps = StopBoth
    BY <1>3, PlanOf DEF steps
  <2> QED
    BY <2>1, StopBothShape DEF Exactly, FenceOff
<1>4. CASE r.what \in PvRequests
  <2>1. steps = <<Exactly("pv_power_limitation", r.what = "pv_limit")>>
    BY <1>4, PlanOf DEF steps, PvPlan
  <2> QED
    BY <2>1 DEF Exactly
<1> QED
  BY <1>1, <1>2, <1>3, <1>4 DEF DesiredModes, FencedModes

\* The power changes after the old direction has been stopped, unless it never ran
\* or is the requested one.
LEMMA PowerAfterStop ==
    ASSUME Unserved = {}, TypeOK, OrderInv, NEW p \in Callers,
           NEW i \in DOMAIN plan[p], IsNext(p, i), plan[p][i].field = "forced_power",
           wire["ems_mode"] = "compulsory"
    PROVE  wire["charge_command"] \in {"stop", CommandOf(request[p].what)}
<1> DEFINE c == CommandOf(request[p].what)
           w == request[p].power
<1>1. plan[p] = Plan(request[p], cache) /\ request[p].what \in ForcedModes
  BY Writer, ForcedFields
<1>2. plan[p] = ForcePlan(c, w, cache)
  BY <1>1, PlanOf
<1> USE DEF FullCharge, FullDischarge, EnterForced, ToCommand, ToPower
<1>3. CASE Reverses(c, cache)
  <2>1. /\ DOMAIN plan[p] = 1..6
        /\ plan[p][1] = FullCharge /\ plan[p][2] = FullDischarge
        /\ plan[p][3] = ToCommand("stop") /\ plan[p][4] = ToPower(w)
        /\ plan[p][5] = ToCommand(c) /\ plan[p][6] = EnterForced
    BY <1>2, <1>3, ForcePlanShape
  <2>2. i = 4
    BY <2>1 DEF Exactly
  <2>3. wire["charge_command"] = "stop"
    BY <2>1, <2>2, EarlierValue
  <2> QED
    BY <2>3
<1>4. CASE ~Reverses(c, cache)
  <2>1. /\ DOMAIN plan[p] = 1..5
        /\ plan[p][1] = FullCharge /\ plan[p][2] = FullDischarge
        /\ plan[p][3] = ToPower(w) /\ plan[p][4] = ToCommand(c) /\ plan[p][5] = EnterForced
    BY <1>2, <1>4, ForcePlanShape
  <2>2. i = 3
    BY <2>1 DEF Exactly
  <2>3. \A f \in {"ems_mode", "charge_command"} : cache[f] = wire[f]
    <3>1. \A f \in {"ems_mode", "charge_command"} :
            f \in Fields /\ \A k \in DOMAIN plan[p] : k < i => plan[p][k].field # f
      BY <2>1, <2>2 DEF Exactly, Fields
    <3> QED
      BY <1>1, <3>1, NotYetWritten DEF DesiredModes
  <2> QED
    BY <1>4, <2>3 DEF Reverses
<1> QED
  BY <1>3, <1>4

\* A forced mode is entered when everything else of its plan is on the wire.
LEMMA ForcedLast ==
    ASSUME Unserved = {}, TypeOK, OrderInv, NEW p \in Callers,
           NEW i \in DOMAIN plan[p], IsNext(p, i),
           plan[p][i].field = "ems_mode", plan[p][i].target = "compulsory"
    PROVE  /\ wire["forced_power"] = request[p].power
           /\ wire["charge_command"] = CommandOf(request[p].what)
           /\ \A f \in Limits : wire[f] = Full
<1> DEFINE c == CommandOf(request[p].what)
           w == request[p].power
<1>1. plan[p] = Plan(request[p], cache) /\ request[p].what \in ForcedModes
  BY Writer, ForcedFields
<1>2. plan[p] = ForcePlan(c, w, cache)
  BY <1>1, PlanOf
<1>e. ASSUME NEW f, NEW v, NEW j \in DOMAIN plan[p], j < i, plan[p][j] = Exactly(f, v),
             \A k \in DOMAIN plan[p] : j < k /\ k < i => plan[p][k].field # f
      PROVE  wire[f] = v
  BY <1>e, EarlierValue
<1> USE DEF FullCharge, FullDischarge, EnterForced, ToCommand, ToPower
<1>3. CASE Reverses(c, cache)
  <2>1. /\ DOMAIN plan[p] = 1..6
        /\ plan[p][1] = FullCharge /\ plan[p][2] = FullDischarge
        /\ plan[p][3] = ToCommand("stop") /\ plan[p][4] = ToPower(w)
        /\ plan[p][5] = ToCommand(c) /\ plan[p][6] = EnterForced
    BY <1>2, <1>3, ForcePlanShape
  <2>2. i = 6
    BY <2>1 DEF Exactly
  <2>3. wire["max_charge_power"] = Full
    BY <2>1, <2>2, <1>e DEF Exactly
  <2>4. wire["max_discharge_power"] = Full
    BY <2>1, <2>2, <1>e DEF Exactly
  <2>5. wire["forced_power"] = w
    BY <2>1, <2>2, <1>e DEF Exactly
  <2>6. wire["charge_command"] = c
    BY <2>1, <2>2, <1>e DEF Exactly
  <2> QED
    BY <2>3, <2>4, <2>5, <2>6 DEF Limits
<1>4. CASE ~Reverses(c, cache)
  <2>1. /\ DOMAIN plan[p] = 1..5
        /\ plan[p][1] = FullCharge /\ plan[p][2] = FullDischarge
        /\ plan[p][3] = ToPower(w) /\ plan[p][4] = ToCommand(c) /\ plan[p][5] = EnterForced
    BY <1>2, <1>4, ForcePlanShape
  <2>2. i = 5
    BY <2>1 DEF Exactly
  <2>3. wire["max_charge_power"] = Full
    BY <2>1, <2>2, <1>e DEF Exactly
  <2>4. wire["max_discharge_power"] = Full
    BY <2>1, <2>2, <1>e DEF Exactly
  <2>5. wire["forced_power"] = w
    BY <2>1, <2>2, <1>e DEF Exactly
  <2>6. wire["charge_command"] = c
    BY <2>1, <2>2, <1>e DEF Exactly
  <2> QED
    BY <2>3, <2>4, <2>5, <2>6 DEF Limits
<1> QED
  BY <1>3, <1>4

\* A return to self-consumption restores a limit when the EMS mode says so: it has
\* written it, or found it there.
LEMMA RestoreAfterLeaving ==
    ASSUME Unserved = {}, TypeOK, OrderInv, NEW p \in Callers,
           NEW i \in DOMAIN plan[p], IsNext(p, i), plan[p][i].field \in Limits,
           request[p].what = "self_consumption"
    PROVE  wire["ems_mode"] = "self_consumption"
<1>1. plan[p] = SelfPlan(cache)
  BY Writer, PlanOf
<1> USE DEF FullCharge, FullDischarge, LeaveForced
<1>2. CASE cache["ems_mode"] \in NotSelfConsumption
  <2>1. /\ DOMAIN plan[p] = 1..3
        /\ plan[p][1] = LeaveForced /\ plan[p][2] = FullCharge /\ plan[p][3] = FullDischarge
    BY <1>1, <1>2, SelfPlanShape
  <2>2. 1 < i /\ i \in 1..3
    BY <2>1 DEF Exactly, Limits
  <2> QED
    BY <2>1, <2>2, EarlierValue DEF Exactly
<1>3. CASE cache["ems_mode"] \notin NotSelfConsumption
  <2>1. /\ DOMAIN plan[p] = 1..3
        /\ plan[p][1] = FullCharge /\ plan[p][2] = FullDischarge /\ plan[p][3] = LeaveForced
    BY <1>1, <1>3, SelfPlanShape
  <2>2. "ems_mode" \in Fields /\ \A k \in DOMAIN plan[p] : k < i => plan[p][k].field # "ems_mode"
    <3>1. i \in 1..2
      BY <2>1 DEF Exactly, Limits
    <3> QED
      BY <2>1, <3>1 DEF Exactly, Fields
  <2>3. cache["ems_mode"] = wire["ems_mode"]
    BY <2>2, NotYetWritten DEF DesiredModes
  <2>4. wire["ems_mode"] \in EmsModes
    BY <2>2 DEF TypeOK, InverterTypeOK, ValuesOf
  <2> QED
    BY <1>3, <2>3, <2>4 DEF EmsModes, NotSelfConsumption
<1> QED
  BY <1>2, <1>3

\* A call that stops one direction has restored the other when it fences its own.
LEMMA FenceAfterRestoring ==
    ASSUME Unserved = {}, TypeOK, OrderInv, NEW p \in Callers,
           NEW i \in DOMAIN plan[p], IsNext(p, i),
           NEW f \in Limits, NEW g \in Limits, g # f, plan[p][i].field = f,
           request[p].what = (IF f = "max_charge_power" THEN "no_charge" ELSE "no_discharge")
    PROVE  wire[g] = Full
<1>1. plan[p] = StopOnly(f, g)
  BY Writer, PlanOf DEF Limits
<1>2. /\ DOMAIN plan[p] = 1..3
      /\ plan[p][1] = Exactly(g, Full) /\ plan[p][2] = FenceOff(f) /\ plan[p][3] = LeaveForced
  BY <1>1, StopOnlyShape
<1>3. i = 2
  BY <1>2 DEF Exactly, FenceOff, LeaveForced, Limits
<1> QED
  BY <1>2, <1>3, EarlierValue

\* What every step of the specification may do to the registers, as four action
\* formulas: the bodies of the order properties.
LEMMA StepsInOrder ==
    ASSUME Unserved = {}, TypeOK, OrderInv, WritersInv, [Next]_vars, NEW p \in Callers, lock = p
    PROVE  /\ /\ wire["ems_mode"] = "compulsory"
              /\ wire'["forced_power"] # wire["forced_power"]
              => wire["charge_command"] \in {"stop", CommandOf(request[p].what)}
           /\ /\ wire["ems_mode"] # "compulsory"
              /\ wire'["ems_mode"] = "compulsory"
              => /\ wire["forced_power"] = request[p].power
                 /\ wire["charge_command"] = CommandOf(request[p].what)
                 /\ \A f \in Limits : wire[f] = Full
           /\ request[p].what = "self_consumption" /\ LimitRaised
              => wire["ems_mode"] = "self_consumption"
           /\ \A f, g \in Limits :
                 /\ request[p].what = (IF f = "max_charge_power" THEN "no_charge"
                                                                  ELSE "no_discharge")
                 /\ wire'[f] < wire[f]
                 /\ g # f
                 => wire[g] = Full
<1>1. CASE wire' = wire
  <2>1. \A f \in Limits : wire[f] \in Nat
    BY DEF TypeOK, InverterTypeOK, Fields, Powers, Limits, ValuesOf
  <2> QED
    BY <1>1, <2>1 DEF LimitRaised
<1>2. CASE wire' # wire
  <2>1. PICK i \in DOMAIN plan[p] :
          /\ IsNext(p, i)
          /\ wire' = [wire EXCEPT ![plan[p][i].field] = plan[p][i].target]
    BY <1>2, WriterLands DEF OrderInv, CallsInv
  <2>2. \A f : wire'[f] # wire[f] => f = plan[p][i].field
    BY <2>1 DEF TypeOK, InverterTypeOK
  <2>3. \A f \in Limits : wire[f] \in Nat
    BY DEF TypeOK, InverterTypeOK, Fields, Powers, Limits, ValuesOf
  <2>4. plan[p][i].field \in Fields
    BY DEF Processes, TypeOK, CallTypeOK, IsPlan, IsStep
  <2>5. /\ wire["ems_mode"] = "compulsory"
        /\ wire'["forced_power"] # wire["forced_power"]
        => wire["charge_command"] \in {"stop", CommandOf(request[p].what)}
    BY <2>1, <2>2, PowerAfterStop
  <2>6. /\ wire["ems_mode"] # "compulsory"
        /\ wire'["ems_mode"] = "compulsory"
        => /\ wire["forced_power"] = request[p].power
           /\ wire["charge_command"] = CommandOf(request[p].what)
           /\ \A f \in Limits : wire[f] = Full
    <3> SUFFICES ASSUME wire["ems_mode"] # "compulsory", wire'["ems_mode"] = "compulsory"
                 PROVE  plan[p][i].field = "ems_mode" /\ plan[p][i].target = "compulsory"
      BY <2>1, ForcedLast
    <3> QED
      BY <2>1, <2>2, <2>4 DEF TypeOK, InverterTypeOK
  <2>7. request[p].what = "self_consumption" /\ LimitRaised
        => wire["ems_mode"] = "self_consumption"
    BY <2>1, <2>2, <2>3, RestoreAfterLeaving DEF LimitRaised
  <2>8. ASSUME NEW f \in Limits, NEW g \in Limits,
               request[p].what = (IF f = "max_charge_power" THEN "no_charge"
                                                             ELSE "no_discharge"),
               wire'[f] < wire[f], g # f
        PROVE  wire[g] = Full
    <3>1. wire'[f] # wire[f]
      BY <2>3, <2>8
    <3> QED
      BY <2>1, <2>2, <2>8, <3>1, FenceAfterRestoring
  <2> QED
    BY <2>5, <2>6, <2>7, <2>8
<1> QED
  BY <1>1, <1>2

\* The invariant behind the order of the writes, for calls that are all read back
\* on an inverter that takes the writes it answers.
LEMMA OrderInvariant ==
    ASSUME Unserved = {}, MayIgnore = {}, \A r \in Requests : r.verify
    PROVE  Spec => [](TypeOK /\ OrderInv /\ WritersInv)
<1> DEFINE WrittenInv == CallsInv /\ FitInv /\ PassedInv /\ LandedInv /\ WritersInv
<1>1. Init => WrittenInv
  BY InitCalls, InitCoherence, InitLanded
<1>2. TypeOK /\ FreshMatchesWire /\ WrittenInv /\ [Next]_vars => WrittenInv'
  BY NextCalls, NextFit, NextPassed, NextLanded, NextWriters DEF OrderInv, CallsInv
<1>3. Spec => []FreshMatchesWire
  BY CacheCoherence
<1>4. FreshMatchesWire /\ WrittenInv => OrderInv /\ WritersInv
  BY DEF OrderInv
<1> HIDE DEF WrittenInv
<1> QED
  BY <1>1, <1>2, <1>3, <1>4, TypeCorrect, PTL DEF Spec

\* Spec => NoReversalAtNewPower: wherever a call is cut off or fails, the battery
\* is never driven in the old direction at the new power.
THEOREM ReversalStopsFirst ==
    ASSUME Unserved = {}, MayIgnore = {}, \A r \in Requests : r.verify
    PROVE  Spec => NoReversalAtNewPower
<1>1. TypeOK /\ OrderInv /\ WritersInv /\ [Next]_vars
        => [\A p \in Callers :
              /\ lock = p
              /\ wire["ems_mode"] = "compulsory"
              /\ wire'["forced_power"] # wire["forced_power"]
              => wire["charge_command"] \in {"stop", CommandOf(request[p].what)}]_vars
  BY StepsInOrder
<1> QED
  BY <1>1, OrderInvariant, PTL DEF Spec, NoReversalAtNewPower

\* Spec => ForcedStartsAsAsked: a forced mode never starts with a power, a
\* direction or a limit that is not of the call that starts it.
THEOREM ForcedStartsRight ==
    ASSUME Unserved = {}, MayIgnore = {}, \A r \in Requests : r.verify
    PROVE  Spec => ForcedStartsAsAsked
<1>1. TypeOK /\ OrderInv /\ WritersInv /\ [Next]_vars
        => [\A p \in Callers :
              /\ lock = p
              /\ wire["ems_mode"] # "compulsory"
              /\ wire'["ems_mode"] = "compulsory"
              => /\ wire["forced_power"] = request[p].power
                 /\ wire["charge_command"] = CommandOf(request[p].what)
                 /\ \A f \in Limits : wire[f] = Full]_vars
  BY StepsInOrder
<1> QED
  BY <1>1, OrderInvariant, PTL DEF Spec, ForcedStartsAsAsked

\* Spec => LimitsStayWhileForced: a return to self-consumption that fails leaves
\* the limits down or the forced mode left.
THEOREM LimitsStay ==
    ASSUME Unserved = {}, MayIgnore = {}, \A r \in Requests : r.verify
    PROVE  Spec => LimitsStayWhileForced
<1>1. TypeOK /\ OrderInv /\ WritersInv /\ [Next]_vars
        => [\A p \in Callers :
              /\ lock = p
              /\ request[p].what = "self_consumption"
              /\ LimitRaised
              => wire["ems_mode"] = "self_consumption"]_vars
  BY StepsInOrder DEF LimitRaised
<1> QED
  BY <1>1, OrderInvariant, PTL DEF Spec, LimitsStayWhileForced

\* Spec => FencesAfterRestoring: a call that stops one direction never leaves both
\* of them stopped.
THEOREM RestoresFirst ==
    ASSUME Unserved = {}, MayIgnore = {}, \A r \in Requests : r.verify
    PROVE  Spec => FencesAfterRestoring
<1>1. TypeOK /\ OrderInv /\ WritersInv /\ [Next]_vars
        => [\A p \in Callers, f, g \in Limits :
              /\ lock = p
              /\ request[p].what = (IF f = "max_charge_power" THEN "no_charge"
                                                              ELSE "no_discharge")
              /\ wire'[f] < wire[f]
              /\ g # f
              => wire[g] = Full]_vars
  BY StepsInOrder
<1> QED
  BY <1>1, OrderInvariant, PTL DEF Spec, FencesAfterRestoring
=============================================================================
