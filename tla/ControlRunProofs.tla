----------------------------- MODULE ControlRunProofs -----------------------------
(***************************************************************************)
(* Theorems about ControlRun, for any callers, services and registers.     *)
(***************************************************************************)
EXTENDS ControlRun, BatteryControlProofs

(***************************************************************************)
(* The services' bookkeeping.                                              *)
(***************************************************************************)
\* A re-read has something left to read, and a read-back a plan to read back.
RereadInv  == \A p \in Callers : stage[p] \in Rereading => left[p] # {}
BackInv    == \A p \in Processes : pc[p] = "readback" => DOMAIN plan[p] # {}

LEMMA FirstIsIn ==
    ASSUME NEW ks \in SUBSET Components, ks # {}
    PROVE  First(ks) \in ks /\ First(ks) \in Components
BY DEF First, Components

LEMMA ComponentsAre ==
    /\ \A f : Component(f) \in Components
    /\ \A p \in Callers : Wrote(p) \subseteq Components /\ Touches(p) \subseteq Components
BY DEF Component, Components, Wrote, Touches

\* A call that has a plan touches something, however far it came.
LEMMA TouchesSomething ==
    ASSUME TypeOK, NEW p \in Callers, DOMAIN plan[p] # {}
    PROVE  Touches(p) # {}
<1>1. /\ p \in Processes /\ Len(plan[p]) \in Nat /\ DOMAIN plan[p] = 1..Len(plan[p])
      /\ next[p] \in Nat \ {0}
  BY DEF TypeOK, CallTypeOK, IsPlan, Processes
<1>2. 1 \in DOMAIN plan[p]
  BY <1>1
<1>3. \A j \in ToWrite(p) : 1 <= j
  BY <1>1 DEF ToWrite
<1>4. 1 \in Reached(p)
  BY <1>2, <1>3 DEF Reached
<1> QED
  BY <1>4 DEF Touches

\* What a service's own variables are.
ServiceOK(p) ==
    /\ stage[p] \in Calling \cup Rereading \cup Ended \cup {"next"}
    /\ todo[p] \in Seq(Requests)
    /\ todo[p] = << >> <=> stage[p] \in Ended
    /\ wrote[p] \subseteq Components
    /\ names[p] \subseteq Components
    /\ names[p] # {} <=> stage[p] \in Rereading
    /\ left[p] \cup missed[p] \subseteq names[p]
    /\ stage[p] \in Rereading => left[p] # {}

ShownOK ==
    /\ shown \in {None} \cup SUBSET Components
    /\ success \in BOOLEAN
    /\ success => shown # None
    /\ dumping \in BOOLEAN

Tables ==
    /\ stage \in [Callers -> Calling \cup Rereading \cup Ended \cup {"next"}]
    /\ DOMAIN todo = Callers /\ DOMAIN wrote = Callers /\ DOMAIN names = Callers
    /\ DOMAIN left = Callers /\ DOMAIN missed = Callers

RunInv == ShownOK /\ Tables /\ \A p \in Callers : ServiceOK(p)

LEMMA RunInvIs == RunInv => RunTypeOK /\ RereadInv
BY DEF RunInv, ShownOK, Tables, ServiceOK, RunTypeOK, RereadInv

LEMMA AvailableIs == ShownOK => Available \subseteq Components
BY DEF ShownOK, Available

LEMMA TailOfTodo ==
    ASSUME NEW s \in Seq(Requests), s # << >>
    PROVE  /\ Head(s) \in Requests
           /\ Len(s) # 1 => Tail(s) \in Seq(Requests) /\ Tail(s) # << >>
<1>1. Len(s) \in Nat /\ Len(s) # 0 /\ DOMAIN s = 1..Len(s)
  OBVIOUS
<1>2. Head(s) = s[1] /\ s[1] \in Requests
  BY <1>1
<1>3. Len(s) # 1 => Tail(s) \in Seq(Requests) /\ Len(Tail(s)) = Len(s) - 1
  BY <1>1
<1> QED
  BY <1>1, <1>2, <1>3

\* Only one service's variables change in a step of it.
OthersStay(p) ==
    \A q \in Callers \ {p} :
        /\ stage'[q] = stage[q] /\ todo'[q] = todo[q] /\ wrote'[q] = wrote[q]
        /\ names'[q] = names[q] /\ left'[q] = left[q] /\ missed'[q] = missed[q]

LEMMA OneService ==
    ASSUME RunInv, NEW p \in Callers, Tables', OthersStay(p), ServiceOK(p)'
    PROVE  Tables' /\ \A q \in Callers : ServiceOK(q)'
<1>1. ASSUME NEW q \in Callers \ {p} PROVE ServiceOK(q)'
  BY DEF RunInv, OthersStay, ServiceOK
<1> QED
  BY <1>1

LEMMA UnchangedRun == RunInv /\ UNCHANGED runVars => Tables' /\ \A q \in Callers : ServiceOK(q)'
BY DEF RunInv, Tables, ServiceOK, runVars

LEMMA FinishKeeps ==
    ASSUME RunInv, NEW p \in Callers, NEW result \in {"verified", "done", "failed"},
           todo[p] # << >>, Finish(p, result)
    PROVE  Tables' /\ \A q \in Callers : ServiceOK(q)'
<1> DEFINE last == result = "failed" \/ Len(todo[p]) = 1
<1>1. EndRunOf(p, result, last)
  BY DEF Finish
<1>2. Tables /\ ServiceOK(p)
  BY DEF RunInv
<1>3. Tables' /\ OthersStay(p)
  BY <1>1, <1>2 DEF EndRunOf, Tables, OthersStay, Ended, Calling
<1>4. /\ wrote'[p] = {} /\ names'[p] = {} /\ left'[p] = {} /\ missed'[p] = {}
      /\ stage'[p] = IF last THEN result ELSE "next"
      /\ todo'[p] = IF last THEN << >> ELSE Tail(todo[p])
  BY <1>1, <1>2 DEF EndRunOf, Tables
<1>5. todo[p] \in Seq(Requests)
  BY <1>2 DEF ServiceOK
<1>6. ServiceOK(p)'
  <2>1. CASE last
    BY <1>4, <2>1 DEF ServiceOK, Ended, Calling, Rereading
  <2>2. CASE ~last
    <3>1. todo'[p] \in Seq(Requests) /\ todo'[p] # << >> /\ stage'[p] = "next"
      BY <1>4, <1>5, <2>2, TailOfTodo
    <3> QED
      BY <1>4, <3>1 DEF ServiceOK, Ended, Calling, Rereading
  <2> QED
    BY <2>1, <2>2
<1> QED
  BY <1>3, <1>6, OneService

LEMMA RereadKeeps ==
    ASSUME RunInv, NEW p \in Callers, NEW ks \in SUBSET Components, ks # {},
           NEW why \in Rereading, todo[p] # << >>, Reread(p, ks, why)
    PROVE  /\ Tables' /\ \A q \in Callers : ServiceOK(q)'
           /\ UNCHANGED coordinatorVars
<1>1. Tables /\ ServiceOK(p) /\ Wrote(p) \subseteq Components
  BY ComponentsAre DEF RunInv
<1>2. Tables' /\ OthersStay(p)
  BY <1>1 DEF Reread, StartReread, Tables, OthersStay
<1>3. /\ stage'[p] = why /\ todo'[p] = todo[p] /\ wrote'[p] = Wrote(p)
      /\ names'[p] = ks /\ left'[p] = ks /\ missed'[p] = {}
      /\ UNCHANGED coordinatorVars
  BY <1>1 DEF Reread, StartReread, Tables
<1>4. ServiceOK(p)'
  BY <1>1, <1>3 DEF ServiceOK, Ended, Rereading
<1> QED
  BY <1>2, <1>3, <1>4, OneService

\* What the coordinator is told are components.
LEMMA ApplyKeepsShown ==
    ASSUME ShownOK, NEW ks \in SUBSET Components, ApplySnapshot(ks) \/ MarkFailed(ks)
    PROVE  ShownOK'
<1>1. shown' \in SUBSET Components /\ success'
  BY AvailableIs DEF ApplySnapshot, MarkFailed
<1>2. success' = TRUE /\ dumping' \in BOOLEAN
  BY DEF ApplySnapshot, MarkFailed, ShownOK
<1> QED
  BY <1>1, <1>2, ShownAssumption DEF ShownOK

LEMMA UnchangedShown == ShownOK /\ UNCHANGED coordinatorVars => ShownOK'
BY DEF ShownOK, coordinatorVars

\* A call that ends in an error while it executes its plan has a plan.
LEMMA RaisedHasPlan ==
    ASSUME TypeOK, BackInv, NEW p \in Callers, Proceed(p), pc[p] \in {"writing", "readback"},
           pc'[p] \in {"rejected", "uncertain", "unavailable"}
    PROVE  DOMAIN plan[p] # {}
<1>1. p \in Processes /\ p \in DOMAIN pc
  BY DEF TypeOK, CallTypeOK, Processes
<1>2. CASE pc[p] = "readback"
  BY <1>1, <1>2 DEF BackInv
<1>3. CASE pc[p] = "writing"
  <2>1. ~EndUnread(p)
    BY <1>1 DEF EndUnread, End, Return
  <2>2. ~(WriteAnswered(p) \/ StartReadBack(p))
    BY <1>1, <1>3 DEF WriteAnswered, StartReadBack
  <2>3. WriteRejected(p) \/ WriteUnanswered(p)
    BY <1>3, <2>1, <2>2
       DEF Proceed, Acquire, ReadAnswered, ReadFailed, FreshenRaised, ReadBackRaised, MakePlan,
           RefusePower, Freshened, Verify, Mismatch, ReadBack, Command, Reading
  <2> QED
    BY <2>3 DEF WriteRejected, WriteUnanswered, WriteFailed
<1> QED
  BY <1>2, <1>3

\* What a call has written is part of its plan.
LEMMA WroteHasPlan ==
    ASSUME WritersInv, NEW p \in Callers, Wrote(p) # {}
    PROVE  DOMAIN plan[p] # {}
<1>1. p \in Processes /\ written[p] # {}
  BY DEF Wrote, Processes
<1>2. PICK f \in written[p] : Component(f) \in Touched(plan[p])
  BY <1>1 DEF WritersInv
<1> QED
  BY <1>2 DEF Touched

LEMMA ContinueKeeps ==
    ASSUME TypeOK, WritersInv, BackInv, RunInv, NEW p \in Callers, stage[p] \in Calling,
           Proceed(p), Continue(p, pc'[p])
    PROVE  RunInv'
<1> DEFINE outcome == pc'[p]
<1> USE DEF coordinatorVars
<1>1. todo[p] # << >> /\ wrote[p] \subseteq Components /\ ShownOK
  BY DEF RunInv, ServiceOK, Calling, Ended
<1>2. Touches(p) \subseteq Components
  BY ComponentsAre
<1>3. CASE Returned(p, outcome)
  <2> DEFINE writes  == wrote[p] \cup Wrote(p)
             touched == wrote[p] \cup Touches(p)
  <2>1. touched \in SUBSET Components
    BY <1>1, <1>2
  <2>2. writes # {} => touched # {}
    <3>1. Wrote(p) # {} => Touches(p) # {}
      BY WroteHasPlan, TouchesSomething
    <3> QED
      BY <3>1
  <2>3. \/ UNCHANGED coordinatorVars /\ \E result \in {"verified", "done", "failed"} : Finish(p, result)
        \/ ApplySnapshot(touched) /\ Finish(p, "verified")
        \/ writes # {} /\ Reread(p, touched, "returning")
    BY <1>3 DEF Returned
  <2>4. CASE UNCHANGED coordinatorVars /\ \E result \in {"verified", "done", "failed"} : Finish(p, result)
    BY <1>1, <2>4, FinishKeeps, UnchangedShown DEF RunInv
  <2>5. CASE ApplySnapshot(touched) /\ Finish(p, "verified")
    BY <1>1, <2>1, <2>5, FinishKeeps, ApplyKeepsShown DEF RunInv
  <2>6. CASE writes # {} /\ Reread(p, touched, "returning")
    BY <1>1, <2>1, <2>2, <2>6, RereadKeeps, UnchangedShown DEF RunInv, Rereading
  <2> QED
    BY <2>3, <2>4, <2>5, <2>6
<1>4. CASE pc[p] \in {"writing", "readback"} /\ RaisedReport(p, outcome)
  <2>1. CASE ApplySnapshot(Touches(p)) /\ Finish(p, "failed")
    BY <1>1, <1>2, <2>1, FinishKeeps, ApplyKeepsShown DEF RunInv
  <2>2. CASE /\ outcome \in {"rejected", "uncertain", "unavailable"}
             /\ \E why \in {"failing", "retrying"} : Reread(p, Touches(p), why)
    <3>1. Touches(p) # {}
      BY <1>4, <2>2, RaisedHasPlan, TouchesSomething
    <3> QED
      BY <1>1, <1>2, <2>2, <3>1, RereadKeeps, UnchangedShown DEF RunInv, Rereading
  <2> QED
    BY <1>4, <2>1, <2>2 DEF RaisedReport
<1>5. CASE RaisedBare(p, outcome)
  BY <1>1, <1>5, FinishKeeps, UnchangedShown DEF RaisedBare, RunInv
<1> QED
  BY <1>3, <1>4, <1>5 DEF Continue

LEMMA ServeKeeps ==
    ASSUME RunInv, NEW p \in Callers, Serve(p) \/ ServeOn(p)
    PROVE  RunInv'
<1> USE DEF coordinatorVars
<1>1. Tables /\ ServiceOK(p) /\ ShownOK
  BY DEF RunInv
<1>2. ShownOK'
  BY <1>1, UnchangedShown DEF Serve, ServeOn
<1>3. CASE Serve(p)
  <2>1. PICK s \in Services : todo' = [todo EXCEPT ![p] = s]
    BY <1>3 DEF Serve
  <2>2. s \in Seq(Requests) /\ s # << >>
    BY ServiceAssumption
  <2>3. /\ stage[p] \in Ended /\ stage' = [stage EXCEPT ![p] = "first"]
        /\ UNCHANGED <<wrote, names, left, missed>>
    BY <1>3 DEF Serve
  <2>4. Tables' /\ OthersStay(p)
    BY <1>1, <2>1, <2>3 DEF Tables, OthersStay, Calling
  <2>5. ServiceOK(p)'
    BY <1>1, <2>1, <2>2, <2>3 DEF Tables, ServiceOK, Calling, Rereading, Ended
  <2> QED
    BY <1>2, <2>4, <2>5, OneService DEF RunInv
<1>4. CASE ServeOn(p)
  <2>1. /\ stage[p] = "next" /\ stage' = [stage EXCEPT ![p] = "first"]
        /\ UNCHANGED <<todo, wrote, names, left, missed>>
    BY <1>4 DEF ServeOn
  <2>2. Tables' /\ OthersStay(p)
    BY <1>1, <2>1 DEF Tables, OthersStay, Calling
  <2>3. ServiceOK(p)'
    BY <1>1, <2>1 DEF Tables, ServiceOK, Calling, Rereading, Ended
  <2> QED
    BY <1>2, <2>2, <2>3, OneService DEF RunInv
<1> QED
  BY <1>3, <1>4

LEMMA CallStepKeeps ==
    ASSUME TypeOK, WritersInv, BackInv, RunInv, NEW p \in Callers, CallStep(p)
    PROVE  RunInv'
<1>1. CASE UNCHANGED <<coordinatorVars, runVars>>
  BY <1>1, UnchangedRun, UnchangedShown DEF RunInv
<1> QED
  BY <1>1, ContinueKeeps DEF CallStep

\* A step of a re-read: one component less to read, or the end of the re-read.
LEMMA AdvanceKeeps ==
    ASSUME RunInv, NEW p \in Callers, stage[p] \in Rereading,
           NEW bad \in {missed[p], missed[p] \cup {First(left[p])}},
           Advance(p, First(left[p]), bad)
    PROVE  RunInv'
<1> USE DEF coordinatorVars
<1> DEFINE k == First(left[p])
<1>1. Tables /\ ServiceOK(p) /\ ShownOK
  BY DEF RunInv
<1>2. /\ todo[p] # << >> /\ todo[p] \in Seq(Requests)
      /\ names[p] \subseteq Components /\ wrote[p] \subseteq Components
      /\ left[p] # {} /\ left[p] \subseteq names[p] /\ missed[p] \subseteq names[p]
  BY <1>1 DEF ServiceOK, Rereading, Ended
<1>3. k \in left[p] /\ bad \subseteq names[p]
  BY <1>2, FirstIsIn
<1> HIDE DEF k
<1>4. CASE /\ left[p] # {k}
           /\ left' = [left EXCEPT ![p] = @ \ {k}]
           /\ missed' = [missed EXCEPT ![p] = bad]
           /\ UNCHANGED <<coordinatorVars, stage, todo, wrote, names>>
  <2>1. Tables' /\ OthersStay(p)
    BY <1>1, <1>4 DEF Tables, OthersStay
  <2>2. left'[p] = left[p] \ {k} /\ missed'[p] = bad /\ left'[p] # {}
    BY <1>1, <1>2, <1>3, <1>4 DEF Tables
  <2>3. ServiceOK(p)'
    BY <1>1, <1>2, <1>3, <1>4, <2>2 DEF ServiceOK
  <2> QED
    BY <1>1, <1>4, <2>1, <2>3, OneService, UnchangedShown DEF RunInv
<1>5. CASE PublishReread(p, bad) /\ ((bad = {} /\ PlanAgain(p)) \/ EndRun(p))
  <2>1. ShownOK'
    <3>1. shown' \in SUBSET Components
      BY <1>1, <1>2, <1>5, AvailableIs DEF PublishReread
    <3>2. success' = TRUE /\ dumping' \in BOOLEAN
      BY <1>1, <1>5 DEF PublishReread, ShownOK
    <3> QED
      BY <3>1, <3>2, ShownAssumption DEF ShownOK
  <2>2. CASE bad = {} /\ PlanAgain(p)
    <3>1. /\ stage' = [stage EXCEPT ![p] = "again"]
          /\ names' = [names EXCEPT ![p] = {}] /\ left' = [left EXCEPT ![p] = {}]
          /\ UNCHANGED <<todo, wrote, missed>>
      BY <2>2 DEF PlanAgain, CallAgain
    <3>2. missed[p] = {}
      BY <2>2
    <3>3. Tables' /\ OthersStay(p)
      BY <1>1, <3>1 DEF Tables, OthersStay, Calling
    <3>4. ServiceOK(p)'
      BY <1>1, <1>2, <3>1, <3>2 DEF Tables, ServiceOK, Calling, Rereading, Ended
    <3> QED
      BY <2>1, <3>3, <3>4, OneService DEF RunInv
  <2>3. CASE EndRun(p)
    <3>1. \E result \in {"verified", "done", "failed"} : Finish(p, result)
      BY <2>3 DEF EndRun
    <3> QED
      BY <1>2, <2>1, <3>1, FinishKeeps DEF RunInv
  <2> QED
    BY <1>5, <2>2, <2>3
<1> QED
  BY <1>4, <1>5 DEF Advance, k

LEMMA RereadRaisedKeeps ==
    ASSUME RunInv, NEW p \in Callers, RereadRaised(p)
    PROVE  RunInv'
<1>1. todo[p] # << >> /\ names[p] \in SUBSET Components /\ ShownOK
  BY DEF RunInv, ServiceOK, RereadRaised, Rereading, Ended
<1>2. ShownOK'
  BY <1>1, ApplyKeepsShown DEF RereadRaised
<1>3. \E result \in {"verified", "done", "failed"} : Finish(p, result)
  BY DEF RereadRaised, EndRun
<1> QED
  BY <1>1, <1>2, <1>3, FinishKeeps DEF RunInv

LEMMA BackgroundKeeps ==
    ASSUME RunInv, TypeOK, Background
    PROVE  RunInv'
<1> USE DEF coordinatorVars
<1>1. UNCHANGED runVars
  BY DEF Background, SkipPoll, StartPoll, StartDump, PollStep, PollReports, PollFails, DumpEnds,
         Environment
<1>2. ShownOK'
  <2>1. CASE SkipPoll
    BY <2>1 DEF SkipPoll, RunInv, ShownOK
  <2>2. CASE PollReports
    <3>1. shown' \in SUBSET Components /\ success' = TRUE
      BY <2>2 DEF PollReports, Answered
    <3>2. dumping' \in BOOLEAN
      BY <2>2 DEF PollReports, RunInv, ShownOK
    <3> QED
      BY <3>1, <3>2, ShownAssumption DEF ShownOK
  <2>3. CASE PollFails \/ StartPoll \/ StartDump \/ DumpEnds
    <3>1. shown' = shown /\ (success' = success \/ success' = FALSE)
      BY <2>3 DEF PollFails, StartPoll, StartDump, DumpEnds
    <3>2. dumping' = dumping \/ dumping' = TRUE \/ dumping' = FALSE
      BY <2>3 DEF PollFails, StartPoll, StartDump, DumpEnds
    <3>3. dumping' \in BOOLEAN
      BY <3>2, Zenon DEF RunInv, ShownOK
    <3>4. success' \in BOOLEAN /\ (success' => shown' # None)
      <4>1. shown' = shown /\ success \in BOOLEAN /\ (success => shown # None)
        BY <3>1 DEF RunInv, ShownOK
      <4>2. CASE success' = success
        BY <4>1, <4>2
      <4>3. CASE success' = FALSE
        BY <4>3
      <4> QED
        BY <3>1, <4>2, <4>3
    <3> QED
      BY <3>1, <3>3, <3>4, Zenon DEF RunInv, ShownOK
  <2>4. CASE UNCHANGED coordinatorVars
    BY <2>4, UnchangedShown DEF RunInv
  <2> QED
    BY <2>1, <2>2, <2>3, <2>4 DEF Background, PollStep, Environment
<1> QED
  BY <1>1, <1>2, UnchangedRun DEF RunInv

LEMMA StepsKeepRun ==
    ASSUME TypeOK, WritersInv, BackInv, RunInv,
           (\E p \in Callers : Serve(p) \/ RunStep(p)) \/ Background
    PROVE  RunInv'
<1>1. ASSUME NEW p \in Callers, RereadAnswered(p) PROVE RunInv'
  BY <1>1, AdvanceKeeps DEF RereadAnswered
<1>2. ASSUME NEW p \in Callers, RereadFailed(p) PROVE RunInv'
  BY <1>2, AdvanceKeeps DEF RereadFailed
<1> QED
  BY <1>1, <1>2, ServeKeeps, CallStepKeeps, RereadRaisedKeeps, BackgroundKeeps DEF RunStep

(***************************************************************************)
(* What the services, the poll and the re-reads do to the calls: a step of *)
(* BatteryControl, or a read outside the lock that may make a call.        *)
(***************************************************************************)
GuardedStep(ps) ==
    \/ /\ \E p \in ps, r \in Requests : MakeCall(p, r)
       /\ UNCHANGED <<inverterVars, cacheVars>>
    \/ \E p \in ps \cup {Poller} : Proceed(p)
    \/ Poll \/ PollEnds \/ PollRunningState \/ GraceEnds
    \/ UNCHANGED vars

OutsideRead(ps) ==
    /\ \E k \in Components :
        /\ cache' = [f \in Fields |-> IF Component(f) = k THEN Answer(wire)[f] ELSE cache[f]]
        /\ refreshed' = refreshed \cup {k}
    /\ UNCHANGED <<inverterVars, seen, inGrace>>
    /\ \/ UNCHANGED <<lockVars, callVars>>
       \/ \E p \in ps, r \in Requests : MakeCall(p, r)

LEMMA AdvanceMoves ==
    ASSUME RunInv, NEW p \in Callers, NEW k, NEW bad, stage[p] \in Rereading, Advance(p, k, bad)
    PROVE  UNCHANGED <<lockVars, callVars>> \/ \E r \in Requests : MakeCall(p, r)
<1>1. Head(todo[p]) \in Requests
  BY TailOfTodo DEF RunInv, ServiceOK, Rereading, Ended
<1> QED
  BY <1>1 DEF Advance, PlanAgain, CallAgain

LEMMA WhatStepsDo ==
    ASSUME RunInv, NEW ps \in SUBSET Callers,
           (\E p \in ps : Serve(p) \/ RunStep(p)) \/ Background
    PROVE  GuardedStep(ps) \/ OutsideRead(ps)
<1>1. ASSUME NEW p \in ps, Serve(p) PROVE GuardedStep(ps)
  <2>1. PICK s \in Services : MakeCall(p, Head(s))
    BY <1>1 DEF Serve
  <2>2. Head(s) \in Requests
    BY TailOfTodo, ServiceAssumption
  <2> QED
    BY <1>1, <2>1, <2>2 DEF Serve, GuardedStep
<1>2. ASSUME NEW p \in ps, ServeOn(p) PROVE GuardedStep(ps)
  <2>1. Head(todo[p]) \in Requests
    BY <1>2, TailOfTodo DEF RunInv, ServiceOK, ServeOn, Ended
  <2> QED
    BY <1>2, <2>1 DEF ServeOn, GuardedStep
<1>3. ASSUME NEW p \in ps, CallStep(p) PROVE GuardedStep(ps)
  BY <1>3 DEF CallStep, GuardedStep
<1>4. ASSUME NEW p \in ps, RereadAnswered(p) PROVE OutsideRead(ps)
  <2>1. First(left[p]) \in Components
    BY DEF First, Components
  <2>2. UNCHANGED <<lockVars, callVars>> \/ \E r \in Requests : MakeCall(p, r)
    BY <1>4, AdvanceMoves DEF RereadAnswered
  <2> QED
    BY <1>4, <2>1, <2>2 DEF RereadAnswered, OutsideRead
<1>5. ASSUME NEW p \in ps, RereadFailed(p) PROVE GuardedStep(ps)
  <2>1. UNCHANGED <<lockVars, callVars>> \/ \E r \in Requests : MakeCall(p, r)
    BY <1>5, AdvanceMoves DEF RereadFailed
  <2> QED
    BY <1>5, <2>1 DEF RereadFailed, GuardedStep, vars
<1>6. ASSUME NEW p \in ps, RereadRaised(p) PROVE GuardedStep(ps)
  BY <1>6 DEF RereadRaised, GuardedStep
<1>7. ASSUME Background PROVE GuardedStep(ps)
  BY <1>7 DEF Background, SkipPoll, StartPoll, StartDump, PollStep, PollReports, PollFails,
              DumpEnds, Environment, GuardedStep
<1> QED
  BY <1>1, <1>2, <1>3, <1>4, <1>5, <1>6, <1>7 DEF RunStep

LEMMA GuardedIsNext ==
    ASSUME NEW ps \in SUBSET Callers, GuardedStep(ps)
    PROVE  [Next]_vars
BY DEF GuardedStep, Next, Call, Processes

(***************************************************************************)
(* The calls keep their invariants.                                        *)
(***************************************************************************)
CallInv == TypeOK /\ RequestInv /\ WritersInv /\ BackInv

LEMMA NextBack == TypeOK /\ WritersInv /\ BackInv /\ [Next]_vars => BackInv'
<1> SUFFICES ASSUME TypeOK, WritersInv, BackInv, [Next]_vars PROVE BackInv'
  OBVIOUS
<1> USE DEF callVars
<1>u. ASSUME UNCHANGED <<pc, plan>> PROVE BackInv'
  BY <1>u DEF BackInv
<1>1. ASSUME NEW p \in Processes, pc'[p] # "readback",
             \A q \in Processes \ {p} : pc'[q] = pc[q] /\ plan'[q] = plan[q]
      PROVE  BackInv'
  BY <1>1 DEF BackInv
<1>2. ASSUME NEW p \in Processes, NEW outcome \in Resting, End(p, outcome) PROVE BackInv'
  BY <1>2, <1>1 DEF End, Return, TypeOK, CallTypeOK, Resting, Outcomes, Errors
<1>3. ASSUME NEW p \in Processes, StartReadBack(p) PROVE BackInv'
  <2>1. PICK f \in written[p] : Component(f) \in Touched(plan[p])
    BY <1>3 DEF StartReadBack, WritersInv
  <2>2. DOMAIN plan[p] # {}
    BY <2>1 DEF Touched
  <2> QED
    BY <1>3, <2>2 DEF StartReadBack, BackInv, TypeOK, CallTypeOK
<1>4. ASSUME NEW p \in Processes, Proceed(p) PROVE BackInv'
  <2>1. CASE Acquire(p)
    BY <2>1, <1>1 DEF Acquire, FirstPlace, TypeOK, CallTypeOK
  <2>2. CASE MakePlan(p)
    BY <2>2, <1>1 DEF MakePlan, TypeOK, CallTypeOK
  <2>3. CASE ReadAnswered(p) \/ ReadFailed(p) \/ WriteAnswered(p)
    BY <2>3, <1>u DEF ReadAnswered, ReadFailed, WriteAnswered
  <2>4. CASE \/ FreshenRaised(p) \/ ReadBackRaised(p) \/ RefusePower(p)
             \/ WriteRejected(p) \/ WriteUnanswered(p) \/ EndUnread(p) \/ Verify(p)
             \/ Mismatch(p) \/ Command(p)
    BY <2>4, EndersHold, <1>2
  <2> QED
    BY <1>3, <1>4, <2>1, <2>2, <2>3, <2>4 DEF Proceed
<1>5. ASSUME NEW p \in Callers, Call(p) PROVE BackInv'
  BY <1>5, <1>1 DEF Call, MakeCall, TypeOK, CallTypeOK, Processes
<1>6. ASSUME Poll PROVE BackInv'
  BY <1>6, <1>1 DEF Poll, TypeOK, CallTypeOK, Processes
<1>7. ASSUME PollEnds PROVE BackInv'
  BY <1>7, <1>2 DEF PollEnds, Processes, Resting
<1> QED
  BY <1>u, <1>4, <1>5, <1>6, <1>7 DEF Next, PollRunningState, GraceEnds, vars

LEMMA NextCallInv == CallInv /\ [Next]_vars => CallInv'
BY NextTypeOK, NextRequestInv, NextWriters, NextBack DEF CallInv

\* Making a call touches the lock's queue and the caller's own variables only.
LEMMA MakeCallKeeps ==
    ASSUME CallInv, NEW p \in Callers, NEW r \in Requests, MakeCall(p, r)
    PROVE  LockTypeOK' /\ CallTypeOK' /\ RequestInv' /\ WritersInv' /\ BackInv'
<1>1. p \in Processes /\ p # Poller
  BY ProcessAssumption DEF Processes
<1>2. LockTypeOK' /\ CallTypeOK'
  BY <1>1 DEF CallInv, MakeCall, Enqueue, TypeOK, LockTypeOK, CallTypeOK
<1>3. RequestInv'
  BY <1>1 DEF CallInv, MakeCall, RequestInv, InCall, TypeOK, CallTypeOK
<1>4. WritersInv'
  BY <1>1 DEF CallInv, MakeCall, WritersInv, InCall, TypeOK, CallTypeOK, Resting, Outcomes, Errors
<1>5. BackInv'
  BY <1>1 DEF CallInv, MakeCall, BackInv, TypeOK, CallTypeOK
<1> QED
  BY <1>2, <1>3, <1>4, <1>5

LEMMA OutsideReadKeeps ==
    ASSUME CallInv, NEW ps \in SUBSET Callers, OutsideRead(ps)
    PROVE  CallInv'
<1>1. InverterTypeOK' /\ CacheTypeOK'
  BY AnswerTypeOK DEF CallInv, OutsideRead, TypeOK, InverterTypeOK, CacheTypeOK, inverterVars
<1>2. CASE UNCHANGED <<lockVars, callVars>>
  <2>1. LockTypeOK' /\ CallTypeOK'
    BY <1>2 DEF CallInv, TypeOK, LockTypeOK, CallTypeOK, lockVars, callVars
  <2>2. RequestInv' /\ WritersInv' /\ BackInv'
    BY <1>2 DEF CallInv, RequestInv, WritersInv, BackInv, callVars
  <2> QED
    BY <1>1, <2>1, <2>2 DEF CallInv, TypeOK
<1>3. CASE \E p \in ps, r \in Requests : MakeCall(p, r)
  BY <1>1, <1>3, MakeCallKeeps DEF CallInv, TypeOK
<1> QED
  BY <1>2, <1>3 DEF OutsideRead

LEMMA InitRun ==
    ASSUME RunInit
    PROVE  CallInv /\ RunInv
<1>1. Init
  BY DEF RunInit
<1>2. CallInv
  <2>1. BackInv
    BY <1>1 DEF Init, BackInv
  <2> QED
    BY <1>1, <2>1, InitTypeOK, InitRequestInv, InitCoherence DEF CallInv
<1>3. ShownOK /\ Tables
  BY DEF RunInit, ShownOK, Tables, Ended
<1>4. ASSUME NEW p \in Callers PROVE ServiceOK(p)
  <2>1. /\ stage[p] = "idle" /\ todo[p] = << >> /\ wrote[p] = {}
        /\ names[p] = {} /\ left[p] = {} /\ missed[p] = {}
    BY DEF RunInit
  <2>2. << >> \in Seq(Requests)
    OBVIOUS
  <2> QED
    BY <2>1, <2>2 DEF ServiceOK, Ended, Calling, Rereading
<1> QED
  BY <1>2, <1>3, <1>4 DEF RunInv

LEMMA StepsKeepCalls ==
    ASSUME CallInv, RunInv, NEW ps \in SUBSET Callers,
           (\E p \in ps : Serve(p) \/ RunStep(p)) \/ Background
    PROVE  CallInv' /\ RunInv'
<1>1. CallInv'
  BY WhatStepsDo, GuardedIsNext, NextCallInv, OutsideReadKeeps
<1>2. RunInv'
  BY StepsKeepRun DEF CallInv
<1> QED
  BY <1>1, <1>2

\* Whatever calls and re-reads fail, a service's bookkeeping stays in order: a re-read
\* always has something left to read, all of it among what it is to publish, and a
\* service is under way exactly as long as it has a call left.
THEOREM RunTypes == RunSpec => [](TypeOK /\ RunTypeOK)
<1>1. RunInit => CallInv /\ RunInv
  BY InitRun
<1>2. CallInv /\ RunInv /\ [RunNext]_allVars => (CallInv /\ RunInv)'
  <2> SUFFICES ASSUME CallInv, RunInv, [RunNext]_allVars PROVE CallInv' /\ RunInv'
    OBVIOUS
  <2>1. CASE RunNext
    BY <2>1, StepsKeepCalls DEF RunNext
  <2>2. CASE UNCHANGED allVars
    <3>1. UNCHANGED vars /\ UNCHANGED coordinatorVars /\ UNCHANGED runVars
      BY <2>2 DEF allVars
    <3> QED
      BY <3>1, NextCallInv, UnchangedRun, UnchangedShown DEF RunInv
  <2> QED
    BY <2>1, <2>2
<1>3. CallInv /\ RunInv => TypeOK /\ RunTypeOK
  BY RunInvIs DEF CallInv
<1> QED
  BY <1>1, <1>2, <1>3, PTL DEF RunSpec

(***************************************************************************)
(* What the calls of services know: the invariants of BatteryControl's     *)
(* calls, which a read outside the lock does not disturb.                  *)
(***************************************************************************)
LEMMA OutsideReadCalls ==
    ASSUME CallInv, CallsInv, PassedInv, NEW ps \in SUBSET Callers, OutsideRead(ps)
    PROVE  CallsInv' /\ PassedInv'
<1> USE DEF inverterVars, lockVars, callVars
<1>1. PICK k \in Components :
        /\ cache' = [f \in Fields |-> IF Component(f) = k THEN Answer(wire)[f] ELSE cache[f]]
        /\ refreshed' = refreshed \cup {k}
  BY DEF OutsideRead
<1>2. wire' = wire
  BY DEF OutsideRead
<1>3. \A f \in Fields : cache[f] = Answer(wire)[f] => cache'[f] = Answer(wire')[f]
  BY <1>1, <1>2
<1>4. RequestInv'
  BY OutsideReadKeeps DEF CallInv
<1>5. CASE UNCHANGED <<lockVars, callVars>>
  <2>1. OneCallAtATime' /\ PlansInv' /\ PassedInv'
    BY <1>5 DEF CallsInv, OneCallAtATime, PlansInv, PassedInv
  <2>2. ReadExactlyInv'
    BY <1>3, <1>5 DEF CallsInv, ReadExactlyInv
  <2>3. MarkedInv'
    BY <1>1, <1>5 DEF CallsInv, MarkedInv
  <2> QED
    BY <1>4, <2>1, <2>2, <2>3 DEF CallsInv
<1>6. ASSUME NEW p \in ps, NEW r \in Requests, MakeCall(p, r) PROVE CallsInv' /\ PassedInv'
  <2>1. /\ p \in Processes /\ pc[p] \in Resting
        /\ pc' = [pc EXCEPT ![p] = "waiting"] /\ request' = [request EXCEPT ![p] = r]
        /\ UNCHANGED <<plan, next, written, toRead, failed, lock>>
    BY <1>6 DEF MakeCall, Enqueue, Processes
  <2>2. /\ pc'[p] = "waiting"
        /\ \A q \in Processes \ {p} : pc'[q] = pc[q] /\ request'[q] = request[q]
    BY <2>1 DEF CallInv, TypeOK, CallTypeOK
  <2>3. \A q \in Processes : pc'[q] \in Holding => q # p
    BY <2>2 DEF Holding, Reading
  <2>4. OneCallAtATime'
    BY <2>1, <2>2 DEF CallsInv, OneCallAtATime, Holding, Reading, Resting, Outcomes, Errors
  <2>5. PlansInv' /\ PassedInv'
    BY <2>1, <2>2 DEF CallsInv, PlansInv, PassedInv
  <2>6. ReadExactlyInv'
    BY <1>3, <2>1, <2>2 DEF CallsInv, ReadExactlyInv
  <2>7. MarkedInv'
    BY <1>1, <2>1, <2>2 DEF CallsInv, MarkedInv
  <2> QED
    BY <1>4, <2>4, <2>5, <2>6, <2>7 DEF CallsInv
<1> QED
  BY <1>5, <1>6 DEF OutsideRead

\* A service is at a call exactly while one of its is under way, and that one is the
\* first it has left.
Linked(p) ==
    /\ stage[p] \in Calling <=> pc[p] \notin Resting
    /\ stage[p] \in Calling => request[p] = Head(todo[p])

LinkedInv == \A p \in Callers : Linked(p)

\* A step of process p's call leaves the others' alone, and the request until the end.
Solo(p) ==
    \A q \in Processes \ {p} :
        pc'[q] = pc[q] /\ request'[q] = request[q] /\ written'[q] = written[q]

LEMMA EndSolo ==
    ASSUME TypeOK, NEW p \in Processes, NEW outcome \in Resting, End(p, outcome)
    PROVE  Solo(p) /\ pc'[p] = outcome /\ written'[p] = {}
BY DEF End, Return, Solo, TypeOK, CallTypeOK

LEMMA ProceedSolo ==
    ASSUME TypeOK, NEW p \in Processes, Proceed(p)
    PROVE  /\ Solo(p) /\ pc[p] \notin Resting
           /\ \/ pc'[p] \in Outcomes
              \/ pc'[p] \notin Resting /\ request'[p] = request[p]
<1> USE DEF lockVars, callVars, Solo
<1>1. CASE Acquire(p)
  <2>1. FirstPlace(p) \notin Resting
    BY DEF FirstPlace, Resting, Outcomes, Errors
  <2> QED
    BY <1>1, <2>1 DEF Acquire, TypeOK, CallTypeOK, Resting, Outcomes, Errors
<1>2. CASE ReadAnswered(p) \/ ReadFailed(p)
  BY <1>2 DEF ReadAnswered, ReadFailed, Reading, Resting, Outcomes, Errors
<1>3. CASE WriteAnswered(p)
  <2>1. PICK i \in DOMAIN plan[p] :
          IsNext(p, i) /\ written' = [written EXCEPT ![p] = @ \cup {plan[p][i].field}]
    BY <1>3 DEF WriteAnswered
  <2> QED
    BY <1>3, <2>1 DEF WriteAnswered, IsNext, TypeOK, CallTypeOK, Resting, Outcomes, Errors
<1>4. CASE MakePlan(p) \/ StartReadBack(p)
  BY <1>4 DEF MakePlan, Freshened, StartReadBack, TypeOK, CallTypeOK, Resting, Outcomes, Errors
<1>5. CASE EndsCall(p)
  <2>1. pc[p] \notin Resting
    BY <1>5, EndersHold DEF EndsCall, Resting, Outcomes, Errors, Holding, Reading
  <2>2. \E outcome \in Outcomes : End(p, outcome)
    BY <1>5 DEF EndsCall, FreshenRaised, ReadBackRaised, RefusePower, WriteRejected, WriteUnanswered,
                WriteFailed, EndUnread, Verify, Mismatch, Command, Fail, Outcomes, Errors
  <2> QED
    BY <2>1, <2>2, EndSolo DEF Resting
<1> QED
  BY <1>1, <1>2, <1>3, <1>4, <1>5 DEF Proceed, EndsCall

LEMMA MakeCallSolo ==
    ASSUME TypeOK, NEW p \in Callers, NEW r, MakeCall(p, r)
    PROVE  Solo(p) /\ pc'[p] = "waiting" /\ request'[p] = r
BY DEF MakeCall, Solo, TypeOK, CallTypeOK, Processes

\* A call of p that ends leaves its service at another place than a call.
LEMMA ContinueLeaves ==
    ASSUME RunInv, NEW p \in Callers, NEW outcome, Continue(p, outcome)
    PROVE  stage'[p] \notin Calling /\ OthersStay(p)
<1>1. Tables
  BY DEF RunInv
<1>2. ASSUME NEW result \in {"verified", "done", "failed"}, Finish(p, result)
      PROVE  stage'[p] \notin Calling /\ OthersStay(p)
  BY <1>1, <1>2 DEF Finish, EndRunOf, Tables, OthersStay, Calling
<1>3. ASSUME NEW ks, NEW why \in Rereading, Reread(p, ks, why)
      PROVE  stage'[p] \notin Calling /\ OthersStay(p)
  BY <1>1, <1>3 DEF Reread, StartReread, Tables, OthersStay, Calling, Rereading
<1> QED
  BY <1>2, <1>3 DEF Continue, Returned, RaisedReport, RaisedBare, Rereading

\* A step of a re-read leaves the service at the re-read, at its end, or makes the call
\* again.
LEMMA AdvanceLeaves ==
    ASSUME RunInv, NEW p \in Callers, stage[p] \in Rereading, NEW k, NEW bad, Advance(p, k, bad)
    PROVE  /\ OthersStay(p)
           /\ \/ stage'[p] \notin Calling /\ UNCHANGED <<lockVars, callVars>>
              \/ stage'[p] = "again" /\ todo' = todo /\ MakeCall(p, Head(todo[p]))
<1>1. Tables
  BY DEF RunInv
<1>2. CASE EndRun(p) /\ UNCHANGED <<lockVars, callVars>>
  BY <1>1, <1>2 DEF EndRun, Finish, EndRunOf, Tables, OthersStay, Calling
<1>3. CASE PlanAgain(p)
  BY <1>1, <1>3 DEF PlanAgain, CallAgain, Tables, OthersStay
<1>4. CASE /\ left' = [left EXCEPT ![p] = @ \ {k}] /\ missed' = [missed EXCEPT ![p] = bad]
           /\ UNCHANGED <<lockVars, callVars, stage, todo, wrote, names>>
  BY <1>1, <1>4 DEF Tables, OthersStay, Calling, Rereading
<1> QED
  BY <1>2, <1>3, <1>4 DEF Advance

LEMMA RaisedLeaves ==
    ASSUME RunInv, NEW p \in Callers, RereadRaised(p)
    PROVE  OthersStay(p) /\ stage'[p] \notin Calling /\ UNCHANGED vars
BY DEF RunInv, RereadRaised, EndRun, Finish, EndRunOf, Tables, OthersStay, Calling

LEMMA BackgroundSolo ==
    ASSUME TypeOK, Background
    PROVE  Solo(Poller) /\ UNCHANGED runVars
<1> USE DEF lockVars, callVars
<1>1. Poller \in Processes
  BY DEF Processes
<1>2. CASE SkipPoll \/ Environment
  BY <1>2 DEF SkipPoll, Environment, PollRunningState, GraceEnds, vars, Solo
<1>3. CASE StartPoll \/ StartDump
  BY <1>3 DEF StartPoll, StartDump, Poll, Solo, TypeOK, CallTypeOK
<1>4. CASE PollStep
  BY <1>1, <1>4, ProceedSolo DEF PollStep
<1>5. CASE PollReports \/ PollFails \/ DumpEnds
  BY <1>1, <1>5, EndSolo DEF PollReports, PollFails, DumpEnds, PollEnds, Resting
<1> QED
  BY <1>2, <1>3, <1>4, <1>5 DEF Background

LEMMA LinkedStays ==
    ASSUME LinkedInv, NEW q \in Callers, pc'[q] = pc[q], request'[q] = request[q],
           stage'[q] = stage[q], todo'[q] = todo[q]
    PROVE  Linked(q)'
BY DEF LinkedInv, Linked

LEMMA StepsKeepLinked ==
    ASSUME TypeOK, RunInv, LinkedInv, (\E p \in Callers : Serve(p) \/ RunStep(p)) \/ Background
    PROVE  LinkedInv'
<1> USE DEF callVars
<1>0. Callers \subseteq Processes /\ Poller \notin Callers /\ "waiting" \notin Resting
  BY ProcessAssumption DEF Processes, Resting, Outcomes, Errors
<1>1. ASSUME NEW p \in Callers, Solo(p) \/ UNCHANGED callVars, OthersStay(p), Linked(p)'
      PROVE  LinkedInv'
  BY <1>0, <1>1, LinkedStays DEF LinkedInv, Solo, OthersStay
<1>2. ASSUME NEW p \in Callers, Serve(p) PROVE LinkedInv'
  <2>1. PICK s \in Services : todo' = [todo EXCEPT ![p] = s] /\ MakeCall(p, Head(s))
    BY <1>2 DEF Serve
  <2>2. /\ stage'[p] = "first" /\ todo'[p] = s /\ OthersStay(p)
    BY <1>2, <2>1 DEF Serve, RunInv, Tables, OthersStay
  <2>3. Solo(p) /\ pc'[p] = "waiting" /\ request'[p] = Head(s)
    BY <2>1, MakeCallSolo
  <2> QED
    BY <1>0, <1>1, <2>2, <2>3 DEF Linked, Calling
<1>3. ASSUME NEW p \in Callers, ServeOn(p) PROVE LinkedInv'
  <2>1. MakeCall(p, Head(todo[p])) /\ todo' = todo
    BY <1>3 DEF ServeOn
  <2>2. /\ stage'[p] = "first" /\ OthersStay(p)
    BY <1>3, <2>1 DEF ServeOn, RunInv, Tables, OthersStay
  <2>3. Solo(p) /\ pc'[p] = "waiting" /\ request'[p] = Head(todo[p])
    BY <2>1, MakeCallSolo
  <2> QED
    BY <1>0, <1>1, <2>1, <2>2, <2>3 DEF Linked, Calling
<1>4. ASSUME NEW p \in Callers, CallStep(p) PROVE LinkedInv'
  <2>1. /\ Solo(p)
        /\ pc'[p] \in Outcomes \/ (pc'[p] \notin Resting /\ request'[p] = request[p])
    BY <1>0, <1>4, ProceedSolo DEF CallStep
  <2>2. CASE pc'[p] \in Outcomes
    <3>1. stage'[p] \notin Calling /\ OthersStay(p)
      BY <1>4, <2>2, ContinueLeaves DEF CallStep
    <3> QED
      BY <1>1, <2>1, <2>2, <3>1 DEF Linked, Resting
  <2>3. CASE pc'[p] \notin Outcomes
    <3>1. UNCHANGED <<stage, todo, wrote, names, left, missed>>
      BY <1>4, <2>3 DEF CallStep, runVars
    <3> QED
      BY <1>1, <1>4, <2>1, <2>3, <3>1 DEF CallStep, Linked, LinkedInv, OthersStay
  <2> QED
    BY <2>2, <2>3
<1>5. ASSUME NEW p \in Callers, RereadAnswered(p) \/ RereadFailed(p) PROVE LinkedInv'
  <2>1. stage[p] \in Rereading /\ \E bad : Advance(p, First(left[p]), bad)
    BY <1>5 DEF RereadAnswered, RereadFailed
  <2>2. /\ OthersStay(p)
        /\ \/ stage'[p] \notin Calling /\ UNCHANGED callVars
           \/ stage'[p] = "again" /\ todo' = todo /\ MakeCall(p, Head(todo[p]))
    BY <2>1, AdvanceLeaves
  <2>3. pc[p] \in Resting
    BY <2>1 DEF LinkedInv, Linked, Calling, Rereading
  <2>4. CASE stage'[p] \notin Calling /\ UNCHANGED callVars
    BY <1>1, <2>2, <2>3, <2>4 DEF Linked
  <2>5. CASE stage'[p] = "again" /\ todo' = todo /\ MakeCall(p, Head(todo[p]))
    <3>1. Solo(p) /\ pc'[p] = "waiting" /\ request'[p] = Head(todo[p])
      BY <2>5, MakeCallSolo
    <3> QED
      BY <1>0, <1>1, <2>2, <2>5, <3>1 DEF Linked, Calling
  <2> QED
    BY <2>2, <2>4, <2>5
<1>6. ASSUME NEW p \in Callers, RereadRaised(p) PROVE LinkedInv'
  <2>1. OthersStay(p) /\ stage'[p] \notin Calling /\ UNCHANGED callVars
    BY <1>6, RaisedLeaves DEF vars
  <2>2. pc[p] \in Resting
    BY <1>6 DEF RereadRaised, LinkedInv, Linked, Calling, Rereading
  <2> QED
    BY <1>1, <2>1, <2>2 DEF Linked
<1>7. CASE Background
  <2>1. Solo(Poller) /\ UNCHANGED <<stage, todo>>
    BY <1>7, BackgroundSolo DEF runVars
  <2> QED
    BY <1>0, <2>1, LinkedStays DEF LinkedInv, Solo
<1> QED
  BY <1>2, <1>3, <1>4, <1>5, <1>6, <1>7 DEF RunStep

\* All a service knows of its calls.
KnownInv == CallInv /\ RunInv /\ CallsInv /\ PassedInv /\ LinkedInv

LEMMA InitKnown == RunInit => KnownInv
<1> SUFFICES ASSUME RunInit PROVE KnownInv
  OBVIOUS
<1>1. Init /\ CallInv /\ RunInv
  BY InitRun DEF RunInit
<1>2. CallsInv /\ PassedInv
  BY <1>1, InitCalls
<1>3. LinkedInv
  <2> SUFFICES ASSUME NEW p \in Callers PROVE Linked(p)
    BY DEF LinkedInv
  <2>1. stage[p] = "idle" /\ pc[p] = "idle"
    BY <1>1 DEF RunInit, Init, Processes
  <2> QED
    BY <2>1 DEF Linked, Calling, Resting
<1> QED
  BY <1>1, <1>2, <1>3 DEF KnownInv

LEMMA NextKnown == KnownInv /\ [RunNext]_allVars => KnownInv'
<1> SUFFICES ASSUME KnownInv, [RunNext]_allVars PROVE KnownInv'
  OBVIOUS
<1>1. CASE RunNext
  <2>1. CallInv' /\ RunInv' /\ LinkedInv'
    BY <1>1, StepsKeepCalls, StepsKeepLinked DEF RunNext, KnownInv, CallInv
  <2>2. CASE GuardedStep(Callers)
    <3>1. [Next]_vars
      BY <2>2, GuardedIsNext
    <3> QED
      BY <2>1, <3>1, NextCalls, NextPassed DEF KnownInv, CallInv
  <2>3. CASE OutsideRead(Callers)
    BY <2>1, <2>3, OutsideReadCalls DEF KnownInv
  <2> QED
    BY <1>1, <2>2, <2>3, WhatStepsDo DEF RunNext, KnownInv
<1>2. CASE UNCHANGED allVars
  <2>1. UNCHANGED vars /\ UNCHANGED coordinatorVars /\ UNCHANGED runVars
    BY <1>2 DEF allVars
  <2>2. CallInv' /\ CallsInv' /\ PassedInv'
    BY <2>1, NextCallInv, NextCalls, NextPassed DEF KnownInv, CallInv
  <2>3. RunInv'
    BY <2>1, UnchangedRun, UnchangedShown DEF KnownInv, RunInv
  <2>4. LinkedInv'
    BY <2>1 DEF KnownInv, LinkedInv, Linked, vars, callVars, runVars
  <2> QED
    BY <2>2, <2>3, <2>4 DEF KnownInv
<1> QED
  BY <1>1, <1>2

(***************************************************************************)
(* What is shown is true.  A cached value may differ from the register for *)
(* as long as it takes to read it again or to take it from the display:    *)
(* the write that made it stale belongs to a call under way, or to a       *)
(* re-read that has yet to read its component or failed to.  Everything    *)
(* else that is shown, or will be shown without another read, is honest.   *)
(***************************************************************************)
\* The cache has what the inverter would answer.
Honest(f) == cache[f] = Answer(wire)[f]

\* The components whose report the coordinator has.
Listed == IF shown = None THEN {} ELSE shown

\* A field whose cached value need not be true: written and not read since.
Suspect(p, f) ==
    \/ stage[p] \in Calling /\ f \in written[p]
    \/ stage[p] \in Rereading /\ Component(f) \in left[p] \cup missed[p]

\* The components that are shown, or may come back without another read: a second
\* attempt relies on what the re-read before it read, and on the marks of what it needs.
Trusted(p) ==
    Listed \cup (IF stage[p] \in Rereading THEN names[p] ELSE {})
           \cup (IF stage[p] = "again" THEN wrote[p] ELSE {})
           \cup (IF stage[p] \in {"again", "retrying"} THEN Needed(Head(todo[p])) \cap refreshed
                                                       ELSE {})

TrustInv ==
    \A p \in Callers, f \in Fields : Component(f) \in Trusted(p) => Honest(f) \/ Suspect(p, f)

\* A first attempt has no earlier writes, and a re-read covers those it follows.
AttemptInv ==
    \A p \in Callers :
        /\ stage[p] \in Ended \cup {"next", "first"} => wrote[p] = {}
        /\ stage[p] \in Rereading => wrote[p] \subseteq names[p]

\* What the poll has read is honest when it reports: nobody writes meanwhile.
PolledInv ==
    pc[Poller] = "polling" =>
        \A f \in Fields : Component(f) \notin toRead[Poller] \cup failed[Poller] => Honest(f)

\* Only a write makes a cached value stale, and only a read marks a component.
LEMMA CacheMoves ==
    ASSUME NEW ps \in SUBSET Callers, GuardedStep(ps) \/ OutsideRead(ps), NEW f \in Fields
    PROVE  /\ wire'[f] = wire[f] /\ Honest(f) => Honest(f)'
           /\ Component(f) \in refreshed' /\ Component(f) \notin refreshed => Honest(f)'
<1> USE DEF inverterVars, cacheVars
<1>1. ASSUME NEW k, wire' = wire, refreshed' = refreshed \cup {k},
             cache' = [g \in Fields |-> IF Component(g) = k THEN Answer(wire)[g] ELSE cache[g]]
      PROVE  /\ Honest(f) => Honest(f)'
             /\ Component(f) \in refreshed' /\ Component(f) \notin refreshed => Honest(f)'
  BY <1>1 DEF Honest, Answer
<1>2. ASSUME cache' = cache, refreshed' \subseteq refreshed
      PROVE  /\ wire'[f] = wire[f] /\ Honest(f) => Honest(f)'
             /\ ~(Component(f) \in refreshed' /\ Component(f) \notin refreshed)
  BY <1>2 DEF Honest, Answer
<1>3. CASE OutsideRead(ps)
  BY <1>1, <1>3 DEF OutsideRead
<1>4. ASSUME NEW p, ReadAnswered(p)
      PROVE  /\ Honest(f) => Honest(f)'
             /\ Component(f) \in refreshed' /\ Component(f) \notin refreshed => Honest(f)'
  BY <1>1, <1>4 DEF ReadAnswered
<1>5. ASSUME NEW p, Fail(p, "unavailable") \/ Fail(p, "rejected") \/ Fail(p, "uncertain")
                    \/ Fail(p, "mismatch")
      PROVE  refreshed' \subseteq refreshed
  BY <1>5 DEF Fail, Invalidate
<1>6. ASSUME NEW p, Proceed(p), ~ReadAnswered(p)
      PROVE  cache' = cache /\ refreshed' \subseteq refreshed
  BY <1>5, <1>6 DEF Proceed, Acquire, ReadFailed, FreshenRaised, ReadBackRaised, MakePlan, RefusePower,
       WriteAnswered, WriteRejected, WriteUnanswered, WriteFailed, StartReadBack, EndUnread,
       Verify, Mismatch, Command
<1>7. CASE GuardedStep(ps)
  <2>1. ASSUME ~\E p \in ps \cup {Poller} : Proceed(p)
        PROVE  cache' = cache /\ refreshed' \subseteq refreshed
    BY <1>7, <2>1 DEF GuardedStep, Poll, PollEnds, PollRunningState, GraceEnds, vars
  <2> QED
    BY <1>2, <1>4, <1>6, <2>1
<1> QED
  BY <1>3, <1>7

\* A register changes only when the call of a caller writes.
LEMMA WhoWrites ==
    ASSUME WritersInv, NEW p \in Processes, Proceed(p), wire' # wire
    PROVE  /\ pc[p] = "writing"
           /\ WriteAnswered(p) \/ WriteRejected(p) \/ WriteUnanswered(p)
<1> USE DEF inverterVars
<1>1. WriteAnswered(p) \/ WriteRejected(p) \/ WriteUnanswered(p)
  BY DEF Proceed, Acquire, ReadAnswered, ReadFailed, FreshenRaised, ReadBackRaised, MakePlan,
         RefusePower, StartReadBack, EndUnread, Verify, Mismatch, Command
<1> QED
  BY <1>1 DEF WriteAnswered, WriteRejected, WriteUnanswered, WriteFailed, IsNext

LEMMA PollerNeverWrites ==
    ASSUME WritersInv, Proceed(Poller)
    PROVE  wire' = wire
BY WhoWrites DEF WritersInv, InCall, Processes

LEMMA NextPolled ==
    TypeOK /\ OneCallAtATime /\ WritersInv /\ PolledInv /\ GuardedStep(Callers) => PolledInv'
<1> SUFFICES ASSUME TypeOK, OneCallAtATime, WritersInv, PolledInv, GuardedStep(Callers),
                    pc'[Poller] = "polling", NEW f \in Fields,
                    Component(f) \notin toRead'[Poller] \cup failed'[Poller]
             PROVE  Honest(f)'
  BY DEF PolledInv
<1> USE DEF callVars, inverterVars, cacheVars, lockVars
<1>0. Poller \in Processes /\ Poller \notin Callers /\ Callers \subseteq Processes
  BY ProcessAssumption DEF Processes
<1>1. ASSUME pc[Poller] = "polling", wire' = wire,
             toRead'[Poller] \cup failed'[Poller] = toRead[Poller] \cup failed[Poller]
      PROVE  Honest(f)'
  BY <1>1, CacheMoves DEF PolledInv
<1>2. ASSUME NEW p \in Callers, Proceed(p) PROVE Honest(f)'
  <2>1. pc'[Poller] = pc[Poller]
    BY <1>0, <1>2, ProceedSolo DEF Solo
  <2>2. toRead'[Poller] = toRead[Poller] /\ failed'[Poller] = failed[Poller]
    BY <1>0, <1>2 DEF Proceed, Acquire, ReadAnswered, ReadFailed, FreshenRaised, ReadBackRaised,
         MakePlan, RefusePower, WriteAnswered, WriteRejected, WriteUnanswered, WriteFailed,
         StartReadBack, EndUnread, Verify, Mismatch, Command, Fail, End, Return, TypeOK, CallTypeOK
  <2>3. pc[p] # "writing"
    BY <1>0, <2>1, OneInside DEF Holding, Reading
  <2>4. wire' = wire
    BY <1>0, <1>2, <2>3, WhoWrites
  <2> QED
    BY <1>1, <2>1, <2>2, <2>4
<1>3. ASSUME NEW p \in Callers, NEW r \in Requests, MakeCall(p, r), UNCHANGED <<inverterVars, cacheVars>>
      PROVE  Honest(f)'
  <2>1. pc'[Poller] = pc[Poller] /\ UNCHANGED <<toRead, failed>>
    BY <1>0, <1>3 DEF MakeCall, TypeOK, CallTypeOK
  <2> QED
    BY <1>1, <1>3, <2>1
<1>4. CASE Proceed(Poller)
  <2>1. wire' = wire
    BY <1>4, PollerNeverWrites
  <2>2. CASE Acquire(Poller)
    <3>1. toRead'[Poller] = Components
      BY <1>0, <2>2 DEF Acquire, FirstReads, TypeOK, CallTypeOK
    <3> QED
      BY <3>1, ComponentsAre
  <2>3. CASE ReadAnswered(Poller)
    <3>1. PICK k \in toRead[Poller] :
            /\ cache' = [g \in Fields |-> IF Component(g) = k THEN Answer(wire)[g] ELSE cache[g]]
            /\ toRead' = [toRead EXCEPT ![Poller] = @ \ {k}]
      BY <2>3 DEF ReadAnswered
    <3>2. toRead'[Poller] = toRead[Poller] \ {k} /\ failed' = failed /\ pc' = pc
      BY <1>0, <2>3, <3>1 DEF ReadAnswered, TypeOK, CallTypeOK
    <3> QED
      BY <2>1, <3>1, <3>2 DEF PolledInv, Honest, Answer
  <2>4. CASE ReadFailed(Poller)
    <3>1. toRead'[Poller] \cup failed'[Poller] = toRead[Poller] \cup failed[Poller]
      BY <1>0, <2>4 DEF ReadFailed, TypeOK, CallTypeOK
    <3> QED
      BY <1>1, <2>1, <2>4, <3>1 DEF ReadFailed
  <2>5. CASE MakePlan(Poller) \/ WriteAnswered(Poller) \/ StartReadBack(Poller)
    BY <1>0, <2>5 DEF MakePlan, Freshened, WriteAnswered, IsNext, StartReadBack, WritersInv, InCall
  <2>6. CASE EndsCall(Poller)
    BY <1>0, <2>6, EnderEmpties DEF Holding, Reading
  <2> QED
    BY <1>4, <2>2, <2>3, <2>4, <2>5, <2>6 DEF Proceed, EndsCall
<1>5. CASE Poll \/ PollEnds
  BY <1>0, <1>5, PollEndEmpties DEF Poll, TypeOK, CallTypeOK, Holding, Reading
<1>6. CASE PollRunningState \/ GraceEnds \/ UNCHANGED vars
  BY <1>1, <1>6 DEF PollRunningState, GraceEnds, vars
<1> QED
  BY <1>2, <1>3, <1>4, <1>5, <1>6 DEF GuardedStep

LEMMA OutsideReadPolled ==
    TypeOK /\ PolledInv /\ OutsideRead(Callers) => PolledInv'
<1> SUFFICES ASSUME TypeOK, PolledInv, OutsideRead(Callers) PROVE PolledInv'
  OBVIOUS
<1>1. wire' = wire
  BY DEF OutsideRead, inverterVars
<1>2. UNCHANGED <<toRead, failed>> /\ pc'[Poller] = pc[Poller]
  BY ProcessAssumption DEF OutsideRead, MakeCall, callVars, TypeOK, CallTypeOK, Processes
<1> QED
  BY <1>1, <1>2, CacheMoves DEF PolledInv

\* An attempt's writes are of the components its re-read reads.
LEMMA WroteIsTouched ==
    ASSUME TypeOK, PassedInv, NEW p \in Callers
    PROVE  Wrote(p) \subseteq Touches(p)
<1> SUFFICES ASSUME NEW f \in written[p] PROVE Component(f) \in Touches(p)
  BY DEF Wrote
<1>1. p \in Processes /\ next[p] \in Nat \ {0} /\ DOMAIN plan[p] = 1..Len(plan[p])
  BY DEF TypeOK, CallTypeOK, IsPlan, Processes
<1>2. PICK i \in DOMAIN plan[p] : i < next[p] /\ plan[p][i].field = f
  BY <1>1 DEF PassedInv
<1>3. \A j \in ToWrite(p) : i <= j
  BY <1>1, <1>2 DEF ToWrite
<1>4. i \in Reached(p)
  BY <1>2, <1>3 DEF Reached
<1> QED
  BY <1>2, <1>4 DEF Touches

LEMMA TouchesAre ==
    ASSUME NEW p
    PROVE  /\ Touches(p) \subseteq Touched(plan[p])
           /\ pc[p] # "writing" \/ ToWrite(p) = {} => Touches(p) = Touched(plan[p])
BY DEF Touches, Touched, Reached

\* A plan has a step in every component its request is compared against.
LEMMA NeededIsTouched ==
    ASSUME NEW r, NEW view
    PROVE  Needed(r) \subseteq Touched(Plan(r, view))
<1> DEFINE steps == Plan(r, view)
<1>1. ASSUME NEW i \in DOMAIN steps PROVE Component(steps[i].field) \in Touched(steps)
  BY <1>1 DEF Touched
<1>2. ASSUME NEW i \in DOMAIN steps, NEW j \in DOMAIN steps,
             steps[i].field \in Limits, steps[j].field = "ems_mode"
      PROVE  Needed(r) \subseteq Touched(steps)
  <2>1. Component(steps[i].field) = "battery_limits" /\ Component(steps[j].field) = "settings"
    BY <1>2 DEF Component, Limits
  <2> QED
    BY <1>1, <2>1 DEF Needed, Components
<1>3. CASE r.what \in ForcedModes
  <2>1. steps = ForcePlan(CommandOf(r.what), r.power, view)
    BY <1>3, PlanOf
  <2>2. /\ 1 \in DOMAIN steps /\ steps[1].field \in Limits
        /\ \E j \in DOMAIN steps : steps[j].field = "ems_mode"
    BY <2>1, ForcePlanShape DEF FullCharge, Exactly, EnterForced, Limits
  <2> QED
    BY <1>2, <2>2
<1>4. CASE r.what = "self_consumption"
  <2>1. steps = SelfPlan(view)
    BY <1>4, PlanOf
  <2>2. \/ 2 \in DOMAIN steps /\ 1 \in DOMAIN steps /\ steps[1] = LeaveForced /\ steps[2] = FullCharge
        \/ 1 \in DOMAIN steps /\ 3 \in DOMAIN steps /\ steps[1] = FullCharge /\ steps[3] = LeaveForced
    BY <2>1, SelfPlanShape
  <2> QED
    BY <1>2, <2>2 DEF FullCharge, Exactly, LeaveForced, Limits
<1>5. CASE r.what \in FencedModes
  <2> HIDE DEF steps
  <2>1. \/ \E f, g \in Limits : steps = StopOnly(f, g)
        \/ steps = StopBoth
    BY <1>5, PlanOf DEF FencedModes, Limits, steps
  <2>2. DOMAIN steps = 1..3 /\ steps[1].field \in Limits /\ steps[3] = LeaveForced
    <3>1. ASSUME NEW f \in Limits, NEW g \in Limits, steps = StopOnly(f, g)
          PROVE  DOMAIN steps = 1..3 /\ steps[1].field \in Limits /\ steps[3] = LeaveForced
      <4>1. DOMAIN steps = 1..3 /\ steps[1] = Exactly(g, Full) /\ steps[3] = LeaveForced
        BY <3>1, StopOnlyShape
      <4>2. Exactly(g, Full).field = g
        BY DEF Exactly
      <4> QED
        BY <4>1, <4>2
    <3>2. CASE steps = StopBoth
      BY <3>2, StopBothShape DEF FenceOff, Limits
    <3> QED
      BY <2>1, <3>1, <3>2
  <2>3. 1 \in DOMAIN steps /\ 3 \in DOMAIN steps /\ steps[3].field = "ems_mode"
    BY <2>2 DEF Exactly, LeaveForced
  <2> QED
    BY <1>2, <2>2, <2>3 DEF steps
<1>6. CASE r.what \in PvRequests
  <2>1. steps = <<Exactly("pv_power_limitation", r.what = "pv_limit")>>
    BY <1>6, PlanOf DEF PvPlan
  <2>2. 1 \in DOMAIN steps /\ Component(steps[1].field) = "settings"
    BY <2>1 DEF Exactly, Component, Limits
  <2>3. Needed(r) \subseteq {"settings"}
    BY <1>6 DEF Needed, PvRequests, DesiredModes, ForcedModes, FencedModes, Components
  <2> QED
    BY <1>1, <2>2, <2>3
<1> QED
  BY <1>3, <1>4, <1>5, <1>6 DEF Needed, DesiredModes

\* What a call that writes or reads back works on is what its request needs.
LEMMA PlanTouches ==
    ASSUME TypeOK, CallsInv, NEW p \in Callers, pc[p] \in {"writing", "readback"}
    PROVE  Touched(plan[p]) = Needed(request[p])
<1>1. p \in Processes /\ IsPlan(plan[p])
  BY DEF TypeOK, CallTypeOK, Processes
<1>2. PICK view : plan[p] = Plan(request[p], view)
  BY <1>1 DEF CallsInv, PlansInv
<1>3. request[p] \in Requests /\ request[p].what \notin PowerButtons
  BY <1>1 DEF CallsInv, RequestInv, InCall
<1>4. Touched(plan[p]) \subseteq Needed(request[p])
  BY <1>1, <1>2, <1>3, PlanIsNeeded DEF Touched, IsPlan, IsStep
<1> QED
  BY <1>2, <1>4, NeededIsTouched

LEMMA FinishAttempt ==
    ASSUME RunInv, NEW p \in Callers, NEW result \in {"verified", "done", "failed"}, Finish(p, result)
    PROVE  /\ OthersStay(p)
           /\ stage'[p] \in {result, "next"} /\ wrote'[p] = {}
           /\ result = "failed" => stage'[p] = "failed" /\ todo'[p] = << >>
           /\ todo'[p] \in {<< >>, Tail(todo[p])}
BY DEF RunInv, Tables, Finish, EndRunOf, OthersStay

LEMMA RereadAttempt ==
    ASSUME RunInv, NEW p \in Callers, NEW ks, NEW why, Reread(p, ks, why)
    PROVE  /\ OthersStay(p)
           /\ stage'[p] = why /\ wrote'[p] = Wrote(p) /\ names'[p] = ks
           /\ left'[p] = ks /\ missed'[p] = {} /\ todo'[p] = todo[p]
           /\ UNCHANGED coordinatorVars
BY DEF RunInv, Tables, Reread, StartReread, OthersStay, coordinatorVars

LEMMA AgainAttempt ==
    ASSUME RunInv, NEW p \in Callers, PlanAgain(p)
    PROVE  OthersStay(p) /\ stage'[p] = "again" /\ wrote'[p] = wrote[p] /\ todo'[p] = todo[p]
BY DEF RunInv, Tables, PlanAgain, CallAgain, OthersStay

LEMMA StepsKeepAttempt ==
    ASSUME TypeOK, PassedInv, RunInv, AttemptInv,
           (\E p \in Callers : Serve(p) \/ RunStep(p)) \/ Background
    PROVE  AttemptInv'
<1> DEFINE Attempt(p) ==
        /\ stage[p] \in Ended \cup {"next", "first"} => wrote[p] = {}
        /\ stage[p] \in Rereading => wrote[p] \subseteq names[p]
<1>0. Tables
  BY DEF RunInv
<1>1. ASSUME NEW p \in Callers, OthersStay(p), Attempt(p)' PROVE AttemptInv'
  BY <1>1 DEF AttemptInv, OthersStay
<1>2. ASSUME NEW p \in Callers, NEW result \in {"verified", "done", "failed"}, Finish(p, result)
      PROVE  AttemptInv'
  BY <1>1, <1>2, FinishAttempt DEF Rereading
<1>3. ASSUME NEW p \in Callers, NEW ks, Wrote(p) \subseteq ks, NEW why \in Rereading, Reread(p, ks, why)
      PROVE  AttemptInv'
  BY <1>1, <1>3, RereadAttempt DEF Rereading, Ended
<1>4. ASSUME NEW p \in Callers, Serve(p) \/ ServeOn(p) PROVE AttemptInv'
  <2>1. stage'[p] = "first" /\ wrote'[p] = wrote[p] /\ OthersStay(p)
    BY <1>0, <1>4 DEF Serve, ServeOn, Tables, OthersStay
  <2>2. wrote[p] = {}
    BY <1>4 DEF Serve, ServeOn, AttemptInv
  <2> QED
    BY <1>1, <2>1, <2>2 DEF Rereading
<1>5. ASSUME NEW p \in Callers, CallStep(p) PROVE AttemptInv'
  <2>1. CASE UNCHANGED <<coordinatorVars, runVars>>
    BY <2>1 DEF AttemptInv, runVars
  <2>2. CASE Continue(p, pc'[p])
    <3>1. Wrote(p) \subseteq Touches(p)
      BY WroteIsTouched
    <3>2. \/ \E result \in {"verified", "done", "failed"} : Finish(p, result)
          \/ Reread(p, wrote[p] \cup Touches(p), "returning")
          \/ Reread(p, Touches(p), "failing") \/ Reread(p, Touches(p), "retrying")
      <4>1. CASE Returned(p, pc'[p])
        BY <4>1 DEF Returned
      <4>2. CASE RaisedReport(p, pc'[p])
        BY <4>2 DEF RaisedReport
      <4>3. CASE RaisedBare(p, pc'[p])
        BY <4>3 DEF RaisedBare
      <4> QED
        BY <2>2, <4>1, <4>2, <4>3 DEF Continue
    <3> QED
      BY <1>2, <1>3, <3>1, <3>2 DEF Rereading
  <2> QED
    BY <1>5, <2>1, <2>2 DEF CallStep
<1>6. ASSUME NEW p \in Callers, NEW k, NEW bad, stage[p] \in Rereading, Advance(p, k, bad)
      PROVE  AttemptInv'
  <2>1. CASE PlanAgain(p)
    BY <1>1, <2>1, AgainAttempt DEF Ended, Rereading
  <2>2. CASE EndRun(p)
    BY <1>2, <2>2 DEF EndRun
  <2>3. CASE UNCHANGED <<stage, wrote, names>>
    BY <2>3 DEF AttemptInv
  <2> QED
    BY <1>6, <2>1, <2>2, <2>3 DEF Advance
<1>7. ASSUME NEW p \in Callers, RereadRaised(p) PROVE AttemptInv'
  BY <1>2, <1>7 DEF RereadRaised, EndRun
<1>8. CASE Background
  BY <1>8, BackgroundSolo DEF AttemptInv, runVars
<1> QED
  BY <1>4, <1>5, <1>6, <1>7, <1>8 DEF RunStep, RereadAnswered, RereadFailed

\* What one service trusts.
TrustOf(p) == \A f \in Fields : Component(f) \in Trusted(p) => Honest(f) \/ Suspect(p, f)

LEMMA FinishTrust ==
    ASSUME RunInv, NEW p \in Callers, NEW result \in {"verified", "done", "failed"}, Finish(p, result),
           \A f \in Fields : Component(f) \in Listed' => Honest(f)'
    PROVE  TrustOf(p)'
BY FinishAttempt DEF TrustOf, Trusted, Rereading

LEMMA RereadTrust ==
    ASSUME RunInv, NEW p \in Callers, NEW ks, NEW why \in Rereading, Reread(p, ks, why),
           \A f \in Fields : Component(f) \in Listed /\ Component(f) \notin ks => Honest(f)',
           why = "retrying" => Needed(Head(todo[p])) \cap refreshed' = {}
    PROVE  TrustOf(p)'
<1>1. /\ stage'[p] = why /\ wrote'[p] = Wrote(p) /\ names'[p] = ks
      /\ left'[p] = ks /\ todo'[p] = todo[p] /\ Listed' = Listed
  BY RereadAttempt DEF Listed, coordinatorVars
<1>2. \A k : k \in Trusted(p)' => k \in Listed \cup ks
  BY <1>1 DEF Trusted, Rereading
<1>3. \A f \in Fields : Component(f) \in ks => Suspect(p, f)'
  BY <1>1 DEF Suspect
<1> QED
  BY <1>2, <1>3 DEF TrustOf

\* What the coordinator has after it was told.
LEMMA ListedThen ==
    ASSUME NEW ks
    PROVE  /\ ApplySnapshot(ks) => Listed' \subseteq Listed \cup ks
           /\ MarkFailed(ks) => Listed' \subseteq Listed \ ks
           /\ \A p \in Callers : PublishReread(p, ks) => Listed' \subseteq (Listed \cup names[p]) \ ks
           /\ UNCHANGED coordinatorVars => Listed' = Listed
BY DEF ApplySnapshot, MarkFailed, PublishReread, Available, Listed, coordinatorVars

\* How a call ends: with a report, with an error while its plan runs, or before it has one.
LEMMA EndsHow ==
    ASSUME TypeOK, NEW p \in Processes, Proceed(p), pc'[p] \in Outcomes
    PROVE  \/ Verify(p) /\ pc'[p] = "verified"
           \/ EndUnread(p) /\ pc'[p] = IF written[p] = {} THEN "unchanged" ELSE "unverified"
           \/ Command(p) /\ pc'[p] \in {"unverified", "rejected", "uncertain"}
           \/ Mismatch(p) /\ pc'[p] = "mismatch"
           \/ ReadBackRaised(p) /\ pc'[p] = "unavailable"
           \/ WriteRejected(p) /\ pc'[p] = "rejected"
           \/ WriteUnanswered(p) /\ pc'[p] = "uncertain"
           \/ FreshenRaised(p) /\ pc'[p] = "unavailable"
           \/ RefusePower(p) /\ pc'[p] = "out_of_range"
<1> USE DEF lockVars, callVars
<1>1. DOMAIN pc = Processes
  BY DEF TypeOK, CallTypeOK
<1>2. ~(\/ Acquire(p) \/ ReadAnswered(p) \/ ReadFailed(p) \/ MakePlan(p) \/ WriteAnswered(p)
        \/ StartReadBack(p))
  <2>1. FirstPlace(p) \notin Outcomes
    BY DEF FirstPlace, Outcomes, Errors
  <2>2. ~(Acquire(p) \/ MakePlan(p) \/ StartReadBack(p))
    BY <1>1, <2>1 DEF Acquire, MakePlan, StartReadBack, Outcomes, Errors
  <2>3. ~(ReadAnswered(p) \/ ReadFailed(p) \/ WriteAnswered(p))
    BY <1>1 DEF ReadAnswered, ReadFailed, WriteAnswered, IsNext, Reading, Outcomes, Errors
  <2> QED
    BY <2>2, <2>3
<1>3. ASSUME NEW outcome, End(p, outcome) PROVE pc'[p] = outcome
  BY <1>1, <1>3 DEF End, Return
<1>4. Command(p) => pc'[p] \in {"unverified", "rejected", "uncertain"}
  BY <1>3 DEF Command
<1>5. /\ Verify(p) => pc'[p] = "verified"
      /\ EndUnread(p) => pc'[p] = IF written[p] = {} THEN "unchanged" ELSE "unverified"
      /\ Mismatch(p) => pc'[p] = "mismatch"
      /\ ReadBackRaised(p) => pc'[p] = "unavailable"
      /\ WriteRejected(p) => pc'[p] = "rejected"
      /\ WriteUnanswered(p) => pc'[p] = "uncertain"
      /\ FreshenRaised(p) => pc'[p] = "unavailable"
      /\ RefusePower(p) => pc'[p] = "out_of_range"
  BY <1>3 DEF Verify, EndUnread, Mismatch, ReadBackRaised, WriteRejected, WriteUnanswered, WriteFailed,
              FreshenRaised, RefusePower, Fail
<1> QED
  BY <1>2, <1>4, <1>5 DEF Proceed

\* A read-back that is complete has read everything the call wrote or skipped.
LEMMA ReadBackIsHonest ==
    ASSUME CallsInv, NEW p \in Callers, ReadBack(p), NEW f \in Fields,
           Component(f) \in Touched(plan[p])
    PROVE  Honest(f)
BY DEF CallsInv, ReadExactlyInv, ReadBack, Honest, Processes

\* While a call is under way only what it wrote may differ from what is shown.
LEMMA UnwrittenIsHonest ==
    ASSUME NEW p \in Callers, TrustOf(p), stage[p] \in Calling, NEW f \in Fields,
           Component(f) \in Trusted(p), f \notin written[p]
    PROVE  Honest(f)
BY DEF TrustOf, Suspect, Calling, Rereading

LEMMA EnderOutcome ==
    ASSUME TypeOK, NEW p \in Processes, EndsCall(p)
    PROVE  pc'[p] \in Outcomes
<1>1. \E outcome \in Outcomes : End(p, outcome)
  BY DEF EndsCall, FreshenRaised, ReadBackRaised, RefusePower, WriteRejected, WriteUnanswered,
         WriteFailed, EndUnread, Verify, Mismatch, Command, Fail, Outcomes, Errors
<1> QED
  BY <1>1, EndSolo DEF Resting

LEMMA GoingOnTrust ==
    ASSUME TypeOK, WritersInv, NEW p \in Callers, TrustOf(p), stage[p] \in Calling, Proceed(p),
           pc'[p] \notin Outcomes, UNCHANGED <<coordinatorVars, runVars>>
    PROVE  TrustOf(p)'
<1> USE DEF inverterVars, lockVars, callVars
<1>1. p \in Processes /\ GuardedStep(Callers)
  BY DEF Processes, GuardedStep
<1>2. \A k : k \in Trusted(p)' => k \in Trusted(p) \/ (k \in refreshed' /\ k \notin refreshed)
  BY DEF Trusted, Listed, coordinatorVars, runVars
<1>3. stage'[p] \in Calling
  BY DEF runVars
<1>4. ~EndsCall(p)
  BY <1>1, EnderOutcome
<1>5. \A f \in Fields : f \in written[p] \/ wire'[f] # wire[f] => f \in written'[p]
  <2>1. CASE WriteAnswered(p)
    <3>1. PICK i \in DOMAIN plan[p] :
            /\ Land(plan[p][i]) \/ UNCHANGED wire
            /\ written' = [written EXCEPT ![p] = @ \cup {plan[p][i].field}]
      BY <2>1 DEF WriteAnswered
    <3> QED
      BY <1>1, <3>1 DEF Land, TypeOK, CallTypeOK, InverterTypeOK
  <2>2. CASE ~WriteAnswered(p)
    <3>1. UNCHANGED <<wire, written>>
      BY <1>4, <2>2 DEF EndsCall, Proceed, Acquire, ReadAnswered, ReadFailed, MakePlan, StartReadBack
    <3> QED
      BY <3>1
  <2> QED
    BY <2>1, <2>2
<1> SUFFICES ASSUME NEW f \in Fields, Component(f) \in Trusted(p)', f \notin written'[p]
             PROVE  Honest(f)'
  BY <1>3 DEF TrustOf, Suspect
<1>6. f \notin written[p] /\ wire'[f] = wire[f]
  BY <1>5
<1>7. CASE Component(f) \in Trusted(p)
  BY <1>1, <1>6, <1>7, UnwrittenIsHonest, CacheMoves
<1> QED
  BY <1>1, <1>2, <1>7, CacheMoves

\* The call returns a report: what it published it has read, or never wrote.
LEMMA ReturnedTrust ==
    ASSUME TypeOK, CallsInv, WritersInv, PassedInv, RunInv, AttemptInv, LinkedInv,
           NEW p \in Callers, TrustOf(p), stage[p] \in Calling, Proceed(p), Returned(p, pc'[p])
    PROVE  TrustOf(p)'
<1> USE DEF inverterVars, cacheVars
<1>1. p \in Processes /\ pc'[p] \in Successes /\ pc'[p] \in Outcomes
  BY DEF Processes, Returned, Successes, Outcomes
<1>2. Verify(p) \/ EndUnread(p) \/ Command(p)
  BY <1>1, EndsHow DEF Successes
<1>3. UNCHANGED <<wire, cache>>
  BY <1>2 DEF Verify, EndUnread, Command
<1>4. \A f \in Fields : Honest(f) => Honest(f)'
  BY <1>3 DEF Honest, Answer
<1>5. \A f \in Fields : Component(f) \in Listed /\ f \notin written[p] => Honest(f)
  BY UnwrittenIsHonest DEF Trusted
<1>6. Wrote(p) \subseteq Touches(p)
  BY WroteIsTouched
<1>7. \A f \in Fields : f \in written[p] => Component(f) \in Wrote(p)
  BY DEF Wrote
<1> DEFINE touched   == wrote[p] \cup Touches(p)
           confirmed == pc'[p] = "verified" \/ (stage[p] = "again" /\ pc'[p] = "unchanged")
<1>8. CASE /\ wrote[p] \cup Wrote(p) = {}
           /\ UNCHANGED coordinatorVars
           /\ \E result \in {"verified", "done"} : Finish(p, result)
  <2>1. \A f \in Fields : Component(f) \in Listed' => Honest(f)'
    BY <1>4, <1>5, <1>7, <1>8, ListedThen
  <2> QED
    BY <1>8, <2>1, FinishTrust
<1>9. CASE confirmed /\ ApplySnapshot(touched) /\ Finish(p, "verified")
  <2>1. \A f \in Fields : Component(f) \in Listed \cup wrote[p] /\ f \notin written[p] => Honest(f)
    <3>1. wrote[p] # {} => stage[p] = "again"
      BY DEF AttemptInv, Calling
    <3> QED
      BY <3>1, UnwrittenIsHonest DEF Trusted
  <2>2. \A f \in Fields : Component(f) \in Listed \cup touched => Honest(f)
    <3>1. CASE pc'[p] = "verified"
      <4>1. Verify(p)
        BY <1>1, <3>1, EndsHow
      <4>2. ReadBack(p) /\ Touches(p) = Touched(plan[p])
        BY <4>1, TouchesAre DEF Verify, ReadBack
      <4> QED
        BY <1>6, <1>7, <2>1, <4>2, ReadBackIsHonest
    <3>2. CASE stage[p] = "again" /\ pc'[p] = "unchanged"
      <4>1. EndUnread(p) /\ written[p] = {}
        BY <1>1, <3>2, EndsHow
      <4>2. pc[p] = "writing" /\ Needed(request[p]) \subseteq refreshed
        BY <1>1, <4>1 DEF EndUnread, CallsInv, MarkedInv
      <4>3. request[p] = Head(todo[p])
        BY DEF LinkedInv, Linked
      <4>4. Touches(p) \subseteq Trusted(p)
        BY <3>2, <4>2, <4>3, PlanTouches, TouchesAre DEF Trusted
      <4> QED
        BY <2>1, <4>1, <4>4, UnwrittenIsHonest
    <3> QED
      BY <1>9, <3>1, <3>2
  <2>3. \A f \in Fields : Component(f) \in Listed' => Honest(f)'
    BY <1>4, <1>9, <2>2, ListedThen
  <2> QED
    BY <1>9, <2>3, FinishTrust
<1>10. CASE Reread(p, touched, "returning")
  <2>1. \A f \in Fields : Component(f) \in Listed /\ Component(f) \notin touched => Honest(f)'
    BY <1>4, <1>5, <1>6, <1>7
  <2> QED
    BY <1>10, <2>1, RereadTrust DEF Rereading
<1> QED
  BY <1>8, <1>9, <1>10 DEF Returned

\* The call raises: what its plan came to is read again, or it wrote nothing.
LEMMA RaisedTrust ==
    ASSUME TypeOK, CallsInv, WritersInv, PassedInv, RunInv, LinkedInv,
           NEW p \in Callers, TrustOf(p), stage[p] \in Calling, Proceed(p),
           pc'[p] \in Outcomes, pc[p] \in {"writing", "readback"}, RaisedReport(p, pc'[p])
    PROVE  TrustOf(p)'
<1> USE DEF inverterVars, cacheVars
<1>1. p \in Processes /\ Wrote(p) \subseteq Touches(p)
  BY WroteIsTouched DEF Processes
<1>2. \A f \in Fields : Component(f) \in Listed /\ Component(f) \notin Touches(p) => Honest(f)
  BY <1>1, UnwrittenIsHonest DEF Trusted, Wrote
<1>3. CASE pc'[p] = "mismatch" /\ ApplySnapshot(Touches(p)) /\ Finish(p, "failed")
  <2>1. Mismatch(p)
    BY <1>1, <1>3, EndsHow
  <2>2. UNCHANGED <<wire, cache>> /\ ReadBack(p)
    BY <2>1 DEF Mismatch
  <2>3. \A f \in Fields : Component(f) \in Touches(p) => Honest(f)
    BY <2>2, TouchesAre, ReadBackIsHonest
  <2>4. \A f \in Fields : Component(f) \in Listed' => Honest(f)'
    BY <1>2, <1>3, <2>2, <2>3, ListedThen DEF Honest, Answer
  <2> QED
    BY <1>3, <2>4, FinishTrust
<1>4. CASE /\ pc'[p] \in {"rejected", "uncertain", "unavailable"}
           /\ \/ Reread(p, Touches(p), "failing")
              \/ Reread(p, Touches(p), "retrying")
  <2>1. WriteRejected(p) \/ WriteUnanswered(p) \/ ReadBackRaised(p)
    BY <1>1, <1>4, EndsHow DEF Command, FreshenRaised
  <2>2. \A f \in Fields : Component(f) \notin Touches(p) => wire'[f] = wire[f]
    <3>1. CASE wire' = wire
      BY <3>1
    <3>2. CASE wire' # wire
      <4>1. PICK i \in DOMAIN plan[p] : IsNext(p, i) /\ Land(plan[p][i])
        BY <2>1, <3>2 DEF WriteRejected, WriteUnanswered, WriteFailed, ReadBackRaised
      <4>2. i \in Reached(p)
        BY <4>1 DEF IsNext, Reached
      <4>3. Component(plan[p][i].field) \in Touches(p)
        BY <4>2 DEF Touches
      <4> QED
        BY <4>1, <4>3 DEF Land, TypeOK, InverterTypeOK
    <3> QED
      BY <3>1, <3>2
  <2>3. cache' = cache /\ refreshed' = refreshed \ Touched(plan[p])
    BY <2>1 DEF WriteRejected, WriteUnanswered, WriteFailed, ReadBackRaised, Fail, Invalidate
  <2>4. \A f \in Fields : Component(f) \in Listed /\ Component(f) \notin Touches(p) => Honest(f)'
    BY <1>2, <2>2, <2>3 DEF Honest, Answer
  <2>5. Needed(Head(todo[p])) \cap refreshed' = {}
    BY <2>3, PlanTouches DEF LinkedInv, Linked
  <2>6. CASE Reread(p, Touches(p), "failing")
    BY <2>4, <2>5, <2>6, RereadTrust DEF Rereading
  <2>7. CASE Reread(p, Touches(p), "retrying")
    BY <2>4, <2>5, <2>7, RereadTrust DEF Rereading
  <2> QED
    BY <1>4, <2>6, <2>7
<1> QED
  BY <1>3, <1>4 DEF RaisedReport

LEMMA BareTrust ==
    ASSUME TypeOK, WritersInv, RunInv, NEW p \in Callers, TrustOf(p), stage[p] \in Calling, Proceed(p),
           pc'[p] \in Outcomes, pc[p] \in {"freshen", "commanding"}, RaisedBare(p, pc'[p])
    PROVE  TrustOf(p)'
<1> USE DEF inverterVars, cacheVars
<1>1. p \in Processes
  BY DEF Processes
<1>2. written[p] = {} /\ wire' = wire
  BY <1>1, WhoWrites DEF WritersInv
<1>3. cache' = cache
  BY <1>1, EndsHow DEF Verify, EndUnread, Command, Mismatch, ReadBackRaised, WriteRejected,
     WriteUnanswered, WriteFailed, FreshenRaised, RefusePower
<1>4. Finish(p, "failed") /\ Listed' = Listed
  BY ListedThen DEF RaisedBare
<1>5. \A f \in Fields : Component(f) \in Listed' => Honest(f)'
  BY <1>2, <1>3, <1>4, UnwrittenIsHonest DEF Trusted, Honest, Answer
<1> QED
  BY <1>4, <1>5, FinishTrust

\* A step of a re-read: what it read is honest, what it failed to read is not shown.
LEMMA AdvanceTrust ==
    ASSUME RunInv, AttemptInv, NEW p \in Callers, TrustOf(p), stage[p] \in Rereading,
           NEW k, k \in left[p], NEW bad, missed[p] \subseteq bad,
           Advance(p, k, bad), wire' = wire,
           \A f \in Fields : Honest(f) => Honest(f)',
           \A f \in Fields : Component(f) = k => Component(f) \in bad \/ Honest(f)',
           \A f \in Fields : Component(f) \in refreshed' => Component(f) \in refreshed \/ Honest(f)'
    PROVE  TrustOf(p)'
<1>0. Tables
  BY DEF RunInv
<1>1. \A f \in Fields : Component(f) \in Trusted(p) =>
        Honest(f)' \/ Component(f) \in (left[p] \ {k}) \cup bad
  BY DEF TrustOf, Suspect, Calling, Rereading
<1>2. CASE /\ left' = [left EXCEPT ![p] = @ \ {k}]
           /\ missed' = [missed EXCEPT ![p] = bad]
           /\ UNCHANGED <<coordinatorVars, stage, todo, wrote, names>>
  <2>1. left'[p] = left[p] \ {k} /\ missed'[p] = bad
    BY <1>0, <1>2 DEF Tables
  <2>2. \A j : j \in Trusted(p)' => j \in Trusted(p) \/ (j \in refreshed' /\ j \notin refreshed)
    BY <1>2 DEF Trusted, Listed, coordinatorVars
  <2>3. \A f \in Fields : Component(f) \in left'[p] \cup missed'[p] => Suspect(p, f)'
    BY <1>2 DEF Suspect
  <2> QED
    BY <1>1, <2>1, <2>2, <2>3 DEF TrustOf
<1>3. CASE /\ left[p] = {k}
           /\ PublishReread(p, bad)
           /\ EndRun(p) \/ (bad = {} /\ stage[p] = "retrying" /\ PlanAgain(p))
  <2>1. Listed' \subseteq (Listed \cup names[p]) \ bad
    BY <1>3, ListedThen
  <2>2. \A f \in Fields : Component(f) \in Listed' => Honest(f)'
    BY <1>1, <1>3, <2>1 DEF Trusted
  <2>3. CASE EndRun(p)
    BY <2>2, <2>3, FinishTrust DEF EndRun
  <2>4. CASE bad = {} /\ PlanAgain(p) /\ stage[p] = "retrying"
    <3>1. stage'[p] = "again" /\ wrote'[p] = wrote[p] /\ todo'[p] = todo[p]
      BY <2>4, AgainAttempt
    <3>2. wrote[p] \subseteq names[p]
      BY DEF AttemptInv
    <3>3. \A j : j \in Trusted(p)' =>
            j \in Listed' \/ j \in Trusted(p) \/ (j \in refreshed' /\ j \notin refreshed)
      BY <2>4, <3>1, <3>2 DEF Trusted, Rereading
    <3> QED
      BY <1>1, <1>3, <2>2, <2>4, <3>3 DEF TrustOf
  <2> QED
    BY <1>3, <2>3, <2>4
<1> QED
  BY <1>2, <1>3 DEF Advance

LEMMA BackgroundTrust ==
    ASSUME TypeOK, WritersInv, PolledInv, Background, NEW p \in Callers, TrustOf(p)
    PROVE  TrustOf(p)'
<1> USE DEF inverterVars, vars
<1>1. UNCHANGED runVars /\ written'[p] = written[p]
  BY BackgroundSolo, ProcessAssumption DEF Solo, Processes
<1>2. wire' = wire /\ GuardedStep(Callers)
  BY PollerNeverWrites DEF Background, SkipPoll, StartPoll, StartDump, Poll, PollStep, PollReports,
     PollFails, DumpEnds, PollEnds, Environment, PollRunningState, GraceEnds, GuardedStep
<1>3. \A f \in Fields : Suspect(p, f)' <=> Suspect(p, f)
  BY <1>1 DEF Suspect, runVars
<1>4. \A f \in Fields : Component(f) \in Listed' => Component(f) \in Listed \/ Honest(f)'
  <2>1. CASE PollReports
    <3>1. \A f \in Fields : Component(f) \in Answered => Honest(f)
      BY <2>1 DEF PollReports, PollEnds, PolledInv, Answered
    <3> QED
      BY <1>2, <2>1, <3>1, CacheMoves DEF PollReports, Listed
  <2>2. CASE shown' = shown
    BY <2>2 DEF Listed
  <2> QED
    BY <2>1, <2>2 DEF Background, SkipPoll, StartPoll, StartDump, PollStep, PollFails, DumpEnds,
       Environment, coordinatorVars
<1>5. \A f \in Fields : Component(f) \in Trusted(p)' => Component(f) \in Trusted(p) \/ Honest(f)'
  BY <1>1, <1>2, <1>4, CacheMoves DEF Trusted, runVars
<1> QED
  BY <1>2, <1>3, <1>5, CacheMoves DEF TrustOf

LEMMA StepKeepsTrust ==
    ASSUME KnownInv, PolledInv, AttemptInv, NEW p \in Callers, TrustOf(p),
           Serve(p) \/ RunStep(p) \/ Background
    PROVE  TrustOf(p)'
<1> USE DEF inverterVars, cacheVars, vars
<1>0. /\ TypeOK /\ CallsInv /\ WritersInv /\ PassedInv /\ RunInv /\ LinkedInv
      /\ Tables /\ ServiceOK(p)
  BY DEF KnownInv, CallInv, RunInv
<1>1. CASE Serve(p) \/ ServeOn(p)
  <2>1. stage[p] \in Ended \cup {"next"} /\ stage'[p] = "first" /\ Listed' = Listed
    BY <1>0, <1>1, ListedThen DEF Serve, ServeOn, Tables
  <2>2. UNCHANGED <<wire, cache>>
    BY <1>1 DEF Serve, ServeOn
  <2>3. \A f \in Fields : Component(f) \in Listed => Honest(f)
    BY <2>1 DEF TrustOf, Trusted, Suspect, Calling, Rereading, Ended
  <2>4. Trusted(p)' = Listed
    BY <2>1 DEF Trusted, Rereading
  <2> QED
    BY <2>2, <2>3, <2>4 DEF TrustOf, Honest, Answer
<1>2. CASE CallStep(p)
  <2>1. stage[p] \in Calling /\ Proceed(p)
    BY <1>2 DEF CallStep
  <2>2. CASE pc'[p] \notin Outcomes
    BY <1>0, <1>2, <2>1, <2>2, GoingOnTrust DEF CallStep
  <2>3. CASE pc'[p] \in Outcomes
    BY <1>0, <1>2, <2>1, <2>3, ReturnedTrust, RaisedTrust, BareTrust DEF CallStep, Continue
  <2> QED
    BY <2>2, <2>3
<1>3. ASSUME stage[p] \in Rereading, NEW k, k = First(left[p]), wire' = wire,
             NEW bad, bad = missed[p] \/ bad = missed[p] \cup {k}, Advance(p, k, bad),
             \A f \in Fields : Honest(f) => Honest(f)',
             \A f \in Fields : Component(f) = k => Component(f) \in bad \/ Honest(f)',
             \A f \in Fields : Component(f) \in refreshed' => Component(f) \in refreshed \/ Honest(f)'
      PROVE  TrustOf(p)'
  <2>1. k \in left[p]
    BY <1>0, <1>3, FirstIsIn DEF ServiceOK
  <2> QED
    BY <1>0, <1>3, <2>1, AdvanceTrust
<1>4. CASE RereadAnswered(p)
  <2> DEFINE k == First(left[p])
  <2>1. /\ wire' = wire /\ refreshed' = refreshed \cup {k}
        /\ cache' = [f \in Fields |-> IF Component(f) = k THEN Answer(wire)[f] ELSE cache[f]]
        /\ stage[p] \in Rereading /\ Advance(p, k, missed[p])
    BY <1>4 DEF RereadAnswered
  <2> HIDE DEF k
  <2>2. \A f \in Fields : (Component(f) = k => Honest(f)') /\ (Honest(f) => Honest(f)')
    BY <2>1 DEF Honest, Answer
  <2>3. \A f \in Fields : Component(f) \in refreshed' => Component(f) \in refreshed \/ Honest(f)'
    BY <2>1, <2>2
  <2> QED
    BY <1>3, <2>1, <2>2, <2>3 DEF k
<1>5. CASE RereadFailed(p)
  <2> DEFINE k == First(left[p])
  <2>1. /\ UNCHANGED <<wire, cache, refreshed>>
        /\ stage[p] \in Rereading /\ Advance(p, k, missed[p] \cup {k})
    BY <1>5 DEF RereadFailed
  <2>2. \A f \in Fields : Honest(f) => Honest(f)'
    BY <2>1 DEF Honest, Answer
  <2> QED
    BY <1>3, <2>1, <2>2
<1>6. CASE RereadRaised(p)
  <2>1. /\ UNCHANGED <<wire, cache>> /\ stage[p] \in Rereading
        /\ MarkFailed(names[p]) /\ EndRun(p)
    BY <1>6 DEF RereadRaised
  <2>2. left[p] \cup missed[p] \subseteq names[p]
    BY <1>0 DEF ServiceOK
  <2>3. \A f \in Fields : Component(f) \in Listed' => Honest(f)
    BY <2>1, <2>2, ListedThen DEF TrustOf, Trusted, Suspect, Calling, Rereading
  <2>4. \A f \in Fields : Component(f) \in Listed' => Honest(f)'
    BY <2>1, <2>3 DEF Honest, Answer
  <2> QED
    BY <1>0, <2>1, <2>4, FinishTrust DEF EndRun
<1>7. CASE Background
  BY <1>0, <1>7, BackgroundTrust
<1> QED
  BY <1>1, <1>2, <1>4, <1>5, <1>6, <1>7 DEF RunStep

\* All that is known of services, when there is one at a time.
ServedInv == KnownInv /\ PolledInv /\ AttemptInv /\ TrustInv

LEMMA InitServed == RunInit => ServedInv
<1> SUFFICES ASSUME RunInit PROVE ServedInv
  OBVIOUS
<1>1. KnownInv
  BY InitKnown
<1>2. PolledInv
  BY DEF RunInit, Init, PolledInv, Processes
<1>3. AttemptInv /\ TrustInv
  BY DEF RunInit, AttemptInv, TrustInv, Trusted, Listed, Rereading
<1> QED
  BY <1>1, <1>2, <1>3 DEF ServedInv

LEMMA NextServed ==
    ASSUME NEW c, Callers = {c}
    PROVE  ServedInv /\ [RunNext]_allVars => ServedInv'
<1> SUFFICES ASSUME ServedInv, [RunNext]_allVars PROVE ServedInv'
  OBVIOUS
<1>0. KnownInv' /\ KnownInv /\ RunInv /\ TypeOK /\ WritersInv /\ PassedInv /\ OneCallAtATime
  BY NextKnown DEF ServedInv, KnownInv, CallInv, CallsInv
<1>1. CASE RunNext
  <2>1. AttemptInv'
    BY <1>0, <1>1, StepsKeepAttempt DEF RunNext, ServedInv
  <2>2. PolledInv'
    BY <1>0, <1>1, WhatStepsDo, NextPolled, OutsideReadPolled DEF RunNext, ServedInv
  <2>3. TrustOf(c) /\ (Serve(c) \/ RunStep(c) \/ Background)
    BY <1>1 DEF RunNext, ServedInv, TrustInv, TrustOf
  <2>4. TrustOf(c)'
    BY <1>0, <2>3, StepKeepsTrust DEF ServedInv
  <2> QED
    BY <1>0, <2>1, <2>2, <2>4 DEF ServedInv, TrustInv, TrustOf
<1>2. CASE UNCHANGED allVars
  BY <1>0, <1>2 DEF allVars, vars, inverterVars, cacheVars, callVars, coordinatorVars, runVars, ServedInv,
     PolledInv, AttemptInv, TrustInv, Trusted, Suspect, Listed, Honest, Answer
<1> QED
  BY <1>1, <1>2

\* RunSpec => []ShownIsTrue for one caller next to the settings poll: whatever calls,
\* read-backs, re-reads and polls fail, and whatever the inverter ignores, an entity that
\* is available between two services shows what its register holds.
THEOREM ShownTrue ==
    ASSUME NEW c, Callers = {c}
    PROVE  RunSpec => []ShownIsTrue
<1>1. RunInit => ServedInv
  BY InitServed
<1>2. ServedInv /\ [RunNext]_allVars => ServedInv'
  BY NextServed
<1>3. ServedInv => ShownIsTrue
  <2> SUFFICES ASSUME ServedInv, \A p \in Callers : stage[p] \in Ended, NEW f \in Fields,
                      Component(f) \in Available
               PROVE  cache[f] = Answer(wire)[f]
    BY DEF ShownIsTrue
  <2>1. Component(f) \in Trusted(c)
    BY DEF Trusted, Available, Listed
  <2>2. ~Suspect(c, f)
    BY DEF Suspect, Ended, Calling, Rereading
  <2> QED
    BY <2>1, <2>2 DEF ServedInv, TrustInv, Honest
<1> QED
  BY <1>1, <1>2, <1>3, PTL DEF RunSpec

(***************************************************************************)
(* A run reported as verified.                                             *)
(***************************************************************************)
\* A read outside the lock brings the cache closer to the registers.
LEMMA OutsideReadFresh ==
    ASSUME TypeOK, ReadBackInv, FreshMatchesWire, OutsideRead(Callers)
    PROVE  ReadBackInv' /\ FreshMatchesWire'
<1> USE DEF inverterVars, lockVars, callVars
<1>1. wire' = wire /\ UNCHANGED <<written, toRead, failed, lock>>
  BY DEF OutsideRead, MakeCall, Enqueue
<1>2. \A q \in Processes : pc'[q] = "readback" => pc[q] = "readback"
  BY DEF OutsideRead, MakeCall, TypeOK, CallTypeOK
<1>3. \A q \in Processes : written[q] \subseteq Fields
  BY DEF TypeOK, CallTypeOK
<1>4. \A f \in Fields : /\ cache[f] = Answer(wire)[f] => cache'[f] = Answer(wire')[f]
                        /\ Component(f) \in refreshed' /\ Component(f) \notin refreshed
                           => cache'[f] = Answer(wire')[f]
  BY <1>1, CacheMoves DEF Honest
<1>5. ReadBackInv'
  BY <1>1, <1>2, <1>3, <1>4 DEF ReadBackInv
<1>6. FreshMatchesWire'
  BY <1>1, <1>4 DEF FreshMatchesWire
<1> QED
  BY <1>5, <1>6

LEMMA NextRunFresh ==
    ASSUME \A r \in Requests : r.verify
    PROVE  KnownInv /\ ReadBackInv /\ FreshMatchesWire /\ [RunNext]_allVars
           => ReadBackInv' /\ FreshMatchesWire'
<1> SUFFICES ASSUME KnownInv, ReadBackInv, FreshMatchesWire, [RunNext]_allVars
             PROVE  ReadBackInv' /\ FreshMatchesWire'
  OBVIOUS
<1>1. /\ TypeOK /\ RequestInv /\ OneCallAtATime /\ WritersInv /\ RunInv /\ HoldersHold
  BY DEF KnownInv, CallInv, CallsInv, OneCallAtATime, HoldersHold
<1>2. [Next]_vars \/ OutsideRead(Callers)
  BY <1>1, WhatStepsDo, GuardedIsNext DEF RunNext, allVars
<1>3. CASE [Next]_vars
  BY <1>1, <1>3, NextReadBack, NextFresh DEF CoherenceInv
<1> QED
  BY <1>1, <1>2, <1>3, OutsideReadFresh

\* A service that ends as verified does so with its call: a call that was read back, or
\* a second attempt that found nothing to write.
LEMMA VerifiedHow ==
    ASSUME KnownInv, RunNext, NEW p \in Callers, stage[p] \in Calling \cup Rereading,
           stage'[p] = "verified"
    PROVE  \/ Verify(p)
           \/ stage[p] = "again" /\ EndUnread(p) /\ written[p] = {}
<1>0. /\ TypeOK /\ RunInv /\ Tables /\ p \in Processes
      /\ "verified" \notin Calling \cup Rereading
  BY DEF KnownInv, CallInv, RunInv, Processes, Calling, Rereading
<1>1. ASSUME NEW q \in Callers, OthersStay(q) PROVE q = p
  BY <1>0, <1>1 DEF OthersStay
<1>2. ASSUME NEW q \in Callers, CallStep(q) PROVE q = p /\ pc'[p] \in Outcomes
  BY <1>0, <1>1, <1>2, ContinueLeaves DEF CallStep, runVars
<1>3. CASE CallStep(p)
  <2>1. pc'[p] \in Outcomes /\ Proceed(p) /\ Continue(p, pc'[p])
    BY <1>2, <1>3 DEF CallStep
  <2>2. \A result \in {"done", "failed"} : ~Finish(p, result)
    BY <1>0, FinishAttempt
  <2>3. \A ks, why : Reread(p, ks, why) => why = "verified"
    BY <1>0, RereadAttempt
  <2>4. Returned(p, pc'[p])
    BY <2>1, <2>2, <2>3 DEF Continue, RaisedReport, RaisedBare
  <2>5. pc'[p] = "verified" \/ (stage[p] = "again" /\ pc'[p] = "unchanged")
    BY <2>2, <2>3, <2>4 DEF Returned
  <2> QED
    BY <1>0, <2>1, <2>5, EndsHow
<1>4. ASSUME NEW q \in Callers PROVE ~(RereadAnswered(q) \/ RereadFailed(q) \/ RereadRaised(q))
  <2>1. ASSUME stage[q] \in Rereading, \E k, bad : Advance(q, k, bad) PROVE FALSE
    <3>1. q = p
      BY <1>0, <1>1, <2>1, AdvanceLeaves
    <3>2. ~EndRun(p)
      BY <1>0, FinishAttempt DEF EndRun
    <3>3. ~PlanAgain(p)
      BY <1>0, AgainAttempt
    <3> QED
      BY <1>0, <2>1, <3>1, <3>2, <3>3 DEF Advance
  <2>2. ~RereadRaised(q)
    <3>1. RereadRaised(q) => q = p
      BY <1>0, <1>1, RaisedLeaves
    <3>2. ~EndRun(p)
      BY <1>0, FinishAttempt DEF EndRun
    <3> QED
      BY <3>1, <3>2 DEF RereadRaised
  <2> QED
    BY <2>1, <2>2 DEF RereadAnswered, RereadFailed
<1>5. ASSUME NEW q \in Callers PROVE ~(Serve(q) \/ ServeOn(q))
  BY <1>0 DEF Serve, ServeOn, Tables, Calling, Rereading
<1>6. ~Background
  BY <1>0, BackgroundSolo DEF runVars
<1> QED
  BY <1>2, <1>3, <1>4, <1>5, <1>6 DEF RunNext, RunStep

\* What services know of the registers: with calls that are all read back, by the marks;
\* with one service at a time, by what is trusted.
RightInv ==
    /\ KnownInv
    /\ (\A r \in Requests : r.verify) => ReadBackInv /\ FreshMatchesWire
    /\ (\E c : Callers = {c}) => ServedInv

\* RunSpec => VerifiedRunIsInForce, whatever the calls, re-reads and second attempts meet,
\* where every register is served and a restored limit is not a fenced one: for any number
\* of services when every call is read back, and for one at a time in any case.
THEOREM VerifiedRunRight ==
    ASSUME Fence < Full, Unserved = {}, (\A r \in Requests : r.verify) \/ (\E c : Callers = {c})
    PROVE  RunSpec => VerifiedRunIsInForce
<1>1. RunInit => RightInv
  BY InitKnown, InitServed, InitCoherence DEF RunInit, RightInv
<1>2. RightInv /\ [RunNext]_allVars => RightInv'
  BY NextKnown, NextRunFresh, NextServed DEF RightInv
<1>3. RightInv /\ [RunNext]_allVars
      => [\A p \in Callers :
            stage[p] \in Calling \cup Rereading /\ stage'[p] = "verified"
            => InForce(Head(todo[p]), wire)]_allVars
  <2> SUFFICES ASSUME RightInv, RunNext, NEW p \in Callers,
                      stage[p] \in Calling \cup Rereading, stage'[p] = "verified"
               PROVE  InForce(Head(todo[p]), wire)
    OBVIOUS
  <2>1. /\ KnownInv /\ TypeOK /\ CallsInv /\ PassedInv /\ OneCallAtATime
        /\ p \in Processes
    BY DEF RightInv, KnownInv, CallInv, CallsInv, Processes
  <2>2. Verify(p) \/ (stage[p] = "again" /\ EndUnread(p) /\ written[p] = {})
    BY <2>1, VerifiedHow
  <2>3. pc[p] \in {"readback", "writing"}
    BY <2>2 DEF Verify, ReadBack, EndUnread
  <2>4. request[p] = Head(todo[p])
    BY <2>1, <2>3 DEF KnownInv, LinkedInv, Linked, Resting, Outcomes, Errors
  <2>5. CASE Verify(p)
    BY <2>1, <2>4, <2>5, VerifyInForce
  <2>6. CASE stage[p] = "again" /\ EndUnread(p) /\ written[p] = {}
    <3>1. TrueFor(p)
      <4>1. CASE \A r \in Requests : r.verify
        BY <2>1, <2>3, <4>1, FreshIsTrue DEF RightInv, Holding, Reading
      <4>2. CASE \E c : Callers = {c}
        <5>1. TrustInv
          BY <4>2 DEF RightInv, ServedInv
        <5> QED
          BY <2>4, <2>6, <5>1 DEF TrustInv, TrueFor, Trusted, Suspect, Honest, Calling, Rereading
      <4> QED
        BY <4>1, <4>2
    <3> QED
      BY <2>1, <2>4, <2>6, <3>1, UnchangedInForce
  <2> QED
    BY <2>2, <2>5, <2>6
<1> QED
  BY <1>1, <1>2, <1>3, PTL DEF RunSpec, VerifiedRunIsInForce

(***************************************************************************)
(* A shutdown finds the inverter in self-consumption.                      *)
(***************************************************************************)
\* Every stop of a service directly follows a restore that is read back.
RestoreBeforeStop ==
    \A s \in Services : \A i \in DOMAIN s :
        s[i].what = "stop" =>
            i > 1 /\ s[i - 1].what = "self_consumption" /\ s[i - 1].verify

\* A register that has left self-consumption unknown to a marked cache was put there by
\* the forced call under way: one that ends has read it back, or taken the mark.
EmsInv ==
    "settings" \in refreshed /\ ~Honest("ems_mode") /\ wire["ems_mode"] # "self_consumption"
    => \E p \in Callers : "ems_mode" \in written[p] /\ request[p].what \in ForcedModes

\* Only start and stop are sent as commands, and only by callers.
CommandInv ==
    \A p \in Processes : pc[p] = "commanding" => p # Poller /\ request[p].what \in PowerButtons

\* What remains of a service is in the order of the service.
OrderedInv ==
    \A p \in Callers : \A i \in DOMAIN todo[p] :
        i > 1 /\ todo[p][i].what = "stop"
        => todo[p][i - 1].what = "self_consumption" /\ todo[p][i - 1].verify

\* A report is returned after a re-read only when nobody asked for a read-back.
ReturnInv ==
    \A p \in Callers :
        /\ stage[p] = "returning" => ~Head(todo[p]).verify
        /\ wrote[p] # {} => Head(todo[p]).what \notin PowerButtons

\* The inverter has been restored when its shutdown is next.
StopInv ==
    \A p \in Callers :
        todo[p] # << >> /\ Head(todo[p]).what = "stop" => wire["ems_mode"] = "self_consumption"

LEMMA EmsIsField == "ems_mode" \in Fields /\ Component("ems_mode") = "settings"
BY DEF Fields, Component, Limits

LEMMA ServedEms ==
    ASSUME "ems_mode" \notin Unserved, Honest("ems_mode")
    PROVE  cache["ems_mode"] = wire["ems_mode"]
BY EmsIsField DEF Honest, Answer

LEMMA NextCommand == TypeOK /\ CommandInv /\ GuardedStep(Callers) => CommandInv'
<1> SUFFICES ASSUME TypeOK, CommandInv, GuardedStep(Callers) PROVE CommandInv'
  OBVIOUS
<1> USE DEF callVars, lockVars
<1>0. Poller \in Processes /\ Poller \notin Callers /\ Callers \subseteq Processes
  BY ProcessAssumption DEF Processes
<1>u. ASSUME UNCHANGED <<pc, request>> PROVE CommandInv'
  BY <1>u DEF CommandInv
<1>1. ASSUME NEW p \in Processes, Solo(p),
             pc'[p] = "commanding" => p # Poller /\ request'[p].what \in PowerButtons
      PROVE  CommandInv'
  BY <1>1 DEF CommandInv, Solo
<1>2. ASSUME NEW p \in Processes, Proceed(p) PROVE CommandInv'
  <2>1. Solo(p) /\ (pc'[p] \in Outcomes \/ request'[p] = request[p])
    BY <1>2, ProceedSolo
  <2>2. CASE pc'[p] \in Outcomes
    BY <1>1, <2>1, <2>2 DEF Outcomes, Errors
  <2>3. CASE pc'[p] \notin Outcomes
    <3>1. CASE Acquire(p)
      BY <1>1, <2>1, <2>3, <3>1 DEF Acquire, FirstPlace, TypeOK, CallTypeOK
    <3>2. CASE ReadAnswered(p) \/ ReadFailed(p) \/ WriteAnswered(p)
      BY <1>u, <3>2 DEF ReadAnswered, ReadFailed, WriteAnswered
    <3>3. CASE MakePlan(p) \/ StartReadBack(p)
      BY <1>1, <2>1, <3>3 DEF MakePlan, StartReadBack, TypeOK, CallTypeOK
    <3>4. CASE EndsCall(p)
      BY <1>1, <2>1, <3>4, EnderEmpties, EndersHold, EndSolo DEF EndsCall, Resting, Outcomes, Errors
    <3> QED
      BY <1>2, <3>1, <3>2, <3>3, <3>4 DEF Proceed, EndsCall
  <2> QED
    BY <2>2, <2>3
<1>3. ASSUME NEW p \in Callers, NEW r \in Requests, MakeCall(p, r) PROVE CommandInv'
  BY <1>0, <1>1, <1>3, MakeCallSolo
<1>4. CASE Poll
  BY <1>0, <1>1, <1>4 DEF Poll, Solo, TypeOK, CallTypeOK
<1>5. CASE PollEnds
  BY <1>0, <1>1, <1>5, EndSolo DEF PollEnds, Resting
<1>6. CASE PollRunningState \/ GraceEnds \/ UNCHANGED vars
  BY <1>u, <1>6 DEF PollRunningState, GraceEnds, vars
<1> QED
  BY <1>0, <1>2, <1>3, <1>4, <1>5, <1>6 DEF GuardedStep

LEMMA OutsideReadCommand == TypeOK /\ CommandInv /\ OutsideRead(Callers) => CommandInv'
BY MakeCallSolo DEF CommandInv, OutsideRead, Solo, callVars

\* The writer of a field is at its plan, and the field's component is touched.
LEMMA WriterTouches ==
    ASSUME WritersInv, NEW p \in Callers, NEW f \in written[p]
    PROVE  p \in Processes /\ pc[p] \in {"writing", "readback"} /\ Component(f) \in Touched(plan[p])
BY DEF WritersInv, Processes

LEMMA NextEms ==
    ASSUME "ems_mode" \notin Unserved, \A r \in Requests : r.what \in ForcedModes => r.verify,
           TypeOK, CallsInv, WritersInv, EmsInv, GuardedStep(Callers)
    PROVE  EmsInv'
<1> USE DEF inverterVars, cacheVars, lockVars, callVars
<1> DEFINE e == "ems_mode"
<1> SUFFICES ASSUME "settings" \in refreshed', ~Honest(e)', wire'[e] # "self_consumption"
             PROVE  \E p \in Callers : e \in written'[p] /\ request'[p].what \in ForcedModes
  BY DEF EmsInv
<1>0. Poller \in Processes /\ Poller \notin Callers /\ Callers \subseteq Processes
  BY ProcessAssumption DEF Processes
<1>1. "settings" \in refreshed
  BY EmsIsField, CacheMoves
<1>2. CASE wire'[e] = wire[e]
  <2>1. ~Honest(e)
    BY <1>2, EmsIsField, CacheMoves
  <2>2. PICK p \in Callers : e \in written[p] /\ request[p].what \in ForcedModes
    BY <1>1, <1>2, <2>1 DEF EmsInv
  <2>3. /\ p \in Processes /\ pc[p] \in {"writing", "readback"} /\ "settings" \in Touched(plan[p])
        /\ request[p] \in Requests
    BY <2>2, WriterTouches, EmsIsField DEF CallsInv, RequestInv, InCall
  <2>4. CASE Proceed(p)
    <3>1. CASE pc'[p] \in Outcomes
      <4>1. ~Fail(p, "mismatch") /\ ~Fail(p, "unavailable") /\ ~Fail(p, "rejected") /\ ~Fail(p, "uncertain")
        BY <2>3 DEF Fail, Invalidate
      <4>2. ~(Mismatch(p) \/ ReadBackRaised(p) \/ WriteRejected(p) \/ WriteUnanswered(p))
        BY <4>1 DEF Mismatch, ReadBackRaised, WriteRejected, WriteUnanswered, WriteFailed
      <4>3. ~Verify(p)
        BY <2>1, <2>3, EmsIsField, ReadBackIsHonest DEF Verify
      <4>4. ~EndUnread(p)
        BY <2>2, <2>3 DEF EndUnread
      <4>5. ~(Command(p) \/ FreshenRaised(p) \/ RefusePower(p))
        BY <2>3 DEF Command, FreshenRaised, RefusePower, Freshened
      <4> QED
        BY <2>3, <2>4, <3>1, <4>2, <4>3, <4>4, <4>5, EndsHow
    <3>2. CASE pc'[p] \notin Outcomes
      <4>1. request'[p] = request[p]
        BY <2>3, <2>4, <3>2, ProceedSolo
      <4>2. written[p] \subseteq written'[p]
        <5>1. ~EndsCall(p)
          BY <2>3, <3>2, EnderOutcome
        <5> QED
          BY <2>3, <2>4, <5>1 DEF Proceed, EndsCall, Acquire, ReadAnswered, ReadFailed, MakePlan,
             WriteAnswered, StartReadBack, TypeOK, CallTypeOK
      <4> QED
        BY <2>2, <4>1, <4>2
    <3> QED
      BY <3>1, <3>2
  <2>5. CASE ~Proceed(p)
    <3>1. written'[p] = written[p] /\ request'[p] = request[p]
      <4>1. ASSUME NEW q \in Processes, q # p, Solo(q)
            PROVE  written'[p] = written[p] /\ request'[p] = request[p]
        BY <2>3, <4>1 DEF Solo
      <4>2. ASSUME NEW q \in Callers, NEW r \in Requests, MakeCall(q, r)
            PROVE  q \in Processes /\ q # p /\ Solo(q)
        BY <1>0, <2>3, <4>2, MakeCallSolo DEF MakeCall, Resting, Outcomes, Errors
      <4>3. ASSUME NEW q \in Callers \cup {Poller}, Proceed(q)
            PROVE  q \in Processes /\ q # p /\ Solo(q)
        BY <1>0, <2>5, <4>3, ProceedSolo
      <4>4. PollEnds => Poller # p /\ Solo(Poller)
        BY <1>0, EndSolo DEF PollEnds, Resting
      <4>5. Poll \/ PollRunningState \/ GraceEnds \/ UNCHANGED vars
            => written' = written /\ request' = request
        BY DEF Poll, PollRunningState, GraceEnds, vars
      <4> QED
        BY <1>0, <4>1, <4>2, <4>3, <4>4, <4>5 DEF GuardedStep
    <3> QED
      BY <2>2, <3>1
  <2> QED
    BY <2>4, <2>5
<1>3. CASE wire'[e] # wire[e]
  <2>1. PICK p \in Callers \cup {Poller} : Proceed(p)
    BY <1>3 DEF GuardedStep, Poll, PollEnds, PollRunningState, GraceEnds, vars
  <2>2. p \in Callers /\ p \in Processes /\ pc[p] = "writing"
        /\ (WriteAnswered(p) \/ WriteRejected(p) \/ WriteUnanswered(p))
    BY <1>0, <1>3, <2>1, WhoWrites DEF WritersInv, InCall
  <2>3. PICK i \in DOMAIN plan[p] :
          /\ Land(plan[p][i])
          /\ WriteAnswered(p) => written' = [written EXCEPT ![p] = @ \cup {plan[p][i].field}]
    BY <1>3, <2>2 DEF WriteAnswered, WriteRejected, WriteUnanswered, WriteFailed
  <2>4. plan[p][i].field = e /\ plan[p][i].target # "self_consumption"
    BY <1>3, <2>3, EmsIsField DEF Land, TypeOK, InverterTypeOK
  <2>5. CASE WriteAnswered(p)
    <3>1. PICK view : plan[p] = Plan(request[p], view)
      BY <2>2 DEF CallsInv, PlansInv
    <3>2. request[p] \in Requests /\ request[p].what \in DesiredModes \cup PvRequests
      BY <2>2, RequestAssumption DEF CallsInv, RequestInv, InCall, AllRequests
    <3>3. request[p].what \in ForcedModes
      BY <2>4, <3>1, <3>2, ForcedFields
    <3>4. written'[p] = written[p] \cup {e}
      BY <2>2, <2>3, <2>4, <2>5 DEF TypeOK, CallTypeOK
    <3>5. request' = request
      BY <2>5 DEF WriteAnswered
    <3> QED
      BY <2>2, <3>3, <3>4, <3>5
  <2>6. CASE WriteRejected(p) \/ WriteUnanswered(p)
    <3>1. "settings" \in Touched(plan[p])
      BY <2>4, EmsIsField DEF Touched
    <3> QED
      BY <2>6, <3>1 DEF WriteRejected, WriteUnanswered, WriteFailed, Fail, Invalidate
  <2> QED
    BY <2>2, <2>5, <2>6
<1> QED
  BY <1>2, <1>3

LEMMA OutsideReadEms ==
    ASSUME TypeOK, WritersInv, EmsInv, OutsideRead(Callers)
    PROVE  EmsInv'
<1> USE DEF inverterVars, lockVars, callVars
<1> DEFINE e == "ems_mode"
<1> SUFFICES ASSUME "settings" \in refreshed', ~Honest(e)', wire'[e] # "self_consumption"
             PROVE  \E p \in Callers : e \in written'[p] /\ request'[p].what \in ForcedModes
  BY DEF EmsInv
<1>1. wire' = wire /\ written' = written
  BY DEF OutsideRead, MakeCall
<1>2. PICK p \in Callers : e \in written[p] /\ request[p].what \in ForcedModes
  BY <1>1, EmsIsField, CacheMoves DEF EmsInv
<1>3. p \in Processes /\ pc[p] \notin Resting
  BY <1>2, WriterTouches DEF Resting, Outcomes, Errors
<1>4. request'[p] = request[p]
  BY <1>3, MakeCallSolo DEF OutsideRead, MakeCall, Solo
<1> QED
  BY <1>1, <1>2, <1>4

\* What becomes of a service's calls: the current one is dropped when it returned a report,
\* at once or after a re-read.
LEMMA TodoMoves ==
    ASSUME TypeOK, RunInv, (\E p \in Callers : Serve(p) \/ RunStep(p)) \/ Background, NEW p \in Callers
    PROVE  \/ todo'[p] = todo[p]
           \/ todo'[p] = << >>
           \/ todo'[p] \in Services
           \/ /\ todo'[p] = Tail(todo[p])
              /\ \/ stage[p] = "returning"
                 \/ stage[p] \in Calling /\ Proceed(p) /\ pc'[p] \in Outcomes /\ Returned(p, pc'[p])
<1>0. Tables
  BY DEF RunInv
<1>1. ASSUME NEW q \in Callers, OthersStay(q), q # p PROVE todo'[p] = todo[p]
  BY <1>1 DEF OthersStay
<1>2. ASSUME NEW q \in Callers, Serve(q) PROVE todo'[p] \in Services \cup {todo[p]}
  BY <1>0, <1>2 DEF Serve, Tables
<1>3. ASSUME NEW q \in Callers, ServeOn(q) PROVE todo'[p] = todo[p]
  BY <1>3 DEF ServeOn
<1>4. EndRun(p) => todo'[p] = << >> \/ (stage[p] = "returning" /\ todo'[p] = Tail(todo[p]))
  BY FinishAttempt DEF EndRun
<1>5. ASSUME NEW q \in Callers, CallStep(q)
      PROVE  \/ todo'[p] \in {todo[p], << >>}
             \/ /\ todo'[p] = Tail(todo[p]) /\ stage[p] \in Calling /\ Proceed(p)
                /\ pc'[p] \in Outcomes /\ Returned(p, pc'[p])
  <2>1. CASE q # p
    BY <1>1, <1>5, <2>1, ContinueLeaves DEF CallStep, runVars
  <2>2. CASE q = p
    <3>1. CASE pc'[p] \notin Outcomes
      BY <1>5, <2>2, <3>1 DEF CallStep, runVars
    <3>2. CASE pc'[p] \in Outcomes
      <4>1. stage[p] \in Calling /\ Proceed(p) /\ Continue(p, pc'[p])
        BY <1>5, <2>2, <3>2 DEF CallStep
      <4>2. CASE Returned(p, pc'[p])
        <5>1. \/ \E result \in {"verified", "done"} : Finish(p, result)
              \/ Reread(p, wrote[p] \cup Touches(p), "returning")
          BY <4>2 DEF Returned
        <5> QED
          BY <3>2, <4>1, <4>2, <5>1, FinishAttempt, RereadAttempt
      <4>3. CASE RaisedReport(p, pc'[p]) \/ RaisedBare(p, pc'[p])
        <5>1. \/ Finish(p, "failed")
              \/ Reread(p, Touches(p), "failing") \/ Reread(p, Touches(p), "retrying")
          BY <4>3 DEF RaisedReport, RaisedBare
        <5> QED
          BY <5>1, FinishAttempt, RereadAttempt
      <4> QED
        BY <4>1, <4>2, <4>3 DEF Continue
    <3> QED
      BY <3>1, <3>2
  <2> QED
    BY <2>1, <2>2
<1>6. ASSUME NEW q \in Callers, stage[q] \in Rereading, NEW k, NEW bad, Advance(q, k, bad)
      PROVE  todo'[p] = todo[p] \/ EndRun(p)
  <2>1. CASE q # p
    BY <1>1, <1>6, <2>1, AdvanceLeaves
  <2>2. CASE q = p
    BY <1>6, <2>2, AgainAttempt DEF Advance
  <2> QED
    BY <2>1, <2>2
<1>7. ASSUME NEW q \in Callers, RereadRaised(q) PROVE todo'[p] = todo[p] \/ EndRun(p)
  BY <1>1, <1>7, RaisedLeaves DEF RereadRaised
<1>8. Background => todo'[p] = todo[p]
  BY BackgroundSolo DEF runVars
<1> QED
  BY <1>2, <1>3, <1>4, <1>5, <1>6, <1>7, <1>8 DEF RunStep, RereadAnswered, RereadFailed

LEMMA StepsKeepOrdered ==
    ASSUME RestoreBeforeStop, TypeOK, RunInv, OrderedInv,
           (\E p \in Callers : Serve(p) \/ RunStep(p)) \/ Background
    PROVE  OrderedInv'
<1> SUFFICES ASSUME NEW p \in Callers, NEW i \in DOMAIN todo'[p], i > 1, todo'[p][i].what = "stop"
             PROVE  todo'[p][i - 1].what = "self_consumption" /\ todo'[p][i - 1].verify
  BY DEF OrderedInv
<1>1. CASE todo'[p] = todo[p]
  BY <1>1 DEF OrderedInv
<1>2. CASE todo'[p] \in Services
  BY <1>2 DEF RestoreBeforeStop
<1>3. CASE todo'[p] = Tail(todo[p]) /\ todo[p] # << >>
  <2>1. todo[p] \in Seq(Requests)
    BY DEF RunInv, ServiceOK
  <2>2. /\ i \in Nat /\ i \in 1..Len(Tail(todo[p])) /\ Len(Tail(todo[p])) = Len(todo[p]) - 1
        /\ Len(todo[p]) \in Nat /\ DOMAIN todo[p] = 1..Len(todo[p])
    BY <1>3, <2>1
  <2>3. i + 1 \in DOMAIN todo[p] /\ i - 1 \in 1..Len(Tail(todo[p])) /\ i - 1 + 1 = i
    BY <2>2
  <2>4. todo'[p][i] = todo[p][i + 1] /\ todo'[p][i - 1] = todo[p][i]
    BY <1>3, <2>1, <2>2, <2>3
  <2>5. i + 1 > 1 /\ i + 1 - 1 = i
    BY <2>2
  <2> QED
    BY <2>3, <2>4, <2>5 DEF OrderedInv
<1>4. CASE todo'[p] = << >>
  BY <1>4
<1>5. stage[p] \in Calling \cup {"returning"} => todo[p] # << >>
  BY DEF RunInv, ServiceOK, Calling, Ended
<1> QED
  BY <1>1, <1>2, <1>3, <1>4, <1>5, TodoMoves

LEMMA StepsKeepReturn ==
    ASSUME KnownInv, AttemptInv, CommandInv, ReturnInv,
           (\E p \in Callers : Serve(p) \/ RunStep(p)) \/ Background
    PROVE  ReturnInv'
<1> DEFINE Return1(p) ==
        /\ stage[p] = "returning" => ~Head(todo[p]).verify
        /\ wrote[p] # {} => Head(todo[p]).what \notin PowerButtons
<1>0. TypeOK /\ RunInv /\ Tables /\ WritersInv /\ CallsInv /\ LinkedInv /\ Callers \subseteq Processes
  BY DEF KnownInv, CallInv, RunInv, Processes
<1>1. ASSUME NEW p \in Callers, OthersStay(p), Return1(p)' PROVE ReturnInv'
  BY <1>1 DEF ReturnInv, OthersStay
<1>2. ASSUME NEW p \in Callers, NEW result \in {"verified", "done", "failed"}, Finish(p, result)
      PROVE  ReturnInv'
  BY <1>0, <1>1, <1>2, FinishAttempt
<1>3. ASSUME NEW p \in Callers, stage[p] \in Calling, NEW ks, NEW why, Reread(p, ks, why),
             why = "returning" => ~request[p].verify
      PROVE  ReturnInv'
  <2>1. request[p] = Head(todo[p])
    BY <1>0, <1>3 DEF LinkedInv, Linked
  <2>2. Wrote(p) # {} => request[p].what \notin PowerButtons
    BY <1>0 DEF Wrote, WritersInv, CallsInv, RequestInv, InCall
  <2> QED
    BY <1>0, <1>1, <1>3, <2>1, <2>2, RereadAttempt
<1>4. ASSUME NEW p \in Callers, Serve(p) \/ ServeOn(p) PROVE ReturnInv'
  <2>1. stage'[p] = "first" /\ wrote'[p] = wrote[p] /\ OthersStay(p)
    BY <1>0, <1>4 DEF Serve, ServeOn, Tables, OthersStay
  <2>2. wrote[p] = {}
    BY <1>4 DEF Serve, ServeOn, AttemptInv
  <2> QED
    BY <1>1, <2>1, <2>2
<1>5. ASSUME NEW p \in Callers, stage[p] \in Calling, Proceed(p), pc'[p] \in Outcomes,
             Returned(p, pc'[p])
      PROVE  ReturnInv'
  <2>1. CASE \E result \in {"verified", "done", "failed"} : Finish(p, result)
    BY <1>2, <2>1
  <2>2. CASE /\ wrote[p] \cup Wrote(p) # {}
             /\ pc'[p] # "verified" /\ ~(stage[p] = "again" /\ pc'[p] = "unchanged")
             /\ Reread(p, wrote[p] \cup Touches(p), "returning")
    <3>1. wrote[p] # {} => stage[p] = "again" /\ request[p].what \notin PowerButtons
      BY <1>0, <1>5 DEF AttemptInv, ReturnInv, LinkedInv, Linked, Calling
    <3>2. Wrote(p) # {} => written[p] # {} /\ pc[p] \in {"writing", "readback"}
      BY <1>0 DEF Wrote, WritersInv
    <3>3. ~Command(p)
      BY <1>0, <2>2, <3>1, <3>2 DEF Command, CommandInv
    <3>4. EndUnread(p) /\ pc'[p] = IF written[p] = {} THEN "unchanged" ELSE "unverified"
      BY <1>0, <1>5, <2>2, <3>3, EndsHow DEF Returned, Successes
    <3>5. written[p] # {}
      BY <2>2, <3>1, <3>2, <3>4
    <3>6. ~request[p].verify
      BY <3>4, <3>5 DEF EndUnread
    <3> QED
      BY <1>3, <1>5, <2>2, <3>6
  <2> QED
    BY <1>5, <2>1, <2>2 DEF Returned
<1>6. ASSUME NEW p \in Callers, CallStep(p) PROVE ReturnInv'
  <2>1. CASE pc'[p] \notin Outcomes
    BY <1>6, <2>1 DEF CallStep, ReturnInv, runVars
  <2>2. CASE RaisedReport(p, pc'[p]) \/ RaisedBare(p, pc'[p])
    <3>1. \/ Finish(p, "failed")
          \/ Reread(p, Touches(p), "failing") \/ Reread(p, Touches(p), "retrying")
      BY <2>2 DEF RaisedReport, RaisedBare
    <3> QED
      BY <1>2, <1>3, <1>6, <3>1 DEF CallStep
  <2> QED
    BY <1>5, <1>6, <2>1, <2>2 DEF CallStep, Continue
<1>7. ASSUME NEW p \in Callers, stage[p] \in Rereading, NEW k, NEW bad, Advance(p, k, bad)
      PROVE  ReturnInv'
  <2>1. CASE PlanAgain(p)
    BY <1>0, <1>1, <2>1, AgainAttempt DEF ReturnInv
  <2>2. CASE EndRun(p)
    BY <1>2, <2>2 DEF EndRun
  <2>3. CASE UNCHANGED <<stage, todo, wrote>>
    BY <2>3 DEF ReturnInv
  <2> QED
    BY <1>7, <2>1, <2>2, <2>3 DEF Advance
<1>8. ASSUME NEW p \in Callers, RereadRaised(p) PROVE ReturnInv'
  BY <1>2, <1>8 DEF RereadRaised, EndRun
<1>9. CASE Background
  BY <1>0, <1>9, BackgroundSolo DEF ReturnInv, runVars
<1> QED
  BY <1>4, <1>6, <1>7, <1>8, <1>9 DEF RunStep, RereadAnswered, RereadFailed

\* A plan to restore ends the last of its EMS steps in self-consumption.
LEMMA RestoreLeaves ==
    ASSUME NEW r, NEW view, r.what = "self_consumption"
    PROVE  \E i \in DOMAIN Plan(r, view) :
              /\ Plan(r, view)[i] = LeaveForced
              /\ \A k \in DOMAIN Plan(r, view) : k > i => Plan(r, view)[k].field # "ems_mode"
<1> DEFINE steps == Plan(r, view)
<1>1. steps = SelfPlan(view)
  BY PlanOf
<1> HIDE DEF steps
<1>2. /\ DOMAIN steps = 1..3
      /\ \/ steps[1] = LeaveForced /\ steps[2] = FullCharge /\ steps[3] = FullDischarge
         \/ steps[3] = LeaveForced
  BY <1>1, SelfPlanShape
<1>3. FullCharge.field # "ems_mode" /\ FullDischarge.field # "ems_mode"
  BY DEF FullCharge, FullDischarge, Exactly
<1>4. CASE steps[3] = LeaveForced
  <2>1. 3 \in DOMAIN steps /\ \A k \in DOMAIN steps : ~(k > 3)
    BY <1>2
  <2> QED
    BY <1>4, <2>1 DEF steps
<1>5. CASE steps[1] = LeaveForced /\ steps[2] = FullCharge /\ steps[3] = FullDischarge
  <2>1. 1 \in DOMAIN steps /\ \A k \in DOMAIN steps : k > 1 => k = 2 \/ k = 3
    BY <1>2
  <2> QED
    BY <1>3, <1>5, <2>1 DEF steps
<1> QED
  BY <1>2, <1>4, <1>5

LEMMA LeaveIsSatisfied ==
    ASSUME NEW v
    PROVE  /\ LeaveForced.field = "ems_mode"
           /\ Satisfied(LeaveForced, v) => v = "self_consumption"
BY DEF LeaveForced, Exactly, Satisfied

\* A restore that is read back and returns a report has left the forced mode.
LEMMA RestoreRestores ==
    ASSUME "ems_mode" \notin Unserved, KnownInv, EmsInv, CommandInv, NEW c, Callers = {c},
           Proceed(c), pc'[c] \in Outcomes, pc'[c] \in Successes,
           request[c].what = "self_consumption", request[c].verify
    PROVE  wire["ems_mode"] = "self_consumption" /\ wire' = wire
<1> USE DEF inverterVars
<1> DEFINE e == "ems_mode"
<1>0. /\ TypeOK /\ CallsInv /\ WritersInv /\ PassedInv
      /\ c \in Callers /\ c \in Processes
  BY DEF KnownInv, CallInv, Processes
<1>1. Verify(c) \/ EndUnread(c)
  <2>1. ~Command(c)
    BY <1>0 DEF Command, CommandInv, PowerButtons
  <2> QED
    BY <1>0, <2>1, EndsHow DEF Successes
<1>2. wire' = wire /\ pc[c] \in {"writing", "readback"}
  BY <1>1 DEF Verify, ReadBack, EndUnread
<1>3. PICK view : plan[c] = Plan(request[c], view)
  BY <1>0, <1>2 DEF CallsInv, PlansInv
<1>4. PICK i \in DOMAIN plan[c] :
        /\ plan[c][i] = LeaveForced
        /\ \A k \in DOMAIN plan[c] : k > i => plan[c][k].field # e
  BY <1>3, RestoreLeaves
<1>5. "settings" \in Touched(plan[c])
  BY <1>4, LeaveIsSatisfied, EmsIsField DEF Touched
<1>6. CASE Verify(c)
  <2>1. LeaveForced \in FinalSteps(plan[c])
    BY <1>4, FinalStep, LeaveIsSatisfied
  <2>2. cache[e] = "self_consumption"
    BY <1>6, <2>1, LeaveIsSatisfied DEF Verify, Verifies
  <2>3. Honest(e)
    BY <1>0, <1>5, <1>6, EmsIsField, ReadBackIsHonest DEF Verify
  <2> QED
    BY <1>2, <2>2, <2>3, ServedEms
<1>7. CASE EndUnread(c)
  <2>1. written[c] = {} /\ pc[c] = "writing" /\ ToWrite(c) = {} /\ next[c] = 1
    BY <1>0, <1>7 DEF EndUnread, PassedInv
  <2>2. i \in 1..Len(plan[c])
    BY <1>0, <1>4 DEF TypeOK, CallTypeOK, IsPlan
  <2>3. Satisfied(LeaveForced, cache[e])
    BY <1>4, <2>1, <2>2, LeaveIsSatisfied DEF ToWrite, Skipped
  <2>4. "settings" \in refreshed
    BY <1>0, <1>5, <2>1, PlanTouches DEF CallsInv, MarkedInv
  <2>5. Honest(e) \/ wire[e] = "self_consumption"
    BY <2>1, <2>4 DEF EmsInv
  <2> QED
    BY <1>2, <2>3, <2>5, LeaveIsSatisfied, ServedEms
<1> QED
  BY <1>1, <1>6, <1>7

LEMMA StepsKeepStop ==
    ASSUME RestoreBeforeStop, "ems_mode" \notin Unserved,
           KnownInv, EmsInv, CommandInv, OrderedInv, ReturnInv, StopInv,
           NEW c, Callers = {c}, Serve(c) \/ RunStep(c) \/ Background
    PROVE  StopInv'
<1> USE DEF inverterVars
<1> SUFFICES ASSUME todo'[c] # << >>, Head(todo'[c]).what = "stop"
             PROVE  wire'["ems_mode"] = "self_consumption"
  BY DEF StopInv
<1>0. /\ TypeOK /\ RunInv /\ WritersInv /\ CallsInv /\ LinkedInv
      /\ c \in Callers /\ c \in Processes
  BY DEF KnownInv, CallInv, Processes
<1>1. CASE todo'[c] = todo[c]
  <2>1. wire["ems_mode"] = "self_consumption"
    BY <1>0, <1>1 DEF StopInv
  <2>2. wire' = wire
    <3> SUFFICES ASSUME wire' # wire PROVE FALSE
      OBVIOUS
    <3>1. GuardedStep(Callers)
      BY <1>0, WhatStepsDo DEF OutsideRead
    <3>2. PICK p \in Callers \cup {Poller} : Proceed(p)
      BY <3>1 DEF GuardedStep, Poll, PollEnds, PollRunningState, GraceEnds, vars
    <3>3. p = c /\ pc[c] = "writing"
      BY <1>0, <3>2, PollerNeverWrites, WhoWrites
    <3>4. request[c].what \notin PowerButtons
      BY <1>0, <3>3 DEF CallsInv, RequestInv, InCall
    <3>5. request[c] = Head(todo[c])
      BY <1>0, <3>3 DEF LinkedInv, Linked, Resting, Outcomes, Errors
    <3> QED
      BY <1>1, <3>4, <3>5 DEF PowerButtons
  <2> QED
    BY <2>1, <2>2
<1>2. CASE todo'[c] \in Services
  <2>1. todo'[c] \in Seq(Requests) /\ todo'[c] # << >>
    BY <1>2, ServiceAssumption
  <2>2. 1 \in DOMAIN todo'[c] /\ Head(todo'[c]) = todo'[c][1]
    BY <2>1
  <2> QED
    BY <1>2, <2>2 DEF RestoreBeforeStop
<1>3. CASE /\ todo'[c] = Tail(todo[c])
           /\ \/ stage[c] = "returning"
              \/ stage[c] \in Calling /\ Proceed(c) /\ pc'[c] \in Outcomes /\ Returned(c, pc'[c])
  <2>1. todo[c] \in Seq(Requests) /\ todo[c] # << >>
    BY <1>0, <1>3 DEF RunInv, ServiceOK, Calling, Ended
  <2>2. 2 \in DOMAIN todo[c] /\ Head(Tail(todo[c])) = todo[c][2] /\ Head(todo[c]) = todo[c][1]
    BY <1>3, <2>1
  <2>3. Head(todo[c]).what = "self_consumption" /\ Head(todo[c]).verify
    <3>1. todo[c][2].what = "stop"
      BY <1>3, <2>2
    <3>2. todo[c][2 - 1].what = "self_consumption" /\ todo[c][2 - 1].verify
      BY <1>0, <2>2, <3>1 DEF OrderedInv
    <3> QED
      BY <2>2, <3>2
  <2>4. CASE stage[c] = "returning"
    BY <1>0, <2>3, <2>4 DEF ReturnInv
  <2>5. CASE stage[c] \in Calling /\ Proceed(c) /\ pc'[c] \in Outcomes /\ Returned(c, pc'[c])
    <3>1. request[c] = Head(todo[c])
      BY <1>0, <2>5 DEF LinkedInv, Linked
    <3> QED
      BY <2>3, <2>5, <3>1, RestoreRestores DEF Returned
  <2> QED
    BY <1>3, <2>4, <2>5
<1> QED
  BY <1>0, <1>1, <1>2, <1>3, TodoMoves

\* All a shutdown relies on.
ShutdownInv == KnownInv /\ AttemptInv /\ CommandInv /\ EmsInv /\ OrderedInv /\ ReturnInv /\ StopInv

LEMMA InitShutdown == RunInit => ShutdownInv
<1> SUFFICES ASSUME RunInit PROVE ShutdownInv
  OBVIOUS
<1>1. KnownInv
  BY InitKnown
<1>2. CommandInv /\ EmsInv
  BY DEF RunInit, Init, CommandInv, EmsInv, Processes
<1>3. AttemptInv /\ OrderedInv /\ ReturnInv /\ StopInv
  BY DEF RunInit, AttemptInv, OrderedInv, ReturnInv, StopInv, Rereading
<1> QED
  BY <1>1, <1>2, <1>3 DEF ShutdownInv

LEMMA NextShutdown ==
    ASSUME RestoreBeforeStop, "ems_mode" \notin Unserved,
           \A r \in Requests : r.what \in ForcedModes => r.verify,
           NEW c, Callers = {c}
    PROVE  ShutdownInv /\ [RunNext]_allVars => ShutdownInv'
<1> SUFFICES ASSUME ShutdownInv, [RunNext]_allVars PROVE ShutdownInv'
  OBVIOUS
<1>0. /\ KnownInv' /\ KnownInv /\ RunInv /\ TypeOK /\ WritersInv /\ PassedInv /\ CallsInv
      /\ AttemptInv /\ CommandInv /\ EmsInv /\ OrderedInv /\ ReturnInv /\ StopInv
  BY NextKnown DEF ShutdownInv, KnownInv, CallInv
<1>1. CASE RunNext
  <2>1. (\E p \in Callers : Serve(p) \/ RunStep(p)) \/ Background
    BY <1>1 DEF RunNext
  <2>2. AttemptInv' /\ OrderedInv' /\ ReturnInv'
    BY <1>0, <2>1, StepsKeepAttempt, StepsKeepOrdered, StepsKeepReturn
  <2>3. GuardedStep(Callers) \/ OutsideRead(Callers)
    BY <1>0, <2>1, WhatStepsDo
  <2>4. CommandInv' /\ EmsInv'
    BY <1>0, <2>3, NextCommand, OutsideReadCommand, NextEms, OutsideReadEms
  <2>5. StopInv'
    BY <1>0, <2>1, StepsKeepStop
  <2> QED
    BY <1>0, <2>2, <2>4, <2>5 DEF ShutdownInv
<1>2. CASE UNCHANGED allVars
  <2>1. AttemptInv' /\ OrderedInv' /\ ReturnInv' /\ StopInv'
    BY <1>0, <1>2 DEF allVars, vars, inverterVars, runVars, AttemptInv, OrderedInv, ReturnInv, StopInv
  <2>2. CommandInv' /\ EmsInv'
    BY <1>0, <1>2 DEF allVars, vars, inverterVars, cacheVars, callVars, CommandInv, EmsInv, Honest, Answer
  <2> QED
    BY <1>0, <2>1, <2>2 DEF ShutdownInv
<1> QED
  BY <1>1, <1>2

\* RunSpec => StopFindsSelfConsumption for one caller next to the polls, where the EMS word
\* is served and calls that force the battery are read back: whatever the restore meets,
\* the inverter is shut down in self-consumption or not at all.
THEOREM StopRight ==
    ASSUME RestoreBeforeStop, "ems_mode" \notin Unserved,
           \A r \in Requests : r.what \in ForcedModes => r.verify,
           NEW c, Callers = {c}
    PROVE  RunSpec => StopFindsSelfConsumption
<1>1. RunInit => ShutdownInv
  BY InitShutdown
<1>2. ShutdownInv /\ [RunNext]_allVars => ShutdownInv'
  BY NextShutdown
<1>3. ShutdownInv /\ [RunNext]_allVars
      => [powered /\ ~powered' => wire["ems_mode"] = "self_consumption"]_allVars
  <2> SUFFICES ASSUME ShutdownInv, RunNext, powered, ~powered'
               PROVE  wire["ems_mode"] = "self_consumption"
    OBVIOUS
  <2> USE DEF inverterVars
  <2>0. /\ TypeOK /\ RunInv /\ LinkedInv /\ CommandInv /\ StopInv
        /\ c \in Callers /\ Callers \subseteq Processes /\ Poller \in Processes
    BY DEF ShutdownInv, KnownInv, CallInv, Processes
  <2>1. GuardedStep(Callers)
    BY <2>0, WhatStepsDo DEF RunNext, OutsideRead
  <2>2. PICK p \in Callers \cup {Poller} : Proceed(p)
    BY <2>1 DEF GuardedStep, Poll, PollEnds, PollRunningState, GraceEnds, vars
  <2>3. Command(p)
    BY <2>2 DEF Proceed, Acquire, ReadAnswered, ReadFailed, FreshenRaised, ReadBackRaised, MakePlan,
         RefusePower, WriteAnswered, WriteRejected, WriteUnanswered, WriteFailed, StartReadBack,
         EndUnread, Verify, Mismatch
  <2>4. pc[p] = "commanding" /\ p = c /\ request[c].what = "stop"
    BY <2>0, <2>2, <2>3 DEF Command, CommandInv, PowerButtons
  <2>5. stage[c] \in Calling /\ request[c] = Head(todo[c])
    BY <2>0, <2>4 DEF LinkedInv, Linked, Resting, Outcomes, Errors
  <2>6. todo[c] # << >>
    BY <2>0, <2>5 DEF RunInv, ServiceOK, Calling, Ended
  <2> QED
    BY <2>0, <2>4, <2>5, <2>6 DEF StopInv
<1> QED
  BY <1>1, <1>2, <1>3, PTL DEF RunSpec, StopFindsSelfConsumption
================================================================================
