-------------------------- MODULE RetryingUnitProofs --------------------------
(***************************************************************************)
(* Proofs about RetryingUnit, for any tasks, values and policy.            *)
(***************************************************************************)
EXTENDS RetryingUnit, TLAPS

\* No two requests under way are writes.
OneWriter == \A t, u \in Tasks : Writing(t) /\ Writing(u) => t = u

USE DEF Running, Ended

\* Every variable keeps its type, no request is tried more than Attempts times,
\* and none pauses after its last try.
THEOREM UnitTypes == Spec => []UnitTypeOK
<1>1. Init => UnitTypeOK
  BY PolicyAssumption DEF Init, UnitTypeOK
<1>2. UnitTypeOK /\ [Next]_vars => UnitTypeOK'
  <2> SUFFICES ASSUME UnitTypeOK, [Next]_vars PROVE UnitTypeOK'
    OBVIOUS
  <2> USE PolicyAssumption DEF UnitTypeOK
  <2>1. CASE UNCHANGED vars
    BY <2>1 DEF vars
  <2>2. ASSUME NEW t \in Tasks, Request(t) PROVE UnitTypeOK'
    BY <2>2 DEF Request
  <2>3. ASSUME NEW t \in Tasks, Answered(t) PROVE UnitTypeOK'
    BY <2>3 DEF Answered, Lands
  <2>4. ASSUME NEW t \in Tasks, Fails(t) PROVE UnitTypeOK'
    BY <2>4 DEF Fails, Lands, Repeats, Raised
  <2>5. ASSUME NEW t \in Tasks, TryAgain(t) PROVE UnitTypeOK'
    BY <2>5 DEF TryAgain
  <2>6. ASSUME NEW t \in Tasks, Cancelled(t) PROVE UnitTypeOK'
    BY <2>6 DEF Cancelled, Lands
  <2> QED
    BY <2>1, <2>2, <2>3, <2>4, <2>5, <2>6 DEF Next, Progress
<1> QED
  BY <1>1, <1>2, PTL DEF Spec

-----------------------------------------------------------------------------

\* What makes retries idempotent is that writes wait for one another: together
\* with OneWriter the property is inductive.
RetryInv == OneWriter /\ RetryOverwritesNothing

\* A step that starts no request and only lands its own value keeps both.
LEMMA StepKeepsRetryInv ==
    ASSUME UnitTypeOK, RetryInv, NEW t \in Tasks,
           stage[t] \in Running, stage'[t] \in Running \cup Ended,
           stage' = [stage EXCEPT ![t] = stage'[t]],
           value' = value, before' = before,
           Lands(t) \/ register' = register
    PROVE  RetryInv'
<1>1. \A u \in Tasks : Writing(u)' => Writing(u)
  BY DEF UnitTypeOK, Writing
<1>2. OneWriter'
  BY <1>1 DEF RetryInv, OneWriter, Writing
<1>3. ASSUME NEW u \in Tasks, Writing(u)' PROVE register' \in {before'[u], value'[u]}
  <2>1. Writing(u) /\ register \in {before[u], value[u]}
    BY <1>1, <1>3 DEF RetryInv, RetryOverwritesNothing
  <2>2. CASE Lands(t)
    <3>1. Writing(t)
      BY <2>2 DEF Lands, Writing
    <3>2. t = u
      BY <2>1, <3>1 DEF RetryInv, OneWriter
    <3> QED
      BY <2>2, <3>2 DEF Lands
  <2> QED
    BY <2>1, <2>2
<1> QED
  BY <1>2, <1>3 DEF RetryInv, RetryOverwritesNothing

\* "A retried write is idempotent", for any number of tasks and tries: the
\* register a write finds is the one it was made on or holds its own value.
THEOREM RetriesAreIdempotent == Spec => []RetryOverwritesNothing
<1>1. Init => RetryInv
  BY DEF Init, RetryInv, OneWriter, RetryOverwritesNothing, Writing
<1>2. UnitTypeOK /\ RetryInv /\ [Next]_vars => RetryInv'
  <2> SUFFICES ASSUME UnitTypeOK, RetryInv, [Next]_vars PROVE RetryInv'
    OBVIOUS
  <2>1. CASE UNCHANGED vars
    BY <2>1 DEF vars, RetryInv, OneWriter, RetryOverwritesNothing, Writing
  <2>2. ASSUME NEW t \in Tasks, Request(t) PROVE RetryInv'
    <3>1. \A u \in Tasks : u # t => (Writing(u)' <=> Writing(u))
      BY <2>2 DEF Request, UnitTypeOK, Writing
    <3>2. Writing(t)' => \A u \in Tasks : ~Writing(u)
      BY <2>2 DEF Request, UnitTypeOK, Writing, MayWrite
    <3>3. OneWriter'
      BY <3>1, <3>2 DEF RetryInv, OneWriter
    <3>4. before'[t] = register'
      BY <2>2 DEF Request, UnitTypeOK
    <3>5. \A u \in Tasks : u # t => before'[u] = before[u] /\ value'[u] = value[u]
      BY <2>2 DEF Request, UnitTypeOK
    <3>6. register' = register
      BY <2>2 DEF Request
    <3> QED
      BY <3>1, <3>3, <3>4, <3>5, <3>6 DEF RetryInv, RetryOverwritesNothing
  <2>3. ASSUME NEW t \in Tasks, Answered(t) PROVE RetryInv'
    BY <2>3, StepKeepsRetryInv DEF Answered, UnitTypeOK
  <2>4. ASSUME NEW t \in Tasks, Fails(t) PROVE RetryInv'
    BY <2>4, StepKeepsRetryInv DEF Fails, Raised, UnitTypeOK
  <2>5. ASSUME NEW t \in Tasks, TryAgain(t) PROVE RetryInv'
    BY <2>5, StepKeepsRetryInv DEF TryAgain, UnitTypeOK
  <2>6. ASSUME NEW t \in Tasks, Cancelled(t) PROVE RetryInv'
    BY <2>6, StepKeepsRetryInv DEF Cancelled, UnitTypeOK
  <2> QED
    BY <2>1, <2>2, <2>3, <2>4, <2>5, <2>6 DEF Next, Progress
<1>3. RetryInv => RetryOverwritesNothing
  BY DEF RetryInv
<1> QED
  BY <1>1, <1>2, <1>3, UnitTypes, PTL DEF Spec

-----------------------------------------------------------------------------

\* The place of a request in Exchange.
Place == [t \in Tasks |-> IF stage[t] \in Running THEN "open" ELSE stage[t]]

USE DEF Exchange!Closed

\* A step of one request that leaves the others alone moves only its place.
LEMMA PlaceMoves ==
    ASSUME UnitTypeOK, NEW t \in Tasks, NEW s \in Running \cup Ended,
           stage' = [stage EXCEPT ![t] = s]
    PROVE  Place' = [Place EXCEPT ![t] = IF s \in Running THEN "open" ELSE s]
BY DEF UnitTypeOK, Place

\* However often a request is tried, its users see one exchange: an answer means
\* the value was taken, and nothing lands before a request is made or after it
\* has ended.
THEOREM RetryingUnitIsOneExchange == Spec => ImplementsExchange
<1>1. Init => Exchange!Init
  BY DEF Init, Exchange!Init
<1>2. UnitTypeOK /\ [Next]_vars => [Exchange!Next]_(Exchange!vars)
  <2> SUFFICES ASSUME UnitTypeOK, [Next]_vars
               PROVE  Exchange!Next \/ UNCHANGED <<register, value, Place>>
    BY DEF Exchange!vars, Place
  <2>w. \A t \in Tasks : Writing(t) <=> Exchange!Writing(t)
    BY DEF Writing, Exchange!Writing, UnitTypeOK
  <2>1. CASE UNCHANGED vars
    BY <2>1 DEF vars, Place
  <2>2. ASSUME NEW t \in Tasks, Request(t) PROVE Exchange!Next
    <3>1. Place' = [Place EXCEPT ![t] = "open"]
      BY <2>2, PlaceMoves DEF Request
    <3>2. Exchange!Open(t)
      BY <2>2, <2>w, <3>1 DEF Request, MayWrite, Exchange!Open, Place
    <3> QED
      BY <3>2 DEF Exchange!Next
  <2>3. ASSUME NEW t \in Tasks, Answered(t) PROVE Exchange!Next
    <3>1. Place' = [Place EXCEPT ![t] = "answered"]
      BY <2>3, PlaceMoves DEF Answered
    <3>2. Exchange!Close(t)
      BY <2>3, <3>1 DEF Answered, Lands, Exchange!Close, Exchange!Taken, Exchange!Writing, Place
    <3> QED
      BY <3>2 DEF Exchange!Next
  <2>4. ASSUME NEW t \in Tasks, Fails(t)
        PROVE  Exchange!Next \/ UNCHANGED <<register, value, Place>>
    <3>1. PICK failure \in Failures :
             /\ UNCHANGED register \/ Lands(t)
             /\ stage' = [stage EXCEPT ![t] =
                             IF Repeats(t, failure) THEN "pausing" ELSE Raised(failure)]
      BY <2>4 DEF Fails
    <3>2. CASE Repeats(t, failure)
      <4>1. Place' = [Place EXCEPT ![t] = "open"]
        BY <3>1, <3>2, PlaceMoves
      <4>2. Place[t] = "open" /\ Place' = Place
        BY <2>4, <4>1 DEF Fails, Place
      <4>3. CASE Lands(t)
        BY <2>4, <4>2, <4>3 DEF Fails, Lands, Exchange!Next, Exchange!Take, Exchange!Taken,
                               Exchange!Writing, Place
      <4> QED
        BY <2>4, <3>1, <4>2, <4>3 DEF Fails
    <3>3. CASE ~Repeats(t, failure)
      <4>1. Place' = [Place EXCEPT ![t] = Raised(failure)]
        BY <3>1, <3>3, PlaceMoves DEF Raised
      <4>2. Exchange!Close(t)
        BY <2>4, <3>1, <4>1 DEF Fails, Raised, Lands, Exchange!Close, Exchange!Taken,
                               Exchange!Writing, Place
      <4> QED
        BY <4>2 DEF Exchange!Next
    <3> QED
      BY <3>2, <3>3
  <2>5. ASSUME NEW t \in Tasks, TryAgain(t) PROVE UNCHANGED <<register, value, Place>>
    BY <2>5 DEF TryAgain, Place, UnitTypeOK
  <2>6. ASSUME NEW t \in Tasks, Cancelled(t) PROVE Exchange!Next
    <3>1. Place' = [Place EXCEPT ![t] = "cancelled"]
      BY <2>6, PlaceMoves DEF Cancelled
    <3>2. Exchange!Close(t)
      BY <2>6, <3>1 DEF Cancelled, Lands, Exchange!Close, Exchange!Taken, Exchange!Writing, Place
    <3> QED
      BY <3>2 DEF Exchange!Next
  <2> QED
    BY <2>1, <2>2, <2>3, <2>4, <2>5, <2>6 DEF Next, Progress
<1> QED
  BY <1>1, <1>2, UnitTypes, PTL DEF Spec, ImplementsExchange, Exchange!Spec
=============================================================================
