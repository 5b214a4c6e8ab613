----------------------------- MODULE RetryingUnit -----------------------------
(***************************************************************************)
(* RetryingUnit (sungrow_inverter/retry.py): every register request to the *)
(* inverter is repeated, after a pause, while it fails in a way the policy *)
(* takes for transient.  A pause is an await: other tasks' requests go out *)
(* between the tries of one.                                               *)
(*                                                                         *)
(* A try that gets no answer, or an answer from a gateway that could not   *)
(* deliver it, may have written all the same.                              *)
(***************************************************************************)
EXTENDS Naturals

CONSTANTS
    Tasks,          \* the tasks that make requests
    Values,         \* what they write
    None,           \* the value of a read
    Attempts,       \* RetryPolicy.attempts
    RetryTimeouts   \* RetryPolicy.retry_timeouts

ASSUME PolicyAssumption == Attempts \in Nat \ {0} /\ RetryTimeouts \in BOOLEAN

ASSUME ValueAssumption == None \notin Values

VARIABLES
    register,  \* the register written
    value,     \* what each task writes, or None when it reads
    stage,     \* "trying", "pausing", or how each task's last request ended
    attempt,   \* the number of the current try
    before     \* history: the register when each task's request was made

vars == <<register, value, stage, attempt, before>>

Running == {"trying", "pausing"}
Ended   == {"idle", "answered", "refused", "unanswered", "cancelled"}

\* A code in retry_codes, any other exception code, no answer, no link.
Failures == {"transient", "permanent", "timeout", "lost"}

Init ==
    /\ register \in Values
    /\ value = [t \in Tasks |-> None]
    /\ stage = [t \in Tasks |-> "idle"]
    /\ attempt = [t \in Tasks |-> 1]
    /\ before = [t \in Tasks |-> register]

Writing(t) == stage[t] \in Running /\ value[t] # None

\* Mutant of MayWrite: a write does not wait for the lock.
WriteAtOnce(t) == TRUE

\* A write is made under the control lock.
MayWrite(t) == \A u \in Tasks : ~Writing(u)

\* A register request: read_* or write_*.
Request(t) ==
    /\ stage[t] \in Ended
    /\ \E v \in Values \cup {None} :
        /\ v # None => MayWrite(t)
        /\ value' = [value EXCEPT ![t] = v]
    /\ stage' = [stage EXCEPT ![t] = "trying"]
    /\ attempt' = [attempt EXCEPT ![t] = 1]
    /\ before' = [before EXCEPT ![t] = register]
    /\ UNCHANGED register

Lands(t) == value[t] # None /\ register' = value[t]

Answered(t) ==
    /\ stage[t] = "trying"
    /\ Lands(t) \/ (value[t] = None /\ UNCHANGED register)
    /\ stage' = [stage EXCEPT ![t] = "answered"]
    /\ UNCHANGED <<value, attempt, before>>

\* RetryPolicy.should_retry.
ShouldRetry(failure) ==
    \/ failure = "transient"
    \/ failure = "timeout" /\ RetryTimeouts

\* Mutant of Repeats: the last try is repeated as well.
RepeatsForEver(t, failure) == ShouldRetry(failure)

Repeats(t, failure) == attempt[t] # Attempts /\ ShouldRetry(failure)

\* Mutant of Raised: the last failure is swallowed.
RaisedNothing(failure) == "answered"

\* The error that is raised tells a refusal from a missing answer, nothing more.
Raised(failure) == IF failure \in {"transient", "permanent"} THEN "refused" ELSE "unanswered"

Fails(t) ==
    /\ stage[t] = "trying"
    /\ \E failure \in Failures :
        /\ UNCHANGED register \/ (failure # "permanent" /\ Lands(t))
        /\ stage' = [stage EXCEPT ![t] =
                        IF Repeats(t, failure) THEN "pausing" ELSE Raised(failure)]
    /\ UNCHANGED <<value, attempt, before>>

\* Mutant of TryAgain: the tries are not counted.
TryAgainUncounted(t) ==
    /\ stage[t] = "pausing"
    /\ stage' = [stage EXCEPT ![t] = "trying"]
    /\ UNCHANGED <<register, value, attempt, before>>

TryAgain(t) ==
    /\ stage[t] = "pausing"
    /\ stage' = [stage EXCEPT ![t] = "trying"]
    /\ attempt' = [attempt EXCEPT ![t] = @ + 1]
    /\ UNCHANGED <<register, value, before>>

\* The caller is cancelled, in a try or between two.
Cancelled(t) ==
    /\ stage[t] \in Running
    /\ UNCHANGED register \/ (stage[t] = "trying" /\ Lands(t))
    /\ stage' = [stage EXCEPT ![t] = "cancelled"]
    /\ UNCHANGED <<value, attempt, before>>

Progress(t) == Answered(t) \/ Fails(t) \/ TryAgain(t)

Next == \E t \in Tasks : Request(t) \/ Progress(t) \/ Cancelled(t)

Spec == Init /\ [][Next]_vars

\* A try ends in an answer, an error or a timeout, and a pause in the next try.
FairSpec == Spec /\ \A t \in Tasks : WF_vars(Progress(t))

(***************************************************************************)
(* Properties.                                                             *)
(***************************************************************************)

\* Types, the bound on the tries, and a pause only while one is left.
UnitTypeOK ==
    /\ register \in Values
    /\ value \in [Tasks -> Values \cup {None}]
    /\ stage \in [Tasks -> Running \cup Ended]
    /\ attempt \in [Tasks -> 1..Attempts]
    /\ before \in [Tasks -> Values]
    /\ \A t \in Tasks : stage[t] = "pausing" => attempt[t] < Attempts

\* "A retried write is idempotent": whatever its earlier tries did, a repeated
\* write finds the register as it was or as it writes it, so it overwrites
\* nothing another task wrote in its pauses.
RetryOverwritesNothing ==
    \A t \in Tasks : Writing(t) => register \in {before[t], value[t]}

\* Every request ends, by an answer or an error.
RequestsEnd == \A t \in Tasks : stage[t] \in Running ~> stage[t] \in Ended

\* Seen from outside, the tries and pauses of a request are one exchange.
Exchange ==
    INSTANCE Exchange WITH
        place <- [t \in Tasks |-> IF stage[t] \in Running THEN "open" ELSE stage[t]]

ImplementsExchange == Exchange!Spec
=============================================================================
