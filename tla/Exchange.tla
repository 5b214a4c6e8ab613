------------------------------- MODULE Exchange -------------------------------
(***************************************************************************)
(* What BatteryControl and RawWrite take a request to the inverter to be:  *)
(* it is open for a while, and closes answered, refused or unanswered.  An *)
(* answered write has been taken; any other write may have been, once or   *)
(* several times, at any moment while it was open and at none after.       *)
(*                                                                         *)
(* Writes are serialised by the control lock; reads are not.               *)
(***************************************************************************)
CONSTANTS
    Tasks,    \* the tasks that make requests
    Values,   \* what they write
    None      \* the value of a read

VARIABLES
    register,  \* the register written
    value,     \* what each task writes, or None when it reads
    place      \* "idle", "open", or how each task's last request closed

vars == <<register, value, place>>

Closed  == {"idle", "answered", "refused", "unanswered", "cancelled"}
Writing(t) == place[t] = "open" /\ value[t] # None

Init ==
    /\ register \in Values
    /\ value = [t \in Tasks |-> None]
    /\ place = [t \in Tasks |-> "idle"]

Open(t) ==
    /\ place[t] \in Closed
    /\ place' = [place EXCEPT ![t] = "open"]
    /\ \E v \in Values \cup {None} :
        /\ v # None => \A u \in Tasks : ~Writing(u)
        /\ value' = [value EXCEPT ![t] = v]
    /\ UNCHANGED register

Taken(t) == Writing(t) /\ register' = value[t]

Take(t) == Taken(t) /\ UNCHANGED <<value, place>>

Close(t) ==
    /\ place[t] = "open"
    /\ \E outcome \in Closed \ {"idle"} :
        /\ place' = [place EXCEPT ![t] = outcome]
        /\ \/ Taken(t)
           \/ (outcome = "answered" => value[t] = None) /\ UNCHANGED register
    /\ UNCHANGED value

Next == \E t \in Tasks : Open(t) \/ Take(t) \/ Close(t)

Spec == Init /\ [][Next]_vars
=============================================================================
