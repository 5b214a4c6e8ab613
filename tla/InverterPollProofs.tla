-------------------------- MODULE InverterPollProofs --------------------------
(***************************************************************************)
(* Theorems about InverterPoll, for every device, every component list and *)
(* any number of faults.                                                   *)
(***************************************************************************)
EXTENDS InverterPoll, SequenceTheorems, WellFoundedInduction, TLAPS

\* The count of timeouts and the polls that showed nothing.
CountInv ==
    /\ timeouts \in 0..(STUCK_LINK_TIMEOUTS - 1)
    /\ silent \in 0..STUCK_LINK_TIMEOUTS
    /\ OnlySilenceCounts

LEMMA InitCounts == Init => CountInv
BY DEF Init, CountInv, OnlySilenceCounts, STUCK_LINK_TIMEOUTS

LEMMA NotReadyCounts == NotReady => CountInv'
BY DEF NotReady, CountInv, OnlySilenceCounts, STUCK_LINK_TIMEOUTS

\* A poll that shows nothing is silent at least as often as it is counted.
LEMMA UnavailableCounts ==
    ASSUME CountInv, NEW t \in Tasks, NEW count,
           count \in {timeouts, 0} \/ (t = "realtime" /\ count = timeouts + 1 /\ ~Drops(t)),
           Unavailable(t, count)
    PROVE  CountInv'
<1>1. silent' \in 0..STUCK_LINK_TIMEOUTS /\ silent' >= silent
  BY DEF Unavailable, Silence, CountInv, STUCK_LINK_TIMEOUTS
<1>2. CASE count \in {timeouts, 0}
  BY <1>1, <1>2 DEF Unavailable, CountInv, OnlySilenceCounts, STUCK_LINK_TIMEOUTS
<1>3. CASE t = "realtime" /\ count = timeouts + 1 /\ ~Drops(t)
  <2>1. timeouts + 1 < STUCK_LINK_TIMEOUTS
    BY <1>3 DEF Drops, Counted, CountInv, STUCK_LINK_TIMEOUTS
  <2>2. silent' = silent + 1 \/ silent' = STUCK_LINK_TIMEOUTS
    BY <1>3 DEF Unavailable, Silence, CountInv, STUCK_LINK_TIMEOUTS
  <2> QED
    BY <1>1, <1>3, <2>1, <2>2
       DEF Unavailable, CountInv, OnlySilenceCounts, STUCK_LINK_TIMEOUTS
<1> QED
  BY <1>2, <1>3

LEMMA UnchangedCounts == CountInv /\ UNCHANGED <<timeouts, silent>> => CountInv'
BY DEF CountInv, OnlySilenceCounts

LEMMA RaisedCounts ==
    ASSUME CountInv, NEW t \in Tasks, NEW lost, Raised(t, lost)
    PROVE  CountInv'
<1>1. CASE t = "dump"
  BY <1>1, UnchangedCounts DEF Raised, entryVars
<1>2. CASE t # "dump" /\ entry = "loaded"
  <2> DEFINE count == IF Drops(t) THEN 0 ELSE Counted(t)
  <2>1. Unavailable(t, count)
    BY <1>2 DEF Raised
  <2>2. count \in {timeouts, 0} \/ (t = "realtime" /\ count = timeouts + 1 /\ ~Drops(t))
    BY DEF Counted
  <2> HIDE DEF count
  <2> QED
    BY <2>1, <2>2, UnavailableCounts
<1>3. CASE t # "dump" /\ entry # "loaded"
  BY <1>3, NotReadyCounts DEF Raised
<1> QED
  BY <1>1, <1>2, <1>3

LEMMA ReportCounts ==
    ASSUME CountInv, NEW t \in Tasks, NEW names, Report(t, names)
    PROVE  CountInv'
<1>1. CASE t = "dump"
  BY <1>1, UnchangedCounts DEF Report, entryVars, Polls
<1>2. CASE t \in Polls /\ names = {}
  <2>1. Heard(t) \in {timeouts, 0}
    BY DEF Heard
  <2> QED
    BY <1>2, <2>1, UnavailableCounts, NotReadyCounts DEF Report, Polls
<1>3. CASE t \in Polls /\ names # {}
  <2>1. /\ timeouts' = IF t = "realtime" THEN 0 ELSE timeouts
        /\ silent' = IF t = "realtime" THEN 0 ELSE silent
    BY <1>3 DEF Report, Polls, Heard
  <2> QED
    BY <2>1 DEF CountInv, OnlySilenceCounts, STUCK_LINK_TIMEOUTS
<1> QED
  BY <1>1, <1>2, <1>3 DEF Tasks

LEMMA ProceedCounts ==
    ASSUME CountInv, NEW t \in Tasks, NEW names, Proceed(t, names)
    PROVE  CountInv'
BY ReportCounts, UnchangedCounts DEF Proceed, entryVars

LEMMA NextCounts == CountInv /\ [Next]_vars => CountInv'
<1> SUFFICES ASSUME CountInv, [Next]_vars PROVE CountInv'
  OBVIOUS
<1>1. ASSUME NEW t \in Tasks, Outcome(t) PROVE CountInv'
  <2>1. CASE Narrow(t)
    BY <2>1, UnchangedCounts DEF Narrow, entryVars
  <2>2. CASE \/ PollAnswered(t) \/ PollRefused(t) \/ PollBusy(t)
             \/ PollTimedOut(t) \/ ConnectionLost(t)
    BY <2>2, ProceedCounts, RaisedCounts
       DEF PollAnswered, PollRefused, PollBusy, PollTimedOut, ConnectionLost
  <2> QED
    BY <1>1, <2>1, <2>2 DEF Outcome
<1>2. CASE SetupOutcome
  <2>1. ASSUME NEW have, Settle(have) PROVE CountInv'
    BY <2>1, UnchangedCounts DEF Settle, entryVars
  <2>2. CASE Unsupported
    BY <2>2, UnchangedCounts DEF Unsupported
  <2> QED
    BY <1>2, <2>1, <2>2, NotReadyCounts
       DEF SetupOutcome, SetupAnswered, SetupRefused, SetupUnread, SetupFails
<1>3. CASE BeginSetup \/ BeginPoll \/ BeginDump \/ SkipPoll \/ LinkSticks \/ UNCHANGED vars
  BY <1>3, UnchangedCounts
     DEF BeginSetup, BeginPoll, BeginDump, Begin, SkipPoll, LinkSticks, vars, entryVars
<1> QED
  BY <1>1, <1>2, <1>3 DEF Next

\* However the polls, the setup and the dump interleave, and whatever times out
\* among them, the link is dropped for realtime polls in a row that showed nothing.
THEOREM SilenceIsCounted == Spec => []OnlySilenceCounts
<1>1. CountInv => OnlySilenceCounts
  BY DEF CountInv
<1> QED
  BY <1>1, InitCounts, NextCounts, PTL DEF Spec

(***************************************************************************)
(* Blocks are read in order, so a task that reads is at one of its own.    *)
(***************************************************************************)
LEMMA LeastOf ==
    ASSUME NEW S \in SUBSET Nat, S # {}
    PROVE  \E x \in S : \A y \in S : x <= y
<1> DEFINE R == {pair \in Nat \X Nat : pair[1] < pair[2]}
<1>1. IsWellFoundedOn(R, Nat)
  BY NatLessThanWellFounded DEF OpToRel
<1> HIDE DEF R
<1>2. PICK x \in S : \A y \in S : <<y, x>> \notin R
  BY <1>1, WFMin
<1>3. \A y \in S : ~(y < x)
  BY <1>2 DEF R
<1> QED
  BY <1>3

LEMMA OrderIsFull ==
    /\ DOMAIN Order \in SUBSET (Nat \ {0})
    /\ \A k \in Blocks : \E i \in DOMAIN Order : Order[i] = k
    /\ 1 \in DOMAIN Order /\ Order[1] = "identity"
<1> DEFINE setup == <<"identity", "ratings", "firmware">>
           all   == SetupBlocks \cup ToSet(Realtime) \cup ToSet(Slow)
<1>1. /\ Realtime \in Seq(all) /\ Len(Realtime) \in Nat /\ DOMAIN Realtime = 1..Len(Realtime)
      /\ Slow \in Seq(all) /\ Len(Slow) \in Nat /\ DOMAIN Slow = 1..Len(Slow)
      /\ setup \in Seq(all) /\ Len(setup) = 3
      /\ setup[1] = "identity" /\ setup[2] = "ratings" /\ setup[3] = "firmware"
  BY DeviceAssumption DEF ToSet, SetupBlocks
<1> HIDE DEF setup, all
<1> DEFINE polled == setup \o Realtime
<1>2. /\ polled \in Seq(all) /\ Len(polled) = 3 + Len(Realtime)
      /\ \A i \in 1..3 : polled[i] = setup[i]
      /\ \A i \in 1..Len(Realtime) : polled[3 + i] = Realtime[i]
  <2>1. /\ polled \in Seq(all) /\ Len(polled) = Len(setup) + Len(Realtime)
        /\ \A i \in 1..Len(setup) + Len(Realtime) :
              polled[i] = IF i <= Len(setup) THEN setup[i] ELSE Realtime[i - Len(setup)]
    BY <1>1, ConcatProperties
  <2> QED
    BY <1>1, <2>1
<1> HIDE DEF polled
<1> DEFINE full == polled \o Slow
<1>3. /\ Len(full) = 3 + Len(Realtime) + Len(Slow)
      /\ DOMAIN full = 1..Len(full)
      /\ \A i \in 1..(3 + Len(Realtime)) : full[i] = polled[i]
      /\ \A i \in 1..Len(Slow) : full[3 + Len(Realtime) + i] = Slow[i]
  <2>1. /\ full \in Seq(all) /\ Len(full) = Len(polled) + Len(Slow)
        /\ \A i \in 1..Len(polled) + Len(Slow) :
              full[i] = IF i <= Len(polled) THEN polled[i] ELSE Slow[i - Len(polled)]
    <3>1. polled \in Seq(all) /\ Slow \in Seq(all)
      BY <1>1, <1>2
    <3> QED
      BY ONLY <3>1, ConcatProperties
  <2> HIDE DEF full
  <2>2. /\ Len(full) = 3 + Len(Realtime) + Len(Slow)
        /\ DOMAIN full = 1..Len(full)
    BY <1>1, <1>2, <2>1
  <2>3. ASSUME NEW i \in 1..(3 + Len(Realtime)) PROVE full[i] = polled[i]
    BY <1>1, <1>2, <2>1
  <2>4. ASSUME NEW i \in 1..Len(Slow) PROVE full[3 + Len(Realtime) + i] = Slow[i]
    <3> DEFINE n == 3 + Len(Realtime) + i
    <3>1. n \in 1..Len(polled) + Len(Slow) /\ ~(n <= Len(polled)) /\ n - Len(polled) = i
      BY <1>1, <1>2
    <3> HIDE DEF n
    <3>2. full[n] = Slow[i]
      BY <2>1, <3>1
    <3> QED
      BY <3>2 DEF n
  <2> QED
    BY <2>2, <2>3, <2>4
<1>4. Order = full
  BY DEF Order, polled, setup
<1> HIDE DEF full
<1>5. /\ DOMAIN Order = 1..(3 + Len(Realtime) + Len(Slow))
      /\ Order[1] = "identity" /\ Order[2] = "ratings" /\ Order[3] = "firmware"
      /\ \A i \in 1..Len(Realtime) : Order[3 + i] = Realtime[i]
      /\ \A i \in 1..Len(Slow) : Order[3 + Len(Realtime) + i] = Slow[i]
  BY <1>1, <1>2, <1>3, <1>4
<1>6. ASSUME NEW k \in Blocks PROVE \E i \in DOMAIN Order : Order[i] = k
  <2>1. CASE k \in SetupBlocks
    <3>1. 1 \in DOMAIN Order /\ 2 \in DOMAIN Order /\ 3 \in DOMAIN Order
      BY <1>1, <1>5
    <3> QED
      BY <1>5, <2>1, <3>1 DEF SetupBlocks
  <2>2. CASE k \in ToSet(Realtime)
    <3>1. PICK i \in 1..Len(Realtime) : Realtime[i] = k
      BY <1>1, <2>2 DEF ToSet
    <3>2. 3 + i \in DOMAIN Order /\ Order[3 + i] = k
      BY <1>1, <1>5, <3>1
    <3> QED
      BY <3>2
  <2>3. CASE k \in ToSet(Slow)
    <3>1. PICK i \in 1..Len(Slow) : Slow[i] = k
      BY <1>1, <2>3 DEF ToSet
    <3>2. 3 + Len(Realtime) + i \in DOMAIN Order /\ Order[3 + Len(Realtime) + i] = k
      BY <1>1, <1>5, <3>1
    <3> QED
      BY <3>2
  <2> QED
    BY <2>1, <2>2, <2>3 DEF Blocks
<1> QED
  BY <1>1, <1>5, <1>6

LEMMA ForemostIsIn ==
    ASSUME NEW ks \in SUBSET Blocks, ks # {}
    PROVE  /\ Foremost(ks) \in ks
           /\ "identity" \in ks => Foremost(ks) = "identity"
<1> DEFINE places  == {i \in DOMAIN Order : Order[i] \in ks}
           IsFirst(k) == \E i \in DOMAIN Order :
                            Order[i] = k /\ \A j \in DOMAIN Order : Order[j] \in ks => i <= j
<1>1. places \in SUBSET Nat /\ places # {}
  BY OrderIsFull
<1>2. PICK x \in places : \A y \in places : x <= y
  BY <1>1, LeastOf
<1>3. Order[x] \in ks /\ IsFirst(Order[x])
  BY <1>2
<1>4. Foremost(ks) = CHOOSE k \in ks : IsFirst(k)
  BY DEF Foremost
<1> HIDE DEF IsFirst
<1>5. Foremost(ks) \in ks /\ IsFirst(Foremost(ks))
  BY <1>3, <1>4
<1>6. ASSUME "identity" \in ks PROVE Foremost(ks) = "identity"
  <2>1. PICK i \in DOMAIN Order :
          Order[i] = Foremost(ks) /\ \A j \in DOMAIN Order : Order[j] \in ks => i <= j
    BY <1>5 DEF IsFirst
  <2>2. i <= 1 /\ i \in Nat \ {0}
    BY <1>6, <2>1, OrderIsFull
  <2> QED
    BY <2>1, <2>2, OrderIsFull
<1> QED
  BY <1>5, <1>6

(***************************************************************************)
(* Whose turn it is, what the reports hold and what setup has found.       *)
(***************************************************************************)
TypesInv ==
    /\ served \in Devices
    /\ link \in {"up", "stuck"}
    /\ present \in SUBSET Blocks /\ "identity" \in present
    /\ narrowed \in SUBSET Blocks
    /\ setUp \in BOOLEAN
    /\ entry \in {"realtime", "settings", "loaded", "error"}
    /\ todo \in [Tasks -> SUBSET Blocks]
    /\ asked \in [Tasks -> {"merged", "narrow", "cut"}]
    /\ updated \in [Tasks -> SUBSET Blocks]
    /\ DOMAIN data = Polls
    /\ success \in [Polls -> BOOLEAN]

\* Until the entry is loaded only the first refresh it is at may read, and setup is
\* the realtime one's.
TurnsInv ==
    /\ \A t \in Tasks : Reads(t) => entry \in {t, "loaded"}
    /\ setUp \/ entry \in {"realtime", "error"}
    /\ entry = "error" => ~setUp
    /\ Idle("settings") \/ Idle("dump")

\* A poll has each of its blocks still to read, or done with.
ReportsInv ==
    /\ \A t \in Tasks :
        /\ updated[t] \cap todo[t] = {}
        /\ Idle(t) => updated[t] = {}
        /\ setUp => todo[t] \cup updated[t] \subseteq present
        /\ ~setUp => updated[t] = {}
    /\ \A c \in Polls :
        /\ data[c] = None \/ (setUp /\ data[c] \subseteq present)
        /\ success[c] => data[c] # None
        /\ entry \in {"loaded"} \cup (IF c = "realtime" THEN {"settings"} ELSE {})
           => data[c] # None

\* What was dropped is not served; what setup has read and kept is.  While it reads,
\* a block is asked for on the map it is planned on, so that a refusal means what it
\* says.
FoundInv ==
    /\ \A k \in Droppable \ present : ~Serving(k)
    /\ setUp => \A k \in Droppable \cap present : Serving(k)
    /\ ~setUp /\ Reads("realtime") =>
        /\ \A k \in Droppable \cap present : k \in todo["realtime"] \/ Serving(k)
        /\ \/ asked["realtime"] = "cut"
           \/ asked["realtime"] = IF Block("realtime") \in narrowed THEN "narrow" ELSE "merged"

PollInv == TypesInv /\ TurnsInv /\ ReportsInv /\ FoundInv

LEMMA TasksAre ==
    /\ "realtime" \in Polls /\ "settings" \in Polls /\ "dump" \notin Polls
    /\ Polls \subseteq Tasks /\ "dump" \in Tasks
    /\ \A t \in Tasks : t \in Polls \/ t = "dump"
    /\ \A c \in Polls : c = "realtime" \/ c = "settings"
BY DEF Polls, Tasks

LEMMA BlocksAre ==
    /\ {"identity", "ratings", "firmware"} \subseteq Blocks /\ Optional \subseteq Blocks
    /\ Droppable \subseteq Blocks /\ "identity" \in Blocks
    /\ \A t, have : Names(t, have) \subseteq have
BY DeviceAssumption DEF Blocks, SetupBlocks, Droppable, Names

LEMMA TaskIsAt ==
    ASSUME TypesInv, NEW t \in Tasks, Reads(t)
    PROVE  Block(t) \in todo[t] /\ Block(t) \in Blocks
BY ForemostIsIn DEF TypesInv, Reads, Idle, Block

LEMMA InitPoll == Init => PollInv
<1> SUFFICES ASSUME Init PROVE PollInv
  OBVIOUS
<1>1. TypesInv
  BY BlocksAre DEF Init, TypesInv
<1>2. TurnsInv
  BY TasksAre DEF Init, TurnsInv, Reads, Idle
<1>3. ReportsInv
  BY DEF Init, ReportsInv
<1>4. FoundInv
  BY TasksAre, BlocksAre DEF Init, FoundInv, Reads, Idle
<1> QED
  BY <1>1, <1>2, <1>3, <1>4 DEF PollInv

LEMMA UnchangedPoll == PollInv /\ UNCHANGED vars => PollInv'
BY DEF PollInv, TypesInv, TurnsInv, ReportsInv, FoundInv, vars, deviceVars, objectVars, entryVars,
       taskVars, Reads, Idle, Serving, Block

(***************************************************************************)
(* The end of a task's reads.                                              *)
(***************************************************************************)
LEMMA StopIs ==
    ASSUME TypesInv, NEW t \in Tasks,
           NEW others \in [Tasks -> {"merged", "narrow", "cut"}], Stop(t, others)
    PROVE  /\ todo' \in [Tasks -> SUBSET Blocks] /\ updated' \in [Tasks -> SUBSET Blocks]
           /\ asked' \in [Tasks -> {"merged", "narrow", "cut"}]
           /\ todo'[t] = {} /\ updated'[t] = {}
           /\ \A u \in Tasks \ {t} : todo'[u] = todo[u] /\ updated'[u] = updated[u]
BY DEF Stop, TypesInv

\* A task that ends and leaves everything else as it was, but for the report of a poll.
LEMMA EndKeeps ==
    ASSUME PollInv, NEW t \in Tasks, Reads(t), setUp,
           NEW others \in [Tasks -> {"merged", "narrow", "cut"}], Stop(t, others),
           link' \in {"up", "stuck"}, UNCHANGED <<served, objectVars>>,
           \/ UNCHANGED <<entry, data, success>>
           \/ /\ t \in Polls /\ UNCHANGED <<entry, data>>
              /\ success' = [success EXCEPT ![t] = FALSE]
    PROVE  PollInv'
<1> USE DEF PollInv, objectVars
<1>1. /\ todo' \in [Tasks -> SUBSET Blocks] /\ updated' \in [Tasks -> SUBSET Blocks]
      /\ asked' \in [Tasks -> {"merged", "narrow", "cut"}]
      /\ todo'[t] = {} /\ updated'[t] = {}
      /\ \A u \in Tasks \ {t} : todo'[u] = todo[u] /\ updated'[u] = updated[u]
  BY StopIs
<1>2. \A c \in Polls : success'[c] => success[c]
  BY DEF TypesInv
<1>3. TypesInv'
  BY <1>1 DEF TypesInv
<1>4. TurnsInv'
  BY <1>1, TasksAre DEF TurnsInv, Reads, Idle
<1>5. ReportsInv'
  BY <1>1, <1>2 DEF ReportsInv, Idle
<1>6. FoundInv'
  BY DEF FoundInv, Serving
<1> QED
  BY <1>3, <1>4, <1>5, <1>6

\* A set-up of the entry that is not ready starts again, with what there is or afresh.
LEMMA NotReadyKeeps ==
    ASSUME PollInv, NEW t \in Polls, Reads(t), entry # "loaded", NotReady,
           Stop(t, asked), UNCHANGED served
    PROVE  PollInv'
<1> USE DEF PollInv, objectVars
<1>1. /\ todo' \in [Tasks -> SUBSET Blocks] /\ updated' \in [Tasks -> SUBSET Blocks]
      /\ asked' \in [Tasks -> {"merged", "narrow", "cut"}]
      /\ todo'[t] = {} /\ updated'[t] = {}
      /\ \A u \in Tasks \ {t} : todo'[u] = todo[u] /\ updated'[u] = updated[u]
  BY StopIs, TasksAre DEF TypesInv
<1>2. \A u \in Tasks : todo'[u] = {} /\ updated'[u] = {}
  <2>1. entry = t
    BY TasksAre DEF TurnsInv
  <2>2. \A u \in Tasks \ {t} : Idle(u)
    BY <2>1 DEF TurnsInv, Reads
  <2> QED
    BY <1>1, <2>2 DEF ReportsInv, Idle
<1>3. /\ entry' = "realtime" /\ link' = "up"
      /\ data' = [c \in Polls |-> None] /\ success' = [c \in Polls |-> FALSE]
      /\ \/ present' = Blocks /\ narrowed' = {} /\ setUp' = FALSE
         \/ entry = "realtime" /\ UNCHANGED objectVars
  BY DEF NotReady
<1>4. TypesInv'
  BY <1>1, <1>3, BlocksAre DEF TypesInv
<1>5. TurnsInv'
  BY <1>2, <1>3, TasksAre DEF TurnsInv, Reads, Idle
<1>6. ReportsInv'
  BY <1>2, <1>3 DEF ReportsInv, Idle
<1>7. FoundInv'
  <2>1. ~Reads("realtime")'
    BY <1>2, TasksAre DEF Reads, Idle
  <2> QED
    BY <1>3, <2>1, BlocksAre DEF FoundInv, Serving
<1> QED
  BY <1>4, <1>5, <1>6, <1>7

LEMMA RaisedKeeps ==
    ASSUME PollInv, CountInv, NEW t \in Tasks, Reads(t), NEW lost, Raised(t, lost)
    PROVE  PollInv'
<1> USE DEF PollInv
<1>1. /\ asked \in [Tasks -> {"merged", "narrow", "cut"}]
      /\ Closed(t) \in [Tasks -> {"merged", "narrow", "cut"}]
  BY DEF TypesInv, Closed
<1>2. PICK others \in {asked, Closed(t)} : Stop(t, others) /\ (entry = "loaded" => link' \in {"up", link})
  BY DEF Raised
<1>3. CASE entry = "loaded"
  <2>1. setUp /\ link' \in {"up", "stuck"} /\ served' = served
    BY <1>2, <1>3 DEF TurnsInv, TypesInv, Raised
  <2>2. CASE t = "dump"
    BY <1>1, <1>2, <2>1, <2>2, EndKeeps DEF Raised, entryVars
  <2>3. CASE t # "dump"
    BY <1>1, <1>2, <1>3, <2>1, <2>3, EndKeeps, TasksAre DEF Raised, Unavailable
  <2> QED
    BY <2>2, <2>3
<1>4. CASE entry # "loaded"
  <2>1. entry = t /\ t \in Polls
    BY <1>4, TasksAre DEF TurnsInv, TypesInv
  <2>2. NotReady /\ served' = served
    BY <1>4, <2>1, TasksAre DEF Raised
  <2>3. \A u \in Tasks \ {t} : ~Reads(u)
    BY <1>4, <2>1 DEF TurnsInv
  <2>4. Closed(t) = asked
    BY <2>3, <1>1 DEF Closed
  <2> QED
    BY <1>2, <1>4, <2>1, <2>2, <2>4, NotReadyKeeps
<1> QED
  BY <1>3, <1>4

LEMMA ReportKeeps ==
    ASSUME PollInv, NEW t \in Tasks, Reads(t), setUp, NEW names \in SUBSET present, Report(t, names)
    PROVE  PollInv'
<1> USE DEF PollInv, objectVars
<1>1. Stop(t, asked) /\ served' = served /\ asked \in [Tasks -> {"merged", "narrow", "cut"}]
  BY DEF Report, TypesInv
<1>2. CASE t = "dump" /\ UNCHANGED <<entryVars, objectVars, link>>
  BY <1>1, <1>2, EndKeeps DEF entryVars, TypesInv
<1>3. CASE t \in Polls /\ entry = "loaded" /\ Unavailable(t, Heard(t)) /\ UNCHANGED link
  BY <1>1, <1>3, EndKeeps DEF Unavailable, TypesInv
<1>4. CASE t \in Polls /\ entry # "loaded" /\ NotReady
  BY <1>1, <1>4, NotReadyKeeps
<1>5. CASE /\ t \in Polls /\ names # {}
           /\ data' = [data EXCEPT ![t] = names]
           /\ success' = [success EXCEPT ![t] = TRUE]
           /\ entry' = IF entry = "realtime" THEN "settings" ELSE "loaded"
           /\ UNCHANGED <<objectVars, link>>
  <2>1. /\ todo' \in [Tasks -> SUBSET Blocks] /\ updated' \in [Tasks -> SUBSET Blocks]
        /\ asked' \in [Tasks -> {"merged", "narrow", "cut"}]
        /\ todo'[t] = {} /\ updated'[t] = {}
        /\ \A u \in Tasks \ {t} : todo'[u] = todo[u] /\ updated'[u] = updated[u]
    BY <1>1, StopIs
  <2>2. names # None
    BY DeviceAssumption DEF TypesInv
  <2>3. entry \in {t, "loaded"}
    BY DEF TurnsInv
  <2>4. /\ data'[t] = names /\ success'[t]
        /\ \A c \in Polls \ {t} : data'[c] = data[c] /\ success'[c] = success[c]
    BY <1>5 DEF TypesInv
  <2>5. TypesInv'
    BY <1>1, <1>5, <2>1 DEF TypesInv
  <2>6. TurnsInv'
    <3>1. \A u \in Tasks : Reads(u)' => Reads(u) /\ u # t
      BY <2>1 DEF Reads, Idle
    <3>2. \A u \in Tasks : Reads(u)' => entry = "loaded"
      BY <2>3, <3>1 DEF TurnsInv
    <3>3. entry = "loaded" => entry' = "loaded"
      BY <1>5
    <3> QED
      BY <1>5, <3>1, <3>2, <3>3, TasksAre DEF TurnsInv, Reads
  <2>7. ReportsInv'
    <3>1. \A c \in Polls : success'[c] => data'[c] # None
      BY <2>2, <2>4 DEF ReportsInv
    <3>2. \A c \in Polls : data'[c] = None \/ (setUp' /\ data'[c] \subseteq present')
      BY <1>5, <2>4 DEF ReportsInv
    <3>3. ASSUME NEW c \in Polls,
                 entry' \in {"loaded"} \cup (IF c = "realtime" THEN {"settings"} ELSE {})
          PROVE  data'[c] # None
      BY <1>5, <2>2, <2>3, <2>4, <3>3, TasksAre DEF ReportsInv
    <3> QED
      BY <1>5, <2>1, <3>1, <3>2, <3>3 DEF ReportsInv, Idle
  <2>8. FoundInv'
    BY <1>1, <1>5 DEF FoundInv, Serving
  <2> QED
    BY <2>5, <2>6, <2>7, <2>8
<1> QED
  BY <1>2, <1>3, <1>4, <1>5 DEF Report

LEMMA ReadIs ==
    ASSUME TypesInv, NEW t \in Tasks, NEW ks \in SUBSET Blocks, NEW narrow, Read(t, ks, narrow)
    PROVE  /\ todo' \in [Tasks -> SUBSET Blocks]
           /\ asked' \in [Tasks -> {"merged", "narrow", "cut"}]
           /\ todo'[t] = ks /\ \A u \in Tasks \ {t} : todo'[u] = todo[u]
           /\ asked'[t] = IF Foremost(ks) \in narrow THEN "narrow" ELSE "merged"
           /\ \A u \in Tasks \ {t} : asked'[u] = asked[u]
BY DEF Read, TypesInv

LEMMA ProceedKeeps ==
    ASSUME PollInv, NEW t \in Tasks, Reads(t), setUp,
           NEW names \in {updated[t], updated[t] \cup {Block(t)}}, Proceed(t, names)
    PROVE  PollInv'
<1> USE DEF PollInv, objectVars
<1>1. Block(t) \in todo[t] /\ Block(t) \in Blocks
  BY TaskIsAt
<1>2. names \in SUBSET present
  BY <1>1 DEF ReportsInv
<1>3. CASE Report(t, names)
  BY <1>2, <1>3, ReportKeeps
<1>4. CASE /\ todo[t] # {Block(t)}
           /\ Read(t, todo[t] \ {Block(t)}, narrowed)
           /\ updated' = [updated EXCEPT ![t] = names]
           /\ UNCHANGED <<served, link, entryVars, objectVars>>
  <2> DEFINE rest == todo[t] \ {Block(t)}
  <2>1. rest \in SUBSET Blocks /\ rest # {}
    BY <1>1, <1>4 DEF TypesInv
  <2>2. /\ todo' \in [Tasks -> SUBSET Blocks]
        /\ asked' \in [Tasks -> {"merged", "narrow", "cut"}]
        /\ todo'[t] = rest /\ \A u \in Tasks \ {t} : todo'[u] = todo[u]
    BY <1>4, <2>1, ReadIs
  <2>3. /\ updated' \in [Tasks -> SUBSET Blocks] /\ updated'[t] = names
        /\ \A u \in Tasks \ {t} : updated'[u] = updated[u]
    BY <1>1, <1>4 DEF TypesInv
  <2>4. TypesInv'
    BY <1>4, <2>2, <2>3 DEF TypesInv, entryVars
  <2>5. TurnsInv'
    <3>1. \A u \in Tasks : Reads(u)' <=> Reads(u)
      BY <2>1, <2>2 DEF Reads, Idle
    <3> QED
      BY <1>4, <3>1, TasksAre DEF TurnsInv, Reads, entryVars
  <2>6. ReportsInv'
    BY <1>1, <1>2, <1>4, <2>1, <2>2, <2>3 DEF ReportsInv, Idle, entryVars
  <2>7. FoundInv'
    BY <1>4 DEF FoundInv, Serving
  <2> QED
    BY <2>4, <2>5, <2>6, <2>7
<1> QED
  BY <1>3, <1>4 DEF Proceed

(***************************************************************************)
(* Polls begin, and a map is narrowed.                                     *)
(***************************************************************************)
LEMMA BeginSetupKeeps ==
    ASSUME PollInv, BeginSetup
    PROVE  PollInv'
<1> USE DEF PollInv
<1> DEFINE t == "realtime"
<1>1. /\ ~setUp /\ entry = "realtime" /\ Idle(t) /\ Read(t, SetupNames, narrowed)
      /\ UNCHANGED <<deviceVars, present, setUp, entryVars, updated>>
      /\ narrowed' = narrowed \ {"firmware"} /\ t \in Tasks
  BY TasksAre DEF BeginSetup, Begin
<1>2. /\ SetupNames \in SUBSET Blocks /\ "identity" \in SetupNames
      /\ \A k \in Droppable \cap present : k \in SetupNames
  BY BlocksAre DEF SetupNames, TypesInv, Droppable
<1>3. Foremost(SetupNames) = "identity"
  BY <1>2, ForemostIsIn
<1>4. /\ todo' \in [Tasks -> SUBSET Blocks]
      /\ asked' \in [Tasks -> {"merged", "narrow", "cut"}]
      /\ todo'[t] = SetupNames /\ \A u \in Tasks \ {t} : todo'[u] = todo[u]
      /\ asked'[t] = IF "identity" \in narrowed THEN "narrow" ELSE "merged"
  BY <1>1, <1>2, <1>3, ReadIs
<1>5. TypesInv'
  BY <1>1, <1>4 DEF TypesInv, deviceVars, entryVars
<1>6. TurnsInv'
  BY <1>1, <1>4, TasksAre DEF TurnsInv, Reads, Idle, entryVars
<1>7. ReportsInv'
  BY <1>1, <1>4 DEF ReportsInv, Idle, entryVars
<1>8. FoundInv'
  <2>1. Block(t)' = "identity"
    BY <1>3, <1>4 DEF Block
  <2>2. asked'[t] = IF Block(t)' \in narrowed' THEN "narrow" ELSE "merged"
    BY <1>1, <1>4, <2>1
  <2> QED
    BY <1>1, <1>2, <1>4, <2>2 DEF FoundInv, Serving, deviceVars
<1> QED
  BY <1>5, <1>6, <1>7, <1>8

LEMMA BeginPollKeeps ==
    ASSUME PollInv, NEW t \in Tasks, setUp, Idle(t), entry \in {t, "loaded"},
           t = "settings" => Idle("dump"), t = "dump" => Idle("settings"),
           Read(t, Names(t, present), narrowed),
           UNCHANGED <<deviceVars, present, setUp, entryVars, updated, narrowed>>
    PROVE  PollInv'
<1> USE DEF PollInv
<1>1. Names(t, present) \in SUBSET Blocks /\ Names(t, present) \subseteq present
  BY BlocksAre DEF TypesInv
<1>2. /\ todo' \in [Tasks -> SUBSET Blocks]
      /\ asked' \in [Tasks -> {"merged", "narrow", "cut"}]
      /\ todo'[t] \subseteq present /\ \A u \in Tasks \ {t} : todo'[u] = todo[u]
  BY <1>1, ReadIs
<1>3. TypesInv'
  BY <1>2 DEF TypesInv, deviceVars, entryVars
<1>4. TurnsInv'
  BY <1>2, TasksAre DEF TurnsInv, Reads, Idle, entryVars
<1>5. ReportsInv'
  BY <1>2 DEF ReportsInv, Idle, entryVars
<1>6. FoundInv'
  BY DEF FoundInv, Serving, deviceVars
<1> QED
  BY <1>3, <1>4, <1>5, <1>6

LEMMA BeginDumpKeeps ==
    ASSUME PollInv, BeginPoll \/ BeginDump \/ SkipPoll \/ LinkSticks
    PROVE  PollInv'
<1> USE DEF PollInv
<1>1. CASE BeginPoll
  <2>1. PICK c \in Polls :
          /\ setUp /\ entry \in {c, "loaded"} /\ (c = "settings" => Idle("dump"))
          /\ Begin(c, Names(c, present)) /\ UNCHANGED narrowed
    BY <1>1 DEF BeginPoll
  <2> QED
    BY <2>1, TasksAre, BeginPollKeeps DEF Begin
<1>2. CASE BeginDump
  <2>1. setUp
    BY <1>2 DEF BeginDump, TurnsInv, TypesInv
  <2>2. \/ ~Idle("dump") \/ PollInv'
    BY <1>2, <2>1, TasksAre, BeginPollKeeps DEF BeginDump, Begin
  <2> QED
    BY <1>2, <2>2 DEF BeginDump, Begin
<1>3. CASE SkipPoll
  <2>1. data["settings"] # None
    <3>1. entry = "loaded"
      BY <1>3, TasksAre DEF SkipPoll, TurnsInv, TypesInv
    <3> QED
      BY <3>1, TasksAre DEF ReportsInv
  <2>2. success' \in [Polls -> BOOLEAN]
    BY <1>3, TasksAre DEF SkipPoll, TypesInv
  <2>3. TypesInv' /\ TurnsInv' /\ FoundInv'
    BY <1>3, <2>2
       DEF SkipPoll, TypesInv, TurnsInv, FoundInv, Reads, Idle, Serving, Block, deviceVars,
           objectVars, taskVars
  <2>4. ReportsInv'
    BY <1>3, <2>1
       DEF SkipPoll, TypesInv, ReportsInv, Idle, deviceVars, objectVars, taskVars
  <2> QED
    BY <2>3, <2>4
<1>4. CASE LinkSticks
  BY <1>4 DEF LinkSticks, TypesInv, TurnsInv, ReportsInv, FoundInv, Reads, Idle, Serving, Block,
              objectVars, entryVars, taskVars
<1> QED
  BY <1>1, <1>2, <1>3, <1>4

LEMMA NarrowKeeps ==
    ASSUME PollInv, NEW t \in Tasks, Narrow(t)
    PROVE  PollInv'
<1> USE DEF PollInv
<1>1. /\ Block(t) \in Blocks /\ Reads(t) /\ todo' = todo
      /\ UNCHANGED <<deviceVars, present, setUp, entryVars, updated>>
      /\ narrowed' = narrowed \cup {Block(t)}
      /\ asked' = [asked EXCEPT ![t] = "narrow"]
  BY TaskIsAt DEF Narrow, Listening
<1>2. TypesInv'
  BY <1>1 DEF TypesInv, deviceVars, entryVars
<1>3. TurnsInv'
  BY <1>1 DEF TurnsInv, Reads, Idle, entryVars
<1>4. ReportsInv'
  BY <1>1 DEF ReportsInv, Idle, entryVars
<1>5. FoundInv'
  <2>1. ~setUp => t = "realtime"
    BY <1>1, TasksAre DEF TurnsInv
  <2>2. Block(t)' = Block(t) /\ Block("realtime")' = Block("realtime")
    BY <1>1 DEF Block
  <2>3. asked'[t] = "narrow"
    BY <1>1 DEF TypesInv
  <2> QED
    BY <1>1, <2>1, <2>2, <2>3 DEF FoundInv, Serving, Reads, Idle, deviceVars
<1> QED
  BY <1>2, <1>3, <1>4, <1>5

(***************************************************************************)
(* Setup.                                                                  *)
(***************************************************************************)
LEMMA SettleKeeps ==
    ASSUME PollInv, ~setUp, Reads("realtime"), UNCHANGED served,
           NEW have \in SUBSET Blocks, "identity" \in have, Settle(have),
           have \in {present \ {Block("realtime")}, present \cup {Block("realtime")}},
           Block("realtime") \in Droppable =>
              (Block("realtime") \in have <=> Serving(Block("realtime")))
    PROVE  PollInv'
<1> USE DEF PollInv
<1> DEFINE t    == "realtime"
           rest == todo[t] \ {Block(t)}
<1>1. /\ t \in Tasks /\ Block(t) \in todo[t] /\ Block(t) \in Blocks
      /\ rest \in SUBSET Blocks /\ Names(t, have) \in SUBSET Blocks /\ Names(t, have) \subseteq have
  BY TaskIsAt, TasksAre, BlocksAre DEF TypesInv
<1>2. /\ entry = "realtime" /\ \A u \in Tasks \ {t} : Idle(u)
      /\ \A u \in Tasks : updated[u] = {}
      /\ \A c \in Polls : data[c] = None /\ ~success[c]
  BY <1>1, TasksAre DEF TurnsInv, ReportsInv, Reads, TypesInv
<1>3. /\ present' = have /\ UNCHANGED <<link, narrowed, entryVars, updated>>
      /\ \A k \in Droppable \ {Block(t)} : k \in have <=> k \in present
  BY DEF Settle
<1>4. \A k \in Droppable \ have : ~Serving(k)
  BY <1>3 DEF FoundInv
<1>5. \A k \in Droppable \cap have : k \in rest \/ Serving(k)
  BY <1>1, <1>3 DEF FoundInv
<1>6. CASE rest # {} /\ Read(t, rest, narrowed) /\ UNCHANGED setUp
  <2>1. /\ todo' \in [Tasks -> SUBSET Blocks]
        /\ asked' \in [Tasks -> {"merged", "narrow", "cut"}]
        /\ todo'[t] = rest /\ \A u \in Tasks \ {t} : todo'[u] = todo[u]
        /\ asked'[t] = IF Foremost(rest) \in narrowed THEN "narrow" ELSE "merged"
    BY <1>1, <1>6, ReadIs
  <2>2. TypesInv'
    BY <1>3, <1>6, <2>1 DEF TypesInv, entryVars
  <2>3. TurnsInv'
    BY <1>2, <1>3, <1>6, <2>1, TasksAre DEF TurnsInv, Reads, Idle, entryVars
  <2>4. ReportsInv'
    BY <1>2, <1>3, <1>6, <2>1 DEF ReportsInv, Idle, entryVars
  <2>5. FoundInv'
    <3>1. Block(t)' = Foremost(rest)
      BY <2>1 DEF Block
    <3> QED
      BY <1>3, <1>4, <1>5, <1>6, <2>1, <3>1 DEF FoundInv, Serving
  <2> QED
    BY <2>2, <2>3, <2>4, <2>5
<1>7. CASE rest = {} /\ Read(t, Names(t, have), narrowed) /\ setUp' = TRUE
  <2>1. /\ todo' \in [Tasks -> SUBSET Blocks]
        /\ asked' \in [Tasks -> {"merged", "narrow", "cut"}]
        /\ todo'[t] = Names(t, have) /\ \A u \in Tasks \ {t} : todo'[u] = todo[u]
    BY <1>1, <1>7, ReadIs
  <2>2. TypesInv'
    BY <1>3, <1>7, <2>1 DEF TypesInv, entryVars
  <2>3. TurnsInv'
    BY <1>2, <1>3, <1>7, <2>1, TasksAre DEF TurnsInv, Reads, Idle, entryVars
  <2>4. ReportsInv'
    BY <1>1, <1>2, <1>3, <1>7, <2>1, TasksAre DEF ReportsInv, Idle, entryVars
  <2>5. FoundInv'
    BY <1>3, <1>4, <1>5, <1>7 DEF FoundInv, Serving
  <2> QED
    BY <2>2, <2>3, <2>4, <2>5
<1> QED
  BY <1>6, <1>7 DEF Settle

LEMMA SetupKeeps ==
    ASSUME PollInv, SetupOutcome
    PROVE  PollInv'
<1> USE DEF PollInv
<1> DEFINE t == "realtime"
           k == Block("realtime")
<1>1. /\ ~setUp /\ Reads(t) /\ served' = served /\ t \in Polls /\ t \in Tasks
      /\ k \in Blocks /\ entry = "realtime"
  BY TasksAre, TaskIsAt
     DEF SetupOutcome, SetupAnswered, SetupRefused, SetupUnread, Refused, Listening, Unanswered,
         TurnsInv, TypesInv
<1>2. /\ served[k] \in Services
      /\ served[k] = "blank" => k = "firmware"
      /\ served[k] = "foreign" => k = "identity"
  <2>1. served \in Devices /\ k \in Blocks
    BY <1>1 DEF TypesInv
  <2> HIDE DEF k
  <2>2. served \in [Blocks -> Services]
    BY <2>1, DeviceAssumption
  <2> QED
    BY <2>1, <2>2, DeviceAssumption
<1>3. CASE NotReady /\ Stop(t, asked)
  BY <1>1, <1>3, NotReadyKeeps
<1>4. CASE Unsupported
  <2>1. Stop(t, asked) /\ asked \in [Tasks -> {"merged", "narrow", "cut"}]
    BY <1>4 DEF Unsupported, TypesInv
  <2>2. /\ todo' \in [Tasks -> SUBSET Blocks] /\ updated' \in [Tasks -> SUBSET Blocks]
        /\ asked' \in [Tasks -> {"merged", "narrow", "cut"}]
        /\ todo'[t] = {} /\ updated'[t] = {}
        /\ \A u \in Tasks \ {t} : todo'[u] = todo[u] /\ updated'[u] = updated[u]
    BY <1>1, <2>1, StopIs
  <2>3. \A u \in Tasks : todo'[u] = {}
    BY <1>1, <2>2 DEF TurnsInv, Reads, Idle
  <2>4. TypesInv'
    BY <1>1, <1>4, <2>2 DEF TypesInv, Unsupported, objectVars
  <2>5. TurnsInv'
    BY <1>1, <1>4, <2>3, TasksAre DEF TurnsInv, Unsupported, objectVars, Reads, Idle
  <2>6. ReportsInv'
    BY <1>1, <1>4, <2>2, <2>3 DEF ReportsInv, Unsupported, objectVars, Idle
  <2>7. FoundInv'
    BY <1>1, <1>4, <2>2 DEF FoundInv, Unsupported, objectVars, Reads, Idle, Serving
  <2> QED
    BY <2>4, <2>5, <2>6, <2>7
<1>5. CASE /\ ~RefusesMap(t) /\ Listening(t) /\ served[k] # "foreign"
           /\ Settle(IF served[k] = "blank" THEN present \ {k} ELSE present \cup {k})
  <2> DEFINE have == IF served[k] = "blank" THEN present \ {k} ELSE present \cup {k}
  <2>1. have \in SUBSET Blocks /\ "identity" \in have /\ have \in {present \ {k}, present \cup {k}}
    BY <1>1, <1>2 DEF TypesInv
  <2>2. k \in have <=> Serving(k)
    BY <1>1, <1>2, <1>5 DEF RefusesMap, Serving, Services
  <2> QED
    BY <1>1, <1>5, <2>1, <2>2, SettleKeeps
<1>6. CASE Refused(t) /\ k # "identity" /\ Settle(present \ {k})
  <2>1. ~Serving(k)
    BY <1>1, <1>6 DEF Refused, RefusesMap, Listening, FoundInv, Serving
  <2>2. /\ present \ {k} \in SUBSET Blocks /\ "identity" \in present \ {k}
        /\ k \notin present \ {k}
    BY <1>6 DEF TypesInv
  <2> QED
    BY <1>1, <1>6, <2>1, <2>2, SettleKeeps
<1> QED
  BY <1>3, <1>4, <1>5, <1>6 DEF SetupOutcome, SetupAnswered, SetupRefused, SetupUnread, SetupFails

LEMMA NextPoll == PollInv /\ CountInv /\ [Next]_vars => PollInv'
<1> SUFFICES ASSUME PollInv, CountInv, [Next]_vars PROVE PollInv'
  OBVIOUS
<1>1. ASSUME NEW t \in Tasks, Outcome(t) PROVE PollInv'
  <2>1. CASE Narrow(t)
    BY <2>1, NarrowKeeps
  <2>2. CASE \/ PollAnswered(t) \/ PollRefused(t) \/ PollBusy(t)
             \/ PollTimedOut(t) \/ ConnectionLost(t)
    BY <2>2, ProceedKeeps, RaisedKeeps
       DEF PollAnswered, PollRefused, PollBusy, PollTimedOut, ConnectionLost, Refused, Listening,
           Unanswered
  <2> QED
    BY <1>1, <2>1, <2>2 DEF Outcome
<1> QED
  BY <1>1, BeginSetupKeeps, BeginDumpKeeps, SetupKeeps, UnchangedPoll DEF Next

\* What goes wrong is bounded.
LEMMA NextFaults == faults \in 0..MaxFaults /\ [Next]_vars => faults' \in 0..MaxFaults
<1> SUFFICES ASSUME faults \in 0..MaxFaults, [Next]_vars PROVE faults' \in 0..MaxFaults
  OBVIOUS
<1>1. faults' = faults \/ Fault
  BY DEF Next, BeginSetup, BeginPoll, BeginDump, Begin, SkipPoll, Outcome, PollAnswered, Narrow,
         PollRefused, PollBusy, PollTimedOut, ConnectionLost, SetupOutcome, SetupAnswered,
         SetupRefused, SetupUnread, Unanswered, LinkSticks, vars, deviceVars
<1> QED
  BY <1>1, DeviceAssumption DEF Fault

LEMMA PollInvariant == Spec => [](PollInv /\ CountInv /\ faults \in 0..MaxFaults)
<1> DEFINE Inv == PollInv /\ CountInv /\ faults \in 0..MaxFaults
<1>1. Init => faults \in 0..MaxFaults
  BY DeviceAssumption DEF Init
<1>2. Init => Inv
  BY <1>1, InitPoll, InitCounts
<1>3. Inv /\ [Next]_vars => Inv'
  BY NextPoll, NextCounts, NextFaults
<1> QED
  BY <1>2, <1>3, PTL DEF Spec

\* Setup, the polls and the dump take turns, and nothing is shown that was not read,
\* on any device and wherever reads fail, links are dropped and set-ups start again.
THEOREM TurnsAreTaken == Spec => []PollTypeOK
<1>1. PollInv /\ CountInv /\ faults \in 0..MaxFaults => PollTypeOK
  <2> SUFFICES ASSUME PollInv, CountInv, faults \in 0..MaxFaults PROVE PollTypeOK
    OBVIOUS
  <2>1. \A t \in Tasks : /\ todo[t] \subseteq Blocks /\ asked[t] \in {"merged", "narrow", "cut"}
                         /\ updated[t] \subseteq Blocks \ todo[t]
    BY DEF PollInv, TypesInv, ReportsInv
  <2>2. ~setUp => Idle("settings") /\ Idle("dump")
    BY TasksAre DEF PollInv, TurnsInv, Reads
  <2> QED
    BY <2>1, <2>2 DEF PollInv, TypesInv, TurnsInv, ReportsInv, CountInv, PollTypeOK
<1> QED
  BY <1>1, PollInvariant, PTL

\* On any device, setup keeps exactly the optional blocks that are served, however
\* often it ended half-way before: no fault, and no map that was tried first, is taken
\* for a refusal.
THEOREM SetupFindsWhatIsServed == Spec => []SetupSettles
<1>1. PollInv => SetupSettles
  BY DEF PollInv, FoundInv, SetupSettles
<1> QED
  BY <1>1, PollInvariant, PTL
================================================================================
