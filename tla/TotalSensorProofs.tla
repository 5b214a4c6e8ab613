--------------------------- MODULE TotalSensorProofs ---------------------------
(***************************************************************************)
(* Theorems about TotalSensor, for every set of readings and every number  *)
(* of changes, lost polls and restarts.                                    *)
(***************************************************************************)
EXTENDS TotalSensor, TLAPS

\* What _process_data shows for a value that was read: one close to it, which is
\* the last one or falls by more than one percent if it falls.
LEMMA ProcessedValue ==
    ASSUME NEW last \in Readings \cup {None}, NEW value \in Readings
    PROVE  /\ Processed(last, value, TRUE) \in Readings
           /\ Processed(last, value, TRUE) # None
           /\ Close(Processed(last, value, TRUE), value)
           /\ last # None => \/ Processed(last, value, TRUE) >= last
                             \/ 100 * Processed(last, value, TRUE) < 99 * last
<1>1. value \in Nat /\ value # None /\ (last # None => last \in Nat)
  BY ReadingAssumption
<1>2. CASE Held(last, value)
  <2>1. Processed(last, value, TRUE) = last /\ last \in Readings /\ last # None
    BY <1>2 DEF Processed, Held
  <2>2. last \in Nat /\ value \in Nat /\ value < last /\ 99 * last <= 100 * value
    BY <1>1, <1>2, <2>1 DEF Held, TinyDip
  <2>3. value <= last /\ last >= last
    BY <2>2
  <2>4. Close(last, value)
    BY <2>1, <2>2, <2>3 DEF Close
  <2> QED
    BY <2>1, <2>3, <2>4
<1>3. CASE ~Held(last, value)
  <2>1. Processed(last, value, TRUE) = value
    BY <1>1, <1>3 DEF Processed
  <2>2. Close(value, value)
    <3>1. \A n \in Nat : n <= n /\ 99 * n <= 100 * n
      OBVIOUS
    <3> QED
      BY <1>1, <3>1 DEF Close
  <2>3. last # None => value >= last \/ 100 * value < 99 * last
    <3>1. last # None => last \in Nat /\ value \in Nat /\ ~TinyDip(last, value)
      BY <1>1, <1>3 DEF Held
    <3>2. \A m, n \in Nat : ~(n < m /\ 99 * m <= 100 * n) => n >= m \/ 100 * n < 99 * m
      OBVIOUS
    <3> QED
      BY <3>1, <3>2 DEF TinyDip
  <2> QED
    BY <1>1, <2>1, <2>2, <2>3
<1> QED
  BY <1>2, <1>3

\* What it shows whatever was read: the last value, or one as above.
LEMMA ProcessedTotal ==
    ASSUME NEW last \in Readings \cup {None}, NEW value \in Readings \cup {None},
           NEW isListed \in BOOLEAN
    PROVE  /\ Processed(last, value, isListed) \in Readings \cup {None}
           /\ last # None => /\ Processed(last, value, isListed) # None
                             /\ \/ Processed(last, value, isListed) >= last
                                \/ 100 * Processed(last, value, isListed) < 99 * last
<1>1. last # None => last \in Nat
  BY ReadingAssumption
<1>2. CASE ~isListed \/ value = None
  <2>1. Processed(last, value, isListed) = last
    BY <1>2 DEF Processed
  <2> QED
    BY <1>1, <2>1
<1>3. CASE isListed /\ value # None
  <2>1. isListed = TRUE /\ value \in Readings
    BY <1>3
  <2> QED
    BY <2>1, ProcessedValue
<1> QED
  BY <1>2, <1>3

\* A component the coordinator lists was read.
ListedWasRead == listed => cache # None

TotalInv == TotalTypeOK /\ ListedWasRead /\ HeldIsClose /\ TotalIsKept

LEMMA InitTotalInv == Init => TotalInv
<1>1. 0 \in 0..MaxChanges /\ 0 \in 0..MaxFaults
  BY BoundAssumption
<1>2. Init => TotalTypeOK
  BY <1>1 DEF Init, TotalTypeOK
<1>3. Init => ListedWasRead /\ HeldIsClose /\ TotalIsKept
  BY DEF Init, ListedWasRead, HeldIsClose, TotalIsKept
<1> QED
  BY <1>2, <1>3 DEF TotalInv

LEMMA FaultCounts ==
    ASSUME faults \in 0..MaxFaults, Fault PROVE faults' \in 0..MaxFaults
BY BoundAssumption DEF Fault

LEMMA NextTotalInv == TotalInv /\ [Next]_vars => TotalInv'
<1> SUFFICES ASSUME TotalInv, [Next]_vars PROVE TotalInv'
  OBVIOUS
<1> USE DEF TotalInv
<1>r. counter # None
  BY ReadingAssumption DEF TotalTypeOK
<1>1. CASE Count
  BY <1>1, BoundAssumption DEF Count, TotalTypeOK, ListedWasRead, HeldIsClose, TotalIsKept
<1>2. CASE SetUp
  <2>1. /\ cache' \in Readings \cup {None} /\ listed' \in BOOLEAN
        /\ (listed' => cache' = counter /\ cache' # None)
        /\ faults' \in 0..MaxFaults
    BY <1>2, <1>r, FaultCounts DEF SetUp, TotalTypeOK
  <2>2. stored \in Readings \cup {None} /\ counter \in Readings
    BY DEF TotalTypeOK
  <2>3. total' = Processed(stored, cache', listed')
    BY <1>2 DEF SetUp, Restored
  <2>4. total' \in Readings \cup {None} /\ (stored # None => total' # None)
    BY <2>1, <2>2, <2>3, ProcessedTotal
  <2>5. listed' => Close(total', cache')
    BY <2>1, <2>2, <2>3, ProcessedValue
  <2>6. TotalTypeOK'
    BY <1>2, <2>1, <2>4 DEF SetUp, TotalTypeOK
  <2>7. HeldIsClose'
    BY <2>5 DEF HeldIsClose, Close
  <2> QED
    BY <1>2, <2>1, <2>4, <2>6, <2>7 DEF SetUp, ListedWasRead, TotalIsKept
<1>3. CASE PollUpdates
  <2>1. total \in Readings \cup {None} /\ counter \in Readings /\ cache' = counter
    BY <1>3 DEF PollUpdates, TotalTypeOK
  <2>2. total' \in Readings /\ total' # None /\ Close(total', cache')
    BY <1>3, <2>1, ProcessedValue DEF PollUpdates
  <2>3. TotalTypeOK'
    BY <1>3, <2>1, <2>2 DEF PollUpdates, TotalTypeOK
  <2>4. HeldIsClose'
    BY <2>2 DEF HeldIsClose, Close
  <2> QED
    BY <1>3, <1>r, <2>1, <2>2, <2>3, <2>4 DEF PollUpdates, ListedWasRead, TotalIsKept
<1>4. CASE PollMisses
  <2>1. total' = total /\ faults' \in 0..MaxFaults
    BY <1>4, FaultCounts DEF PollMisses, Processed, TotalTypeOK
  <2> QED
    BY <1>4, <2>1 DEF PollMisses, TotalTypeOK, ListedWasRead, HeldIsClose, TotalIsKept
<1>5. CASE PollRaises
  <2>1. /\ cache' \in Readings \cup {None} /\ faults' \in 0..MaxFaults
        /\ (listed => cache' # None)
    BY <1>5, <1>r, FaultCounts DEF PollRaises, TotalTypeOK, ListedWasRead
  <2>2. total \in Readings \cup {None} /\ listed \in BOOLEAN
    BY DEF TotalTypeOK
  <2>3. total' \in Readings \cup {None} /\ (total # None => total' # None)
    BY <1>5, <2>1, <2>2, ProcessedTotal DEF PollRaises
  <2>4. TotalTypeOK'
    BY <1>5, <2>1, <2>3 DEF PollRaises, TotalTypeOK
  <2>5. ASSUME success /\ listed PROVE HeldIsClose'
    <3>1. cache' \in Readings /\ total' = Processed(total, cache', TRUE)
      BY <1>5, <2>1, <2>5 DEF PollRaises
    <3>2. Close(total', cache')
      BY <2>2, <3>1, ProcessedValue
    <3> QED
      BY <3>2 DEF HeldIsClose, Close
  <2>6. ASSUME ~(success /\ listed) PROVE HeldIsClose'
    <3>1. listed' /\ ~behind' => ~success /\ cache' = cache /\ total' = total /\ ~behind
      BY <1>5, <2>6 DEF PollRaises
    <3> QED
      BY <1>5, <3>1 DEF PollRaises, HeldIsClose, Close
  <2>7. HeldIsClose'
    BY <2>5, <2>6
  <2> QED
    BY <1>5, <2>1, <2>3, <2>4, <2>7 DEF PollRaises, ListedWasRead, TotalIsKept
<1>6. CASE DumpReads
  BY <1>6, <1>r DEF DumpReads, TotalTypeOK, ListedWasRead, HeldIsClose, Close, TotalIsKept
<1>7. CASE Store
  BY <1>7 DEF Store, TotalTypeOK, ListedWasRead, HeldIsClose, Close, TotalIsKept
<1>8. CASE Restart
  <2>1. faults' \in 0..MaxFaults
    BY <1>8, FaultCounts DEF Restart, TotalTypeOK
  <2> QED
    BY <1>8, <2>1 DEF Restart, TotalTypeOK, ListedWasRead, HeldIsClose, TotalIsKept
<1>9. CASE PollSkipped \/ OthersPublished
  <2>1. /\ total \in Readings \cup {None} /\ cache \in Readings \cup {None}
        /\ listed \in BOOLEAN /\ success \in BOOLEAN /\ behind \in BOOLEAN
    BY DEF TotalTypeOK
  <2>2. /\ listed' \in BOOLEAN /\ (listed' => listed) /\ cache' = cache
        /\ total' = Processed(total, cache, listed')
        /\ behind' = (behind /\ ~listed')
    BY <1>9, <2>1 DEF PollSkipped, OthersPublished
  <2>3. total' \in Readings \cup {None} /\ (total # None => total' # None)
    BY <2>1, <2>2, ProcessedTotal
  <2>4. TotalTypeOK'
    BY <1>9, <2>1, <2>2, <2>3 DEF PollSkipped, OthersPublished, TotalTypeOK
  <2>5. listed' => Close(total', cache')
    <3>1. listed' => cache \in Readings /\ listed' = TRUE
      BY <2>1, <2>2 DEF ListedWasRead
    <3> QED
      BY <2>1, <2>2, <3>1, ProcessedValue
  <2>6. HeldIsClose'
    BY <2>5 DEF HeldIsClose, Close
  <2> QED
    BY <1>9, <2>2, <2>3, <2>4, <2>6 DEF PollSkipped, OthersPublished, ListedWasRead, TotalIsKept
<1>10. CASE UNCHANGED vars
  BY <1>10 DEF vars, TotalTypeOK, ListedWasRead, HeldIsClose, Close, TotalIsKept
<1> QED
  BY <1>1, <1>2, <1>3, <1>4, <1>5, <1>6, <1>7, <1>8, <1>9, <1>10 DEF Next

LEMMA TotalInvariant == Spec => []TotalInv
BY InitTotalInv, NextTotalInv, PTL DEF Spec

\* Every value shown, stored or cached is a reading, and a sensor whose entry is
\* not set up holds no data of the inverter.
THEOREM TotalTypes == Spec => []TotalTypeOK
BY TotalInvariant, PTL DEF TotalInv

\* However the counter moves and whatever polls fail, the value shown for a
\* component the coordinator lists is within one percent of what was read: small
\* dips that follow one another never add up.
THEOREM DipsNeverAddUp == Spec => []HeldIsClose
BY TotalInvariant, PTL DEF TotalInv

\* A stored total is shown again after every restart, whatever answers then.
THEOREM TotalSurvives == Spec => []TotalIsKept
BY TotalInvariant, PTL DEF TotalInv

\* The shown total never falls by a little, also over a restart: every fall
\* statistics see is a reset of more than one percent.
THEOREM FallsAreResets == Spec => OnlyResetsLower
<1> DEFINE Last == IF added THEN total ELSE stored
           Falls == added' => (Last # None => \/ total' >= Last
                                              \/ 100 * total' < 99 * Last)
<1>1. TotalInv /\ [Next]_vars => [Falls]_vars
  <2> SUFFICES ASSUME TotalInv, Next, added', Last # None
               PROVE  \/ total' >= Last
                      \/ 100 * total' < 99 * Last
    OBVIOUS
  <2>0. /\ total \in Readings \cup {None} /\ stored \in Readings \cup {None}
        /\ cache \in Readings \cup {None} /\ counter \in Readings
        /\ listed \in BOOLEAN
    BY DEF TotalInv, TotalTypeOK
  <2>1. CASE SetUp
    <3>1. /\ cache' \in Readings \cup {None} /\ listed' \in BOOLEAN
          /\ total' = Processed(stored, cache', listed') /\ Last = stored
      BY <2>0, <2>1 DEF SetUp, Restored
    <3> HIDE DEF Last
    <3> QED
      BY <2>0, <3>1, ProcessedTotal
  <2>2. CASE PollUpdates \/ PollMisses \/ PollRaises \/ PollSkipped \/ OthersPublished
    <3>1. Last = total /\ cache' \in Readings \cup {None}
      BY <2>0, <2>2 DEF PollUpdates, PollMisses, PollRaises, PollSkipped, OthersPublished
    <3>2. \/ total' = total
          \/ \E l \in BOOLEAN : total' = Processed(total, cache', l)
      <4>1. success \in BOOLEAN
        BY DEF TotalInv, TotalTypeOK
      <4> QED
        BY <2>0, <2>2, <4>1 DEF PollUpdates, PollMisses, PollRaises, PollSkipped, OthersPublished
    <3>3. total # None /\ total \in Nat
      BY <2>0, <3>1, ReadingAssumption
    <3>4. CASE total' = total
      <4>1. total >= total
        BY <3>3
      <4> HIDE DEF Last
      <4> QED
        BY <3>1, <3>4, <4>1
    <3>5. CASE \E l \in BOOLEAN : total' = Processed(total, cache', l)
      <4>1. total' >= total \/ 100 * total' < 99 * total
        BY <2>0, <3>1, <3>3, <3>5, ProcessedTotal
      <4> HIDE DEF Last
      <4> QED
        BY <3>1, <4>1
    <3> QED
      BY <3>2, <3>4, <3>5
  <2>3. CASE Count \/ DumpReads \/ Store \/ Restart
    <3>1. Last = total /\ total' = total /\ total \in Nat
      BY <2>0, <2>3, ReadingAssumption DEF Count, DumpReads, Store, Restart
    <3> HIDE DEF Last
    <3> QED
      BY <3>1
  <2> QED
    BY <2>1, <2>2, <2>3 DEF Next
<1> QED
  BY <1>1, TotalInvariant, PTL DEF Spec, OnlyResetsLower
=============================================================================
