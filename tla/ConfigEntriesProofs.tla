-------------------------- MODULE ConfigEntriesProofs --------------------------
(***************************************************************************)
(* Theorems about ConfigEntries, for every set of entries, flows,          *)
(* inverters and addresses, however often inverters move.                  *)
(***************************************************************************)
EXTENDS ConfigEntries, TLAPS

States == {"none", "waiting", "setup", "loaded", "error"}

Shape ==
    /\ at \in [Addresses -> Inverters \cup {None}]
    /\ serial \in [Entries -> Serials \cup {None}]
    /\ address \in [Entries -> Addresses \cup {None}]
    /\ state \in [Entries -> States]
    /\ flow \in [Flows -> [entry : {New, None} \cup Entries, address : Addresses \cup {None}]]

EntryInv ==
    /\ Shape
    /\ EntryTypeOK
    /\ OneEntryEach
    /\ EntryFindsItsInverter
    /\ SpacingFollowsEntries

LEMMA InitEntryInv == Init => EntryInv
<1> SUFFICES ASSUME Init PROVE EntryInv
  OBVIOUS
<1>1. Shape
  BY DEF Init, Shape, NoFlow, States
<1>2. Existing = {} /\ Holding = {}
  BY DEF Init, Existing, Holding
<1>3. EntryTypeOK
  BY <1>2 DEF Init, EntryTypeOK
<1>4. OneEntryEach /\ EntryFindsItsInverter /\ SpacingFollowsEntries
  BY <1>2 DEF Init, OneEntryEach, EntryFindsItsInverter, SpacingFollowsEntries
<1> QED
  BY <1>1, <1>3, <1>4 DEF EntryInv

\* What a flow that found an inverter does: entry e becomes, or stays, the only
\* one of serial s, which answers at a.
Joins(f, e, s, a, after) ==
    /\ e \in Entries /\ f \in Flows
    /\ a \in Addresses /\ at[a] \in Inverters /\ at[a].serial = s
    /\ s \in Serials /\ s # None
    /\ serial[e] = None \/ serial[e] = s
    /\ \A d \in Existing : serial[d] = s => d = e
    /\ after \in {"waiting", "error"}
    /\ Reconnect(f, e, s, a, after)

\* Steps that leave the entries and the inverters alone.
OnlyFlows(f) ==
    /\ \/ flow' = [flow EXCEPT ![f] = NoFlow]
       \/ \E e \in {New} \cup Existing, a \in Addresses :
            flow' = [flow EXCEPT ![f] = [entry |-> e, address |-> a]]
    /\ UNCHANGED <<worldVars, entryVars, history>>

LEMMA FlowsJoin ==
    ASSUME EntryInv, NEW f \in Flows,
           Ask(f) \/ GiveUp(f) \/ FoundAgain(f) \/ Create(f) \/ Reconfigure(f)
    PROVE  OnlyFlows(f) \/ \E e, s, a, after : Joins(f, e, s, a, after)
<1>1. CASE Ask(f) \/ GiveUp(f)
  BY <1>1 DEF Ask, GiveUp, OnlyFlows
<1> DEFINE a == flow[f].address
           s == ProbedSerial(f)
<1>2. ASSUME Probed(f)
      PROVE  /\ a \in Addresses /\ at[a] \in Inverters /\ at[a].serial = s
             /\ s \in Serials /\ s # None
  <2>1. a \in Addresses /\ at[a] # None
    BY <1>2 DEF Probed, Supported, EntryInv, EntryTypeOK
  <2>2. at[a] \in Inverters
    BY <2>1 DEF EntryInv, Shape
  <2> QED
    BY <1>2, <2>1, <2>2 DEF Probed, ProbedSerial, Serials
<1>3. ASSUME NEW e \in Existing, serial[e] = s
      PROVE  /\ e \in Entries
             /\ \A d \in Existing : serial[d] = s => d = e
  BY <1>3 DEF EntryInv, OneEntryEach, Existing
<1>4. CASE FoundAgain(f)
  <2>1. PICK e \in Known(f) :
            IF Updates(f, e) = address[e]
            THEN /\ flow' = [flow EXCEPT ![f] = NoFlow]
                 /\ UNCHANGED <<worldVars, entryVars, history>>
            ELSE Reconnect(f, e, serial[e], Updates(f, e), Reloaded(e))
    BY <1>4 DEF FoundAgain
  <2>2. Probed(f) /\ e \in Existing /\ serial[e] = s
    BY <1>4, <2>1 DEF FoundAgain, Known
  <2>3. CASE Updates(f, e) = address[e]
    BY <2>1, <2>3 DEF OnlyFlows
  <2>4. CASE Updates(f, e) # address[e]
    <3>1. Reconnect(f, e, s, a, Reloaded(e)) /\ Reloaded(e) \in {"waiting", "error"}
      BY <2>1, <2>2, <2>4 DEF Updates, Reloaded
    <3>2. Joins(f, e, s, a, Reloaded(e))
      BY <1>2, <1>3, <2>2, <3>1 DEF Joins
    <3> QED
      BY <3>2
  <2> QED
    BY <2>3, <2>4
<1>5. CASE Create(f)
  <2>1. PICK e \in Entries \ Existing : Reconnect(f, e, s, a, "waiting")
    BY <1>5 DEF Create
  <2>2. Probed(f) /\ \A d \in Existing : serial[d] # s
    BY <1>5 DEF Create, Known
  <2>3. serial[e] = None
    BY <2>1 DEF Existing
  <2>4. Joins(f, e, s, a, "waiting")
    BY <1>2, <2>1, <2>2, <2>3 DEF Joins
  <2> QED
    BY <2>4
<1>6. CASE Reconfigure(f)
  <2> DEFINE e == flow[f].entry
  <2>1. Probed(f) /\ e \in Existing /\ serial[e] = s /\ Reconnect(f, e, s, a, "waiting")
    BY <1>6 DEF Reconfigure, SameInverter
  <2>2. Joins(f, e, s, a, "waiting")
    BY <1>2, <1>3, <2>1 DEF Joins
  <2> QED
    BY <2>2
<1> QED
  BY <1>1, <1>4, <1>5, <1>6

\* The cases of a step.
Steps ==
    \/ \E e \in Entries :
        BeginSetup(e) \/ Load(e) \/ SetupFails(e) \/ ChangeOptions(e) \/ Remove(e)
    \/ \E f \in Flows : OnlyFlows(f) \/ \E e, s, a, after : Joins(f, e, s, a, after)
    \/ Move
    \/ UNCHANGED vars

LEMMA NextIsSteps == EntryInv /\ [Next]_vars => Steps
BY FlowsJoin DEF Next, Steps

LEMMA NextShape == EntryInv /\ Steps => Shape'
<1> SUFFICES ASSUME EntryInv, Steps PROVE Shape'
  OBVIOUS
<1> USE DEF EntryInv, Shape, States
<1>1. ASSUME NEW e \in Entries,
             BeginSetup(e) \/ Load(e) \/ SetupFails(e) \/ ChangeOptions(e)
      PROVE  Shape'
  BY <1>1 DEF BeginSetup, Load, SetupFails, ChangeOptions, worldVars
<1>2. ASSUME NEW e \in Entries, Remove(e) PROVE Shape'
  <2>1. flow' \in [Flows -> [entry : {New, None} \cup Entries, address : Addresses \cup {None}]]
    BY <1>2 DEF Remove, NoFlow
  <2> QED
    BY <1>2, <2>1 DEF Remove, worldVars
<1>3. ASSUME NEW f \in Flows, OnlyFlows(f) PROVE Shape'
  BY <1>3 DEF OnlyFlows, NoFlow, Existing, worldVars, entryVars
<1>4. ASSUME NEW f, NEW e, NEW s, NEW a, NEW after, Joins(f, e, s, a, after) PROVE Shape'
  BY <1>4 DEF Joins, Reconnect, NoFlow, worldVars
<1>5. CASE Move
  <2>1. at' \in [Addresses -> Inverters \cup {None}]
    BY <1>5 DEF Move
  <2> QED
    BY <1>5, <2>1 DEF Move, entryVars
<1>6. CASE UNCHANGED vars
  BY <1>6 DEF vars, worldVars, entryVars
<1> QED
  BY <1>1, <1>2, <1>3, <1>4, <1>5, <1>6 DEF Steps

\* Who holds a connection after each kind of step.
LEMMA HoldingAfter ==
    ASSUME EntryInv
    PROVE  /\ \A e \in Entries : BeginSetup(e) =>
                Holding' = Holding \cup {e} /\ UNCHANGED <<Existing, address, serial>>
           /\ \A e \in Entries : Load(e) =>
                Holding' = Holding /\ UNCHANGED <<Existing, address, serial>>
           /\ \A e \in Entries : SetupFails(e) \/ ChangeOptions(e) =>
                Holding' = Holding \ {e} /\ UNCHANGED <<Existing, address, serial>>
           /\ \A e \in Entries : Remove(e) =>
                Holding' = Holding \ {e} /\ Existing' = Existing \ {e}
           /\ \A f, e, s, a, after : Joins(f, e, s, a, after) =>
                Holding' = Holding \ {e} /\ Existing' = Existing \cup {e}
<1> USE DEF EntryInv, Shape, Holding, Existing
<1>1. ASSUME NEW e \in Entries, BeginSetup(e)
      PROVE  Holding' = Holding \cup {e} /\ UNCHANGED <<Existing, address, serial>>
  BY <1>1 DEF BeginSetup
<1>2. ASSUME NEW e \in Entries, Load(e)
      PROVE  Holding' = Holding /\ UNCHANGED <<Existing, address, serial>>
  BY <1>2 DEF Load
<1>3. ASSUME NEW e \in Entries, SetupFails(e) \/ ChangeOptions(e)
      PROVE  Holding' = Holding \ {e} /\ UNCHANGED <<Existing, address, serial>>
  BY <1>3 DEF SetupFails, ChangeOptions
<1>4. ASSUME NEW e \in Entries, Remove(e)
      PROVE  Holding' = Holding \ {e} /\ Existing' = Existing \ {e}
  BY <1>4 DEF Remove
<1>5. ASSUME NEW f, NEW e, NEW s, NEW a, NEW after, Joins(f, e, s, a, after)
      PROVE  Holding' = Holding \ {e} /\ Existing' = Existing \cup {e}
  BY <1>5 DEF Joins, Reconnect
<1> QED
  BY <1>1, <1>2, <1>3, <1>4, <1>5

LEMMA NextOneEntry == EntryInv /\ Steps => OneEntryEach'
<1> SUFFICES ASSUME EntryInv, Steps PROVE OneEntryEach'
  OBVIOUS
<1> USE DEF EntryInv, Shape, OneEntryEach
<1>1. ASSUME NEW e \in Entries,
             BeginSetup(e) \/ Load(e) \/ SetupFails(e) \/ ChangeOptions(e)
      PROVE  OneEntryEach'
  BY <1>1, HoldingAfter
<1>2. ASSUME NEW e \in Entries, Remove(e) PROVE OneEntryEach'
  BY <1>2, HoldingAfter DEF Remove, Existing
<1>3. ASSUME NEW f, NEW e, NEW s, NEW a, NEW after, Joins(f, e, s, a, after) PROVE OneEntryEach'
  <2>1. Existing' = Existing \cup {e}
    BY <1>3, HoldingAfter
  <2>2. serial'[e] = s /\ \A d \in Existing : d # e => serial'[d] = serial[d] /\ serial[d] # s
    BY <1>3 DEF Joins, Reconnect, Existing
  <2> QED
    BY <2>1, <2>2
<1>4. CASE Move \/ (\E f \in Flows : OnlyFlows(f)) \/ UNCHANGED vars
  BY <1>4 DEF Move, OnlyFlows, vars, entryVars, Existing
<1> QED
  BY <1>1, <1>2, <1>3, <1>4 DEF Steps

LEMMA NextFinds == EntryInv /\ Steps => EntryFindsItsInverter'
<1> SUFFICES ASSUME EntryInv, Steps PROVE EntryFindsItsInverter'
  OBVIOUS
<1> USE DEF EntryInv, Shape, EntryFindsItsInverter
<1>1. ASSUME NEW e \in Entries,
             BeginSetup(e) \/ Load(e) \/ SetupFails(e) \/ ChangeOptions(e)
      PROVE  EntryFindsItsInverter'
  <2>1. UNCHANGED <<at, moved>>
    BY <1>1 DEF BeginSetup, Load, SetupFails, ChangeOptions, worldVars, history
  <2> QED
    BY <1>1, <2>1, HoldingAfter
<1>2. ASSUME NEW e \in Entries, Remove(e) PROVE EntryFindsItsInverter'
  BY <1>2, HoldingAfter DEF Remove, Existing, worldVars
<1>3. ASSUME NEW f, NEW e, NEW s, NEW a, NEW after, Joins(f, e, s, a, after) PROVE EntryFindsItsInverter'
  <2>1. Existing' = Existing \cup {e} /\ moved' = moved \ {e} /\ at' = at
    <3>1. Existing' = Existing \cup {e}
      BY <1>3, HoldingAfter
    <3> QED
      BY <1>3, <3>1 DEF Joins, Reconnect, worldVars
  <2>2. at[address'[e]] # None /\ at[address'[e]].serial = serial'[e]
    <3>1. serial'[e] = s /\ address'[e] = a
      BY <1>3 DEF Joins, Reconnect
    <3>2. at[a] \in Inverters /\ at[a].serial = s
      BY <1>3 DEF Joins
    <3>3. at[a] # None
      BY <3>2, InverterAssumption
    <3> QED
      BY <3>1, <3>2, <3>3
  <2>3. \A d \in Existing : d # e => serial'[d] = serial[d] /\ address'[d] = address[d]
    BY <1>3 DEF Joins, Reconnect, Existing
  <2> QED
    BY <2>1, <2>2, <2>3
<1>4. CASE Move
  <2>1. /\ UNCHANGED <<serial, address, Existing>>
        /\ moved' = moved \cup {e \in Existing : at'[address[e]] # at[address[e]]}
    BY <1>4 DEF Move, entryVars, Existing
  <2> QED
    BY <2>1
<1>5. CASE (\E f \in Flows : OnlyFlows(f)) \/ UNCHANGED vars
  BY <1>5 DEF OnlyFlows, vars, entryVars, worldVars, history, Existing
<1> QED
  BY <1>1, <1>2, <1>3, <1>4, <1>5 DEF Steps

\* What unloading and a failed set-up leave of the spacings, for an entry that
\* holds its connection no longer.
LEMMA LettingGo ==
    ASSUME EntryInv, NEW e \in Entries, Holding' = Holding \ {e},
           \A d \in Holding \ {e} : address'[d] = address[d],
           (e \in Holding /\ LetGo(e)) \/ Unload(e)
    PROVE  SpacingFollowsEntries' /\ spaced' \subseteq Links /\ released' \subseteq Holding'
<1> USE DEF EntryInv, SpacingFollowsEntries, EntryTypeOK
<1>0. \A d \in Holding \ {e} : Link(d)' = Link(d)
  BY DEF Link
<1>1. CASE e \in Holding
  <2>1. /\ spaced' = spaced \ {Link(e)}
        /\ released' = (released \cup {d \in Holding : Link(d) = Link(e)}) \ {e}
    BY <1>1 DEF LetGo, Unload
  <2>2. released \subseteq Holding /\ spaced \subseteq Links
    OBVIOUS
  <2>3. released' \subseteq Holding' /\ spaced' \subseteq Links
    BY <2>1, <2>2
  <2>4. ASSUME NEW d \in Holding', d \notin released' PROVE Link(d)' \in spaced'
    <3>1. d \in Holding /\ d # e /\ d \notin released /\ Link(d) # Link(e)
      BY <2>1, <2>4
    <3> QED
      BY <1>0, <2>1, <3>1
  <2>5. ASSUME NEW l \in spaced' PROVE \E d \in Holding' : Link(d)' = l
    <3>1. l \in spaced /\ l # Link(e)
      BY <2>1, <2>5
    <3>2. PICK d \in Holding : Link(d) = l
      BY <3>1
    <3> QED
      BY <1>0, <3>1, <3>2
  <2> QED
    BY <2>3, <2>4, <2>5
<1>2. CASE e \notin Holding
  <2>1. UNCHANGED <<spaced, released>> /\ Holding' = Holding
    BY <1>2 DEF Unload
  <2> QED
    BY <1>0, <1>2, <2>1
<1> QED
  BY <1>1, <1>2

LEMMA NextSpacing ==
    EntryInv /\ Steps =>
        SpacingFollowsEntries' /\ spaced' \subseteq Links /\ released' \subseteq Holding'
<1> SUFFICES ASSUME EntryInv, Steps
             PROVE  SpacingFollowsEntries' /\ spaced' \subseteq Links /\ released' \subseteq Holding'
  OBVIOUS
<1>0. /\ \A e \in Holding : Link(e) \in Links
      /\ released \subseteq Holding /\ spaced \subseteq Links /\ Holding \subseteq Entries
  BY DEF EntryInv, EntryTypeOK, Link, Links, Holding
<1>1. ASSUME NEW e \in Entries, BeginSetup(e)
      PROVE  SpacingFollowsEntries' /\ spaced' \subseteq Links /\ released' \subseteq Holding'
  <2>1. /\ Holding' = Holding \cup {e} /\ \A d \in Entries : Link(d)' = Link(d)
        /\ spaced' = spaced \cup {Link(e)}
        /\ released' = {d \in released : Link(d) # Link(e)}
    BY <1>1, HoldingAfter DEF BeginSetup, Link
  <2>2. Link(e) \in Links
    BY <1>1 DEF BeginSetup, EntryInv, EntryTypeOK, Link, Links
  <2> QED
    BY <1>0, <2>1, <2>2 DEF EntryInv, SpacingFollowsEntries
<1>2. ASSUME NEW e \in Entries, Load(e)
      PROVE  SpacingFollowsEntries' /\ spaced' \subseteq Links /\ released' \subseteq Holding'
  <2>1. /\ Holding' = Holding /\ \A d \in Entries : Link(d)' = Link(d)
        /\ UNCHANGED <<spaced, released>>
    BY <1>2, HoldingAfter DEF Load, Link, history
  <2> QED
    BY <1>0, <2>1 DEF EntryInv, SpacingFollowsEntries
<1>3. ASSUME NEW e \in Entries, SetupFails(e) \/ ChangeOptions(e)
      PROVE  SpacingFollowsEntries' /\ spaced' \subseteq Links /\ released' \subseteq Holding'
  <2>1. Holding' = Holding \ {e} /\ UNCHANGED address
    BY <1>3, HoldingAfter
  <2>2. (e \in Holding /\ LetGo(e)) \/ Unload(e)
    BY <1>3 DEF SetupFails, ChangeOptions, Holding
  <2> QED
    BY <2>1, <2>2, LettingGo
<1>4. ASSUME NEW e \in Entries, Remove(e)
      PROVE  SpacingFollowsEntries' /\ spaced' \subseteq Links /\ released' \subseteq Holding'
  <2>1. Holding' = Holding \ {e} /\ Unload(e)
    BY <1>4, HoldingAfter DEF Remove
  <2>2. \A d \in Holding \ {e} : address'[d] = address[d]
    BY <1>0, <1>4 DEF Remove, EntryInv, Shape
  <2> QED
    BY <2>1, <2>2, LettingGo
<1>5. ASSUME NEW f, NEW e, NEW s, NEW a, NEW after, Joins(f, e, s, a, after)
      PROVE  SpacingFollowsEntries' /\ spaced' \subseteq Links /\ released' \subseteq Holding'
  <2>1. e \in Entries /\ Holding' = Holding \ {e} /\ Unload(e)
    BY <1>5, HoldingAfter DEF Joins, Reconnect
  <2>2. \A d \in Holding \ {e} : address'[d] = address[d]
    BY <1>0, <1>5 DEF Joins, Reconnect, EntryInv, Shape
  <2> QED
    BY <2>1, <2>2, LettingGo
<1>6. CASE Move \/ (\E f \in Flows : OnlyFlows(f)) \/ UNCHANGED vars
  <2>1. UNCHANGED <<address, state, spaced, released>>
    BY <1>6 DEF Move, OnlyFlows, vars, entryVars, history
  <2>2. Holding' = Holding /\ \A d \in Entries : Link(d)' = Link(d)
    BY <2>1 DEF Holding, Link
  <2> QED
    BY <1>0, <2>1, <2>2 DEF EntryInv, SpacingFollowsEntries
<1> QED
  BY <1>1, <1>2, <1>3, <1>4, <1>5, <1>6 DEF Steps

LEMMA NextEntryTypes == EntryInv /\ Steps => EntryTypeOK'
<1> DEFINE Fields(e) ==
        /\ serial[e] \in Serials \cup {None}
        /\ address[e] \in Addresses \cup {None}
        /\ state[e] \in States
        /\ (state[e] = "none") <=> (serial[e] = None)
        /\ (address[e] = None) <=> (serial[e] = None)
    Asks(f) == \/ flow[f] = NoFlow
               \/ flow[f].entry \in {New} \cup Existing /\ flow[f].address \in Addresses
<1> SUFFICES ASSUME EntryInv, Steps
             PROVE  /\ \A e \in Entries : Fields(e)'
                    /\ \A f \in Flows : Asks(f)'
                    /\ moved' \subseteq Existing'
  BY NextSpacing DEF EntryTypeOK, States
<1>0. /\ \A e \in Entries : Fields(e)
      /\ \A f \in Flows : Asks(f)
      /\ moved \subseteq Existing
  BY DEF EntryInv, EntryTypeOK, States
<1> USE DEF Shape
<1>1. ASSUME NEW e \in Entries,
             BeginSetup(e) \/ Load(e) \/ SetupFails(e) \/ ChangeOptions(e)
      PROVE  /\ \A d \in Entries : Fields(d)'
             /\ \A f \in Flows : Asks(f)'
             /\ moved' \subseteq Existing'
  <2>1. UNCHANGED <<serial, address, Existing, flow, moved>>
    BY <1>1, HoldingAfter DEF BeginSetup, Load, SetupFails, ChangeOptions, history
  <2>2. state[e] # "none" /\ \E x \in States \ {"none"} : state' = [state EXCEPT ![e] = x]
    BY <1>1 DEF BeginSetup, Load, SetupFails, ChangeOptions, States
  <2>3. \A d \in Entries : Fields(d)'
    BY <1>0, <2>1, <2>2 DEF EntryInv
  <2> QED
    BY <1>0, <2>1, <2>3
<1>2. ASSUME NEW e \in Entries, Remove(e)
      PROVE  /\ \A d \in Entries : Fields(d)'
             /\ \A f \in Flows : Asks(f)'
             /\ moved' \subseteq Existing'
  <2>1. Existing' = Existing \ {e} /\ moved' = moved \ {e}
    BY <1>2, HoldingAfter DEF Remove
  <2>2. \A d \in Entries : Fields(d)'
    BY <1>0, <1>2 DEF Remove, EntryInv, States
  <2>3. ASSUME NEW f \in Flows PROVE Asks(f)'
    <3>1. flow'[f] = NoFlow \/ (flow'[f] = flow[f] /\ flow[f].entry # e)
      BY <1>2 DEF Remove
    <3> QED
      BY <1>0, <2>1, <3>1
  <2> QED
    BY <1>0, <2>1, <2>2, <2>3
<1>3. ASSUME NEW f \in Flows, OnlyFlows(f)
      PROVE  /\ \A d \in Entries : Fields(d)'
             /\ \A g \in Flows : Asks(g)'
             /\ moved' \subseteq Existing'
  <2>1. UNCHANGED <<serial, address, state, Existing, moved>>
    BY <1>3 DEF OnlyFlows, entryVars, history, Existing
  <2>2. \A g \in Flows : Asks(g)'
    BY <1>0, <1>3, <2>1 DEF OnlyFlows, EntryInv
  <2> QED
    BY <1>0, <2>1, <2>2
<1>4. ASSUME NEW f, NEW e, NEW s, NEW a, NEW after, Joins(f, e, s, a, after)
      PROVE  /\ \A d \in Entries : Fields(d)'
             /\ \A g \in Flows : Asks(g)'
             /\ moved' \subseteq Existing'
  <2>1. Existing' = Existing \cup {e} /\ moved' = moved \ {e}
    BY <1>4, HoldingAfter DEF Joins, Reconnect
  <2>2. \A d \in Entries : Fields(d)'
    <3>1. a # None /\ s # None
      BY <1>4, InverterAssumption DEF Joins
    <3> QED
      BY <1>0, <1>4, <3>1 DEF Joins, Reconnect, EntryInv, States
  <2>3. \A g \in Flows : flow'[g] = NoFlow \/ flow'[g] = flow[g]
    BY <1>4 DEF Joins, Reconnect, EntryInv
  <2> QED
    BY <1>0, <2>1, <2>2, <2>3
<1>5. CASE Move
  <2>1. UNCHANGED <<serial, address, state, Existing, flow>> /\ moved' \subseteq moved \cup Existing
    BY <1>5 DEF Move, entryVars, Existing
  <2> QED
    BY <1>0, <2>1
<1>6. CASE UNCHANGED vars
  <2>1. UNCHANGED <<serial, address, state, Existing, flow, moved>>
    BY <1>6 DEF vars, entryVars, history, Existing
  <2> QED
    BY <1>0, <2>1
<1> QED
  BY <1>1, <1>2, <1>3, <1>4, <1>5, <1>6 DEF Steps

LEMMA EntryInvariant == Spec => []EntryInv
<1>1. EntryInv /\ [Next]_vars => EntryInv'
  BY NextIsSteps, NextShape, NextEntryTypes, NextOneEntry, NextFinds, NextSpacing
     DEF EntryInv
<1> QED
  BY <1>1, InitEntryInv, PTL DEF Spec

\* What an entry has from its making to its removal, for any number of entries,
\* flows and moves: a state, a serial and an address, or none of them.
THEOREM EntryTypes == Spec => []EntryTypeOK
BY EntryInvariant, PTL DEF EntryInv

\* However many flows probe however many addresses at once, no two entries are
\* for one inverter.
THEOREM OneEntryPerInverter == Spec => []OneEntryEach
BY EntryInvariant, PTL DEF EntryInv

\* An entry finds its own inverter at its address until that one moves.
THEOREM EntriesFindInverters == Spec => []EntryFindsItsInverter
BY EntryInvariant, PTL DEF EntryInv

\* The spacing of a link follows the entries that use it, but for the ones whose
\* spacing another entry of the link took with it.
THEOREM SpacingFollows == Spec => []SpacingFollowsEntries
BY EntryInvariant, PTL DEF EntryInv
=============================================================================
