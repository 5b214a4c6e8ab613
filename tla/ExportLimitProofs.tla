--------------------------- MODULE ExportLimitProofs ---------------------------
(***************************************************************************)
(* Theorems about ExportLimit, for every nominal power of a real unit,     *)
(* every range, every limit and every way of rounding.                     *)
(*                                                                         *)
(* They rest on the arithmetic of the two registers: a limit's own ratio,  *)
(* the ratio a mirroring unit derives from the limit, and one from which   *)
(* it derived the limit, all agree, as long as a tenth of a percent of the *)
(* nominal power is not less than a watt.                                  *)
(***************************************************************************)
EXTENDS ExportLimit, TLAPS

\* A unit with a known nominal power is one of a kilowatt at least: the models
\* of models.py start at 3 kW.
KilowattUnit == Nominal = 0 \/ Nominal >= 1000

(***************************************************************************)
(* Arithmetic.                                                             *)
(***************************************************************************)
LEMMA Division ==
    ASSUME NEW a \in Nat, NEW b \in Nat, b # 0
    PROVE  /\ a \div b \in Nat
           /\ (a \div b) * b <= a
           /\ a < (a \div b) * b + b
OBVIOUS

\* Products with the nominal power keep their order, so near products have near
\* factors.
LEMMA NearFactors ==
    ASSUME NEW a \in Int, NEW b \in Int, NEW n \in Nat, 2 * (a * n - b * n) < 4 * n
    PROVE  a - b < 2
OBVIOUS

LEMMA LeastIs ==
    ASSUME NEW a \in Int, NEW b \in Int
    PROVE  /\ Least(a, b) \in Int /\ Least(a, b) <= a /\ Least(a, b) <= b
           /\ Least(a, b) \in {a, b}
BY DEF Least

\* The ratio of a limit is that of its watts to within half a tenth, cut at 100 %.
LEMMA ImpliedIs ==
    ASSUME NEW w \in Nat, Nominal # 0
    PROVE  \E n \in Nat :
              /\ Implied(w) = Least(Full, n)
              /\ 2 * (n * Nominal - Full * w) <= Nominal
              /\ 2 * (Full * w - n * Nominal) <= Nominal
<1> DEFINE a   == Full * w
           cut == a \div Nominal
           n   == IF 2 * (a - cut * Nominal) - Nominal > 0
                     \/ (2 * (a - cut * Nominal) - Nominal = 0 /\ w \in HalfUp)
                  THEN cut + 1 ELSE cut
<1>1. Nominal \in Nat /\ a \in Nat
  BY RangeAssumption DEF Full
<1>2. cut \in Nat /\ cut * Nominal <= a /\ a < cut * Nominal + Nominal
  BY <1>1, Division
<1>3. Implied(w) = Least(Full, n)
  BY DEF Implied
<1>4. (cut + 1) * Nominal = cut * Nominal + Nominal
  BY <1>1, <1>2
<1> HIDE DEF cut, a
<1>5. n \in Nat /\ 2 * (n * Nominal - a) <= Nominal /\ 2 * (a - n * Nominal) <= Nominal
  <2>1. cut * Nominal \in Int
    BY <1>1, <1>2
  <2>2. CASE n = cut + 1
    BY <1>1, <1>2, <1>4, <2>1, <2>2
  <2>3. CASE n = cut
    BY <1>1, <1>2, <2>1, <2>3
  <2> QED
    BY <2>2, <2>3
<1> QED
  BY <1>3, <1>5 DEF a

LEMMA ImpliedInRange ==
    ASSUME NEW w \in Nat, Nominal # 0
    PROVE  Implied(w) \in 0..Full
<1>1. PICK n \in Nat : Implied(w) = Least(Full, n)
  BY ImpliedIs
<1> QED
  BY <1>1 DEF Least, Full

\* A ratio that is that of the limit to within less than one and a half of a tenth,
\* or cut at 100 %, agrees with the limit's own.
LEMMA NearRatioAgrees ==
    ASSUME NEW w \in Nat, Nominal # 0, NEW m \in Nat,
           2 * (m * Nominal - Full * w) < 3 * Nominal,
           2 * (Full * w - m * Nominal) < 3 * Nominal
    PROVE  Agree(Least(Full, m), Implied(w))
<1>1. Nominal \in Nat
  BY RangeAssumption
<1>2. PICK n \in Nat :
        /\ Implied(w) = Least(Full, n)
        /\ 2 * (n * Nominal - Full * w) <= Nominal
        /\ 2 * (Full * w - n * Nominal) <= Nominal
  BY ImpliedIs
<1>3. m * Nominal \in Int /\ n * Nominal \in Int /\ Full * w \in Int
  BY <1>1 DEF Full
<1>4. 2 * (m * Nominal - n * Nominal) < 4 * Nominal /\ 2 * (n * Nominal - m * Nominal) < 4 * Nominal
  BY <1>1, <1>2, <1>3
<1>5. m - n < 2 /\ n - m < 2
  BY <1>1, <1>4, NearFactors
<1> QED
  BY <1>2, <1>5 DEF Agree, Least, Full

\* Whatever ratio a mirroring unit derives from a limit agrees with the limit's own.
LEMMA RatioOfAgrees ==
    ASSUME NEW w \in Nat, Nominal # 0, NEW r \in RatioOf(w)
    PROVE  r \in 0..Full /\ Agree(r, Implied(w))
<1>1. Nominal \in Nat /\ Full * w \in Nat
  BY RangeAssumption DEF Full
<1> DEFINE cut == (Full * w) \div Nominal
<1>2. cut \in Nat /\ cut * Nominal <= Full * w /\ Full * w < cut * Nominal + Nominal
  BY <1>1, Division
<1>3. PICK m \in Nearest(Full * w, Nominal) \cup Down(Full * w, Nominal) : r = Least(Full, m)
  BY DEF RatioOf
<1>4. m \in {cut, cut + 1}
  BY <1>3 DEF Nearest, Down
<1>5. (cut + 1) * Nominal = cut * Nominal + Nominal /\ cut * Nominal \in Int
  BY <1>1, <1>2
<1> HIDE DEF cut
<1>6. /\ m \in Nat
      /\ 2 * (m * Nominal - Full * w) < 3 * Nominal
      /\ 2 * (Full * w - m * Nominal) < 3 * Nominal
  <2>1. CASE m = cut
    BY <1>1, <1>2, <1>5, <2>1
  <2>2. CASE m = cut + 1
    BY <1>1, <1>2, <1>5, <2>2
  <2> QED
    BY <1>4, <2>1, <2>2
<1>7. Agree(r, Implied(w))
  BY <1>3, <1>6, NearRatioAgrees
<1> QED
  BY <1>3, <1>6, <1>7 DEF Least, Full

\* The watts a mirroring unit derives from a ratio are less than a watt away.
LEMMA WattsOfIs ==
    ASSUME NEW r \in Nat, NEW w \in WattsOf(r)
    PROVE  /\ w \in Nat
           /\ r * Nominal - Full * w < Full
           /\ 2 * (Full * w - r * Nominal) <= Full
<1>1. Nominal \in Nat /\ r * Nominal \in Nat
  BY RangeAssumption
<1> DEFINE a == r * Nominal
           cut == a \div Full
<1>2. cut \in Nat /\ cut * Full <= a /\ a < cut * Full + Full
  BY <1>1 DEF Full
<1>3. w \in Nearest(a, Full) \cup Down(a, Full)
  BY DEF WattsOf
<1> HIDE DEF a
<1>4. CASE w = cut
  BY <1>1, <1>2, <1>4 DEF Full, a
<1>5. CASE w \in Nearest(a, Full)
  BY <1>1, <1>2, <1>5 DEF Full, a, Nearest
<1> QED
  BY <1>3, <1>4, <1>5 DEF Down

\* A ratio from which a mirroring unit derived a limit agrees with the limit's own.
LEMMA WattsOfAgrees ==
    ASSUME KilowattUnit, Nominal # 0, NEW r \in 0..Full, NEW w \in WattsOf(r)
    PROVE  Agree(r, Implied(w))
<1>1. Nominal \in Nat /\ Nominal >= 1000 /\ r \in Nat /\ r * Nominal \in Int
  BY RangeAssumption DEF KilowattUnit, Full
<1>2. w \in Nat /\ r * Nominal - Full * w < Full /\ 2 * (Full * w - r * Nominal) <= Full
  BY <1>1, WattsOfIs
<1>3. Agree(Least(Full, r), Implied(w))
  BY <1>1, <1>2, NearRatioAgrees DEF Full
<1> QED
  BY <1>3 DEF Least, Full

(***************************************************************************)
(* The plans: the ratio when it has to be aligned, the watts, the enable.  *)
(***************************************************************************)
Aligns(r, view) ==
    /\ r.limit # None /\ r.on
    /\ view.ratio # None /\ Nominal # 0 /\ ~Agree(view.ratio, Implied(r.limit))

LEMMA PlanShape ==
    ASSUME NEW r, NEW view, NEW steps, steps = Plan(r, view)
    PROVE  /\ r.limit = None =>
                /\ Len(steps) = 1 /\ DOMAIN steps = 1..1
                /\ steps[1] = Step("enabled", FALSE)
           /\ r.limit # None /\ ~Aligns(r, view) =>
                /\ Len(steps) = 2 /\ DOMAIN steps = 1..2
                /\ steps[1] = Step("watts", r.limit) /\ steps[2] = Step("enabled", r.on)
           /\ Aligns(r, view) =>
                /\ Len(steps) = 3 /\ DOMAIN steps = 1..3
                /\ steps[1] = Step("ratio", Implied(r.limit))
                /\ steps[2] = Step("watts", r.limit) /\ steps[3] = Step("enabled", r.on)
<1> DEFINE R == Step("ratio", Implied(r.limit))
           W == Step("watts", r.limit)
           E == Step("enabled", r.on)
<1>1. CASE r.limit = None
  <2>1. steps = <<Step("enabled", FALSE)>>
    BY <1>1 DEF Plan
  <2> QED
    BY <1>1, <2>1 DEF Aligns
<1>2. CASE r.limit # None /\ ~Aligns(r, view)
  <2>1. steps = << >> \o <<W, E>>
    BY <1>2 DEF Plan, LimitSteps, Ratio, Aligns
  <2> QED
    BY <1>2, <2>1
<1>3. CASE Aligns(r, view)
  <2>1. steps = <<R>> \o <<W, E>>
    BY <1>3 DEF Plan, LimitSteps, Ratio, Aligns
  <2> HIDE DEF R, W, E
  <2>2. /\ Len(steps) = 3 /\ DOMAIN steps = 1..3
        /\ steps[1] = R /\ steps[2] = W /\ steps[3] = E
    BY <2>1
  <2> QED
    BY <1>3, <2>2 DEF Aligns, R, W, E
<1> QED
  BY <1>1, <1>2, <1>3

(***************************************************************************)
(* The inductive invariant.                                                *)
(***************************************************************************)
Files == [watts : Nat, ratio : (0..Full) \cup {None}, enabled : BOOLEAN]

\* On a unit that mirrors, each register is derived from the other.
Coupled(w) ==
    mirrors => /\ w.ratio # None
               /\ w.ratio \in RatioOf(w.watts) \/ w.watts \in WattsOf(w.ratio)

ExportTypeOK ==
    /\ mirrors \in BOOLEAN
    /\ mirrors => Nominal # 0
    /\ wire \in Files /\ cache \in Files
    /\ Coupled(wire) /\ Coupled(cache)
    /\ request \in Requests
    /\ next \in Nat
    /\ stage \in (Ended \cup {"writing"}) \ {"mismatch"}

\* The registers agree with the request's limit, as far as they are to.
RatioSet(w, r) ==
    r.on /\ Nominal # 0 /\ w.ratio # None => Agree(w.ratio, Implied(r.limit))

IsSet(w, r) ==
    IF r.limit = None THEN ~w.enabled
    ELSE w.watts = r.limit /\ w.enabled = r.on /\ RatioSet(w, r)

\* A call that writes has put the registers of the steps it has passed where its
\* plan has them, and left the others as it found them.
WritingInv ==
    stage = "writing" =>
        /\ InRange(request)
        /\ plan = Plan(request, cache)
        /\ next \in 1..(Len(plan) + 1)
        /\ next = 1 => wire = cache
        /\ (wire.ratio = None) = (cache.ratio = None)
        /\ next <= Len(plan) => wire.enabled = cache.enabled
        /\ next > Len(plan) => IsSet(wire, request)
        /\ request.limit # None =>
              /\ next < Len(plan) /\ ~mirrors => wire.watts = cache.watts
              /\ next >= Len(plan) => wire.watts = request.limit
              /\ next >= Len(plan) - 1 => RatioSet(wire, request)

\* A call that succeeded has left them so.
DoneInv ==
    stage \in {"verified", "unchanged"} => InRange(request) /\ IsSet(wire, request)

ExportInv == ExportTypeOK /\ WritingInv /\ DoneInv

(***************************************************************************)
(* What a write leaves in the registers.                                   *)
(***************************************************************************)
LEMMA AgreesWithItself ==
    ASSUME NEW r \in Int
    PROVE  Agree(r, r)
BY DEF Agree

\* On a unit that mirrors, a ratio and a limit that are each other's agree.
LEMMA CoupledAgrees ==
    ASSUME KilowattUnit, mirrors => Nominal # 0, mirrors, NEW w \in Files, Coupled(w)
    PROVE  w.ratio # None /\ Agree(w.ratio, Implied(w.watts))
<1>1. Nominal # 0 /\ w.ratio \in 0..Full /\ w.watts \in Nat
  BY DEF Coupled, Files
<1>2. CASE w.ratio \in RatioOf(w.watts)
  BY <1>1, <1>2, RatioOfAgrees DEF Coupled
<1>3. CASE w.watts \in WattsOf(w.ratio)
  BY <1>1, <1>3, WattsOfAgrees DEF Coupled
<1> QED
  BY <1>2, <1>3 DEF Coupled

LEMMA AfterRatio ==
    ASSUME mirrors => Nominal # 0, wire \in Files, Coupled(wire), wire.ratio # None,
           NEW v \in 0..Full, NEW w \in After(Step("ratio", v))
    PROVE  /\ w \in Files /\ Coupled(w)
           /\ w.ratio = v /\ w.ratio # None /\ w.enabled = wire.enabled
           /\ IF mirrors THEN w.watts \in WattsOf(v) ELSE w.watts = wire.watts
<1>1. v # None
  BY RangeAssumption DEF Full
<1>2. CASE mirrors
  <2>1. PICK x \in WattsOf(v) : w = [[wire EXCEPT !.ratio = v] EXCEPT !.watts = x]
    BY <1>2 DEF After, Step
  <2>2. x \in Nat
    BY WattsOfIs DEF Full
  <2> QED
    BY <1>1, <1>2, <2>1, <2>2 DEF Files, Coupled
<1>3. CASE ~mirrors
  <2>1. w = [wire EXCEPT !.ratio = v]
    BY <1>3 DEF After, Step
  <2> QED
    BY <1>1, <1>3, <2>1 DEF Files, Coupled
<1> QED
  BY <1>2, <1>3

LEMMA AfterWatts ==
    ASSUME mirrors => Nominal # 0, wire \in Files, Coupled(wire),
           NEW v \in Nat, NEW w \in After(Step("watts", v))
    PROVE  /\ w \in Files /\ Coupled(w)
           /\ w.watts = v /\ w.enabled = wire.enabled
           /\ (w.ratio = None) = (wire.ratio = None)
           /\ IF mirrors THEN w.ratio \in RatioOf(v) ELSE w.ratio = wire.ratio
<1>1. CASE mirrors
  <2>1. PICK x \in RatioOf(v) : w = [[wire EXCEPT !.watts = v] EXCEPT !.ratio = x]
    BY <1>1 DEF After, Step
  <2>2. x \in 0..Full
    BY <1>1, RatioOfAgrees
  <2>3. x # None
    BY <2>2, RangeAssumption DEF Full
  <2>4. wire.ratio # None
    BY <1>1 DEF Coupled
  <2> QED
    BY <1>1, <2>1, <2>2, <2>3, <2>4 DEF Files, Coupled
<1>2. CASE ~mirrors
  <2>1. w = [wire EXCEPT !.watts = v]
    BY <1>2 DEF After, Step
  <2> QED
    BY <1>2, <2>1 DEF Files, Coupled
<1> QED
  BY <1>1, <1>2

LEMMA AfterEnabled ==
    ASSUME wire \in Files, Coupled(wire),
           NEW v \in BOOLEAN, NEW w \in After(Step("enabled", v))
    PROVE  /\ w \in Files /\ Coupled(w)
           /\ w.enabled = v /\ w.watts = wire.watts /\ w.ratio = wire.ratio
<1>1. w = [wire EXCEPT !.enabled = v]
  BY DEF After, Step
<1> QED
  BY <1>1 DEF Files, Coupled

(***************************************************************************)
(* Where a call that writes is in its plan.                                *)
(***************************************************************************)
AtRatio ==
    /\ plan[next] = Step("ratio", Implied(request.limit))
    /\ next = 1 /\ Len(plan) = 3 /\ Aligns(request, cache)

AtWatts ==
    /\ plan[next] = Step("watts", request.limit)
    /\ request.limit # None
    /\ next \in 1..2 /\ Len(plan) = next + 1
    /\ IF Aligns(request, cache) THEN next = 2 ELSE next = 1

AtEnable ==
    /\ plan[next] = Step("enabled", request.limit # None /\ request.on)
    /\ next = Len(plan)
    /\ Len(plan) \in 1..3
    /\ (request.limit = None) = (Len(plan) = 1)

LEMMA WhereItIs ==
    ASSUME ExportInv, stage = "writing", next <= Len(plan)
    PROVE  AtRatio \/ AtWatts \/ AtEnable
<1>1. plan = Plan(request, cache) /\ next \in 1..(Len(plan) + 1)
  BY DEF ExportInv, WritingInv
<1>2. request.on \in BOOLEAN
  BY DEF ExportInv, ExportTypeOK, Requests
<1>3. CASE request.limit = None
  <2>1. Len(plan) = 1 /\ plan[1] = Step("enabled", FALSE)
    BY <1>1, <1>3, PlanShape
  <2>2. next = 1
    BY <1>1, <2>1
  <2>3. FALSE = (request.limit # None /\ request.on)
    BY <1>3
  <2>4. plan[next] = Step("enabled", request.limit # None /\ request.on)
    BY <2>1, <2>2, <2>3
  <2> QED
    BY <1>3, <2>1, <2>2, <2>4 DEF AtEnable
<1>4. CASE request.limit # None /\ ~Aligns(request, cache)
  <2>1. /\ Len(plan) = 2
        /\ plan[1] = Step("watts", request.limit) /\ plan[2] = Step("enabled", request.on)
    BY <1>1, <1>4, PlanShape
  <2>2. next = 1 \/ next = 2
    BY <1>1, <2>1
  <2>3. request.on = (request.limit # None /\ request.on)
    BY <1>2, <1>4
  <2>4. CASE next = 1
    BY <1>4, <2>1, <2>4 DEF AtWatts
  <2>5. CASE next = 2
    BY <1>4, <2>1, <2>3, <2>5 DEF AtEnable
  <2> QED
    BY <2>2, <2>4, <2>5
<1>5. CASE Aligns(request, cache)
  <2>1. /\ Len(plan) = 3
        /\ plan[1] = Step("ratio", Implied(request.limit))
        /\ plan[2] = Step("watts", request.limit) /\ plan[3] = Step("enabled", request.on)
    BY <1>1, <1>5, PlanShape
  <2>2. next = 1 \/ next = 2 \/ next = 3
    BY <1>1, <2>1
  <2>3. request.limit # None /\ request.on = (request.limit # None /\ request.on)
    BY <1>2, <1>5 DEF Aligns
  <2>4. CASE next = 1
    BY <1>5, <2>1, <2>4 DEF AtRatio
  <2>5. CASE next = 2
    BY <1>5, <2>1, <2>3, <2>5 DEF AtWatts
  <2>6. CASE next = 3
    BY <1>5, <2>1, <2>3, <2>6 DEF AtEnable
  <2> QED
    BY <2>2, <2>4, <2>5, <2>6
<1> QED
  BY <1>3, <1>4, <1>5 DEF Aligns

\* What the call that writes has done so far, when it is at a step.
LEMMA SoFar ==
    ASSUME ExportInv, stage = "writing", next <= Len(plan)
    PROVE  /\ mirrors => Nominal # 0
           /\ wire \in Files /\ cache \in Files /\ Coupled(wire) /\ Coupled(cache)
           /\ request.limit \in Nat \cup {None} /\ request.on \in BOOLEAN
           /\ (wire.ratio = None) = (cache.ratio = None)
           /\ wire.enabled = cache.enabled
           /\ plan = Plan(request, cache) /\ next \in Nat
           /\ next = 1 => wire = cache
<1>1. request.limit \in Nat \cup {None} /\ request.on \in BOOLEAN
  BY RangeAssumption DEF ExportInv, ExportTypeOK, Requests
<1> QED
  BY <1>1 DEF ExportInv, ExportTypeOK, WritingInv

\* A step that leaves the registers where its plan has them is one more done.
OneMore ==
    /\ stage' = "writing" /\ next' = next + 1
    /\ UNCHANGED <<mirrors, cache, request, plan>>

LEMMA RatioStep ==
    ASSUME KilowattUnit, ExportInv, stage = "writing", AtRatio, OneMore,
           wire' \in After(plan[next])
    PROVE  ExportInv'
<1>1. /\ mirrors => Nominal # 0
      /\ wire \in Files /\ cache \in Files /\ Coupled(wire) /\ Coupled(cache)
      /\ wire.enabled = cache.enabled /\ wire = cache
  BY SoFar DEF AtRatio
<1>2. request.limit \in Nat /\ Nominal # 0 /\ wire.ratio # None
  BY <1>1, SoFar DEF AtRatio, Aligns
<1>3. Implied(request.limit) \in 0..Full
  BY <1>2, ImpliedInRange
<1>4. /\ wire' \in Files /\ Coupled(wire')
      /\ wire'.ratio = Implied(request.limit) /\ wire'.ratio # None
      /\ wire'.enabled = wire.enabled
      /\ ~mirrors => wire'.watts = wire.watts
  BY <1>1, <1>2, <1>3, AfterRatio DEF AtRatio
<1>5. RatioSet(wire', request)
  BY <1>3, <1>4, AgreesWithItself DEF RatioSet, Full
<1>6. ExportTypeOK'
  BY <1>1, <1>4 DEF ExportInv, ExportTypeOK, OneMore, Coupled, AtRatio
<1>7. WritingInv'
  <2>1. next' = 2 /\ Len(plan') = 3
    BY DEF OneMore, AtRatio
  <2>2. InRange(request) /\ plan = Plan(request, cache)
    BY DEF ExportInv, WritingInv
  <2> QED
    BY <1>1, <1>2, <1>4, <1>5, <2>1, <2>2 DEF WritingInv, OneMore
<1>8. DoneInv'
  BY DEF DoneInv, OneMore
<1> QED
  BY <1>6, <1>7, <1>8 DEF ExportInv

\* A step that sets the watts, or found them set.
LEMMA WattsStep ==
    ASSUME KilowattUnit, ExportInv, stage = "writing", AtWatts, OneMore,
           wire' \in Files, Coupled(wire'),
           wire'.watts = request.limit, wire'.enabled = wire.enabled,
           (wire'.ratio = None) = (wire.ratio = None),
           RatioSet(wire', request)
    PROVE  ExportInv'
<1>1. /\ mirrors => Nominal # 0
      /\ cache \in Files /\ Coupled(cache)
      /\ wire.enabled = cache.enabled
      /\ (wire.ratio = None) = (cache.ratio = None)
  BY SoFar DEF AtWatts
<1>2. ExportTypeOK'
  BY <1>1 DEF ExportInv, ExportTypeOK, OneMore, Coupled, AtWatts
<1>3. WritingInv'
  <2>1. next' \in 2..3 /\ Len(plan') = next' /\ request.limit # None
    BY DEF OneMore, AtWatts
  <2>2. InRange(request) /\ plan = Plan(request, cache)
    BY DEF ExportInv, WritingInv
  <2> QED
    BY <1>1, <2>1, <2>2 DEF WritingInv, OneMore
<1>4. DoneInv'
  BY DEF DoneInv, OneMore
<1> QED
  BY <1>2, <1>3, <1>4 DEF ExportInv

\* A step that sets the enable, or found it set.
LEMMA EnableStep ==
    ASSUME KilowattUnit, ExportInv, stage = "writing", AtEnable, OneMore,
           wire' \in Files, Coupled(wire'),
           wire'.enabled = (request.limit # None /\ request.on),
           wire'.watts = wire.watts, wire'.ratio = wire.ratio
    PROVE  ExportInv'
<1>1. /\ mirrors => Nominal # 0
      /\ cache \in Files /\ Coupled(cache)
      /\ (wire.ratio = None) = (cache.ratio = None)
      /\ request.on \in BOOLEAN
  BY SoFar DEF AtEnable
<1>2. request.limit # None => wire.watts = request.limit /\ RatioSet(wire, request)
  BY DEF ExportInv, WritingInv, AtEnable
<1>3. IsSet(wire', request)
  BY <1>1, <1>2 DEF IsSet, RatioSet
<1>4. ExportTypeOK'
  BY <1>1 DEF ExportInv, ExportTypeOK, OneMore, Coupled, AtEnable
<1>5. request.limit # None => RatioSet(wire', request)
  BY <1>2 DEF RatioSet
<1>6. WritingInv'
  BY <1>1, <1>2, <1>3, <1>5 DEF ExportInv, WritingInv, OneMore, AtEnable
<1>7. DoneInv'
  BY DEF DoneInv, OneMore
<1> QED
  BY <1>4, <1>6, <1>7 DEF ExportInv

\* Before and after the watts the ratio agrees, on a unit that does not mirror.
LEMMA RatioBeforeWatts ==
    ASSUME ExportInv, stage = "writing", AtWatts
    PROVE  RatioSet(wire, request)
<1>1. next >= Len(plan) - 1 /\ request.limit # None
  BY DEF AtWatts
<1> QED
  BY <1>1 DEF ExportInv, WritingInv

LEMMA WriteKeeps ==
    ASSUME KilowattUnit, ExportInv, Write
    PROVE  ExportInv'
<1>1. stage = "writing" /\ next <= Len(plan) /\ wire' \in After(plan[next]) /\ OneMore
  BY DEF Write, Writes, OneMore
<1>2. /\ mirrors => Nominal # 0
      /\ wire \in Files /\ Coupled(wire)
      /\ request.limit \in Nat \cup {None} /\ request.on \in BOOLEAN
  BY <1>1, SoFar
<1>3. CASE AtRatio
  BY <1>1, <1>3, RatioStep
<1>4. CASE AtWatts
  <2>1. request.limit \in Nat
    BY <1>2, <1>4 DEF AtWatts
  <2>2. /\ wire' \in Files /\ Coupled(wire)'
        /\ wire'.watts = request.limit /\ wire'.enabled = wire.enabled
        /\ (wire'.ratio = None) = (wire.ratio = None)
        /\ IF mirrors THEN wire'.ratio \in RatioOf(request.limit)
                      ELSE wire'.ratio = wire.ratio
    BY <1>1, <1>2, <1>4, <2>1, AfterWatts DEF AtWatts, Coupled, OneMore
  <2>3. RatioSet(wire', request)
    BY <1>1, <1>2, <1>4, <2>1, <2>2, RatioOfAgrees, RatioBeforeWatts DEF RatioSet
  <2> QED
    BY <1>1, <1>4, <2>2, <2>3, WattsStep DEF Coupled, OneMore
<1>5. CASE AtEnable
  <2>1. (request.limit # None /\ request.on) \in BOOLEAN
    OBVIOUS
  <2>2. /\ wire' \in Files /\ Coupled(wire')
        /\ wire'.enabled = (request.limit # None /\ request.on)
        /\ wire'.watts = wire.watts /\ wire'.ratio = wire.ratio
    BY <1>1, <1>2, <1>5, <2>1, AfterEnabled DEF AtEnable
  <2> QED
    BY <1>1, <1>5, <2>2, EnableStep
<1> QED
  BY <1>1, <1>3, <1>4, <1>5, WhereItIs

\* On a unit that mirrors, watts that are the limit leave no ratio to align: so the
\* watts a call need not write are still the limit when it comes to them.
LEMMA SkippedWatts ==
    ASSUME KilowattUnit, ExportInv, stage = "writing", AtWatts, cache.watts = request.limit
    PROVE  wire.watts = request.limit
<1>1. /\ mirrors => Nominal # 0
      /\ cache \in Files /\ Coupled(cache)
      /\ next = 1 => wire = cache
  BY SoFar DEF AtWatts
<1>2. CASE next = 1
  BY <1>1, <1>2
<1>3. CASE next = 2 /\ ~mirrors
  <2>1. next < Len(plan) /\ request.limit # None
    BY <1>3 DEF AtWatts
  <2> QED
    BY <1>3, <2>1 DEF ExportInv, WritingInv
<1>4. CASE next = 2 /\ mirrors
  <2>1. Agree(cache.ratio, Implied(cache.watts))
    BY <1>1, <1>4, CoupledAgrees
  <2>2. Aligns(request, cache)
    BY <1>4 DEF AtWatts
  <2> QED
    BY <2>1, <2>2 DEF Aligns
<1> QED
  BY <1>2, <1>3, <1>4 DEF AtWatts

LEMMA SkipKeeps ==
    ASSUME KilowattUnit, ExportInv, Skip
    PROVE  ExportInv'
<1>1. /\ stage = "writing" /\ next <= Len(plan) /\ Satisfied(plan[next], cache)
      /\ wire' = wire /\ OneMore
  BY DEF Skip, OneMore
<1>2. wire \in Files /\ Coupled(wire) /\ wire.enabled = cache.enabled
  BY <1>1, SoFar
<1>3. wire' \in Files /\ Coupled(wire')
  BY <1>1, <1>2
<1>4. CASE AtRatio
  <2>1. Satisfied(Step("ratio", Implied(request.limit)), cache)
    BY <1>1, <1>4 DEF AtRatio
  <2> QED
    BY <1>4, <2>1 DEF Satisfied, Step, AtRatio, Aligns
<1>5. CASE AtWatts
  <2>1. Satisfied(Step("watts", request.limit), cache)
    BY <1>1, <1>5 DEF AtWatts
  <2>2. cache.watts = request.limit
    BY <2>1 DEF Satisfied, Step
  <2>3. wire.watts = request.limit /\ RatioSet(wire, request)
    BY <1>1, <1>5, <2>2, SkippedWatts, RatioBeforeWatts
  <2> QED
    BY <1>1, <1>3, <1>5, <2>3, WattsStep
<1>6. CASE AtEnable
  <2>1. Satisfied(Step("enabled", request.limit # None /\ request.on), cache)
    BY <1>1, <1>6 DEF AtEnable
  <2>2. cache.enabled = (request.limit # None /\ request.on)
    BY <2>1 DEF Satisfied, Step
  <2> QED
    BY <1>1, <1>2, <1>3, <1>6, <2>2, EnableStep
<1> QED
  BY <1>1, <1>4, <1>5, <1>6, WhereItIs

\* Whatever a write that failed left in the registers, they are coupled.
LEMMA WriteFailsKeeps ==
    ASSUME KilowattUnit, ExportInv, WriteFails
    PROVE  ExportInv'
<1>1. /\ stage = "writing" /\ next <= Len(plan)
      /\ wire' = wire \/ wire' \in After(plan[next])
      /\ stage' = "failed" /\ UNCHANGED <<mirrors, cache, request, plan, next>>
  BY DEF WriteFails, Writes
<1>2. /\ mirrors => Nominal # 0
      /\ wire \in Files /\ Coupled(wire) /\ wire.enabled = cache.enabled
      /\ request.limit \in Nat \cup {None} /\ request.on \in BOOLEAN
      /\ (wire.ratio = None) = (cache.ratio = None)
  BY <1>1, SoFar
<1>3. wire' \in Files /\ Coupled(wire')
  <2>1. CASE wire' = wire
    BY <1>2, <2>1
  <2>2. CASE AtRatio /\ wire' \in After(plan[next])
    <3>1. request.limit \in Nat /\ Nominal # 0 /\ wire.ratio # None
      BY <1>2, <2>2 DEF AtRatio, Aligns
    <3>2. Implied(request.limit) \in 0..Full
      BY <3>1, ImpliedInRange
    <3> QED
      BY <1>2, <2>2, <3>1, <3>2, AfterRatio DEF AtRatio
  <2>3. CASE AtWatts /\ wire' \in After(plan[next])
    <3>1. request.limit \in Nat
      BY <1>2, <2>3 DEF AtWatts
    <3> QED
      BY <1>2, <2>3, <3>1, AfterWatts DEF AtWatts
  <2>4. CASE AtEnable /\ wire' \in After(plan[next])
    <3>1. (request.limit # None /\ request.on) \in BOOLEAN
      OBVIOUS
    <3> QED
      BY <1>2, <2>4, <3>1, AfterEnabled DEF AtEnable
  <2> QED
    BY <1>1, <2>1, <2>2, <2>3, <2>4, WhereItIs
<1>4. ExportTypeOK'
  BY <1>1, <1>3 DEF ExportInv, ExportTypeOK, Coupled, Ended
<1>5. WritingInv' /\ DoneInv'
  BY <1>1 DEF WritingInv, DoneInv
<1> QED
  BY <1>4, <1>5 DEF ExportInv

\* A call that is set has every step of its plan satisfied.
LEMMA SetIsSatisfied ==
    ASSUME NEW r \in Requests, NEW view \in Files, NEW w \in Files, IsSet(w, r),
           (w.ratio = None) = (view.ratio = None),
           NEW i \in DOMAIN Plan(r, view)
    PROVE  Satisfied(Plan(r, view)[i], w)
<1> DEFINE steps == Plan(r, view)
<1>1. r.limit # None => w.watts = r.limit /\ w.enabled = r.on /\ RatioSet(w, r)
  BY DEF IsSet
<1>2. r.limit = None => w.enabled = FALSE
  BY DEF IsSet, Files
<1>3. Aligns(r, view) => Satisfied(Step("ratio", Implied(r.limit)), w)
  BY <1>1 DEF Aligns, RatioSet, Satisfied, Step
<1>4. r.limit # None => Satisfied(Step("watts", r.limit), w) /\ Satisfied(Step("enabled", r.on), w)
  BY <1>1 DEF Satisfied, Step
<1>5. r.limit = None => Satisfied(Step("enabled", FALSE), w)
  BY <1>2 DEF Satisfied, Step
<1>6. CASE r.limit = None
  <2>1. DOMAIN steps = 1..1 /\ steps[1] = Step("enabled", FALSE)
    BY <1>6, PlanShape
  <2>2. i = 1
    BY <2>1
  <2> QED
    BY <1>5, <1>6, <2>1, <2>2
<1>7. CASE r.limit # None /\ ~Aligns(r, view)
  <2>1. /\ DOMAIN steps = 1..2
        /\ steps[1] = Step("watts", r.limit) /\ steps[2] = Step("enabled", r.on)
    BY <1>7, PlanShape
  <2>2. i = 1 \/ i = 2
    BY <2>1
  <2> QED
    BY <1>4, <1>7, <2>1, <2>2
<1>8. CASE Aligns(r, view)
  <2>1. /\ DOMAIN steps = 1..3
        /\ steps[1] = Step("ratio", Implied(r.limit))
        /\ steps[2] = Step("watts", r.limit) /\ steps[3] = Step("enabled", r.on)
    BY <1>8, PlanShape
  <2>2. (i = 1 \/ i = 2 \/ i = 3) /\ r.limit # None
    BY <1>8, <2>1 DEF Aligns
  <2> QED
    BY <1>3, <1>4, <1>8, <2>1, <2>2
<1> QED
  BY <1>6, <1>7, <1>8 DEF Aligns

LEMMA ReadBackKeeps ==
    ASSUME KilowattUnit, ExportInv, ReadBack
    PROVE  ExportInv'
<1>1. /\ stage = "writing" /\ next > Len(plan)
      /\ UNCHANGED <<mirrors, wire, request, plan, next>>
      /\ wire \in Files /\ cache \in Files /\ Coupled(wire) /\ Coupled(cache)
      /\ request \in Requests
      /\ (wire.ratio = None) = (cache.ratio = None)
      /\ InRange(request) /\ IsSet(wire, request) /\ plan = Plan(request, cache)
  BY DEF ReadBack, ExportInv, ExportTypeOK, WritingInv
<1>2. \A i \in DOMAIN plan : Satisfied(plan[i], wire)
  BY <1>1, SetIsSatisfied
<1>3. (stage' = "verified" /\ cache' = wire) \/ (stage' = "unchanged" /\ cache' = cache)
  BY <1>2 DEF ReadBack
<1>4. ExportTypeOK'
  BY <1>1, <1>3 DEF ExportInv, ExportTypeOK, Coupled, Ended
<1>5. WritingInv' /\ DoneInv'
  BY <1>1, <1>3 DEF WritingInv, DoneInv
<1> QED
  BY <1>4, <1>5 DEF ExportInv

LEMMA ReadBackFailsKeeps ==
    ASSUME ExportInv, ReadBackFails
    PROVE  ExportInv'
BY DEF ReadBackFails, ExportInv, ExportTypeOK, WritingInv, DoneInv, Coupled, Ended

LEMMA CallKeeps ==
    ASSUME ExportInv, Call
    PROVE  ExportInv'
<1>1. /\ request' \in Requests /\ cache' = wire /\ next' = 1
      /\ UNCHANGED <<mirrors, wire>>
      /\ \/ InRange(request') /\ plan' = Plan(request', wire) /\ stage' = "writing"
         \/ stage' = "out_of_range"
  BY DEF Call
<1>2. ExportTypeOK'
  BY <1>1 DEF ExportInv, ExportTypeOK, Coupled, Ended
<1>3. CASE stage' = "out_of_range"
  BY <1>2, <1>3 DEF ExportInv, WritingInv, DoneInv
<1>4. CASE InRange(request') /\ plan' = Plan(request', wire) /\ stage' = "writing"
  <2>1. \/ request'.limit = None /\ Len(plan') = 1
        \/ request'.limit # None /\ ~Aligns(request', wire) /\ Len(plan') = 2
        \/ request'.limit # None /\ Aligns(request', wire) /\ Len(plan') = 3
    BY <1>4, PlanShape DEF Aligns
  <2>2. request'.limit # None /\ Len(plan') = 2 => RatioSet(wire', request')
    BY <1>1, <2>1 DEF RatioSet, Aligns
  <2>3. 1 <= Len(plan') /\ Len(plan') \in 1..3
    BY <2>1
  <2>4. WritingInv'
    <3>1. /\ next' \in 1..(Len(plan') + 1) /\ ~(next' > Len(plan'))
          /\ next' >= Len(plan') => Len(plan') = 1
          /\ next' >= Len(plan') - 1 => Len(plan') \in 1..2
      BY <1>1, <2>3
    <3>2. request'.limit # None =>
             /\ ~(next' >= Len(plan'))
             /\ next' >= Len(plan') - 1 => RatioSet(wire', request')
      <4>1. CASE request'.limit # None /\ Len(plan') = 2
        BY <2>2, <3>1, <4>1
      <4>2. CASE Len(plan') = 3
        BY <3>1, <4>2
      <4> QED
        BY <2>1, <4>1, <4>2
    <3> QED
      BY <1>1, <1>4, <3>1, <3>2 DEF WritingInv
  <2> QED
    BY <1>2, <1>4, <2>4 DEF ExportInv, DoneInv
<1> QED
  BY <1>1, <1>2, <1>3, <1>4 DEF ExportInv

LEMMA CallUnreadKeeps ==
    ASSUME ExportInv, CallUnread
    PROVE  ExportInv'
BY DEF CallUnread, ExportInv, ExportTypeOK, WritingInv, DoneInv, Coupled, Ended

LEMMA InitExport ==
    ASSUME Init
    PROVE  ExportInv
<1>1. mirrors \in BOOLEAN /\ (mirrors => Nominal # 0)
  BY DEF Init
<1>2. PICK w \in Registers :
        \E r \in IF mirrors THEN RatioOf(w.watts) ELSE {None} \cup Ratios :
            wire = [w EXCEPT !.ratio = r]
  BY DEF Init
<1>3. PICK r \in IF mirrors THEN RatioOf(w.watts) ELSE {None} \cup Ratios :
        wire = [w EXCEPT !.ratio = r]
  BY <1>2
<1>4. w.watts \in Nat /\ w.enabled \in BOOLEAN
  BY RangeAssumption DEF Registers
<1>5. r \in (0..Full) \cup {None} /\ (mirrors => r # None)
  <2>1. CASE mirrors
    <3>1. r \in 0..Full
      BY <1>1, <1>3, <1>4, <2>1, RatioOfAgrees
    <3> QED
      BY <3>1, RangeAssumption DEF Full
  <2>2. CASE ~mirrors
    BY <1>3, <2>2, RangeAssumption
  <2> QED
    BY <2>1, <2>2
<1>6. wire = [watts |-> w.watts, ratio |-> r, enabled |-> w.enabled]
  BY <1>3 DEF Registers
<1>7. wire \in Files /\ Coupled(wire)
  BY <1>3, <1>4, <1>5, <1>6 DEF Files, Coupled
<1> QED
  BY <1>1, <1>7 DEF Init, ExportInv, ExportTypeOK, WritingInv, DoneInv, Requests, Ended, Coupled

LEMMA NextKeepsExport ==
    ASSUME KilowattUnit, ExportInv, [Next]_vars
    PROVE  ExportInv'
<1>1. CASE UNCHANGED vars
  BY <1>1 DEF vars, ExportInv, ExportTypeOK, WritingInv, DoneInv, Coupled
<1> QED
  BY <1>1, CallKeeps, CallUnreadKeeps, SkipKeeps, WriteKeeps, WriteFailsKeeps,
     ReadBackKeeps, ReadBackFailsKeeps DEF Next

LEMMA AlwaysExport ==
    ASSUME KilowattUnit
    PROVE  Spec => []ExportInv
<1>1. Init => ExportInv
  BY InitExport
<1>2. ExportInv /\ [Next]_vars => ExportInv'
  BY NextKeepsExport
<1> QED
  BY <1>1, <1>2, PTL DEF Spec

(***************************************************************************)
(* What the registers let out.                                             *)
(***************************************************************************)
LEMMA SlackIs ==
    /\ Slack \in Nat /\ Slack >= 1
    /\ 3 * Nominal < 2 * Full * Slack
<1>1. Nominal \in Nat
  BY RangeAssumption
<1>2. 3 * Nominal \in Nat
  BY <1>1
<1> DEFINE cut == (3 * Nominal) \div 2000
<1>3. cut \in Nat /\ 3 * Nominal < cut * 2000 + 2000
  BY <1>2, Division
<1>4. Slack = cut + 1
  BY DEF Slack, Full
<1> HIDE DEF cut
<1> QED
  BY <1>1, <1>3, <1>4 DEF Full

LEMMA AsRatioIs ==
    ASSUME NEW w \in Nat
    PROVE  /\ AsRatio(w) \in Nat /\ AsRatio(w) <= w
           /\ Nominal # 0 => AsRatio(w) <= Nominal
BY RangeAssumption DEF AsRatio, Least

\* A ratio that agrees with that of a limit lets out the limit, give or take the slack.
LEMMA AgreedCap ==
    ASSUME Nominal # 0, NEW w \in Nat, NEW r \in 0..Full, Agree(r, Implied(w))
    PROVE  /\ (r * Nominal) \div Full \in Nat
           /\ AsRatio(w) - Slack <= (r * Nominal) \div Full
           /\ (r * Nominal) \div Full <= w + Slack
<1>1. Nominal \in Nat /\ Nominal > 0 /\ r \in Nat /\ r * Nominal \in Nat
  BY RangeAssumption DEF Full
<1>2. PICK n \in Nat :
        /\ Implied(w) = Least(Full, n)
        /\ 2 * (n * Nominal - Full * w) <= Nominal
        /\ 2 * (Full * w - n * Nominal) <= Nominal
  BY ImpliedIs
<1> DEFINE cut == (r * Nominal) \div Full
<1>3. cut \in Nat /\ cut * 1000 <= r * Nominal /\ r * Nominal < cut * 1000 + 1000
  BY <1>1, Division DEF Full
<1> HIDE DEF cut
<1>4. r <= n + 1 /\ (r >= n - 1 \/ r >= Full - 1)
  BY <1>1, <1>2 DEF Agree, Least, Full
<1>5. /\ (n + 1) * Nominal = n * Nominal + Nominal
      /\ (n - 1) * Nominal = n * Nominal - Nominal
      /\ n * Nominal \in Nat
  BY <1>1
<1>6. r * Nominal <= n * Nominal + Nominal
  <2>1. \A a, b \in Int : a <= b => a * Nominal <= b * Nominal
    BY <1>1
  <2> QED
    BY <1>1, <1>4, <1>5, <2>1
<1>7. r * Nominal >= n * Nominal - Nominal \/ r * Nominal >= 1000 * Nominal - Nominal
  <2>1. \A a, b \in Int : a <= b => a * Nominal <= b * Nominal
    BY <1>1
  <2>2. (Full - 1) * Nominal = 1000 * Nominal - Nominal
    BY <1>1 DEF Full
  <2>3. CASE r >= n - 1
    BY <1>1, <1>5, <2>1, <2>3
  <2>4. CASE r >= Full - 1
    BY <1>1, <2>1, <2>2, <2>4 DEF Full
  <2> QED
    BY <1>4, <2>3, <2>4
<1>8. 2 * (n * Nominal) <= 2000 * w + Nominal /\ 2 * (n * Nominal) >= 2000 * w - Nominal
  BY <1>1, <1>2, <1>5 DEF Full
<1>9. 3 * Nominal < 2000 * Slack /\ Slack \in Nat
  BY SlackIs DEF Full
<1>10. cut <= w + Slack
  <2>1. 2000 * cut <= 2000 * w + 3 * Nominal
    BY <1>1, <1>3, <1>5, <1>6, <1>8
  <2> QED
    BY <1>1, <1>3, <1>9, <2>1
<1>11. AsRatio(w) - Slack <= cut
  <2>1. AsRatio(w) \in Nat /\ AsRatio(w) <= w /\ AsRatio(w) <= Nominal
    BY AsRatioIs
  <2>2. CASE r * Nominal >= n * Nominal - Nominal
    <3>1. 2000 * cut + 2000 > 2000 * w - 3 * Nominal
      BY <1>1, <1>3, <1>5, <1>8, <2>2
    <3> QED
      BY <1>1, <1>3, <1>9, <2>1, <3>1
  <2>3. CASE r * Nominal >= 1000 * Nominal - Nominal
    <3>1. 1000 * cut + 1000 > 1000 * Nominal - Nominal
      BY <1>1, <1>3, <2>3
    <3> QED
      BY <1>1, <1>3, <1>9, <2>1, <3>1
  <2> QED
    BY <1>7, <2>2, <2>3
<1> QED
  BY <1>3, <1>10, <1>11 DEF cut

\* Registers that are set to a limit in range let it out.
LEMMA SetCaps ==
    ASSUME NEW w \in Files, NEW limit \in Nat, limit <= High,
           w.enabled, w.watts = limit,
           Nominal # 0 /\ w.ratio # None => Agree(w.ratio, Implied(limit))
    PROVE  Caps(w, limit) /\ Cap(w) \in Nat /\ Cap(w) <= limit + Slack
<1>1. High \in Nat /\ Slack \in Nat /\ AsRatio(limit) \in Nat /\ AsRatio(limit) <= limit
  BY RangeAssumption, SlackIs, AsRatioIs
<1>2. CASE mirrors \/ w.ratio = None \/ Nominal = 0
  <2>1. Cap(w) = limit
    BY <1>2 DEF Cap
  <2> QED
    BY <1>1, <2>1 DEF Caps
<1>3. CASE ~(mirrors \/ w.ratio = None \/ Nominal = 0)
  <2> DEFINE out == (w.ratio * Nominal) \div Full
  <2>1. w.ratio \in 0..Full
    BY <1>3 DEF Files
  <2>2. out \in Nat /\ AsRatio(limit) - Slack <= out /\ out <= limit + Slack
    BY <1>3, <2>1, AgreedCap
  <2>3. Cap(w) = Least(High, out)
    BY <1>3 DEF Cap
  <2> HIDE DEF out
  <2>4. Cap(w) \in {High, out} /\ Cap(w) <= out
    BY <1>1, <2>2, <2>3 DEF Least
  <2> QED
    BY <1>1, <2>2, <2>4 DEF Caps
<1> QED
  BY <1>2, <1>3

(***************************************************************************)
(* The theorems.                                                           *)
(***************************************************************************)
\* A limit that was verified, or found set, is in force: the registers let out the
\* limit or, by a ratio, its nearest tenth of a percent or the one next to it.
THEOREM LimitTakesForce ==
    ASSUME KilowattUnit
    PROVE  Spec => []LimitInForce
<1>1. ExportInv => LimitInForce
  <2> SUFFICES ASSUME ExportInv, stage \in {"verified", "unchanged"},
                      request.limit # None, request.on
               PROVE  wire.enabled /\ Caps(wire, request.limit)
    BY DEF LimitInForce
  <2>1. wire \in Files /\ InRange(request) /\ IsSet(wire, request)
    BY DEF ExportInv, ExportTypeOK, DoneInv
  <2>2. request.limit \in Nat /\ request.limit <= High
    BY <2>1, RangeAssumption DEF ExportInv, ExportTypeOK, Requests, InRange
  <2>3. /\ wire.watts = request.limit /\ wire.enabled
        /\ Nominal # 0 /\ wire.ratio # None => Agree(wire.ratio, Implied(request.limit))
    BY <2>1 DEF IsSet, RatioSet
  <2> QED
    BY <2>1, <2>2, <2>3, SetCaps
<1> QED
  BY <1>1, AlwaysExport, PTL

\* An inverter that takes its writes is never reported as a mismatch: neither the
\* rounding of a mirrored ratio nor that of mirrored watts leaves the tolerance.
THEOREM RoundingNeverMismatches ==
    ASSUME KilowattUnit
    PROVE  Spec => []NeverMismatch
<1>1. ExportInv => NeverMismatch
  BY DEF ExportInv, ExportTypeOK, NeverMismatch, Ended
<1> QED
  BY <1>1, AlwaysExport, PTL

\* A call that was verified, repeated, finds nothing to write.
THEOREM RepeatsAreUnchanged ==
    ASSUME KilowattUnit
    PROVE  Spec => []RepeatWritesNothing
<1>1. ExportInv => RepeatWritesNothing
  <2> SUFFICES ASSUME ExportInv, stage = "verified",
                      NEW i \in DOMAIN Plan(request, wire)
               PROVE  Satisfied(Plan(request, wire)[i], wire)
    BY DEF RepeatWritesNothing
  <2>1. request \in Requests /\ wire \in Files /\ IsSet(wire, request)
    BY DEF ExportInv, ExportTypeOK, DoneInv
  <2> QED
    BY <2>1, SetIsSatisfied
<1> QED
  BY <1>1, AlwaysExport, PTL

\* The steps that can change the registers.
LEMMA OnlyWritesChange ==
    ASSUME ExportInv, [Next]_vars, wire' # wire
    PROVE  /\ stage = "writing" /\ next <= Len(plan) /\ wire' \in After(plan[next])
           /\ UNCHANGED <<mirrors, request>>
           /\ InRange(request)
<1>1. Write \/ WriteFails
  BY DEF Next, vars, Call, CallUnread, Skip, ReadBack, ReadBackFails
<1>2. /\ stage = "writing" /\ next <= Len(plan) /\ wire' \in After(plan[next])
      /\ UNCHANGED <<mirrors, request>>
  BY <1>1 DEF Write, WriteFails, Writes
<1> QED
  BY <1>2 DEF ExportInv, WritingInv

\* The enable of a call that sets a limit comes when both registers hold it.
LEMMA EnabledWithLimit ==
    ASSUME KilowattUnit, ExportInv, stage = "writing", next <= Len(plan), AtEnable,
           wire' \in After(plan[next]), InRange(request), request.limit # None, request.on
    PROVE  /\ wire'.enabled
           /\ Caps(wire', request.limit)
           /\ Cap(wire') \in Nat /\ Cap(wire') <= request.limit + Slack
<1>1. /\ wire \in Files /\ Coupled(wire) /\ request.limit \in Nat
      /\ (request.limit # None /\ request.on) \in BOOLEAN
  BY SoFar
<1>2. request.limit <= High
  BY <1>1, RangeAssumption DEF InRange
<1>3. /\ wire' \in Files /\ wire'.enabled = (request.limit # None /\ request.on)
      /\ wire'.watts = wire.watts /\ wire'.ratio = wire.ratio
  BY <1>1, AfterEnabled DEF AtEnable
<1>4. wire.watts = request.limit /\ RatioSet(wire, request)
  BY DEF ExportInv, WritingInv, AtEnable
<1>5. Nominal # 0 /\ wire'.ratio # None => Agree(wire'.ratio, Implied(request.limit))
  BY <1>3, <1>4 DEF RatioSet
<1> QED
  BY <1>1, <1>2, <1>3, <1>4, <1>5, SetCaps

\* When the limitation goes on, the registers let out the limit of the call that turned
\* it on: none left from before is ever enabled, whatever failed in between.
THEOREM NoStaleLimitEnabled ==
    ASSUME KilowattUnit
    PROVE  Spec => EnablingAppliesTarget
<1>1. ExportInv /\ [Next]_vars =>
        [~wire.enabled /\ wire'.enabled => Caps(wire', request.limit)]_vars
  <2> SUFFICES ASSUME ExportInv, [Next]_vars, ~wire.enabled, wire'.enabled
               PROVE  Caps(wire', request.limit)
    OBVIOUS
  <2>1. /\ stage = "writing" /\ next <= Len(plan) /\ wire' \in After(plan[next])
        /\ InRange(request)
    BY OnlyWritesChange
  <2>2. /\ mirrors => Nominal # 0
        /\ wire \in Files /\ Coupled(wire)
        /\ request.limit \in Nat \cup {None} /\ request.on \in BOOLEAN
        /\ (wire.ratio = None) = (cache.ratio = None)
    BY <2>1, SoFar
  <2>3. ~AtRatio
    <3> SUFFICES ASSUME AtRatio PROVE FALSE
      OBVIOUS
    <3>1. request.limit \in Nat /\ Nominal # 0 /\ wire.ratio # None
      BY <2>2 DEF AtRatio, Aligns
    <3>2. Implied(request.limit) \in 0..Full
      BY <3>1, ImpliedInRange
    <3>3. wire'.enabled = wire.enabled
      BY <2>1, <2>2, <3>1, <3>2, AfterRatio DEF AtRatio
    <3> QED
      BY <3>3
  <2>4. ~AtWatts
    <3> SUFFICES ASSUME AtWatts PROVE FALSE
      OBVIOUS
    <3>1. request.limit \in Nat
      BY <2>2 DEF AtWatts
    <3>2. wire'.enabled = wire.enabled
      BY <2>1, <2>2, <3>1, AfterWatts DEF AtWatts
    <3> QED
      BY <3>2
  <2>5. AtEnable
    BY <2>1, <2>3, <2>4, WhereItIs
  <2>6. (request.limit # None /\ request.on) \in BOOLEAN
    OBVIOUS
  <2>7. request.limit # None /\ request.on
    BY <2>1, <2>2, <2>5, <2>6, AfterEnabled DEF AtEnable
  <2> QED
    BY <2>1, <2>5, <2>7, EnabledWithLimit
<1> QED
  BY <1>1, AlwaysExport, PTL DEF Spec, EnablingAppliesTarget

\* What a ratio of a limit, mirrored into the watts, lets out.
LEMMA MirroredCap ==
    ASSUME Nominal # 0, NEW limit \in Nat, NEW w \in WattsOf(Implied(limit))
    PROVE  w \in Nat /\ w <= limit + Slack
<1>1. Nominal \in Nat
  BY RangeAssumption
<1>2. PICK n \in Nat :
        /\ Implied(limit) = Least(Full, n)
        /\ 2 * (n * Nominal - Full * limit) <= Nominal
  BY ImpliedIs
<1> DEFINE i == Implied(limit)
<1>3. i \in 0..Full
  BY ImpliedInRange
<1>4. w \in Nat /\ 2 * (Full * w - i * Nominal) <= Full
  BY <1>3, WattsOfIs DEF Full
<1>5. i <= n
  BY <1>2 DEF Least, Full
<1> HIDE DEF i
<1>6. i * Nominal <= n * Nominal /\ i * Nominal \in Nat /\ n * Nominal \in Nat
  BY <1>1, <1>3, <1>5 DEF Full
<1>7. 2000 * w <= 2000 * limit + Nominal + 1000
  BY <1>1, <1>2, <1>4, <1>6 DEF Full
<1>8. 3 * Nominal < 2000 * Slack /\ Slack \in Nat /\ Slack >= 1
  BY SlackIs DEF Full
<1> QED
  BY <1>1, <1>4, <1>7, <1>8

LEMMA CapIsNat ==
    ASSUME NEW w \in Files
    PROVE  Cap(w) \in Nat
<1>1. High \in Nat /\ Nominal \in Nat
  BY RangeAssumption
<1>2. CASE ~w.enabled \/ mirrors \/ w.ratio = None \/ Nominal = 0
  BY <1>1, <1>2 DEF Cap, Files
<1>3. CASE ~(~w.enabled \/ mirrors \/ w.ratio = None \/ Nominal = 0)
  <2>1. w.ratio * Nominal \in Nat
    BY <1>1, <1>3 DEF Files, Full
  <2>2. (w.ratio * Nominal) \div Full \in Nat
    BY <2>1, Division DEF Full
  <2>3. Cap(w) = Least(High, (w.ratio * Nominal) \div Full)
    BY <1>3 DEF Cap
  <2> QED
    BY <1>1, <2>2, <2>3 DEF Least
<1> QED
  BY <1>2, <1>3

\* No write of a call that sets a limit lets out more than the registers did before
\* it, unless that is no more than the new limit: the ratio comes first.
THEOREM NoPrefixLetsOutMore ==
    ASSUME KilowattUnit
    PROVE  Spec => CapStaysBelow
<1>1. ExportInv /\ [Next]_vars =>
        [wire' # wire /\ request.on /\ request.limit # None =>
           Cap(wire') <= Cap(wire) \/ Cap(wire') <= request.limit + Slack]_vars
  <2> SUFFICES ASSUME ExportInv, [Next]_vars, wire' # wire,
                      request.on, request.limit # None
               PROVE  Cap(wire') <= Cap(wire) \/ Cap(wire') <= request.limit + Slack
    OBVIOUS
  <2>1. /\ stage = "writing" /\ next <= Len(plan) /\ wire' \in After(plan[next])
        /\ InRange(request)
    BY OnlyWritesChange
  <2>2. /\ mirrors => Nominal # 0
        /\ wire \in Files /\ Coupled(wire) /\ request.limit \in Nat
        /\ (wire.ratio = None) = (cache.ratio = None)
    BY <2>1, SoFar
  <2>3. Cap(wire) \in Nat /\ Slack \in Nat /\ High \in Nat
    BY <2>2, CapIsNat, SlackIs, RangeAssumption
  <2>4. CASE AtRatio
    <3>1. Nominal # 0 /\ wire.ratio # None
      BY <2>2, <2>4 DEF AtRatio, Aligns
    <3> DEFINE i == Implied(request.limit)
    <3>2. i \in 0..Full
      BY <2>2, <3>1, ImpliedInRange
    <3>3. /\ wire'.ratio = i /\ wire'.ratio # None /\ wire'.enabled = wire.enabled
          /\ IF mirrors THEN wire'.watts \in WattsOf(i) ELSE wire'.watts = wire.watts
      BY <2>1, <2>2, <2>4, <3>1, <3>2, AfterRatio DEF AtRatio
    <3>4. CASE ~wire.enabled
      BY <2>3, <3>3, <3>4 DEF Cap
    <3>5. CASE wire.enabled /\ mirrors
      <4>1. Cap(wire') = wire'.watts
        BY <3>3, <3>5 DEF Cap
      <4> QED
        BY <2>2, <3>1, <3>3, <3>5, <4>1, MirroredCap
    <3>6. CASE wire.enabled /\ ~mirrors
      <4>1. Cap(wire') = Least(High, (i * Nominal) \div Full)
        BY <3>1, <3>3, <3>6 DEF Cap
      <4>2. Agree(i, Implied(request.limit))
        BY <3>2, AgreesWithItself DEF Full
      <4>3. (i * Nominal) \div Full \in Nat /\ (i * Nominal) \div Full <= request.limit + Slack
        BY <2>2, <3>1, <3>2, <4>2, AgreedCap
      <4> QED
        BY <2>2, <2>3, <4>1, <4>3 DEF Least
    <3> QED
      BY <3>4, <3>5, <3>6
  <2>5. CASE AtWatts
    <3>1. /\ wire'.watts = request.limit /\ wire'.enabled = wire.enabled
          /\ (wire'.ratio = None) = (wire.ratio = None)
          /\ ~mirrors => wire'.ratio = wire.ratio
      BY <2>1, <2>2, <2>5, AfterWatts DEF AtWatts
    <3>2. CASE ~wire.enabled
      BY <2>3, <3>1, <3>2 DEF Cap
    <3>3. CASE wire.enabled /\ (mirrors \/ wire.ratio = None \/ Nominal = 0)
      <4>1. Cap(wire') = request.limit
        BY <3>1, <3>3 DEF Cap
      <4> QED
        BY <2>2, <2>3, <4>1
    <3>4. CASE wire.enabled /\ ~(mirrors \/ wire.ratio = None \/ Nominal = 0)
      <4>1. Cap(wire') = Cap(wire)
        BY <3>1, <3>4 DEF Cap
      <4> QED
        BY <2>3, <4>1
    <3> QED
      BY <3>2, <3>3, <3>4
  <2>6. CASE AtEnable
    BY <2>1, <2>6, EnabledWithLimit
  <2> QED
    BY <2>1, <2>4, <2>5, <2>6, WhereItIs
<1> QED
  BY <1>1, AlwaysExport, PTL DEF Spec, CapStaysBelow
================================================================================
