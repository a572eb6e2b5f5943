---------------------------- MODULE CycleProofs ----------------------------
(***************************************************************************)
(* Two cycles that outlive every restart, and what a price cycle is        *)
(* planned from.                                                           *)
(*                                                                         *)
(* The calibration schedule is safe for every interval, clock resolution,  *)
(* set of limits and set of readings.                                      *)
(*                                                                         *)
(* The price planner's cycle charges the hours its user allowed, for every *)
(* horizon, slider and set of needs.  The invariant keeps its books: what  *)
(* was charged is among the elapsed hours of the cycle in memory and of    *)
(* the stored one, and used hours and hours ahead stay within the budget.  *)
(*                                                                         *)
(* The price slots are right for every list of entries and every length of *)
(* a slot, cycle and budget.  Each loop has its invariant: after any       *)
(* number of turns the cheapest hours among the slots seen are taken       *)
(* (HasTaken), and the record has just the hours of the intervals seen     *)
(* (HasMerged).                                                            *)
(***************************************************************************)
EXTENDS Calibration, PriceCycle, PriceSlots, FiniteSetTheorems, WellFoundedInduction, TLAPS

-----------------------------------------------------------------------------
(* The calibration schedule                                                 *)

(***************************************************************************)
(* The inductive invariant.  OverrideJustified and StoredNeverAhead need   *)
(* that neither schedule lies in the future: only then does a new full     *)
(* charge, stamped with the present, overtake both.                        *)
(***************************************************************************)
NotInFuture ==
    /\ sched.last # None => sched.last <= now
    /\ stored # None => stored.last <= now

BaselineOnceSeen == active => seen # None

CalibrationInv ==
    /\ TypeOK
    /\ NotInFuture
    /\ OverrideJustified
    /\ StoredNeverAhead
    /\ EdgeTracksReading
    /\ BaselineOnceSeen

\* A reading is a number, and numbers are not None.
LEMMA SocsAreNumbers ==
    /\ \A soc \in Socs : soc \in Nat /\ soc # None /\ IsFull(soc) \in BOOLEAN
    /\ \A t \in 0..MaxTime : t \in Nat /\ t # None
  BY NoneAssumption, SocsAssumption, MaxTimeAssumption DEF MaximumSoc, IsFull

\* What one evaluation of a reading returns: a typed schedule whose time is the
\* old one or the present, whose edge flag is the reading's.
LEMMA NextScheduleFacts ==
    ASSUME NEW s \in Schedules \cup {NoSchedule}, NEW soc \in Socs, NEW t \in 0..MaxTime,
           s.last # None => s.last <= t
    PROVE  /\ NextSchedule(s, soc, t) \in Schedules
           /\ NextSchedule(s, soc, t).last \in {s.last, t}
           /\ NextSchedule(s, soc, t).wasFull = IsFull(soc)
           /\ s.last # None /\ NextSchedule(s, soc, t).last # s.last
                => IsFull(soc) /\ ~s.wasFull
  <1>0. t \in 0..MaxTime /\ IsFull(soc) \in BOOLEAN
    BY SocsAreNumbers
  <1>1. CASE s.last = None
    BY <1>0, <1>1 DEF NextSchedule, Schedules
  <1>2. CASE s.last # None
    <2>1. s \in Schedules /\ s = [last |-> s.last, wasFull |-> s.wasFull]
      BY <1>2 DEF Schedules, NoSchedule
    <2>2. CASE IsFull(soc) /\ ~s.wasFull
      BY <1>0, <1>2, <2>1, <2>2 DEF NextSchedule, Schedules
    <2>3. CASE ~IsFull(soc) /\ s.wasFull
      <3>1. NextSchedule(s, soc, t) = [last |-> s.last, wasFull |-> FALSE]
        BY <1>2, <2>3 DEF NextSchedule
      <3>2. s.last \in 0..MaxTime
        BY <2>1 DEF Schedules
      <3>3. IsFull(soc) = FALSE
        BY <1>0, <2>3
      <3>4. NextSchedule(s, soc, t) \in Schedules
        BY <3>1, <3>2 DEF Schedules
      <3>5. NextSchedule(s, soc, t).last = s.last
        BY <3>1
      <3>6. NextSchedule(s, soc, t).wasFull = FALSE
        BY <3>1
      <3> QED
        BY <3>3, <3>4, <3>5, <3>6
    <2>4. CASE IsFull(soc) /\ s.wasFull
      BY <1>0, <1>2, <2>1, <2>4 DEF NextSchedule, Schedules
    <2>5. CASE ~IsFull(soc) /\ ~s.wasFull
      BY <1>0, <1>2, <2>1, <2>5 DEF NextSchedule, Schedules
    <2> QED
      BY <1>0, <2>1, <2>2, <2>3, <2>4, <2>5 DEF Schedules
  <1> QED
    BY <1>1, <1>2

LEMMA InitEstablishesInv == Init => CalibrationInv
  <1> SUFFICES ASSUME Init PROVE CalibrationInv
    OBVIOUS
  <1>1. TypeOK
    <2>1. 0 \in 0..MaxTime
      BY MaxTimeAssumption
    <2> QED
      BY <2>1 DEF Init, TypeOK
  <1>2. NotInFuture /\ StoredNeverAhead
    BY DEF Init, NotInFuture, StoredNeverAhead, NoSchedule
  <1>3. OverrideJustified /\ EdgeTracksReading /\ BaselineOnceSeen
    BY DEF Init, OverrideJustified, EdgeTracksReading, BaselineOnceSeen
  <1> QED
    BY <1>1, <1>2, <1>3 DEF CalibrationInv

LEMMA NextKeepsInv == CalibrationInv /\ [Next]_vars => CalibrationInv'
  <1> SUFFICES ASSUME CalibrationInv, [Next]_vars PROVE CalibrationInv'
    OBVIOUS
  <1> USE DEF CalibrationInv, TypeOK, NotInFuture, OverrideJustified,
              StoredNeverAhead, EdgeTracksReading, BaselineOnceSeen
  <1>1. ASSUME NEW soc \in Socs, Evaluate(soc) PROVE CalibrationInv'
    <2> DEFINE next == NextSchedule(sched, soc, now)
    <2>1. /\ next \in Schedules
          /\ next.last \in {sched.last, now}
          /\ next.wasFull = IsFull(soc)
      BY NextScheduleFacts
    <2>2. next.last \in Nat /\ next.last # None /\ next.last <= now
      BY <2>1, SocsAreNumbers DEF Schedules
    <2>3. /\ sched' = next /\ seen' = soc
          /\ stored' \in {stored, next}
          /\ now' = now /\ maxSoc' = maxSoc
      BY <1>1 DEF Evaluate
    <2>4. active' = CalibrationActive(next, soc, now, maxSoc)
      BY <1>1 DEF Evaluate
    <2>5. TypeOK'
      BY <2>1, <2>3, <2>4 DEF CalibrationActive
    <2>6. next.last # None /\ soc # None
      BY <2>2, SocsAreNumbers
    <2>7. NotInFuture'
      BY <2>2, <2>3
    <2>8. OverrideJustified'
      BY <2>1, <2>3, <2>4, <2>6 DEF CalibrationActive
    <2>9. StoredNeverAhead'
      <3>1. CASE stored' = next
        BY <2>2, <2>3, <3>1
      <3>2. CASE stored' = stored /\ stored # None
        <4>1. stored.last \in Nat /\ stored.last <= now
          BY <3>2 DEF Schedules
        <4>2. sched.last # None => stored.last <= sched.last
          BY <3>2
        <4> QED
          BY <2>1, <2>2, <2>3, <3>2, <4>1, <4>2
      <3> QED
        BY <2>3, <3>1, <3>2
    <2>10. EdgeTracksReading' /\ BaselineOnceSeen'
      BY <2>1, <2>3, <2>6
    <2> QED
      BY <2>5, <2>7, <2>8, <2>9, <2>10
  <1>2. ASSUME NEW limit \in Limits, SetMaxSoc(limit) PROVE CalibrationInv'
    BY <1>2 DEF SetMaxSoc
  <1>3. CASE Restart
    <2>1. /\ active' = FALSE /\ seen' = None
          /\ now' = now /\ maxSoc' = maxSoc /\ stored' = stored
      BY <1>3 DEF Restart
    <2>4. \/ sched' = NoSchedule
          \/ sched' = stored /\ stored # None /\ stored \in Schedules
      BY <1>3 DEF Restart
    <2>2. NoSchedule.last = None
      BY DEF NoSchedule
    <2>3. stored # None => stored.last \in Nat
      BY SocsAreNumbers DEF Schedules
    <2>5. CASE sched' = NoSchedule
      BY <2>1, <2>2, <2>5
    <2>6. CASE sched' = stored /\ stored # None /\ stored \in Schedules
      <3>1. TypeOK' /\ BaselineOnceSeen'
        BY <2>1, <2>6
      <3>2. NotInFuture'
        BY <2>1, <2>6
      <3>3. OverrideJustified' /\ EdgeTracksReading'
        BY <2>1
      <3>4. StoredNeverAhead'
        BY <2>1, <2>3, <2>6
      <3> QED
        BY <3>1, <3>2, <3>3, <3>4
    <2> QED
      BY <2>4, <2>5, <2>6
  <1>4. CASE Tick
    <2>1. now' = now + 1 /\ now' \in 0..MaxTime
      BY <1>4, MaxTimeAssumption DEF Tick
    <2>2. UNCHANGED <<maxSoc, sched, active, stored, seen>>
      BY <1>4 DEF Tick
    <2>3. \A s \in Schedules : s.last \in Nat
      BY SocsAreNumbers DEF Schedules
    <2>4. NotInFuture'
      BY <2>1, <2>2, <2>3 DEF NoSchedule
    <2>5. active => sched.last \in Nat /\ sched.last # None
      BY <2>3 DEF NoSchedule
    <2>6. active => Due(sched.last) \in Int
      BY <2>5, IntervalAssumption, TicksAssumption DEF Due
    <2>7. OverrideJustified'
      BY <2>1, <2>2, <2>6
    <2> QED
      BY <2>1, <2>2, <2>4, <2>7
  <1>5. CASE UNCHANGED vars
    BY <1>5 DEF vars
  <1> QED
    BY <1>1, <1>2, <1>3, <1>4, <1>5 DEF Next

(***************************************************************************)
(* The schedule's invariants hold in every state of every execution.       *)
(***************************************************************************)
THEOREM CalibrationInvariant == Spec => []CalibrationInv
  BY InitEstablishesInv, NextKeepsInv, PTL DEF Spec

\* The variables keep their types.
THEOREM TypeCorrect == Spec => []TypeOK
  BY CalibrationInvariant, PTL DEF CalibrationInv

\* The limit is lifted only when the last full charge is old enough and the
\* battery below full.
THEOREM OverrideIsJustified == Spec => []OverrideJustified
  BY CalibrationInvariant, PTL DEF CalibrationInv

\* The schedule on disk is never newer than the one in RAM.
THEOREM StoreNeverAhead == Spec => []StoredNeverAhead
  BY CalibrationInvariant, PTL DEF CalibrationInv

\* The due date moves only with an edge to full or a new baseline.
THEOREM DueDateStable == Spec => DueDateMovesOnEdge
  <1> DEFINE Step ==
        sched.last # None /\ sched'.last # None /\ seen' # None
        /\ sched'.last # sched.last
            => IsFull(seen') /\ ~(seen # None /\ IsFull(seen))
  <1>1. CalibrationInv /\ [Next]_vars => [Step]_vars
    <2> SUFFICES ASSUME CalibrationInv, Next PROVE Step
      OBVIOUS
    <2>1. ASSUME NEW soc \in Socs, Evaluate(soc) PROVE Step
      <3>1. sched.last # None => sched.last <= now
        BY DEF CalibrationInv, NotInFuture
      <3>2. sched \in Schedules \cup {NoSchedule} /\ now \in 0..MaxTime
        BY DEF CalibrationInv, TypeOK
      <3>3. sched.last # None /\ NextSchedule(sched, soc, now).last # sched.last
               => IsFull(soc) /\ ~sched.wasFull
        BY <3>1, <3>2, NextScheduleFacts
      <3>4. sched' = NextSchedule(sched, soc, now) /\ seen' = soc
        BY <2>1 DEF Evaluate
      <3> QED
        BY <3>3, <3>4 DEF CalibrationInv, EdgeTracksReading
    <2>2. ASSUME NEW limit \in Limits, SetMaxSoc(limit) PROVE Step
      BY <2>2 DEF SetMaxSoc
    <2>3. CASE Restart
      BY <2>3 DEF Restart
    <2>4. CASE Tick
      BY <2>4 DEF Tick
    <2> QED
      BY <2>1, <2>2, <2>3, <2>4 DEF Next
  <1> QED
    BY <1>1, CalibrationInvariant, PTL DEF Spec, DueDateMovesOnEdge

\* An override ends only with a full battery, a limit of 100 % or a restart.
THEOREM OverrideEnds == Spec => OverrideEndsWhenFull
  <1> DEFINE Step == active /\ ~active' =>
                        seen' = None \/ IsFull(seen') \/ maxSoc = MaximumSoc
  <1>1. CalibrationInv /\ [Next]_vars => [Step]_vars
    <2> SUFFICES ASSUME CalibrationInv, Next PROVE Step
      OBVIOUS
    <2>1. ASSUME NEW soc \in Socs, Evaluate(soc) PROVE Step
      <3> SUFFICES ASSUME active, ~active', ~IsFull(soc) PROVE maxSoc = MaximumSoc
        BY <2>1 DEF Evaluate
      <3>1. sched.last # None /\ now >= Due(sched.last)
        BY DEF CalibrationInv, OverrideJustified
      <3>2. NextSchedule(sched, soc, now).last = sched.last
        BY <3>1, NextScheduleFacts DEF CalibrationInv, TypeOK, NotInFuture
      <3>3. ~CalibrationActive(NextSchedule(sched, soc, now), soc, now, maxSoc)
        BY <2>1 DEF Evaluate
      <3>4. ~(maxSoc < MaximumSoc)
        BY <3>1, <3>2, <3>3 DEF CalibrationActive
      <3> QED
        BY <3>4, LimitsAssumption DEF CalibrationInv, TypeOK, MaximumSoc
    <2>2. ASSUME NEW limit \in Limits, SetMaxSoc(limit) PROVE Step
      BY <2>2 DEF SetMaxSoc
    <2>3. CASE Restart
      BY <2>3 DEF Restart
    <2>4. CASE Tick
      BY <2>4 DEF Tick
    <2> QED
      BY <2>1, <2>2, <2>3, <2>4 DEF Next
  <1> QED
    BY <1>1, CalibrationInvariant, PTL DEF Spec, OverrideEndsWhenFull

\* The schedule only moves with a full charge: the edge detector knows the last
\* reading, and what is on disk is never newer.
THEOREM ScheduleStaysSteady == Spec => ScheduleIsSteady
  BY CalibrationInvariant, DueDateStable, PTL DEF ScheduleIsSteady, CalibrationInv

\* The limit is lifted from the due day until the battery is full, not earlier
\* and not in between given up.
THEOREM OverrideStaysBounded == Spec => OverrideIsBounded
  BY OverrideIsJustified, OverrideEnds, PTL DEF OverrideIsBounded

-----------------------------------------------------------------------------
(* The books of the price planner's cycle                                   *)

\* A cycle as it is made.
Cycles ==
    {c \in [anchor : 0..LastHour, strategy : {"relative", "smart"}, budget : 0..MaxHours,
            picked : SUBSET (0..(LastHour + Horizon)), inputs : {Unknown} \cup (Sliders \X Needs)] :
        /\ c.picked \subseteq c.anchor..(Ends(c) - 1)
        /\ c.inputs # Unknown <=> c.strategy = "smart"}

CycleTypes ==
    /\ hour \in 0..LastHour /\ hours \in Sliders /\ strategy \in Strategies
    /\ running \in BOOLEAN /\ due \in BOOLEAN /\ steady \in BOOLEAN /\ whole \in BOOLEAN
    /\ need \in Needs /\ used \in Nat /\ most \in Sliders
    /\ cycle \in Cycles \cup {NoCycle} /\ storedCycle \in Cycles \cup {NoCycle}
    /\ plan \in SUBSET cycle.picked

\* What the smart strategy wanted when it worked out its budget.
WantedBy(inputs) ==
    IF inputs[2] = Unknown THEN inputs[1] ELSE Lesser(inputs[1], inputs[2])

\* A budget is no more than the slider, and no more than what is used and needed.
Sound(c) ==
    c # NoCycle =>
        /\ c.anchor <= hour
        /\ c.strategy = "smart" =>
             /\ c.budget <= c.inputs[1]
             /\ c.budget <= WantedBy(c.inputs) + Cardinality(Elapsed(c))

\* What was charged in the cycle is on its books; a budget of the present need
\* counts what was charged for it.
Reckoned(c) ==
    IF hour >= Ends(c) THEN used = 0
    ELSE /\ used <= Cardinality(Elapsed(c))
         /\ strategy = "smart" /\ steady =>
              IF c.inputs = Inputs(strategy, hours)
              THEN c.budget + used <= Wanted(hours) + Cardinality(Elapsed(c))
              ELSE used = 0

Follows(c) ==
    /\ c # NoCycle /\ c.strategy = strategy
    /\ (c.anchor - began.at) % Horizon = 0
    /\ Reckoned(c)

\* A cycle is there while the program runs with a budget, and is renewed within
\* the hour.
Continues ==
    /\ began # NeverBegan =>
         began.at \in 0..hour /\ began.strategy = strategy /\ strategy # "off"
    /\ cycle # NoCycle <=> running /\ strategy # "off"
    /\ cycle # NoCycle =>
         /\ began # NeverBegan
         /\ hour < Ends(cycle) \/ (hour = Ends(cycle) /\ due)
         /\ cycle.picked \subseteq plan \cup 0..(hour - 1)
         /\ ~due /\ steady /\ strategy = "smart" => cycle.inputs = Inputs(strategy, hours)
    /\ running /\ strategy = "off" => began = NeverBegan

\* The cycle in memory continues what the user began, and so does the stored
\* one, except in the hour of the choice.
Booked ==
    /\ Sound(cycle) /\ Sound(storedCycle)
    /\ cycle # NoCycle => Follows(cycle)
    /\ began # NeverBegan /\ (~running \/ began.at # hour) => Follows(storedCycle)

Ahead == {t \in plan : t >= hour}

\* What was and will be charged in this cycle.
WithinBudget ==
    began # NeverBegan =>
        /\ used + Cardinality(Ahead) <= most
        /\ strategy = "smart" /\ steady => used + Cardinality(Ahead) <= Wanted(hours)

Spends ==
    whole /\ steady /\ began # NeverBegan =>
        /\ running /\ strategy = "relative"
        /\ hour < Ends(cycle) =>
             used = Cardinality(Elapsed(cycle)) /\ used + Cardinality(Ahead) = hours

\* What every evaluation, save, restart and hour keeps.  BudgetIsKept alone does
\* not last: a restart continues from the stored cycle, so that one has to hold
\* the hours charged, too, and the plan what is still allowed.
CycleInv == CycleTypes /\ Continues /\ Booked /\ WithinBudget /\ Spends
-----------------------------------------------------------------------------
(* Multiples of the horizon                                                 *)

LEMMA Quotient ==
    ASSUME NEW i \in Int
    PROVE  /\ i \div Horizon \in Int /\ i % Horizon \in 0..(Horizon - 1)
           /\ i = Horizon * (i \div Horizon) + (i % Horizon)
  BY HorizonAssumption

\* No multiple lies between zero and the next.
LEMMA NoMultipleBetween ==
    ASSUME NEW k \in Int, -Horizon < k * Horizon, k * Horizon < Horizon
    PROVE  k * Horizon = 0
<1>1. Horizon \in Nat /\ Horizon > 0
  BY HorizonAssumption
<1>2. CASE k >= 1
  <2>1. k - 1 \in Nat /\ (k - 1) * Horizon \in Nat
    BY <1>1, <1>2
  <2>2. k * Horizon = Horizon + (k - 1) * Horizon
    BY <1>1
  <2>. QED BY <1>1, <2>1, <2>2
<1>3. CASE k <= -1
  <2>1. -1 - k \in Nat /\ (-1 - k) * Horizon \in Nat
    BY <1>1, <1>3
  <2>2. k * Horizon = -Horizon - (-1 - k) * Horizon
    BY <1>1
  <2>. QED BY <1>1, <2>1, <2>2
<1>4. CASE k = 0
  BY <1>1, <1>4
<1>. QED BY <1>2, <1>3, <1>4

LEMMA MultipleDivides ==
    ASSUME NEW k \in Int
    PROVE  (k * Horizon) % Horizon = 0
<1>. DEFINE i == k * Horizon
            q == i \div Horizon
            r == i % Horizon
<1>1. i \in Int /\ Horizon \in Nat /\ Horizon > 0
  BY HorizonAssumption
<1>2. q \in Int /\ r \in 0..(Horizon - 1) /\ i = Horizon * q + r
  BY <1>1, Quotient
<1>. HIDE DEF q, r
<1>3. (k - q) * Horizon = r
  BY <1>1, <1>2
<1>4. r = 0
  BY <1>1, <1>2, <1>3, NoMultipleBetween, k - q \in Int
<1>. QED BY <1>4 DEF r

LEMMA Divides ==
    ASSUME NEW i \in Int
    PROVE  i % Horizon = 0 <=> \E k \in Int : i = k * Horizon
<1>1. ASSUME i % Horizon = 0 PROVE \E k \in Int : i = k * Horizon
  <2>1. PICK q \in Int : i = Horizon * q + 0
    BY <1>1, Quotient
  <2>. QED BY <2>1, HorizonAssumption
<1>. QED BY <1>1, MultipleDivides

LEMMA MultiplesAdd ==
    ASSUME NEW i \in Int, NEW j \in Int, i % Horizon = 0, j % Horizon = 0
    PROVE  (i + j) % Horizon = 0 /\ (i - j) % Horizon = 0 /\ (j - i) % Horizon = 0
<1>1. PICK k \in Int : i = k * Horizon
  BY Divides
<1>2. PICK l \in Int : j = l * Horizon
  BY Divides
<1>3. /\ i + j = (k + l) * Horizon /\ i - j = (k - l) * Horizon /\ j - i = (l - k) * Horizon
      /\ k + l \in Int /\ k - l \in Int /\ l - k \in Int
  BY <1>1, <1>2, HorizonAssumption
<1>. QED BY <1>3, MultipleDivides

\* The cycle of an instant begins at most a horizon before it.
LEMMA RollsOver ==
    ASSUME NEW a \in Nat, NEW t \in Nat, a <= t
    PROVE  LET b == a + ((t - a) \div Horizon) * Horizon
           IN  /\ b \in a..t /\ t < b + Horizon
               /\ (b - a) % Horizon = 0
<1>. DEFINE q == (t - a) \div Horizon
            r == (t - a) % Horizon
<1>1. /\ q \in Int /\ r \in 0..(Horizon - 1) /\ t - a = Horizon * q + r
      /\ Horizon \in Nat /\ Horizon > 0 /\ t - a \in Nat
  <2>1. t - a \in Int /\ t - a \in Nat
    OBVIOUS
  <2>. DEFINE d == t - a
  <2>2. Horizon \in Nat /\ Horizon > 0
    BY HorizonAssumption
  <2>3. /\ d \div Horizon \in Int /\ d % Horizon \in 0..(Horizon - 1)
        /\ d = Horizon * (d \div Horizon) + (d % Horizon)
    <3>1. d \in Int
      BY <2>1
    <3>. HIDE DEF d
    <3>. QED BY <3>1, Quotient
  <2>. QED BY <2>1, <2>2, <2>3
<1>. HIDE DEF q, r
<1>2. q \in Nat
  <2>1. SUFFICES ASSUME q <= -1 PROVE FALSE
    BY <1>1
  <2>2. -1 - q \in Nat /\ (-1 - q) * Horizon \in Nat /\ Horizon * q = -Horizon - (-1 - q) * Horizon
    BY <1>1, <2>1
  <2>. QED BY <1>1, <2>2
<1>3. q * Horizon \in Nat /\ q * Horizon = Horizon * q
  BY <1>1, <1>2
<1>4. ((a + q * Horizon) - a) % Horizon = 0
  <2>1. (a + q * Horizon) - a = q * Horizon
    BY <1>3
  <2>. QED BY <1>1, <2>1, MultipleDivides
<1>. QED BY <1>1, <1>3, <1>4 DEF q

\* A cycle that is in phase ends where the user's cycle does.
LEMMA EndsInPhase ==
    ASSUME NEW a \in Nat, NEW t \in Nat, NEW x \in Int, a <= t, t < a + Horizon,
           (a - x) % Horizon = 0
    PROVE  (t + 1 - x) % Horizon = 0 <=> t + 1 = a + Horizon
<1>1. Horizon \in Nat /\ Horizon > 0 /\ Horizon % Horizon = 0
  BY HorizonAssumption, MultipleDivides, 1 * Horizon = Horizon
<1>2. ASSUME (t + 1 - x) % Horizon = 0 PROVE t + 1 = a + Horizon
  <2>1. ((t + 1 - x) - (a - x)) % Horizon = 0
    BY <1>2, MultiplesAdd
  <2>2. (t + 1 - x) - (a - x) = t + 1 - a /\ t + 1 - a \in Int
    OBVIOUS
  <2>. DEFINE d == t + 1 - a
  <2>3. d \in Int /\ d % Horizon = 0
    BY <2>1, <2>2
  <2>. HIDE DEF d
  <2>6. (d - Horizon) % Horizon = 0
    BY <1>1, <2>3, MultiplesAdd
  <2>7. d - Horizon \in Int /\ d - Horizon = t + 1 - a - Horizon
    BY <1>1, <2>3 DEF d
  <2>4. PICK k \in Int : t + 1 - a - Horizon = k * Horizon
    BY <2>6, <2>7, Divides
  <2>5. k * Horizon = 0
    BY <1>1, <2>4, NoMultipleBetween
  <2>. QED BY <1>1, <2>4, <2>5
<1>3. ASSUME t + 1 = a + Horizon PROVE (t + 1 - x) % Horizon = 0
  <2>. DEFINE e == a - x
  <2>1. e \in Int /\ e % Horizon = 0
    OBVIOUS
  <2>. HIDE DEF e
  <2>2. (e + Horizon) % Horizon = 0
    BY <1>1, <2>1, MultiplesAdd
  <2>3. t + 1 - x = e + Horizon
    BY <1>1, <1>3 DEF e
  <2>. QED BY <2>2, <2>3
<1>. QED BY <1>2, <1>3

-----------------------------------------------------------------------------
(* Cycles                                                                   *)

LEMMA Numbers ==
    /\ Horizon \in Nat /\ Horizon > 0 /\ MaxHours \in 1..Horizon /\ LastHour \in Nat
    /\ Unknown \notin Nat /\ Needs \subseteq Nat \cup {Unknown}
    /\ \A h \in Sliders, n \in Needs : Unknown # <<h, n>>
  BY HorizonAssumption, UnknownIsNoInput DEF Sliders

LEMMA WantedIsBounded ==
    ASSUME need \in Needs, NEW h \in Sliders
    PROVE  /\ Wanted(h) \in 0..h /\ (need # Unknown => Wanted(h) <= need)
           /\ WantedBy(<<h, need>>) = Wanted(h)
  BY Numbers DEF Wanted, WantedBy, Lesser, Sliders

LEMMA CycleFacts ==
    ASSUME NEW c \in Cycles \cup {NoCycle}
    PROVE  /\ c \in Cycles <=> c # NoCycle
           /\ c \in Cycles =>
                /\ c.anchor \in 0..LastHour /\ c.strategy \in {"relative", "smart"}
                /\ c.budget \in 0..MaxHours
                /\ c.picked \subseteq c.anchor..((c.anchor + Horizon) - 1)
                /\ c.inputs \in {Unknown} \cup (Sliders \X Needs)
                /\ c.inputs # Unknown <=> c.strategy = "smart"
                /\ Ends(c) = c.anchor + Horizon
           /\ c.picked \subseteq Nat
           /\ IsFiniteSet(c.picked)
<1>1. c \in Cycles => c # NoCycle
  BY Numbers DEF Cycles, NoCycle
<1>2. c = NoCycle => c.picked = {}
  BY DEF NoCycle
<1>3. c \in Cycles =>
        /\ c.anchor \in 0..LastHour /\ c.strategy \in {"relative", "smart"}
        /\ c.budget \in 0..MaxHours
        /\ c.picked \subseteq c.anchor..((c.anchor + Horizon) - 1)
        /\ c.picked \subseteq 0..(LastHour + Horizon)
        /\ c.inputs \in {Unknown} \cup (Sliders \X Needs)
        /\ c.inputs # Unknown <=> c.strategy = "smart"
        /\ Ends(c) = c.anchor + Horizon
  BY DEF Cycles, Ends
<1>4. IsFiniteSet(0..(LastHour + Horizon)) /\ IsFiniteSet({})
  BY FS_Interval, FS_EmptySet, Numbers
<1>5. IsFiniteSet(c.picked)
  BY <1>2, <1>3, <1>4, FS_Subset
<1>6. c.picked \subseteq Nat
  <2>1. 0..(LastHour + Horizon) \subseteq Nat
    BY Numbers
  <2>. QED BY <1>2, <1>3, <2>1
<1>7. c \in Cycles <=> c # NoCycle
  BY <1>1
<1>. QED BY <1>3, <1>5, <1>6, <1>7

\* The hours that are over, now and an hour later.
LEMMA ElapsedFacts ==
    ASSUME CycleTypes, NEW c \in Cycles \cup {NoCycle}
    PROVE  /\ IsFiniteSet(Elapsed(c)) /\ Cardinality(Elapsed(c)) \in Nat
           /\ LET later == {t \in c.picked : t < hour + 1}
              IN  Cardinality(later) = IF hour \in c.picked THEN Cardinality(Elapsed(c)) + 1
                                                            ELSE Cardinality(Elapsed(c))
<1>1. IsFiniteSet(c.picked) /\ c.picked \subseteq Nat
  BY CycleFacts
<1>2. Elapsed(c) \subseteq c.picked /\ hour \notin Elapsed(c) /\ hour \in Nat
  BY Numbers DEF Elapsed, CycleTypes
<1>3. IsFiniteSet(Elapsed(c))
  BY <1>1, <1>2, FS_Subset
<1>4. Cardinality(Elapsed(c)) \in Nat
  BY <1>3, FS_CardinalityType
<1>5. {t \in c.picked : t < hour + 1}
        = IF hour \in c.picked THEN Elapsed(c) \cup {hour} ELSE Elapsed(c)
  BY <1>1, <1>2 DEF Elapsed
<1>6. Cardinality(Elapsed(c) \cup {hour}) = Cardinality(Elapsed(c)) + 1
  BY <1>2, <1>3, FS_AddElement
<1>. QED BY <1>3, <1>4, <1>5, <1>6

LEMMA NewCycleFacts ==
    ASSUME CycleTypes, NEW at \in 0..hour, NEW s \in {"relative", "smart"}, NEW h \in Sliders
    PROVE  /\ NewCycle(at, s, h) \in Cycles
           /\ NewCycle(at, s, h).anchor = at /\ NewCycle(at, s, h).strategy = s
           /\ NewCycle(at, s, h).inputs = Inputs(s, h)
           /\ NewCycle(at, s, h).budget = (IF s = "smart" THEN Wanted(h) ELSE h)
           /\ Elapsed(NewCycle(at, s, h)) = {}
           /\ Cardinality(Elapsed(NewCycle(at, s, h))) = 0
           /\ Sound(NewCycle(at, s, h))
<1>. DEFINE c == NewCycle(at, s, h)
<1>1. need \in Needs /\ hour \in 0..LastHour /\ at \in 0..LastHour /\ at <= hour
  BY Numbers DEF CycleTypes
<1>2. Wanted(h) \in 0..h /\ h \in 1..MaxHours /\ WantedBy(<<h, need>>) = Wanted(h)
  BY <1>1, WantedIsBounded DEF Sliders
<1>3. /\ c.anchor = at /\ c.strategy = s /\ c.inputs = Inputs(s, h) /\ c.picked = {}
      /\ c.budget = (IF s = "smart" THEN Wanted(h) ELSE h)
  BY DEF NewCycle
<1>4. Inputs(s, h) \in {Unknown} \cup (Sliders \X Needs)
      /\ (Inputs(s, h) # Unknown <=> s = "smart")
  BY <1>1, Numbers DEF Inputs
<1>5. c \in Cycles
  <2>1. c.budget \in 0..MaxHours
    BY <1>2, <1>3, Numbers
  <2>2. c = [anchor |-> c.anchor, strategy |-> c.strategy, budget |-> c.budget,
             picked |-> c.picked, inputs |-> c.inputs]
    BY DEF NewCycle
  <2>. HIDE DEF c
  <2>. QED BY <1>1, <1>3, <1>4, <2>1, <2>2 DEF Cycles
<1>6. Elapsed(c) = {} /\ Cardinality({}) = 0
  BY <1>3, FS_EmptySet DEF Elapsed
<1>7. Sound(c)
  <2>1. s = "smart" => c.inputs = <<h, need>>
    BY <1>3 DEF Inputs
  <2>. HIDE DEF c
  <2>. QED BY <1>1, <1>2, <1>3, <1>6, <2>1 DEF Sound, Sliders
<1>. QED BY <1>3, <1>5, <1>6, <1>7

LEMMA ActiveFacts ==
    ASSUME CycleTypes, NEW b \in Cycles \cup {NoCycle}, Sound(b),
           NEW s \in {"relative", "smart"}, NEW h \in Sliders
    PROVE  LET c == Active(b, s, h) IN
           /\ c \in Cycles /\ c.strategy = s /\ Sound(c)
           /\ c.anchor <= hour /\ hour < c.anchor + Horizon
           /\ IF b # NoCycle /\ b.strategy = s
              THEN /\ (c.anchor - b.anchor) % Horizon = 0
                   /\ hour < Ends(b) => c = b
                   /\ hour >= Ends(b) => c = NewCycle(c.anchor, s, h)
              ELSE c = NewCycle(hour, s, h) /\ c.anchor = hour
<1>1. hour \in 0..LastHour /\ hour \in Nat /\ LastHour \in Nat /\ Horizon \in Nat /\ Horizon > 0
  BY Numbers DEF CycleTypes
<1>2. CASE ~(b # NoCycle /\ b.strategy = s)
  <2>1. Active(b, s, h) = NewCycle(hour, s, h)
    BY <1>2 DEF Active
  <2>. QED BY <1>1, <1>2, <2>1, NewCycleFacts
<1>3. CASE b # NoCycle /\ b.strategy = s
  <2>1. b \in Cycles /\ b.anchor \in 0..LastHour /\ b.anchor <= hour
        /\ Ends(b) = b.anchor + Horizon
    BY <1>3, CycleFacts DEF Sound
  <2>2. CASE hour < Ends(b)
    <3>1. Active(b, s, h) = b
      BY <1>3, <2>1, <2>2 DEF Active
    <3>2. (b.anchor - b.anchor) % Horizon = 0
      <4>1. b.anchor - b.anchor = 0 * Horizon
        BY <1>1, <2>1
      <4>. QED BY <4>1, MultipleDivides
    <3>. QED BY <1>1, <1>3, <2>1, <2>2, <3>1, <3>2
  <2>3. CASE hour >= Ends(b)
    <3>. DEFINE a == b.anchor
                at == a + ((hour - a) \div Horizon) * Horizon
    <3>1. at \in a..hour /\ hour < at + Horizon /\ (at - a) % Horizon = 0
      <4>1. a \in Nat /\ a <= hour
        BY <2>1
      <4>. HIDE DEF a
      <4>. QED BY <1>1, <4>1, RollsOver
    <3>2. Active(b, s, h) = NewCycle(at, s, h)
      BY <1>1, <1>3, <2>1, <2>3 DEF Active
    <3>. HIDE DEF at
    <3>3. at \in 0..hour
      BY <1>1, <2>1, <3>1
    <3>. QED BY <1>1, <1>3, <2>1, <2>3, <3>1, <3>2, <3>3, NewCycleFacts
  <2>. QED BY <1>1, <2>1, <2>2, <2>3
<1>. QED BY <1>2, <1>3

-----------------------------------------------------------------------------
(* One evaluation                                                           *)

LEMMA BudgetFacts ==
    ASSUME CycleTypes, NEW c \in Cycles, Sound(c), NEW s \in {"relative", "smart"},
           NEW h \in Sliders, c.strategy = s
    PROVE  LET e == Cardinality(Elapsed(c))
               w == IF s = "smart" THEN Wanted(h) ELSE h
           IN  /\ e \in Nat /\ w \in 0..h
               /\ Budget(c, s, h) \in 0..h
               /\ s = "relative" => Budget(c, s, h) = h
               /\ s = "smart" => Budget(c, s, h) <= Wanted(h) + e
               /\ s = "smart" /\ c.inputs = Inputs(s, h) => Budget(c, s, h) = c.budget
               /\ ToChoose(c, s, h) \in Nat /\ ToChoose(c, s, h) <= w
               /\ Budget(c, s, h) >= e => ToChoose(c, s, h) <= Budget(c, s, h) - e
               /\ Budget(c, s, h) < e => ToChoose(c, s, h) = 0
               /\ s = "relative" /\ e <= h => ToChoose(c, s, h) = h - e
<1>. DEFINE e == Cardinality(Elapsed(c))
            w == IF s = "smart" THEN Wanted(h) ELSE h
            n == Budget(c, s, h)
<1>1. e \in Nat
  BY ElapsedFacts, CycleFacts
<1>2. /\ Wanted(h) \in 0..h /\ w \in 0..h /\ h \in Nat /\ h <= MaxHours
      /\ WantedBy(<<h, need>>) = Wanted(h) /\ MaxHours \in Nat
  BY WantedIsBounded, Numbers DEF CycleTypes, Sliders
<1>3. c # NoCycle /\ c.budget \in Nat
  BY CycleFacts, <1>2
<1>4. s = "smart" /\ c.inputs = Inputs(s, h) =>
        c.budget <= h /\ c.budget <= Wanted(h) + e
  BY <1>2, <1>3 DEF Sound, Inputs
<1>5. /\ n \in 0..h /\ (s = "relative" => n = h) /\ (s = "smart" => n <= Wanted(h) + e)
      /\ (s = "smart" /\ c.inputs = Inputs(s, h) => n = c.budget)
  <2>1. CASE s = "relative"
    BY <1>2, <2>1 DEF Budget
  <2>2. CASE s = "smart" /\ c.inputs = Inputs(s, h)
    BY <1>1, <1>2, <1>3, <1>4, <2>2 DEF Budget
  <2>3. CASE s = "smart" /\ c.inputs # Inputs(s, h)
    <3>1. n = Lesser(h, e + Wanted(h))
      BY <2>3 DEF Budget
    <3>. HIDE DEF n, e
    <3>. QED BY <1>1, <1>2, <2>3, <3>1 DEF Lesser
  <2>. QED BY <2>1, <2>2, <2>3
<1>6. ToChoose(c, s, h) = Lesser(w, Greater(0, n - e))
  BY DEF ToChoose
<1>. HIDE DEF e, w, n
<1>7. /\ ToChoose(c, s, h) \in Nat /\ ToChoose(c, s, h) <= w
      /\ n >= e => ToChoose(c, s, h) <= n - e
      /\ n < e => ToChoose(c, s, h) = 0
  BY <1>1, <1>2, <1>5, <1>6 DEF Lesser, Greater
<1>8. s = "relative" /\ e <= h => ToChoose(c, s, h) = h - e
  BY <1>1, <1>2, <1>5, <1>6 DEF Lesser, Greater, w
<1>. QED BY <1>1, <1>2, <1>5, <1>7, <1>8 DEF e, w, n

\* What an evaluation makes of the cycle that is active.
LEMMA EvaluationFacts ==
    ASSUME CycleTypes, NEW b \in Cycles \cup {NoCycle}, Sound(b),
           NEW s \in {"relative", "smart"}, NEW h \in Sliders, Evaluates(b, s, h),
           hour' = hour, need' = need
    PROVE  LET c == Active(b, s, h) IN
           /\ strategy' = s /\ hours' = h /\ due' = FALSE
           /\ cycle' \in Cycles /\ cycle'.anchor = c.anchor /\ cycle'.strategy = s
           /\ cycle'.budget = Budget(c, s, h) /\ cycle'.inputs = Inputs(s, h)
           /\ Elapsed(cycle)' = Elapsed(c)
           /\ plan' \in SUBSET cycle'.picked
           /\ cycle'.picked \subseteq plan' \cup 0..(hour - 1)
           /\ Ahead' = plan' /\ plan' \subseteq hour..((c.anchor + Horizon) - 1)
           /\ Cardinality(plan') \in Nat /\ Cardinality(plan') <= ToChoose(c, s, h)
           /\ Reckons(s, h, Cardinality(plan') =
                              Lesser(ToChoose(c, s, h), (c.anchor + Horizon) - hour), c)
<1>. DEFINE c == Active(b, s, h)
<1>1. /\ c \in Cycles /\ c.strategy = s /\ c.anchor <= hour /\ hour < c.anchor + Horizon
      /\ Sound(c) /\ hour \in 0..LastHour /\ need \in Needs
  BY ActiveFacts DEF CycleTypes
<1>2. /\ c.anchor \in 0..LastHour /\ c.picked \subseteq c.anchor..((c.anchor + Horizon) - 1)
      /\ Ends(c) = c.anchor + Horizon
  BY <1>1, CycleFacts
<1>3. /\ strategy' = s /\ hours' = h /\ due' = FALSE
      /\ plan' \in SUBSET Candidates(c) /\ Cardinality(plan') <= ToChoose(c, s, h)
      /\ cycle' = [c EXCEPT !.budget = Budget(c, s, h), !.picked = Kept(c, plan'),
                            !.inputs = Inputs(s, h)]
      /\ Reckons(s, h, Cardinality(plan') =
                         Lesser(ToChoose(c, s, h), Cardinality(Candidates(c))), c)
  BY DEF Evaluates
<1>4. /\ Budget(c, s, h) \in 0..MaxHours
      /\ Inputs(s, h) \in {Unknown} \cup (Sliders \X Needs)
      /\ (Inputs(s, h) # Unknown <=> s = "smart")
  <2>1. Budget(c, s, h) \in 0..h
    BY <1>1, BudgetFacts
  <2>. QED BY <1>1, <2>1, Numbers DEF Inputs, Sliders
<1>. HIDE DEF c
<1>5. /\ plan' \subseteq hour..((c.anchor + Horizon) - 1)
      /\ IsFiniteSet(plan') /\ Cardinality(plan') \in Nat
      /\ Cardinality(Candidates(c)) = (c.anchor + Horizon) - hour
  <2>1. /\ IsFiniteSet(hour..((c.anchor + Horizon) - 1))
        /\ Cardinality(hour..((c.anchor + Horizon) - 1)) = (c.anchor + Horizon) - hour
    <3>. DEFINE last == (c.anchor + Horizon) - 1
    <3>1. /\ hour \in Int /\ last \in Int /\ hour <= last
          /\ (last - hour) + 1 = (c.anchor + Horizon) - hour
      BY <1>1, <1>2, Numbers
    <3>. HIDE DEF last
    <3>2. IsFiniteSet(hour..last) /\ Cardinality(hour..last) = (last - hour) + 1
      BY <3>1, FS_Interval
    <3>. QED BY <3>1, <3>2 DEF last
  <2>2. Candidates(c) = hour..((c.anchor + Horizon) - 1)
    BY <1>2 DEF Candidates
  <2>3. IsFiniteSet(plan')
    BY <1>3, <2>1, <2>2, FS_Subset
  <2>. QED BY <1>3, <2>1, <2>2, <2>3, FS_CardinalityType
<1>6. /\ cycle'.anchor = c.anchor /\ cycle'.strategy = s
      /\ cycle'.budget = Budget(c, s, h) /\ cycle'.inputs = Inputs(s, h)
      /\ cycle'.picked = Elapsed(c) \cup plan'
      /\ cycle' = [anchor |-> c.anchor, strategy |-> s, budget |-> Budget(c, s, h),
                   picked |-> Elapsed(c) \cup plan', inputs |-> Inputs(s, h)]
  BY <1>1, <1>3 DEF Kept, Cycles
<1>7. Elapsed(c) \subseteq c.anchor..((c.anchor + Horizon) - 1) /\ \A t \in Elapsed(c) : t < hour
  BY <1>2 DEF Elapsed
<1>8. plan' \cup Elapsed(c) \subseteq c.anchor..((c.anchor + Horizon) - 1)
  <2>1. hour..((c.anchor + Horizon) - 1) \subseteq c.anchor..((c.anchor + Horizon) - 1)
    BY <1>1, <1>2, Numbers
  <2>. QED BY <1>5, <1>7, <2>1
<1>9. cycle' \in Cycles
  <2>1. c.anchor..((c.anchor + Horizon) - 1) \subseteq 0..(LastHour + Horizon)
    BY <1>2, Numbers
  <2>2. Elapsed(c) \cup plan' \in SUBSET (0..(LastHour + Horizon))
    BY <1>8, <2>1
  <2>3. c.anchor \in 0..LastHour /\ s \in {"relative", "smart"}
    BY <1>2
  <2>4. Ends(cycle') = c.anchor + Horizon
    BY <1>6 DEF Ends
  <2>. QED BY <1>4, <1>6, <1>8, <2>2, <2>3, <2>4 DEF Cycles
<1>10. Elapsed(cycle)' = Elapsed(c)
  <2>1. \A t \in plan' : ~(t < hour)
    BY <1>1, <1>2, <1>5, Numbers
  <2>2. Elapsed(cycle)' = {t \in cycle'.picked : t < hour}
    BY DEF Elapsed
  <2>. QED BY <1>6, <1>7, <2>1, <2>2
<1>11. Ahead' = plan'
  <2>1. \A t \in plan' : t >= hour
    BY <1>1, <1>2, <1>5, Numbers
  <2>. QED BY <2>1 DEF Ahead
<1>12. Elapsed(c) \subseteq 0..(hour - 1)
  BY <1>1, <1>2, <1>7, Numbers
<1>. QED BY <1>3, <1>5, <1>6, <1>9, <1>10, <1>11, <1>12 DEF c

LEMMA Nearest ==
    ASSUME NEW a \in Nat, NEW b \in Nat, NEW t \in Nat, t = b + Horizon,
           a <= t, t < a + Horizon, (a - b) % Horizon = 0
    PROVE  a = t
<1>1. Horizon \in Nat /\ Horizon > 0 /\ Horizon % Horizon = 0
  BY Numbers, MultipleDivides, 1 * Horizon = Horizon
<1>. DEFINE d == a - b
<1>2. d \in Int /\ d % Horizon = 0
  OBVIOUS
<1>. HIDE DEF d
<1>3. (Horizon - d) % Horizon = 0 /\ Horizon - d \in Int
  BY <1>1, <1>2, MultiplesAdd
<1>4. PICK k \in Int : Horizon - d = k * Horizon
  BY <1>3, Divides
<1>5. Horizon - d = t - a
  BY <1>1 DEF d
<1>6. k * Horizon = 0
  BY <1>1, <1>4, <1>5, NoMultipleBetween
<1>. QED BY <1>1, <1>4, <1>5, <1>6

LEMMA AheadFacts ==
    ASSUME CycleTypes
    PROVE  /\ IsFiniteSet(Ahead) /\ Cardinality(Ahead) \in Nat
           /\ cycle # NoCycle /\ hour < Ends(cycle) =>
                Cardinality(Ahead) <= (cycle.anchor + Horizon) - hour
           /\ plan = {} => Cardinality(Ahead) = 0
<1>1. IsFiniteSet(cycle.picked) /\ Ahead \subseteq plan /\ plan \subseteq cycle.picked
      /\ hour \in Nat
  BY CycleFacts, Numbers DEF CycleTypes, Ahead
<1>2. IsFiniteSet(Ahead)
  BY <1>1, FS_Subset
<1>3. Cardinality(Ahead) \in Nat
  BY <1>2, FS_CardinalityType
<1>4. ASSUME cycle # NoCycle, hour < Ends(cycle)
      PROVE  Cardinality(Ahead) <= (cycle.anchor + Horizon) - hour
  <2>. DEFINE last == (cycle.anchor + Horizon) - 1
  <2>1. cycle \in Cycles
    BY <1>4 DEF CycleTypes
  <2>2. /\ cycle.anchor \in Nat /\ cycle.picked \subseteq cycle.anchor..last
        /\ Ends(cycle) = cycle.anchor + Horizon
    BY <2>1, CycleFacts, Numbers
  <2>3. last \in Int /\ hour <= last
    BY <1>1, <1>4, <2>2, Numbers
  <2>4. Ahead \subseteq hour..last
    BY <1>1, <2>2, <2>3 DEF Ahead
  <2>. HIDE DEF last
  <2>5. IsFiniteSet(hour..last) /\ Cardinality(hour..last) = (last - hour) + 1
    BY <1>1, <2>3, FS_Interval
  <2>6. Cardinality(Ahead) <= (last - hour) + 1
    BY <2>4, <2>5, FS_Subset
  <2>. QED BY <1>1, <2>2, <2>6, Numbers DEF last
<1>5. plan = {} => Ahead = {} /\ Cardinality({}) = 0
  BY FS_EmptySet DEF Ahead
<1>. QED BY <1>2, <1>3, <1>4, <1>5

\* The strategy is a new one, or the first since a start.
LEMMA EvaluationBegins ==
    ASSUME CycleInv, NEW s \in {"relative", "smart"}, NEW h \in Sliders, began.strategy # s,
           NEW b, b = (IF running THEN cycle ELSE storedCycle),
           Evaluates(b, s, h), hour' = hour, need' = need, storedCycle' = storedCycle,
           running' = TRUE, ~running => s = strategy
    PROVE  CycleInv'
<1>. DEFINE c == Active(b, s, h)
            e == Cardinality(Elapsed(c))
            m == Cardinality(plan')
            w == IF s = "smart" THEN Wanted(h) ELSE h
<1>1. /\ CycleTypes /\ b \in Cycles \cup {NoCycle} /\ Sound(b) /\ Sound(storedCycle)
      /\ storedCycle \in Cycles \cup {NoCycle}
      /\ hour \in Nat /\ h \in Nat /\ Horizon \in Nat /\ Horizon > 0 /\ h <= Horizon
      /\ need \in Needs
  BY Numbers DEF CycleInv, CycleTypes, Booked, Sliders
<1>2. /\ c \in Cycles /\ c.strategy = s /\ c.anchor <= hour /\ hour < c.anchor + Horizon
      /\ Sound(c) /\ c.anchor \in Nat
      /\ c.picked \subseteq c.anchor..((c.anchor + Horizon) - 1)
  <2>1. c \in Cycles /\ c.strategy = s /\ c.anchor <= hour /\ hour < c.anchor + Horizon
        /\ Sound(c)
    BY <1>1, ActiveFacts
  <2>. HIDE DEF c
  <2>. QED BY <2>1, CycleFacts, Numbers
<1>3. IF b # NoCycle /\ b.strategy = s
      THEN (c.anchor - b.anchor) % Horizon = 0 ELSE c.anchor = hour
  BY <1>1, ActiveFacts
<1>4. /\ strategy' = s /\ hours' = h /\ due' = FALSE
      /\ cycle' \in Cycles /\ cycle'.anchor = c.anchor /\ cycle'.strategy = s
      /\ cycle'.budget = Budget(c, s, h) /\ cycle'.inputs = Inputs(s, h)
      /\ Elapsed(cycle)' = Elapsed(c)
      /\ plan' \in SUBSET cycle'.picked
      /\ cycle'.picked \subseteq plan' \cup 0..(hour - 1)
      /\ Ahead' = plan'
      /\ m \in Nat /\ m <= ToChoose(c, s, h)
      /\ Reckons(s, h, m = Lesser(ToChoose(c, s, h), (c.anchor + Horizon) - hour), c)
  BY <1>1, EvaluationFacts
<1>5. /\ e \in Nat /\ w \in 0..h /\ Budget(c, s, h) \in 0..h
      /\ s = "smart" => Budget(c, s, h) <= Wanted(h) + e
      /\ ToChoose(c, s, h) <= w /\ ToChoose(c, s, h) \in Nat
      /\ s = "relative" /\ e <= h => ToChoose(c, s, h) = h - e
  BY <1>1, <1>2, BudgetFacts
<1>6. /\ began' = [at |-> c.anchor, strategy |-> s] /\ used' = 0 /\ most' = h /\ steady' = TRUE
      /\ whole' = (s = "relative" /\ hour = c.anchor
                   /\ m = Lesser(ToChoose(c, s, h), (c.anchor + Horizon) - hour))
  BY <1>4 DEF Reckons
<1>7. Wanted(h)' = Wanted(h) /\ Inputs(s, h)' = Inputs(s, h)
  BY DEF Wanted, Inputs, Lesser
<1>8. cycle' # NoCycle /\ Ends(cycle)' = c.anchor + Horizon
  BY <1>4, CycleFacts DEF Ends
<1>9. began' # NeverBegan
  BY <1>2, <1>6 DEF NeverBegan
<1>10. running => cycle = NoCycle \/ cycle.strategy # s
  BY DEF CycleInv, Continues, Booked, Follows
<1>11. (c.anchor - c.anchor) % Horizon = 0
  <2>1. c.anchor - c.anchor = 0 * Horizon
    BY <1>1, <1>2
  <2>. QED BY <2>1, MultipleDivides
<1>12. Sound(storedCycle)'
  BY <1>1 DEF Sound, Elapsed
<1>13. Sound(cycle)'
  <2>1. s = "smart" => /\ Inputs(s, h)[1] = h /\ WantedBy(Inputs(s, h)) = Wanted(h)
    BY <1>1, WantedIsBounded DEF Inputs
  <2>. HIDE DEF c, e
  <2>2. Cardinality(Elapsed(cycle)') = e
    BY <1>4 DEF e
  <2>. QED BY <1>1, <1>2, <1>4, <1>5, <2>1, <2>2 DEF Sound
<1>14. Follows(cycle)'
  <2>. HIDE DEF c, e, m, w
  <2>1. Cardinality(Elapsed(cycle)') = e
    BY <1>4 DEF e
  <2>2. Reckoned(cycle)'
    BY <1>1, <1>2, <1>4, <1>5, <1>6, <1>7, <1>8, <2>1 DEF Reckoned
  <2>. QED BY <1>4, <1>6, <1>8, <1>11, <2>2 DEF Follows
<1>15. ASSUME c.anchor # hour PROVE Follows(storedCycle)'
  <2>1. b = storedCycle /\ b # NoCycle /\ b.strategy = s
        /\ (c.anchor - b.anchor) % Horizon = 0
    BY <1>3, <1>10, <1>15
  <2>2. storedCycle \in Cycles /\ storedCycle.anchor \in Nat
        /\ Ends(storedCycle) = storedCycle.anchor + Horizon
        /\ storedCycle.budget \in Nat
    BY <1>1, <2>1, CycleFacts, Numbers
  <2>3. (storedCycle.anchor - c.anchor) % Horizon = 0
    <3>. DEFINE d == c.anchor - storedCycle.anchor
    <3>1. d \in Int /\ d % Horizon = 0
      BY <1>2, <2>1, <2>2
    <3>. HIDE DEF d
    <3>2. 0 % Horizon = 0
      BY <1>1, MultipleDivides, 0 * Horizon = 0
    <3>3. (0 - d) % Horizon = 0
      BY <3>1, <3>2, MultiplesAdd
    <3>4. 0 - d = storedCycle.anchor - c.anchor
      BY <1>2, <2>2 DEF d
    <3>. QED BY <3>3, <3>4
  <2>4. Elapsed(storedCycle)' = Elapsed(storedCycle) /\ Cardinality(Elapsed(storedCycle)) \in Nat
    BY <1>1, ElapsedFacts DEF Elapsed
  <2>5. s = "smart" /\ storedCycle.inputs = Inputs(s, h) =>
          storedCycle.budget <= Wanted(h) + Cardinality(Elapsed(storedCycle))
    BY <1>1, <2>1, WantedIsBounded DEF Sound, Inputs
  <2>6. Reckoned(storedCycle)'
    <3>1. Ends(storedCycle)' = Ends(storedCycle)
      BY DEF Ends
    <3>. HIDE DEF c, e, m, w
    <3>. QED BY <1>1, <1>4, <1>5, <1>6, <1>7, <2>2, <2>4, <2>5, <3>1 DEF Reckoned
  <2>. HIDE DEF c, e, m, w
  <2>. QED BY <1>4, <1>6, <2>1, <2>3, <2>6 DEF Follows
<1>. HIDE DEF c
<1>16. Booked'
  BY <1>6, <1>8, <1>12, <1>13, <1>14, <1>15 DEF Booked
<1>17. Continues'
  BY <1>1, <1>2, <1>4, <1>6, <1>7, <1>8, <1>9 DEF Continues
<1>18. CycleTypes'
  BY <1>1, <1>4, <1>6 DEF CycleTypes, Strategies
<1>19. WithinBudget'
  <2>1. m <= h /\ (s = "smart" => m <= Wanted(h))
    BY <1>1, <1>4, <1>5
  <2>. HIDE DEF w, e
  <2>. QED BY <1>1, <1>4, <1>6, <1>7, <2>1 DEF WithinBudget
<1>20. Spends'
  <2>1. SUFFICES ASSUME whole' PROVE /\ s = "relative" /\ e = 0 /\ m = h
    <3>1. Cardinality(Elapsed(cycle)') = e
      BY <1>4 DEF e
    <3>. HIDE DEF e
    <3>. QED BY <1>1, <1>4, <1>6, <3>1 DEF Spends
  <2>2. s = "relative" /\ hour = c.anchor
        /\ m = Lesser(ToChoose(c, s, h), (c.anchor + Horizon) - hour)
    BY <1>6, <2>1
  <2>3. Elapsed(c) = {}
    BY <1>1, <1>2, <2>2 DEF Elapsed
  <2>4. e = 0
    BY <2>3, FS_EmptySet
  <2>5. ToChoose(c, s, h) = h /\ (c.anchor + Horizon) - hour = Horizon
    BY <1>1, <1>2, <1>5, <2>2, <2>4
  <2>. QED BY <1>1, <2>2, <2>4, <2>5 DEF Lesser
<1>. QED BY <1>16, <1>17, <1>18, <1>19, <1>20 DEF CycleInv

\* The user's choice is the one that is being worked on.
LEMMA EvaluationContinues ==
    ASSUME CycleInv, NEW s \in {"relative", "smart"}, NEW h \in Sliders, began.strategy = s,
           NEW b, b = (IF running THEN cycle ELSE storedCycle),
           Evaluates(b, s, h), hour' = hour, need' = need, storedCycle' = storedCycle,
           running' = TRUE, ~running => s = strategy
    PROVE  CycleInv'
<1>. DEFINE c == Active(b, s, h)
            e == Cardinality(Elapsed(c))
            m == Cardinality(plan')
            n == Budget(c, s, h)
            w == IF s = "smart" THEN Wanted(h) ELSE h
            a == Cardinality(Ahead)
<1>1. /\ CycleTypes /\ b \in Cycles \cup {NoCycle} /\ Sound(b) /\ Sound(storedCycle)
      /\ storedCycle \in Cycles \cup {NoCycle}
      /\ hour \in Nat /\ h \in Nat /\ hours \in Nat /\ Horizon \in Nat /\ Horizon > 0
      /\ h <= Horizon /\ need \in Needs /\ used \in Nat /\ most \in Sliders /\ most \in Nat
  BY Numbers DEF CycleInv, CycleTypes, Booked, Sliders
<1>2. /\ began # NeverBegan /\ strategy = s /\ began.at \in 0..hour
      /\ Follows(b) /\ (running => cycle # NoCycle)
  <2>1. began # NeverBegan /\ strategy = s /\ began.at \in 0..hour
    BY DEF CycleInv, Continues, NeverBegan
  <2>. QED BY <2>1 DEF CycleInv, Continues, Booked
<1>3. /\ b # NoCycle /\ b.strategy = s /\ (b.anchor - began.at) % Horizon = 0 /\ Reckoned(b)
      /\ b \in Cycles /\ b.anchor \in Nat /\ Ends(b) = b.anchor + Horizon
  BY <1>1, <1>2, CycleFacts, Numbers DEF Follows
<1>4. /\ c \in Cycles /\ c.strategy = s /\ c.anchor <= hour /\ hour < c.anchor + Horizon
      /\ Sound(c) /\ (c.anchor - b.anchor) % Horizon = 0
      /\ hour < Ends(b) => c = b
      /\ hour >= Ends(b) => c = NewCycle(c.anchor, s, h)
  BY <1>1, <1>3, ActiveFacts
<1>5. c.anchor \in Nat
  <2>. HIDE DEF c
  <2>. QED BY <1>4, CycleFacts, Numbers
<1>6. /\ strategy' = s /\ hours' = h /\ due' = FALSE
      /\ cycle' \in Cycles /\ cycle'.anchor = c.anchor /\ cycle'.strategy = s
      /\ cycle'.budget = n /\ cycle'.inputs = Inputs(s, h)
      /\ Elapsed(cycle)' = Elapsed(c)
      /\ plan' \in SUBSET cycle'.picked
      /\ cycle'.picked \subseteq plan' \cup 0..(hour - 1)
      /\ Ahead' = plan'
      /\ m \in Nat /\ m <= ToChoose(c, s, h)
      /\ Reckons(s, h, m = Lesser(ToChoose(c, s, h), (c.anchor + Horizon) - hour), c)
  <2>1. /\ CycleTypes /\ b \in Cycles \cup {NoCycle} /\ Sound(b)
    BY <1>1
  <2>2. /\ cycle' \in Cycles /\ cycle'.anchor = c.anchor /\ cycle'.strategy = s
        /\ cycle'.budget = n /\ cycle'.inputs = Inputs(s, h)
        /\ Elapsed(cycle)' = Elapsed(c)
    BY <2>1, EvaluationFacts
  <2>3. /\ strategy' = s /\ hours' = h /\ due' = FALSE
        /\ plan' \in SUBSET cycle'.picked
        /\ cycle'.picked \subseteq plan' \cup 0..(hour - 1)
        /\ Ahead' = plan'
    BY <2>1, EvaluationFacts
  <2>4. /\ m \in Nat /\ m <= ToChoose(c, s, h)
        /\ Reckons(s, h, m = Lesser(ToChoose(c, s, h), (c.anchor + Horizon) - hour), c)
    BY <2>1, EvaluationFacts
  <2>. QED BY <2>2, <2>3, <2>4
<1>7. /\ e \in Nat /\ w \in 0..h /\ n \in 0..h
      /\ s = "relative" => n = h
      /\ s = "smart" => n <= Wanted(h) + e
      /\ s = "smart" /\ c.inputs = Inputs(s, h) => n = c.budget
      /\ ToChoose(c, s, h) <= w /\ ToChoose(c, s, h) \in Nat
      /\ n >= e => ToChoose(c, s, h) <= n - e
      /\ n < e => ToChoose(c, s, h) = 0
      /\ s = "relative" /\ e <= h => ToChoose(c, s, h) = h - e
  BY <1>1, <1>4, BudgetFacts
<1>24. Wanted(h) \in 0..h /\ Wanted(h) \in Nat
  <2>1. Wanted(h) \in 0..h
    BY <1>1, WantedIsBounded
  <2>. QED BY <1>1, <2>1
<1>8. /\ began' = began /\ used' = used /\ most' = Greater(most, h)
      /\ steady' = (steady /\ h = hours)
      /\ whole' = (whole /\ m = Lesser(ToChoose(c, s, h), (c.anchor + Horizon) - hour))
  BY <1>6 DEF Reckons
<1>9. Wanted(h)' = Wanted(h) /\ Inputs(s, h)' = Inputs(s, h)
  BY DEF Wanted, Inputs, Lesser
<1>10. cycle' # NoCycle /\ Ends(cycle)' = c.anchor + Horizon
  BY <1>6, CycleFacts DEF Ends
<1>11. (c.anchor - began.at) % Horizon = 0
  <2>. DEFINE i == c.anchor - b.anchor
              j == b.anchor - began.at
  <2>1. i \in Int /\ j \in Int /\ i % Horizon = 0 /\ j % Horizon = 0
    BY <1>1, <1>2, <1>3, <1>4, <1>5
  <2>2. i + j = c.anchor - began.at
    BY <1>1, <1>2, <1>3, <1>5
  <2>. HIDE DEF i, j
  <2>3. (i + j) % Horizon = 0
    BY <2>1, MultiplesAdd
  <2>. QED BY <2>2, <2>3
<1>12. Sound(storedCycle)'
  BY <1>1 DEF Sound, Elapsed
<1>13. Sound(cycle)'
  <2>1. s = "smart" => /\ Inputs(s, h)[1] = h /\ WantedBy(Inputs(s, h)) = Wanted(h)
    BY <1>1, WantedIsBounded DEF Inputs
  <2>. HIDE DEF c, e, n
  <2>2. Cardinality(Elapsed(cycle)') = e
    BY <1>6 DEF e
  <2>. QED BY <1>1, <1>4, <1>6, <1>7, <2>1, <2>2 DEF Sound
\* A new cycle finds nothing used.
<1>14. used <= e /\ (hour >= Ends(b) => used = 0 /\ e = 0)
  <2>1. CASE hour < Ends(b)
    BY <1>1, <1>3, <1>4, <2>1 DEF Reckoned
  <2>2. CASE hour >= Ends(b)
    <3>1. used = 0
      BY <1>3, <2>2 DEF Reckoned
    <3>2. c = NewCycle(c.anchor, s, h) /\ c.anchor \in 0..hour
      BY <1>1, <1>4, <1>5, <2>2
    <3>3. e = 0
      <4>1. \A at \in 0..hour : Cardinality(Elapsed(NewCycle(at, s, h))) = 0
        BY <1>1, NewCycleFacts
      <4>. HIDE DEF c
      <4>. QED BY <3>2, <4>1
    <3>. QED BY <3>1, <3>3
  <2>. QED BY <1>1, <1>3, <2>1, <2>2
<1>15. ASSUME s = "smart", steady' PROVE n + used <= Wanted(h) + e
  <2>1. Wanted(h) \in Nat /\ h = hours /\ steady
    BY <1>8, <1>15, <1>24
  <2>2. CASE used = 0
    <3>. HIDE DEF n, e
    <3>. QED BY <1>1, <1>7, <1>15, <2>1, <2>2
  <2>3. CASE used # 0
    <3>1. hour < Ends(b) /\ c = b
      BY <1>1, <1>3, <1>4, <1>14, <2>3
    <3>2. b.inputs = Inputs(s, h) /\ b.budget + used <= Wanted(h) + Cardinality(Elapsed(b))
      BY <1>1, <1>2, <1>3, <1>15, <2>1, <2>3, <3>1 DEF Reckoned
    <3>. QED BY <1>7, <1>15, <3>1, <3>2
  <2>. QED BY <2>2, <2>3
<1>. HIDE DEF c, e, m, n, w
<1>16. Follows(cycle)'
  <2>1. Cardinality(Elapsed(cycle)') = e
    BY <1>6 DEF e
  <2>2. Ends(cycle)' > hour' /\ used' <= Cardinality(Elapsed(cycle)')
    BY <1>1, <1>4, <1>5, <1>8, <1>10, <1>14, <2>1
  <2>3. ASSUME s = "smart", steady'
        PROVE  cycle'.budget + used' <= Wanted(h) + Cardinality(Elapsed(cycle)')
    BY <1>6, <1>8, <1>15, <2>1, <2>3
  <2>4. cycle'.inputs = Inputs(s, h)' /\ strategy' = s /\ hours' = h
    BY <1>6, <1>9
  <2>5. Reckoned(cycle)'
    <3>1. ~(hour' >= Ends(cycle)')
      BY <1>1, <1>5, <1>10, <2>2
    <3>. QED BY <1>9, <2>2, <2>3, <2>4, <3>1 DEF Reckoned
  <2>. QED BY <1>6, <1>8, <1>10, <1>11, <2>5 DEF Follows
<1>17. ASSUME Follows(storedCycle) PROVE Follows(storedCycle)'
  <2>1. Elapsed(storedCycle)' = Elapsed(storedCycle) /\ Ends(storedCycle)' = Ends(storedCycle)
    BY DEF Elapsed, Ends
  <2>2. steady' /\ s = "smart" => Inputs(s, h) = Inputs(strategy, hours)
    BY <1>2, <1>8
  <2>3. Reckoned(storedCycle)'
    BY <1>2, <1>6, <1>8, <1>9, <1>17, <2>1, <2>2 DEF Reckoned, Follows
  <2>. QED BY <1>2, <1>6, <1>8, <1>17, <2>3 DEF Follows
<1>18. Booked'
  <2>1. ASSUME began.at # hour PROVE Follows(storedCycle)
    BY <1>2, <2>1 DEF CycleInv, Booked
  <2>. QED BY <1>8, <1>10, <1>12, <1>13, <1>16, <1>17, <2>1 DEF Booked
<1>19. Continues'
  BY <1>1, <1>2, <1>4, <1>5, <1>6, <1>8, <1>9, <1>10 DEF Continues
<1>20. CycleTypes'
  <2>1. Greater(most, h) \in Sliders
    BY <1>1 DEF Greater
  <2>. QED BY <1>1, <1>6, <1>8, <2>1 DEF CycleTypes, Strategies
<1>21. a \in Nat /\ used + a <= most /\ (s = "smart" /\ steady => used + a <= Wanted(hours))
  BY <1>1, <1>2, AheadFacts DEF CycleInv, WithinBudget
<1>. HIDE DEF a
<1>22. WithinBudget'
  <2>1. used + m <= Greater(most, h)
    BY <1>1, <1>6, <1>7, <1>14, <1>21 DEF Greater
  <2>2. ASSUME s = "smart", steady' PROVE used + m <= Wanted(h)
    <3>1. h = hours /\ steady
      BY <1>8, <2>2
    <3>2. used + a <= Wanted(h)
      BY <1>2, <1>21, <2>2, <3>1
    <3>3. used <= Wanted(h)
      BY <1>1, <1>21, <1>24, <3>2
    <3>. QED BY <1>1, <1>6, <1>7, <1>14, <1>15, <1>24, <2>2, <3>3
  <2>. QED BY <1>6, <1>8, <1>9, <2>1, <2>2 DEF WithinBudget, m
<1>23. Spends'
  <2>1. SUFFICES ASSUME whole', steady' PROVE /\ s = "relative" /\ used = e /\ used + m = h
    <3>1. Cardinality(Elapsed(cycle)') = e /\ Cardinality(Ahead') = m
      BY <1>6 DEF e, m
    <3>. QED BY <1>6, <1>8, <3>1 DEF Spends
  <2>2. /\ whole /\ steady /\ h = hours
        /\ m = Lesser(ToChoose(c, s, h), (c.anchor + Horizon) - hour)
    BY <1>8, <2>1
  <2>3. /\ running /\ s = "relative" /\ b = cycle
        /\ hour < Ends(b) => used = Cardinality(Elapsed(b)) /\ used + a = h
    BY <1>2, <2>2 DEF CycleInv, Spends, a
  <2>4. CASE hour < Ends(b)
    <3>1. c = b /\ e = Cardinality(Elapsed(b))
      BY <1>4, <2>4 DEF e
    <3>2. used = e /\ used + a = h
      BY <2>3, <2>4, <3>1
    <3>3. a <= (c.anchor + Horizon) - hour
      BY <1>1, <1>2, <2>3, <2>4, <3>1, AheadFacts DEF a
    <3>. QED BY <1>1, <1>4, <1>5, <1>7, <1>21, <2>2, <2>3, <3>2, <3>3 DEF Lesser
  <2>5. CASE hour >= Ends(b)
    <3>1. hour = b.anchor + Horizon
      BY <1>1, <1>3, <2>3, <2>5 DEF CycleInv, Continues
    <3>2. c.anchor = hour
      BY <1>1, <1>3, <1>4, <1>5, <3>1, Nearest
    <3>3. used = 0 /\ e = 0
      BY <1>14, <2>5
    <3>. QED BY <1>1, <1>7, <2>2, <2>3, <3>2, <3>3 DEF Lesser
  <2>. QED BY <1>1, <1>3, <2>4, <2>5
<1>. QED BY <1>18, <1>19, <1>20, <1>22, <1>23 DEF CycleInv

-----------------------------------------------------------------------------
(* The actions                                                              *)

\* The function is switched off, or has no price sensor.
LEMMA EvaluationStops ==
    ASSUME CycleInv, NEW h \in Sliders, NEW b, Evaluates(b, "off", h), hour' = hour,
           need' = need, storedCycle' = storedCycle, running' = TRUE
    PROVE  CycleInv'
<1>1. /\ CycleTypes /\ Sound(storedCycle) /\ hour' = hour /\ need' = need
      /\ storedCycle' = storedCycle /\ running' = TRUE
  BY DEF CycleInv, Booked
<1>2. /\ strategy' = "off" /\ hours' = h /\ due' = FALSE /\ cycle' = NoCycle /\ plan' = {}
      /\ began' = NeverBegan /\ used' = 0 /\ most' = h /\ steady' = TRUE /\ whole' = FALSE
  BY DEF Evaluates, Reckons
<1>3. CycleTypes'
  BY <1>1, <1>2 DEF CycleTypes, Strategies, NoCycle
<1>4. Continues' /\ WithinBudget' /\ Spends'
  BY <1>1, <1>2 DEF Continues, WithinBudget, Spends
<1>5. Booked'
  <2>1. Sound(storedCycle)' /\ Sound(cycle)'
    BY <1>1, <1>2 DEF Sound, Elapsed
  <2>. QED BY <1>2, <2>1 DEF Booked
<1>. QED BY <1>3, <1>4, <1>5 DEF CycleInv

LEMMA EvaluationKeepsInv ==
    ASSUME CycleInv, NEW s \in Strategies, NEW h \in Sliders,
           Evaluates(IF running THEN cycle ELSE storedCycle, s, h), hour' = hour,
           need' = need, storedCycle' = storedCycle, running' = TRUE,
           ~running => s = strategy
    PROVE  CycleInv'
<1>1. PICK b : b = (IF running THEN cycle ELSE storedCycle)
  OBVIOUS
<1>2. Evaluates(b, s, h)
  BY <1>1
<1>3. CASE s = "off"
  BY <1>2, <1>3, EvaluationStops
<1>4. CASE s # "off" /\ began.strategy = s
  <2>1. s \in {"relative", "smart"}
    BY <1>4 DEF Strategies
  <2>. QED BY <1>1, <1>2, <1>4, <2>1, EvaluationContinues
<1>5. CASE s # "off" /\ began.strategy # s
  <2>1. s \in {"relative", "smart"}
    BY <1>5 DEF Strategies
  <2>. QED BY <1>1, <1>2, <1>5, <2>1, EvaluationBegins
<1>. QED BY <1>3, <1>4, <1>5

LEMMA NeedChangesKeepsInv ==
    ASSUME CycleInv, NeedChanges PROVE CycleInv'
<1>1. /\ need' \in Needs /\ due' = TRUE /\ steady' = (steady /\ strategy # "smart")
      /\ UNCHANGED <<hour, running, strategy, hours, cycle, plan, storedCycle,
                     began, used, most, whole>>
  BY DEF NeedChanges
<1>2. CycleTypes'
  BY <1>1 DEF CycleInv, CycleTypes
<1>3. Ends(cycle)' = Ends(cycle) /\ Elapsed(cycle)' = Elapsed(cycle) /\ Ahead' = Ahead
      /\ Elapsed(storedCycle)' = Elapsed(storedCycle) /\ Ends(storedCycle)' = Ends(storedCycle)
  BY <1>1 DEF Ends, Elapsed, Ahead
<1>4. Continues'
  BY <1>1, <1>3 DEF CycleInv, Continues
<1>5. ASSUME Follows(cycle) PROVE Follows(cycle)'
  BY <1>1, <1>3, <1>5 DEF Follows, Reckoned
<1>6. ASSUME Follows(storedCycle) PROVE Follows(storedCycle)'
  BY <1>1, <1>3, <1>6 DEF Follows, Reckoned
<1>7. Sound(cycle)' /\ Sound(storedCycle)'
  BY <1>1, <1>3 DEF CycleInv, Booked, Sound
<1>8. Booked'
  BY <1>1, <1>5, <1>6, <1>7 DEF CycleInv, Booked
<1>9. WithinBudget'
  BY <1>1, <1>3 DEF CycleInv, WithinBudget
<1>10. Spends'
  BY <1>1, <1>3 DEF CycleInv, Spends
<1>. QED BY <1>2, <1>4, <1>8, <1>9, <1>10 DEF CycleInv

LEMMA SavesCycleKeepsInv ==
    ASSUME CycleInv, SavesCycle PROVE CycleInv'
<1>1. /\ running /\ storedCycle' = cycle
      /\ UNCHANGED <<hour, running, strategy, hours, need, cycle, plan, due, ours>>
  BY DEF SavesCycle
<1>2. UNCHANGED <<began, used, most, steady, whole>>
  BY <1>1 DEF ours
<1>3. CycleTypes'
  BY <1>1, <1>2 DEF CycleInv, CycleTypes
<1>4. Ends(cycle)' = Ends(cycle) /\ Elapsed(cycle)' = Elapsed(cycle) /\ Ahead' = Ahead
      /\ Inputs(strategy, hours)' = Inputs(strategy, hours) /\ Wanted(hours)' = Wanted(hours)
      /\ Elapsed(storedCycle)' = Elapsed(cycle) /\ Ends(storedCycle)' = Ends(cycle)
  BY <1>1 DEF Ends, Elapsed, Ahead, Inputs, Wanted, Lesser
<1>5. Continues'
  BY <1>1, <1>2, <1>4 DEF CycleInv, Continues
<1>6. ASSUME Follows(cycle) PROVE Follows(cycle)' /\ Follows(storedCycle)'
  BY <1>1, <1>2, <1>4, <1>6 DEF Follows, Reckoned
<1>7. Sound(cycle)' /\ Sound(storedCycle)'
  BY <1>1, <1>4 DEF CycleInv, Booked, Sound
<1>8. Booked'
  <2>1. began # NeverBegan => cycle # NoCycle
    BY <1>1 DEF CycleInv, Continues
  <2>. QED BY <1>1, <1>2, <1>6, <1>7, <2>1 DEF CycleInv, Booked
<1>9. WithinBudget' /\ Spends'
  BY <1>1, <1>2, <1>4 DEF CycleInv, WithinBudget, Spends
<1>. QED BY <1>3, <1>5, <1>8, <1>9 DEF CycleInv

LEMMA GoesDownKeepsInv ==
    ASSUME CycleInv, GoesDown PROVE CycleInv'
<1>1. /\ running /\ running' = FALSE /\ storedCycle' \in {storedCycle, cycle}
      /\ cycle' = NoCycle /\ plan' = {} /\ due' = FALSE /\ whole' = FALSE
      /\ UNCHANGED <<hour, strategy, hours, need>>
  BY DEF GoesDown
<1>2. \/ /\ began' = NeverBegan /\ used' = 0 /\ most' = hours /\ steady' = TRUE
      \/ /\ UNCHANGED <<began, used, most, steady>>
         /\ began.at # hour \/ storedCycle' = cycle
  BY DEF GoesDown
<1>3. CycleTypes'
  <2>1. /\ used' \in Nat /\ most' \in Sliders /\ steady' \in BOOLEAN
    <3>1. used \in Nat /\ most \in Sliders /\ steady \in BOOLEAN /\ hours \in Sliders
      BY DEF CycleInv, CycleTypes
    <3>2. CASE used' = 0 /\ most' = hours /\ steady' = TRUE
      BY <3>1, <3>2
    <3>3. CASE UNCHANGED <<used, most, steady>>
      BY <3>1, <3>3
    <3>. QED BY <1>2, <3>2, <3>3
  <2>2. storedCycle' \in Cycles \cup {NoCycle} /\ plan' \in SUBSET cycle'.picked
    BY <1>1 DEF CycleInv, CycleTypes, NoCycle
  <2>. QED BY <1>1, <2>1, <2>2 DEF CycleInv, CycleTypes
<1>4. Continues'
  BY <1>1, <1>2 DEF CycleInv, Continues
<1>5. Inputs(strategy, hours)' = Inputs(strategy, hours) /\ Wanted(hours)' = Wanted(hours)
  BY <1>1 DEF Inputs, Wanted, Lesser
<1>6. Sound(cycle)' /\ Sound(storedCycle)'
  <2>1. CASE storedCycle' = storedCycle
    BY <1>1, <2>1 DEF CycleInv, Booked, Sound, Elapsed
  <2>2. CASE storedCycle' = cycle
    BY <1>1, <2>2 DEF CycleInv, Booked, Sound, Elapsed
  <2>. QED BY <1>1, <2>1, <2>2
<1>7. ASSUME began' # NeverBegan PROVE Follows(storedCycle)'
  <2>1. UNCHANGED <<began, used, most, steady>> /\ began # NeverBegan
        /\ (began.at # hour \/ storedCycle' = cycle)
    BY <1>2, <1>7
  <2>2. cycle # NoCycle /\ Follows(cycle)
    BY <1>1, <2>1 DEF CycleInv, Continues, Booked
  <2>3. CASE storedCycle' = cycle
    <3>1. Elapsed(storedCycle)' = Elapsed(cycle) /\ Ends(storedCycle)' = Ends(cycle)
      BY <1>1, <2>3 DEF Elapsed, Ends
    <3>. QED BY <1>1, <1>5, <2>1, <2>2, <2>3, <3>1 DEF Follows, Reckoned
  <2>4. CASE storedCycle' # cycle
    <3>1. storedCycle' = storedCycle /\ Follows(storedCycle)
      BY <1>1, <2>1, <2>4 DEF CycleInv, Booked
    <3>2. Elapsed(storedCycle)' = Elapsed(storedCycle) /\ Ends(storedCycle)' = Ends(storedCycle)
      BY <1>1, <3>1 DEF Elapsed, Ends
    <3>. QED BY <1>1, <1>5, <2>1, <3>1, <3>2 DEF Follows, Reckoned
  <2>. QED BY <2>3, <2>4
<1>8. Booked'
  BY <1>1, <1>6, <1>7 DEF Booked
<1>9. WithinBudget'
  <2>1. Cardinality(Ahead') = 0
    <3>1. Ahead' = {}
      BY <1>1 DEF Ahead
    <3>. QED BY <3>1, FS_EmptySet
  <2>2. SUFFICES ASSUME began' # NeverBegan
                 PROVE  used' <= most' /\ (strategy = "smart" /\ steady' => used' <= Wanted(hours))
    <3>1. used' \in Nat
      BY <1>3 DEF CycleTypes
    <3>. QED BY <1>1, <1>5, <2>1, <2>2, <3>1 DEF WithinBudget
  <2>3. /\ used + Cardinality(Ahead) <= most
        /\ strategy = "smart" /\ steady => used + Cardinality(Ahead) <= Wanted(hours)
        /\ used' = used /\ most' = most /\ steady' = steady
    BY <1>2, <2>2 DEF CycleInv, WithinBudget
  <2>4. Cardinality(Ahead) \in Nat /\ used \in Nat /\ most \in Nat /\ Wanted(hours) \in Nat
    <3>1. CycleTypes /\ need \in Needs /\ hours \in Sliders /\ hours \in Nat
      BY Numbers DEF CycleInv, CycleTypes, Sliders
    <3>2. Wanted(hours) \in 0..hours
      BY <3>1, WantedIsBounded
    <3>. QED BY <3>1, <3>2, AheadFacts, Numbers DEF CycleTypes, Sliders
  <2>. QED BY <2>3, <2>4
<1>10. Spends'
  BY <1>1 DEF Spends
<1>. QED BY <1>3, <1>4, <1>8, <1>9, <1>10 DEF CycleInv

-----------------------------------------------------------------------------
(* An hour passes                                                           *)

\* What is charged in the hour is no longer ahead; it is on the books of the
\* cycle that is stored.
LEMMA HourFacts ==
    ASSUME CycleInv, HourPasses
    PROVE  LET s == storedCycle
               e == Cardinality(Elapsed(s))
               e1 == Cardinality(Elapsed(s)')
           IN
           /\ hour \in Nat /\ used \in Nat /\ Charged \in Nat /\ e \in Nat /\ e1 \in Nat
           /\ e1 = (IF hour \in s.picked THEN e + 1 ELSE e)
           /\ Charged = (IF hour \in plan THEN used + 1 ELSE used)
           /\ Charged + Cardinality(Ahead') = used + Cardinality(Ahead)
           /\ Cardinality(Ahead) \in Nat /\ Cardinality(Ahead') \in Nat
           /\ hour \in plan => hour \in s.picked
           /\ began = NeverBegan => plan = {}
           /\ ~running => plan = {} /\ cycle = NoCycle
           /\ running => cycle = s
           /\ Sound(s)'
<1>. DEFINE s == storedCycle
            e == Cardinality(Elapsed(s))
<1>1. /\ hour' = hour + 1 /\ storedCycle' = storedCycle /\ plan' = plan
      /\ running => storedCycle = cycle
  BY DEF HourPasses
<1>2. /\ CycleTypes /\ hour \in Nat /\ used \in Nat /\ s \in Cycles \cup {NoCycle} /\ Sound(s)
      /\ plan \subseteq cycle.picked /\ cycle \in Cycles \cup {NoCycle} /\ running \in BOOLEAN
  BY DEF CycleInv, CycleTypes, Booked
<1>3. IsFiniteSet(Ahead) /\ Cardinality(Ahead) \in Nat
  BY <1>2, AheadFacts
<1>4. e \in Nat /\ Elapsed(s)' = {t \in s.picked : t < hour + 1}
  BY <1>1, <1>2, ElapsedFacts DEF Elapsed
<1>5. Cardinality(Elapsed(s)') = IF hour \in s.picked THEN e + 1 ELSE e
  BY <1>2, <1>4, ElapsedFacts
<1>6. ~running => plan = {} /\ cycle = NoCycle
  BY <1>2 DEF CycleInv, Continues, NoCycle
<1>7. began = NeverBegan => plan = {}
  BY <1>2 DEF CycleInv, Continues, NoCycle
<1>8. hour \in plan => hour \in s.picked
  BY <1>1, <1>2, <1>6
<1>9. Ahead' = Ahead \ {hour} /\ (hour \in Ahead <=> hour \in plan)
  <2>1. plan \subseteq Nat
    BY <1>2, CycleFacts
  <2>2. Ahead' = {t \in plan : t >= hour + 1}
    BY <1>1 DEF Ahead
  <2>3. \A t \in plan : t >= hour + 1 <=> t >= hour /\ t # hour
    BY <1>2, <2>1
  <2>4. Ahead' = Ahead \ {hour}
    BY <2>2, <2>3 DEF Ahead
  <2>5. hour >= hour
    BY <1>2
  <2>. QED BY <2>4, <2>5 DEF Ahead
<1>10. /\ IsFiniteSet(Ahead')
       /\ Cardinality(Ahead') = IF hour \in plan THEN Cardinality(Ahead) - 1
                                                 ELSE Cardinality(Ahead)
  BY <1>3, <1>9, FS_RemoveElement
<1>11. Cardinality(Ahead') \in Nat
  BY <1>10, FS_CardinalityType
<1>12. /\ Charged = (IF hour \in plan THEN used + 1 ELSE used)
       /\ Charged \in Nat /\ Charged + Cardinality(Ahead') = used + Cardinality(Ahead)
  <2>. DEFINE a == Cardinality(Ahead)
              a1 == Cardinality(Ahead')
  <2>1. a \in Nat /\ a1 \in Nat /\ (a1 = IF hour \in plan THEN a - 1 ELSE a)
    BY <1>3, <1>10, <1>11
  <2>2. Charged = (IF hour \in plan THEN used + 1 ELSE used)
    BY DEF Charged
  <2>. HIDE DEF a, a1
  <2>3. Charged \in Nat /\ Charged + a1 = used + a
    BY <1>2, <2>1, <2>2
  <2>. QED BY <2>2, <2>3 DEF a, a1
<1>13. Sound(s)'
  <2>. DEFINE e1 == Cardinality(Elapsed(s)')
  <2>1. e1 \in Nat /\ e <= e1
    BY <1>4, <1>5
  <2>2. ASSUME s # NoCycle
        PROVE  /\ s.anchor <= hour + 1
               /\ s.strategy = "smart" =>
                     s.budget <= s.inputs[1] /\ s.budget <= WantedBy(s.inputs) + e1
    <3>1. s \in Cycles /\ s.anchor \in 0..LastHour /\ s.budget \in Nat
          /\ (s.strategy = "smart" => s.inputs \in Sliders \X Needs)
      BY <1>2, <2>2, CycleFacts, Numbers
    <3>2. s.strategy = "smart" => WantedBy(s.inputs) \in Nat
      <4>1. SUFFICES ASSUME s.strategy = "smart" PROVE WantedBy(s.inputs) \in Nat
        OBVIOUS
      <4>2. s.inputs[1] \in Sliders /\ s.inputs[2] \in Needs
        BY <3>1, <4>1
      <4>3. s.inputs[1] \in Nat
        BY <4>2, Numbers DEF Sliders
      <4>4. s.inputs[2] \in Nat \cup {Unknown}
        BY <4>2, Numbers
      <4>. QED BY <4>3, <4>4 DEF WantedBy, Lesser
    <3>3. /\ s.anchor <= hour
          /\ s.strategy = "smart" =>
                s.budget <= s.inputs[1] /\ s.budget <= WantedBy(s.inputs) + e
      BY <1>2, <2>2 DEF Sound
    <3>. DEFINE w == WantedBy(s.inputs)
    <3>. HIDE DEF e, e1, w
    <3>4. s.anchor <= hour + 1
      BY <1>2, <3>1, <3>3, Numbers
    <3>5. s.strategy = "smart" => s.budget <= w + e1
      BY <1>4, <2>1, <3>1, <3>2, <3>3 DEF w
    <3>. QED BY <3>3, <3>4, <3>5 DEF w
  <2>. QED BY <1>1, <2>2 DEF Sound
<1>. QED BY <1>1, <1>2, <1>3, <1>4, <1>5, <1>6, <1>7, <1>8, <1>11, <1>12, <1>13

LEMMA HourBeforeAnyCycle ==
    ASSUME CycleInv, HourPasses, began = NeverBegan
    PROVE  CycleInv'
<1>1. /\ hour < LastHour /\ hour' = hour + 1 /\ due' = running
      /\ used' = Charged /\ UNCHANGED <<most, steady, whole>>
      /\ UNCHANGED <<running, strategy, hours, need, cycle, plan, storedCycle, began>>
  BY DEF HourPasses
<1>2. /\ Charged \in Nat /\ Sound(storedCycle)' /\ cycle = NoCycle
  BY HourFacts DEF CycleInv, Continues
<1>3. CycleTypes'
  BY <1>1, <1>2, Numbers DEF CycleInv, CycleTypes
<1>4. Continues' /\ WithinBudget' /\ Spends'
  BY <1>1, <1>2 DEF CycleInv, Continues, WithinBudget, Spends
<1>5. Booked'
  BY <1>1, <1>2 DEF Booked, Sound
<1>. QED BY <1>3, <1>4, <1>5 DEF CycleInv

\* The cycle of the user's choice: the stored one follows it.
LEMMA HourOfCycle ==
    ASSUME CycleInv, HourPasses, began # NeverBegan
    PROVE  /\ storedCycle \in Cycles /\ Follows(storedCycle)
           /\ storedCycle.anchor \in Nat /\ storedCycle.anchor <= hour
           /\ Ends(storedCycle) = storedCycle.anchor + Horizon
           /\ began.at \in 0..hour /\ began.strategy = strategy /\ strategy # "off"
           /\ hour < Ends(storedCycle) =>
                (((hour + 1) - began.at) % Horizon = 0 <=> hour + 1 = Ends(storedCycle))
           /\ running => storedCycle = cycle /\ cycle # NoCycle /\ hour < Ends(cycle)
<1>1. running => storedCycle = cycle /\ cycle # NoCycle /\ hour < Ends(cycle)
  BY DEF HourPasses, CycleInv, Continues
<1>2. began.at \in 0..hour /\ began.strategy = strategy /\ strategy # "off"
  BY DEF CycleInv, Continues
<1>3. Follows(storedCycle) /\ storedCycle # NoCycle /\ Sound(storedCycle)
  BY <1>1 DEF CycleInv, Booked, Follows
<1>4. storedCycle \in Cycles /\ hour \in Nat
  BY <1>3 DEF CycleInv, CycleTypes
<1>5. /\ storedCycle.anchor \in Nat /\ storedCycle.anchor <= hour
      /\ Ends(storedCycle) = storedCycle.anchor + Horizon
  BY <1>3, <1>4, CycleFacts, Numbers DEF Sound
<1>6. (storedCycle.anchor - began.at) % Horizon = 0
  BY <1>3 DEF Follows
<1>7. ASSUME hour < Ends(storedCycle)
      PROVE  ((hour + 1) - began.at) % Horizon = 0 <=> hour + 1 = Ends(storedCycle)
  <2>. DEFINE a == storedCycle.anchor
              x == began.at
  <2>1. a \in Nat /\ x \in Int /\ a <= hour /\ hour < a + Horizon /\ (a - x) % Horizon = 0
    BY <1>2, <1>5, <1>6, <1>7
  <2>. HIDE DEF a, x
  <2>2. (hour + 1 - x) % Horizon = 0 <=> hour + 1 = a + Horizon
    BY <1>4, <2>1, EndsInPhase
  <2>3. hour + 1 - x = (hour + 1) - x
    BY <1>4, <2>1
  <2>. QED BY <1>5, <2>2, <2>3 DEF a, x
<1>. QED BY <1>1, <1>2, <1>3, <1>4, <1>5, <1>7

LEMMA HourKeepsContinuity ==
    ASSUME CycleInv, HourPasses, began # NeverBegan
    PROVE  CycleTypes' /\ Continues'
<1>1. /\ hour < LastHour /\ hour' = hour + 1 /\ due' = running
      /\ UNCHANGED <<running, strategy, hours, need, cycle, plan, storedCycle, began>>
      /\ \/ used' = 0 /\ most' = hours /\ steady' = TRUE
             /\ whole' = (running /\ strategy = "relative")
         \/ used' = Charged /\ UNCHANGED <<most, steady, whole>>
  BY DEF HourPasses
<1>2. CycleTypes /\ hour \in Nat /\ Charged \in Nat
  BY HourFacts DEF CycleInv
<1>3. /\ used' \in Nat /\ most' \in Sliders /\ steady' \in BOOLEAN /\ whole' \in BOOLEAN
  <2>1. /\ most \in Sliders /\ hours \in Sliders
        /\ steady \in BOOLEAN /\ whole \in BOOLEAN /\ running \in BOOLEAN
    BY <1>2 DEF CycleTypes
  <2>2. CASE /\ used' = 0 /\ most' = hours /\ steady' = TRUE
             /\ whole' = (running /\ strategy = "relative")
    BY <2>1, <2>2
  <2>3. CASE used' = Charged /\ UNCHANGED <<most, steady, whole>>
    BY <1>2, <2>1, <2>3
  <2>. QED BY <1>1, <2>2, <2>3
<1>4. CycleTypes'
  BY <1>1, <1>2, <1>3, Numbers DEF CycleTypes
<1>5. cycle # NoCycle =>
        /\ hour' < Ends(cycle)' \/ (hour' = Ends(cycle)' /\ due')
        /\ cycle'.picked \subseteq plan' \cup 0..(hour' - 1)
        /\ due' = TRUE
  <2>1. SUFFICES ASSUME cycle # NoCycle
                 PROVE  /\ hour' < Ends(cycle)' \/ (hour' = Ends(cycle)' /\ due')
                        /\ cycle'.picked \subseteq plan' \cup 0..(hour' - 1)
                        /\ due' = TRUE
    OBVIOUS
  <2>2. running /\ cycle.picked \subseteq plan \cup 0..(hour - 1)
    BY <2>1 DEF CycleInv, Continues
  <2>3. hour < Ends(cycle) /\ Ends(cycle) \in Nat
    BY <2>2, HourOfCycle, Numbers
  <2>4. Ends(cycle)' = Ends(cycle) /\ (hour' < Ends(cycle) \/ hour' = Ends(cycle))
    BY <1>1, <1>2, <2>3 DEF Ends
  <2>5. 0..(hour - 1) \subseteq 0..(hour' - 1)
    BY <1>1, <1>2
  <2>. QED BY <1>1, <2>2, <2>4, <2>5
<1>6. Continues'
  <2>1. began.at \in 0..hour' /\ began.strategy = strategy /\ strategy # "off"
    BY <1>1, <1>2, HourOfCycle
  <2>2. cycle # NoCycle <=> running /\ strategy # "off"
    BY DEF CycleInv, Continues
  <2>. QED BY <1>1, <1>5, <2>1, <2>2 DEF Continues
<1>. QED BY <1>4, <1>6

\* The books of the cycle, an hour later.
LEMMA HourIsReckoned ==
    ASSUME CycleInv, HourPasses, began # NeverBegan
    PROVE  Follows(storedCycle)'
<1>. DEFINE s == storedCycle
            e == Cardinality(Elapsed(s))
            e1 == Cardinality(Elapsed(s)')
            w == Wanted(hours)
<1>1. /\ hour' = hour + 1 /\ storedCycle' = s
      /\ UNCHANGED <<running, strategy, hours, need, cycle, plan, began>>
      /\ ~due
  BY DEF HourPasses
<1>2. /\ hour \in Nat /\ used \in Nat /\ e \in Nat /\ e1 \in Nat
      /\ e1 = (IF hour \in s.picked THEN e + 1 ELSE e)
      /\ Charged = (IF hour \in plan THEN used + 1 ELSE used)
      /\ hour \in plan => hour \in s.picked
      /\ ~running => plan = {}
      /\ running => cycle = s
  BY HourFacts
<1>3. /\ s \in Cycles /\ Follows(s) /\ s.anchor \in Nat
      /\ Ends(s) = s.anchor + Horizon /\ Ends(s) \in Nat
      /\ hour < Ends(s) => (((hour + 1) - began.at) % Horizon = 0 <=> hour + 1 = Ends(s))
      /\ running => hour < Ends(s)
  BY HourOfCycle, Numbers
<1>4. /\ Ends(s)' = Ends(s) /\ Inputs(strategy, hours)' = Inputs(strategy, hours)
      /\ Wanted(hours)' = w
  BY <1>1 DEF Ends, Inputs, Wanted, Lesser
<1>5. w \in Nat /\ s.budget \in Nat
  <2>1. need \in Needs /\ hours \in Sliders
    BY DEF CycleInv, CycleTypes
  <2>2. w \in 0..hours
    BY <2>1, WantedIsBounded
  <2>3. s.budget \in 0..MaxHours
    BY <1>3, CycleFacts
  <2>4. hours \in Nat
    BY <2>1, Numbers DEF Sliders
  <2>5. s.budget \in Nat
    BY <2>3, Numbers
  <2>. HIDE DEF w
  <2>6. w \in Nat
    BY <2>2, <2>4
  <2>. QED BY <2>5, <2>6
<1>6. s # NoCycle /\ s.strategy = strategy /\ (s.anchor - began.at) % Horizon = 0 /\ Reckoned(s)
  BY <1>3 DEF Follows
<1>7. CASE (hour' - began.at) % Horizon = 0
  <2>1. used' = 0
    BY <1>7 DEF HourPasses
  <2>4. ((hour + 1) - began.at) % Horizon = 0
    BY <1>1, <1>7
  <2>. DEFINE z == Ends(s)
  <2>5. (hour < z => hour + 1 = z) /\ z \in Nat
    BY <1>3, <2>4
  <2>. HIDE DEF z
  <2>6. ~(hour' < z)
    BY <1>1, <1>2, <2>5
  <2>2. ~(hour' < Ends(s))
    BY <2>6 DEF z
  <2>3. hour' >= Ends(s)
    BY <1>1, <1>2, <1>3, <2>2
  <2>7. Reckoned(s)'
    BY <1>1, <1>4, <2>1, <2>3 DEF Reckoned
  <2>. QED BY <1>1, <1>6, <2>7 DEF Follows
<1>8. CASE (hour' - began.at) % Horizon # 0
  <2>1. used' = Charged /\ steady' = steady
    BY <1>8 DEF HourPasses
  <2>2. CASE hour >= Ends(s)
    <3>1. used = 0 /\ ~(hour < Ends(s))
      BY <1>2, <1>3, <1>6, <2>2 DEF Reckoned
    <3>2. used' = 0 /\ hour' >= Ends(s)
      BY <1>1, <1>2, <1>3, <2>1, <2>2, <3>1
    <3>3. Reckoned(s)'
      BY <1>1, <1>4, <3>2 DEF Reckoned
    <3>. QED BY <1>1, <1>6, <3>3 DEF Follows
  <2>3. CASE ~(hour >= Ends(s))
    <3>0. ((hour + 1) - began.at) % Horizon # 0
      BY <1>1, <1>8
    <3>. DEFINE z == Ends(s)
    <3>7. z \in Nat /\ (hour < z => hour + 1 # z) /\ ~(hour >= z)
      BY <1>3, <2>3, <3>0
    <3>. HIDE DEF z
    <3>8. hour < z /\ ~(hour' >= z)
      BY <1>1, <1>2, <3>7
    <3>1. hour < Ends(s) /\ ~(hour' >= Ends(s))
      BY <3>8 DEF z
    <3>2. /\ used <= e
          /\ strategy = "smart" /\ steady =>
               IF s.inputs = Inputs(strategy, hours) THEN s.budget + used <= w + e
                                                     ELSE used = 0
      BY <1>6, <2>3 DEF Reckoned
    <3>3. Charged <= e1
      <4>. HIDE DEF e, e1
      <4>. QED BY <1>2, <3>2
    <3>4. ASSUME strategy = "smart", steady, s.inputs = Inputs(strategy, hours)
          PROVE  s.budget + Charged <= w + e1
      <4>1. s.budget + used <= w + e
        BY <3>2, <3>4
      <4>. DEFINE n == s.budget
      <4>2. n + used <= w + e /\ n \in Nat
        BY <1>5, <4>1
      <4>. HIDE DEF e, e1, w, n
      <4>3. n + Charged <= w + e1
        BY <1>2, <1>5, <4>2
      <4>. QED BY <4>3 DEF n
    <3>5. ASSUME strategy = "smart", steady, s.inputs # Inputs(strategy, hours)
          PROVE  Charged = 0
      <4>1. used = 0
        BY <3>2, <3>5
      <4>2. ~running
        <5>1. running => cycle = s /\ cycle # NoCycle
          BY <1>2, <1>6
        <5>. QED BY <1>1, <3>5, <5>1 DEF CycleInv, Continues
      <4>. QED BY <1>2, <4>1, <4>2
    <3>6. Reckoned(s)'
      BY <1>1, <1>4, <2>1, <3>1, <3>3, <3>4, <3>5 DEF Reckoned
    <3>. QED BY <1>1, <1>6, <3>6 DEF Follows
  <2>. QED BY <2>2, <2>3
<1>. QED BY <1>7, <1>8

LEMMA HourKeepsBooks ==
    ASSUME CycleInv, HourPasses, began # NeverBegan
    PROVE  Booked'
<1>1. running' = running /\ cycle' = cycle /\ storedCycle' = storedCycle
  BY DEF HourPasses
<1>2. (running => cycle = storedCycle) /\ (~running => cycle = NoCycle) /\ Sound(storedCycle)'
  BY HourFacts
<1>3. Follows(storedCycle)'
  BY HourIsReckoned
<1>4. running \in BOOLEAN
  BY DEF CycleInv, CycleTypes
<1>5. CASE running
  <2>1. cycle = storedCycle /\ cycle' = storedCycle'
    BY <1>1, <1>2, <1>5
  <2>2. Sound(cycle)' /\ Follows(cycle)'
    BY <1>2, <1>3, <2>1 DEF Sound, Follows, Reckoned, Elapsed, Ends
  <2>. QED BY <1>2, <1>3, <2>2 DEF Booked
<1>6. CASE ~running
  <2>1. cycle' = NoCycle
    BY <1>1, <1>2, <1>6
  <2>. QED BY <1>2, <1>3, <2>1 DEF Booked, Sound
<1>. QED BY <1>4, <1>5, <1>6

\* At the end of a cycle nothing is ahead.
LEMMA HourEndsCycle ==
    ASSUME CycleInv, HourPasses, began # NeverBegan, (hour' - began.at) % Horizon = 0
    PROVE  /\ Ahead' = {} /\ Cardinality(Ahead') = 0
           /\ running => hour' = Ends(cycle)
<1>1. hour' = hour + 1 /\ plan' = plan /\ cycle' = cycle
  BY DEF HourPasses
<1>2. running => /\ cycle \in Cycles /\ hour + 1 = Ends(cycle) /\ plan \subseteq cycle.picked
  BY <1>1, HourOfCycle DEF CycleInv, CycleTypes
<1>3. Ahead' = {}
  <2>1. CASE ~running
    <3>1. plan = {}
      BY <2>1, HourFacts
    <3>. QED BY <1>1, <3>1 DEF Ahead
  <2>2. CASE running
    <3>1. /\ cycle.picked \subseteq cycle.anchor..((cycle.anchor + Horizon) - 1)
          /\ hour + 1 = cycle.anchor + Horizon
          /\ cycle.anchor \in Nat
      BY <1>2, <2>2, CycleFacts, Numbers
    <3>2. \A t \in plan : ~(t >= hour')
      BY <1>1, <1>2, <2>2, <3>1, Numbers
    <3>. QED BY <1>1, <3>2 DEF Ahead
  <2>. QED BY <2>1, <2>2
<1>. QED BY <1>1, <1>2, <1>3, FS_EmptySet

LEMMA HourKeepsBudget ==
    ASSUME CycleInv, HourPasses, began # NeverBegan
    PROVE  WithinBudget' /\ Spends'
<1>. DEFINE a == Cardinality(Ahead)
            a1 == Cardinality(Ahead')
            w == Wanted(hours)
<1>1. /\ hour' = hour + 1
      /\ UNCHANGED <<running, strategy, hours, need, cycle, plan, storedCycle, began>>
  BY DEF HourPasses
<1>2. /\ hour \in Nat /\ used \in Nat /\ Charged \in Nat /\ a \in Nat /\ a1 \in Nat
      /\ Charged + a1 = used + a
      /\ Charged = (IF hour \in plan THEN used + 1 ELSE used)
  BY HourFacts
<1>3. /\ Wanted(hours)' = w /\ w \in Nat /\ hours \in Nat
      /\ Ends(cycle)' = Ends(cycle)
  <2>1. need \in Needs /\ hours \in Sliders
    BY DEF CycleInv, CycleTypes
  <2>. QED BY <1>1, <2>1, WantedIsBounded, Numbers DEF Sliders, Wanted, Lesser, Ends
<1>4. CASE (hour' - began.at) % Horizon = 0
  <2>1. /\ used' = 0 /\ most' = hours /\ steady' = TRUE
        /\ whole' = (running /\ strategy = "relative")
    BY <1>4 DEF HourPasses
  <2>2. a1 = 0 /\ (running => hour' = Ends(cycle))
    BY <1>4, HourEndsCycle
  <2>3. WithinBudget'
    BY <1>1, <1>3, <2>1, <2>2 DEF WithinBudget
  <2>4. running => ~(hour' < Ends(cycle)')
    BY <1>1, <1>2, <1>3, <2>2
  <2>5. Spends'
    BY <1>1, <2>1, <2>4 DEF Spends
  <2>. QED BY <2>3, <2>5
<1>5. CASE (hour' - began.at) % Horizon # 0
  <2>1. used' = Charged /\ UNCHANGED <<most, steady, whole>>
    BY <1>5 DEF HourPasses
  <2>2. /\ used + a <= most
        /\ strategy = "smart" /\ steady => used + a <= w
    BY DEF CycleInv, WithinBudget
  <2>3. /\ Charged + a1 <= most
        /\ strategy = "smart" /\ steady => Charged + a1 <= w
    BY <1>2, <2>2
  <2>4. WithinBudget'
    BY <1>1, <1>3, <2>1, <2>3 DEF WithinBudget
  <2>5. ASSUME whole, steady
        PROVE  /\ running /\ strategy = "relative"
               /\ Charged = Cardinality(Elapsed(cycle)') /\ Charged + a1 = hours
    <3>1. running /\ strategy = "relative"
      BY <2>5 DEF CycleInv, Spends
    <3>2. cycle = storedCycle /\ hour < Ends(cycle) /\ cycle # NoCycle
      BY <3>1, HourOfCycle
    <3>3. used = Cardinality(Elapsed(cycle)) /\ used + a = hours
      BY <2>5, <3>2 DEF CycleInv, Spends
    <3>4. hour \in cycle.picked <=> hour \in plan
      <4>1. cycle.picked \subseteq plan \cup 0..(hour - 1) /\ plan \subseteq cycle.picked
        BY <3>2 DEF CycleInv, Continues, CycleTypes
      <4>2. hour \notin 0..(hour - 1)
        BY <1>2
      <4>. QED BY <4>1, <4>2
    <3>5. Cardinality(Elapsed(cycle)')
            = IF hour \in cycle.picked THEN Cardinality(Elapsed(cycle)) + 1
                                       ELSE Cardinality(Elapsed(cycle))
      <4>1. Elapsed(cycle) = Elapsed(storedCycle) /\ Elapsed(cycle)' = Elapsed(storedCycle)'
        <5>1. cycle' = cycle /\ storedCycle' = storedCycle
          BY DEF HourPasses
        <5>. QED BY <3>2, <5>1 DEF Elapsed
      <4>2. Cardinality(Elapsed(storedCycle)')
              = IF hour \in storedCycle.picked THEN Cardinality(Elapsed(storedCycle)) + 1
                                               ELSE Cardinality(Elapsed(storedCycle))
        BY HourFacts
      <4>. QED BY <3>2, <4>1, <4>2
    <3>6. Charged = Cardinality(Elapsed(cycle)')
      BY <1>2, <3>3, <3>4, <3>5
    <3>7. Charged + a1 = hours
      BY <1>2, <3>3
    <3>. QED BY <3>1, <3>6, <3>7
  <2>6. Spends'
    BY <1>1, <2>1, <2>5 DEF Spends
  <2>. QED BY <2>4, <2>6
<1>. QED BY <1>4, <1>5

LEMMA HourPassesKeepsInv ==
    ASSUME CycleInv, HourPasses PROVE CycleInv'
<1>1. CASE began = NeverBegan
  BY <1>1, HourBeforeAnyCycle
<1>2. CASE began # NeverBegan
  BY <1>2, HourKeepsContinuity, HourKeepsBooks, HourKeepsBudget DEF CycleInv
<1>. QED BY <1>1, <1>2

-----------------------------------------------------------------------------
(* The theorems                                                             *)

\* What is stored is what a load accepts.
LEMMA StoredIsLoaded ==
    ASSUME CycleInv PROVE LoadedCycle = storedCycle
<1>1. storedCycle \in Cycles \cup {NoCycle}
  BY DEF CycleInv, CycleTypes
<1>2. CASE storedCycle = NoCycle
  <2>1. Valid(NoCycle)
    BY DEF Valid, NoCycle
  <2>. QED BY <1>2, <2>1 DEF LoadedCycle, Deserialized
<1>3. CASE storedCycle \in Cycles
  <2>. DEFINE c == storedCycle
  <2>1. /\ c.anchor \in Nat /\ c.budget \in 0..MaxHours
        /\ c.picked \subseteq c.anchor..((c.anchor + Horizon) - 1)
        /\ (c.inputs # Unknown <=> c.strategy = "smart")
        /\ Ends(c) = c.anchor + Horizon
    BY <1>3, CycleFacts, Numbers
  <2>2. \A t \in c.picked : c.anchor <= t /\ t < Ends(c)
    BY <2>1, Numbers
  <2>3. Valid(c)
    BY <2>1, <2>2 DEF Valid
  <2>. QED BY <2>3 DEF LoadedCycle, Deserialized
<1>. QED BY <1>1, <1>2, <1>3

LEMMA CycleBegins == ASSUME CycleInit PROVE CycleInv
<1>1. /\ hour = 0 /\ running = FALSE /\ strategy = "off" /\ hours \in Sliders
      /\ need \in Needs /\ cycle = NoCycle /\ plan = {} /\ storedCycle = NoCycle /\ due = FALSE
      /\ began = NeverBegan /\ used = 0 /\ most = hours /\ steady = TRUE /\ whole = FALSE
  BY DEF CycleInit
<1>2. CycleTypes
  <2>1. hour \in 0..LastHour /\ used \in Nat /\ strategy \in Strategies
    BY <1>1, Numbers DEF Strategies
  <2>2. plan \in SUBSET cycle.picked
    BY <1>1 DEF NoCycle
  <2>3. running \in BOOLEAN /\ due \in BOOLEAN /\ steady \in BOOLEAN /\ whole \in BOOLEAN
    BY <1>1
  <2>. QED BY <1>1, <2>1, <2>2, <2>3 DEF CycleTypes
<1>. QED BY <1>1, <1>2 DEF CycleInv, Continues, Booked, Sound, WithinBudget, Spends

LEMMA CycleContinues ==
    ASSUME CycleInv, [CycleNext]_cycleVars PROVE CycleInv'
<1>1. strategy \in Strategies /\ hours \in Sliders
  BY DEF CycleInv, CycleTypes
<1>2. CASE Replans
  BY <1>1, <1>2, EvaluationKeepsInv DEF Replans
<1>3. CASE SetsPrices
  <2>1. CASE \E s \in Strategies \ {strategy} : Evaluates(cycle, s, hours)
    <3>1. PICK s \in Strategies : Evaluates(cycle, s, hours)
      BY <2>1
    <3>. QED BY <1>1, <1>3, <3>1, EvaluationKeepsInv DEF SetsPrices
  <2>2. CASE \E h \in Sliders \ {hours} : Evaluates(cycle, strategy, h)
    <3>1. PICK h \in Sliders : Evaluates(cycle, strategy, h)
      BY <2>2
    <3>. QED BY <1>1, <1>3, <3>1, EvaluationKeepsInv DEF SetsPrices
  <2>. QED BY <1>3, <2>1, <2>2 DEF SetsPrices
<1>4. CASE ComesUp
  <2>1. Evaluates(storedCycle, strategy, hours)
    BY <1>4, StoredIsLoaded DEF ComesUp
  <2>. QED BY <1>1, <1>4, <2>1, EvaluationKeepsInv DEF ComesUp
<1>5. CASE UNCHANGED cycleVars
  BY <1>5 DEF cycleVars, CycleInv, CycleTypes, Continues, Booked, Sound, Follows, Reckoned,
              WithinBudget, Spends, Ahead, Elapsed, Ends, Inputs, Wanted
<1>. QED BY <1>2, <1>3, <1>4, <1>5, NeedChangesKeepsInv, SavesCycleKeepsInv,
            GoesDownKeepsInv, HourPassesKeepsInv DEF CycleNext

\* However it is evaluated, saved, restarted and reconfigured, the planner keeps
\* the books of its cycle: what is past is counted, the budget is what the need
\* of its inputs allows, and the stored cycle continues the one in memory.
THEOREM CycleInvariant == CycleSpec => []CycleInv
<1>1. CycleInit => CycleInv
  BY CycleBegins
<1>2. CycleInv /\ [CycleNext]_cycleVars => CycleInv'
  BY CycleContinues
<1>. QED BY <1>1, <1>2, PTL DEF CycleSpec

\* Within one cycle, no more hours than the user allowed at some time in it.
THEOREM BudgetKept == CycleSpec => []BudgetIsKept
<1>1. CycleInv => BudgetIsKept
  <2>1. SUFFICES ASSUME CycleInv, began # NeverBegan PROVE used <= most
    BY DEF BudgetIsKept
  <2>2. CycleTypes /\ used + Cardinality(Ahead) <= most
    BY <2>1 DEF CycleInv, WithinBudget
  <2>3. used \in Nat /\ most \in Nat /\ Cardinality(Ahead) \in Nat
    BY <2>2, AheadFacts, Numbers DEF CycleTypes, Sliders
  <2>. QED BY <2>2, <2>3
<1>. QED BY <1>1, CycleInvariant, PTL

\* The smart strategy does not buy the same need twice.
THEOREM NeedMetOnce == CycleSpec => []NeedIsMetOnce
<1>1. CycleInv => NeedIsMetOnce
  <2>1. SUFFICES ASSUME CycleInv, began.strategy = "smart", steady, need # Unknown
                 PROVE  used <= need
    BY DEF NeedIsMetOnce
  <2>2. CycleTypes /\ began # NeverBegan
    BY <2>1 DEF CycleInv, NeverBegan
  <2>3. used + Cardinality(Ahead) <= Wanted(hours)
    BY <2>1, <2>2 DEF CycleInv, WithinBudget, Continues
  <2>4. used \in Nat /\ Cardinality(Ahead) \in Nat /\ need \in Nat
        /\ need \in Needs /\ hours \in Sliders
    BY <2>1, <2>2, AheadFacts, Numbers DEF CycleTypes
  <2>5. Wanted(hours) \in 0..hours /\ Wanted(hours) <= need
    BY <2>1, <2>4, WantedIsBounded
  <2>6. Wanted(hours) \in Nat
    BY <2>4, <2>5, Numbers DEF Sliders
  <2>. QED BY <2>3, <2>4, <2>5, <2>6
<1>. QED BY <1>1, CycleInvariant, PTL

\* The cycle renews itself at the hour at which the user chose the strategy.
THEOREM CycleKeepsHour == CycleSpec => []CycleKeepsItsHour
<1>1. CycleInv => CycleKeepsItsHour
  BY DEF CycleInv, Booked, Follows, CycleKeepsItsHour
<1>. QED BY <1>1, CycleInvariant, PTL

\* Where prices enough were known and the program ran, all hours allowed are
\* charged by the end of the cycle.
THEOREM BudgetSpent == CycleSpec => BudgetIsSpent
<1>. DEFINE Step == began # NeverBegan /\ whole /\ steady
                      /\ hour' # hour /\ (hour' - began.at) % Horizon = 0
                      => Charged = hours
<1>1. CycleInv /\ [CycleNext]_cycleVars => [Step]_cycleVars
  <2>1. SUFFICES ASSUME CycleInv, CycleNext, began # NeverBegan, whole, steady,
                        hour' # hour, (hour' - began.at) % Horizon = 0
                 PROVE  Charged = hours
    OBVIOUS
  <2>2. HourPasses
    BY <2>1 DEF CycleNext, Replans, SetsPrices, NeedChanges, SavesCycle, GoesDown, ComesUp
  <2>3. running /\ hour < Ends(cycle)
    BY <2>1, <2>2, HourOfCycle DEF CycleInv, Spends
  <2>4. used + Cardinality(Ahead) = hours
    BY <2>1, <2>3 DEF CycleInv, Spends
  <2>5. Cardinality(Ahead') = 0
    BY <2>1, <2>2, HourEndsCycle
  <2>6. Charged \in Nat /\ Charged + Cardinality(Ahead') = used + Cardinality(Ahead)
    BY <2>1, <2>2, HourFacts
  <2>. QED BY <2>4, <2>5, <2>6
<1>. QED BY <1>1, CycleInvariant, PTL DEF CycleSpec, BudgetIsSpent

\* A cycle charges the hours the user allowed, not more and not less, and begins
\* at its hour, whatever the horizon, the slider and the needs.
THEOREM CycleStaysFair == CycleSpec => CycleIsFair
  BY BudgetKept, NeedMetOnce, CycleKeepsHour, BudgetSpent DEF CycleIsFair
-----------------------------------------------------------------------------
(* PriceSlots: the cheapest known hours, and the record of them            *)

LEMMA LeastNatural ==
    ASSUME NEW S \in SUBSET Nat, S # {}
    PROVE  \E n \in S : \A k \in S : n <= k
<1>1. PICK n \in S : \A k \in S : ~(<<k, n>> \in OpToRel(<, Nat))
  BY NatLessThanWellFounded, WFMin
<1>2. \A k \in S : n <= k
  <2> TAKE k \in S
  <2>1. k \in Nat /\ n \in Nat
    OBVIOUS
  <2>2. ~(k < n)
    BY <1>1, <2>1 DEF OpToRel
  <2> QED BY <2>1, <2>2
<1> QED BY <1>2

LEMMA FirstIs ==
    ASSUME NEW S \in SUBSET Nat, S # {}
    PROVE  First(S) \in S /\ \A n \in S : First(S) <= n
BY LeastNatural DEF First

\* What a function makes of finitely many.
LEMMA ImageIsFinite ==
    ASSUME NEW S, IsFiniteSet(S), NEW f, DOMAIN f = S, f = [x \in S |-> f[x]]
    PROVE  IsFiniteSet({f[x] : x \in S})
<1> DEFINE T == {f[x] : x \in S}
<1>1. f \in Surjection(S, T)
  BY DEF Surjection
<1> HIDE DEF T
<1> QED BY <1>1, FS_Surjection DEF T

-----------------------------------------------------------------------------
(* What a forecast becomes                                                  *)

Slots == {s \in [start : Nat, end : Nat, price : Int] : s.start < s.end}

LEMMA EntryFacts ==
    ASSUME NEW e \in Entries
    PROVE  /\ e.start \in Nat
           /\ e.end # Missing => e.end \in Nat
           /\ e.price # Missing => e.price \in Int
BY SlotsAssumption

\* An entry becomes a slot that ends with itself or before any other begins.
LEMMA EndIs ==
    ASSUME NEW raw \in SUBSET Entries, NEW e \in raw
    PROVE  /\ EndOf(e, raw) \in Nat /\ EndOf(e, raw) > e.start
           /\ \/ e.end # Missing /\ e.end > e.start /\ EndOf(e, raw) = e.end
              \/ \A o \in raw : ~(e.start < o.start /\ o.start < EndOf(e, raw))
<1> DEFINE next == After(StartsOf(raw), e.start)
           gap == IF Gaps(raw) = {} THEN SlotHours ELSE First(Gaps(raw))
<1>1. e.start \in Nat
  BY EntryFacts
<1>2. StartsOf(raw) \in SUBSET Nat
  BY EntryFacts DEF StartsOf
<1>3. \A t \in Nat : /\ After(StartsOf(raw), t) \in SUBSET Nat
                     /\ \A u \in After(StartsOf(raw), t) : u > t
  BY <1>2 DEF After
<1>4. gap \in Nat \ {0}
  <2>1. Gaps(raw) \in SUBSET (Nat \ {0})
    <3> SUFFICES ASSUME NEW t \in StartsOf(raw), After(StartsOf(raw), t) # {}
                 PROVE  First(After(StartsOf(raw), t)) - t \in Nat \ {0}
      BY DEF Gaps
    <3>1. t \in Nat /\ After(StartsOf(raw), t) \in SUBSET Nat
      BY <1>2, <1>3
    <3>2. First(After(StartsOf(raw), t)) \in After(StartsOf(raw), t)
      BY <3>1, FirstIs
    <3>3. First(After(StartsOf(raw), t)) \in Nat /\ First(After(StartsOf(raw), t)) > t
      BY <1>3, <3>1, <3>2
    <3> QED BY <3>1, <3>3
  <2>2. Gaps(raw) # {} => First(Gaps(raw)) \in Gaps(raw)
    BY <2>1, FirstIs
  <2>3. SlotHours \in Nat \ {0}
    BY SlotsAssumption
  <2> QED BY <2>1, <2>2, <2>3
<1> HIDE DEF gap
<1>5. CASE e.end # Missing /\ e.end > e.start
  <2>1. EndOf(e, raw) = e.end /\ e.end \in Nat
    BY <1>5, EntryFacts DEF EndOf
  <2> QED BY <1>5, <2>1
<1>6. CASE ~(e.end # Missing /\ e.end > e.start) /\ next # {}
  <2>1. EndOf(e, raw) = First(next)
    BY <1>6 DEF EndOf
  <2>2. next \in SUBSET Nat /\ \A u \in next : u > e.start
    BY <1>1, <1>3
  <2>3. First(next) \in next /\ \A u \in next : First(next) <= u
    BY <1>6, <2>2, FirstIs
  <2>4. ASSUME NEW o \in raw PROVE ~(e.start < o.start /\ o.start < First(next))
    <3>1. o.start \in Nat /\ o.start \in StartsOf(raw)
      BY EntryFacts DEF StartsOf
    <3>2. e.start < o.start => o.start \in next
      BY <3>1 DEF After
    <3> QED BY <2>2, <2>3, <3>1, <3>2
  <2> QED BY <2>1, <2>2, <2>3, <2>4
<1>7. CASE ~(e.end # Missing /\ e.end > e.start) /\ next = {}
  <2>1. EndOf(e, raw) = e.start + gap
    BY <1>7 DEF EndOf, gap
  <2>2. \A o \in raw : ~(e.start < o.start)
    BY <1>7 DEF After, StartsOf
  <2> QED BY <1>1, <1>4, <2>1, <2>2
<1> QED BY <1>5, <1>6, <1>7

LEMMA FinalizedIs ==
    ASSUME NEW raw \in SUBSET Entries
    PROVE  /\ Finalized(raw) \subseteq Slots
           /\ \A s \in Finalized(raw) : \E e \in raw :
                /\ e.start = s.start /\ e.price = s.price
                /\ \/ e.end # Missing /\ e.end > e.start /\ e.end = s.end
                   \/ \A o \in raw : ~(e.start < o.start /\ o.start < s.end)
<1> SUFFICES ASSUME NEW s \in Finalized(raw)
             PROVE  /\ s \in Slots
                    /\ \E e \in raw :
                         /\ e.start = s.start /\ e.price = s.price
                         /\ \/ e.end # Missing /\ e.end > e.start /\ e.end = s.end
                            \/ \A o \in raw : ~(e.start < o.start /\ o.start < s.end)
  OBVIOUS
<1>1. PICK e \in raw : /\ e.price # Missing
                       /\ s = [start |-> e.start, end |-> EndOf(e, raw), price |-> e.price]
  BY DEF Finalized
<1>2. s.start = e.start /\ s.end = EndOf(e, raw) /\ s.price = e.price
  BY <1>1
<1>3. e.start \in Nat /\ e.price \in Int
  BY <1>1, EntryFacts
<1>4. /\ EndOf(e, raw) \in Nat /\ EndOf(e, raw) > e.start
      /\ \/ e.end # Missing /\ e.end > e.start /\ EndOf(e, raw) = e.end
         \/ \A o \in raw : ~(e.start < o.start /\ o.start < EndOf(e, raw))
  BY EndIs
<1>5. s \in Slots
  BY <1>1, <1>3, <1>4 DEF Slots
<1> QED BY <1>2, <1>4, <1>5

LEMMA FinalizedIsFinite ==
    ASSUME NEW raw, IsFiniteSet(raw)
    PROVE  IsFiniteSet(Finalized(raw))
<1> DEFINE R == {r \in raw : r.price # Missing}
           f == [e \in R |-> [start |-> e.start, end |-> EndOf(e, raw), price |-> e.price]]
<1>1. IsFiniteSet(R)
  BY FS_Subset
<1>2. IsFiniteSet({f[x] : x \in R})
  <2>1. DOMAIN f = R /\ f = [x \in R |-> f[x]]
    OBVIOUS
  <2> HIDE DEF R, f
  <2> QED BY <1>1, <2>1, ImageIsFinite
<1> QED BY <1>2 DEF Finalized

-----------------------------------------------------------------------------
(* What is cut out                                                          *)

LEMMA SlotFacts ==
    ASSUME NEW S \in SUBSET Slots, NEW s \in S
    PROVE  s.start \in Nat /\ s.end \in Nat /\ s.price \in Int /\ s.start < s.end
BY DEF Slots

LEMMA BoundariesAre ==
    ASSUME NEW S \in SUBSET Slots, IsFiniteSet(S)
    PROVE  /\ Boundaries(S) \in SUBSET Nat /\ IsFiniteSet(Boundaries(S))
           /\ \A s \in S : s.start \in Boundaries(S) /\ s.end \in Boundaries(S)
<1>1. \A s \in S : s.start \in Nat /\ s.end \in Nat
  BY SlotFacts
<1> DEFINE f == [s \in S |-> s.start]
           g == [s \in S |-> s.end]
<1>2. IsFiniteSet({f[s] : s \in S}) /\ IsFiniteSet({g[s] : s \in S})
  <2>1. DOMAIN f = S /\ f = [x \in S |-> f[x]] /\ DOMAIN g = S /\ g = [x \in S |-> g[x]]
    OBVIOUS
  <2> HIDE DEF f, g
  <2> QED BY <2>1, ImageIsFinite
<1>3. Boundaries(S) = {f[s] : s \in S} \cup {g[s] : s \in S}
  BY DEF Boundaries
<1>4. IsFiniteSet(Boundaries(S))
  <2> DEFINE F == {f[s] : s \in S}
             G == {g[s] : s \in S}
  <2>1. IsFiniteSet(F) /\ IsFiniteSet(G) /\ Boundaries(S) = F \cup G
    BY <1>2, <1>3
  <2> HIDE DEF F, G
  <2> QED BY <2>1, FS_Union
<1> QED BY <1>1, <1>4 DEF Boundaries

\* Between two boundaries nothing begins or ends.
LEMMA SameBetween ==
    ASSUME NEW S \in SUBSET Slots, IsFiniteSet(S), NEW u \in Int, NEW t \in Int, u <= t,
           \A b \in Boundaries(S) : ~(u < b /\ b <= t)
    PROVE  At(S, t) = At(S, u)
<1> SUFFICES ASSUME NEW s \in S PROVE Covers(s, t) <=> Covers(s, u)
  BY DEF At
<1>1. s.start \in Nat /\ s.end \in Nat
  BY SlotFacts
<1>2. ~(u < s.start /\ s.start <= t) /\ ~(u < s.end /\ s.end <= t)
  BY BoundariesAre
<1> QED BY <1>1, <1>2 DEF Covers

Ones(S) == {u \in Boundaries(S) : Cardinality(At(S, u)) = 1}
Piece(S, t) ==
    [start |-> t, end |-> First(After(Boundaries(S), t)),
     price |-> (CHOOSE s \in At(S, t) : TRUE).price]

\* A piece goes to the next boundary, and its price is the only one there.
LEMMA PieceIs ==
    ASSUME NEW S \in SUBSET Slots, IsFiniteSet(S), NEW u \in Ones(S)
    PROVE  /\ Piece(S, u) \in Slots
           /\ Piece(S, u).start = u
           /\ \A b \in Boundaries(S) : b <= u \/ Piece(S, u).end <= b
           /\ Piece(S, u).end \in Boundaries(S)
           /\ \E s \in S : At(S, u) = {s} /\ s.price = Piece(S, u).price
<1>1. u \in Boundaries(S) /\ u \in Nat /\ Cardinality(At(S, u)) = 1
  BY BoundariesAre DEF Ones
<1>2. IsFiniteSet(At(S, u))
  BY FS_Subset DEF At
<1>3. PICK s : At(S, u) = {s}
  BY <1>1, <1>2, FS_Singleton
<1>4. s \in S /\ Covers(s, u)
  BY <1>3 DEF At
<1>5. s.end \in Boundaries(S) /\ s.end \in Nat /\ s.price \in Int /\ u < s.end
  BY <1>4, BoundariesAre, SlotFacts DEF Covers
<1>6. After(Boundaries(S), u) \in SUBSET Nat /\ After(Boundaries(S), u) # {}
  BY <1>5, BoundariesAre DEF After
<1> DEFINE next == First(After(Boundaries(S), u))
<1>7. next \in After(Boundaries(S), u) /\ \A b \in After(Boundaries(S), u) : next <= b
  BY <1>6, FirstIs
<1>8. next \in Nat /\ u < next /\ next \in Boundaries(S)
  BY <1>7, BoundariesAre DEF After
<1>9. (CHOOSE x \in At(S, u) : TRUE).price = s.price
  BY <1>3
<1>10. Piece(S, u) = [start |-> u, end |-> next, price |-> s.price]
  BY <1>9 DEF Piece
<1>11. \A b \in Boundaries(S) : b <= u \/ next <= b
  <2> TAKE b \in Boundaries(S)
  <2>1. b \in Nat
    BY BoundariesAre
  <2>2. u < b => b \in After(Boundaries(S), u)
    BY DEF After
  <2> QED BY <1>1, <1>7, <2>1, <2>2
<1> HIDE DEF next
<1>12. Piece(S, u) \in Slots
  BY <1>1, <1>5, <1>8, <1>10 DEF Slots
<1>13. Piece(S, u).start = u /\ Piece(S, u).end = next /\ Piece(S, u).price = s.price
  BY <1>10
<1> QED BY <1>3, <1>4, <1>8, <1>11, <1>12, <1>13

ApartAll(S) == \A a, b \in S : a = b \/ Apart(a, b)

LEMMA UnambiguousIs ==
    ASSUME NEW S
    PROVE  Unambiguous(S) = IF ApartAll(S) THEN S ELSE {Piece(S, t) : t \in Ones(S)}
BY DEF Unambiguous, ApartAll, Piece, Ones

\* In what is left no two slots overlap, and an hour has a slot exactly where it
\* had one only, at that slot's price.
LEMMA CutIs ==
    ASSUME NEW S \in SUBSET Slots, IsFiniteSet(S)
    PROVE  LET U == Unambiguous(S)
           IN /\ U \subseteq Slots /\ IsFiniteSet(U) /\ ApartAll(U)
              /\ \A x \in U : \A t \in Int :
                    Covers(x, t) => \E s \in S : At(S, t) = {s} /\ s.price = x.price
              /\ \A t \in Int : \A s : At(S, t) = {s} => \E x \in U : Covers(x, t)
<1> DEFINE U == Unambiguous(S)
<1>1. CASE ApartAll(S)
  <2>1. U = S
    BY <1>1, UnambiguousIs
  <2>2. ASSUME NEW x \in S, NEW t \in Int, Covers(x, t)
        PROVE  At(S, t) = {x}
    <3>1. ASSUME NEW s \in S, Covers(s, t) PROVE s = x
      <4>1. s = x \/ Apart(s, x)
        BY <1>1 DEF ApartAll
      <4>2. ~Apart(s, x)
        BY <2>2, <3>1, SlotFacts DEF Apart, Covers
      <4> QED BY <4>1, <4>2
    <3> QED BY <2>2, <3>1 DEF At
  <2>3. ASSUME NEW t \in Int, NEW s, At(S, t) = {s} PROVE \E x \in S : Covers(x, t)
    BY <2>3 DEF At
  <2> HIDE DEF U
  <2> QED BY <1>1, <2>1, <2>2, <2>3 DEF U
<1>2. CASE ~ApartAll(S)
  <2>1. U = {Piece(S, t) : t \in Ones(S)}
    BY <1>2, UnambiguousIs
  <2> HIDE DEF U
  <2>2. U \subseteq Slots
    BY <2>1, PieceIs
  <2>3. IsFiniteSet(U)
    <3> DEFINE f == [t \in Ones(S) |-> Piece(S, t)]
    <3>1. IsFiniteSet(Ones(S))
      BY BoundariesAre, FS_Subset DEF Ones
    <3>2. DOMAIN f = Ones(S) /\ f = [x \in Ones(S) |-> f[x]] /\ U = {f[x] : x \in Ones(S)}
      BY <2>1
    <3> HIDE DEF f
    <3> QED BY <3>1, <3>2, ImageIsFinite
  <2>4. ApartAll(U)
    <3> SUFFICES ASSUME NEW u \in Ones(S), NEW v \in Ones(S)
                 PROVE  Piece(S, u) = Piece(S, v) \/ Apart(Piece(S, u), Piece(S, v))
      BY <2>1 DEF ApartAll
    <3>1. u \in Boundaries(S) /\ v \in Boundaries(S) /\ u \in Nat /\ v \in Nat
      BY BoundariesAre DEF Ones
    <3>2. Piece(S, u).start = u /\ Piece(S, v).start = v
      BY PieceIs
    <3>3. (v <= u \/ Piece(S, u).end <= v) /\ (u <= v \/ Piece(S, v).end <= u)
      BY <3>1, PieceIs
    <3>4. u = v \/ Piece(S, u).end <= v \/ Piece(S, v).end <= u
      BY <3>1, <3>3
    <3> QED BY <3>2, <3>4 DEF Apart
  <2>5. ASSUME NEW x \in U, NEW t \in Int, Covers(x, t)
        PROVE  \E s \in S : At(S, t) = {s} /\ s.price = x.price
    <3>1. PICK u \in Ones(S) : x = Piece(S, u)
      BY <2>1
    <3>2. x.start = u /\ u \in Nat /\ x.end \in Nat
      <4>1. u \in Nat
        BY BoundariesAre DEF Ones
      <4> QED BY <2>2, <3>1, <4>1, PieceIs, SlotFacts
    <3>3. u <= t /\ t < x.end
      BY <2>5, <3>2 DEF Covers
    <3>4. \A b \in Boundaries(S) : ~(u < b /\ b <= t)
      <4> TAKE b \in Boundaries(S)
      <4>1. b \in Nat /\ (b <= u \/ x.end <= b)
        BY <3>1, BoundariesAre, PieceIs
      <4> QED BY <3>2, <3>3, <4>1
    <3>5. At(S, t) = At(S, u)
      <4>1. u \in Int
        BY <3>2
      <4> QED BY <3>3, <3>4, <4>1, SameBetween
    <3> QED BY <3>1, <3>5, PieceIs
  <2>6. ASSUME NEW t \in Int, NEW s, At(S, t) = {s} PROVE \E x \in U : Covers(x, t)
    <3>1. s \in S /\ Covers(s, t)
      BY <2>6 DEF At
    <3>2. s.start \in Nat /\ s.start \in Boundaries(S) /\ s.start <= t
      BY <3>1, BoundariesAre, SlotFacts DEF Covers
    <3> DEFINE Back == {n \in Nat : \E b \in Boundaries(S) : b <= t /\ n = t - b}
    <3>3. PICK n \in Back : \A k \in Back : n <= k
      <4>1. t - s.start \in Back
        BY <3>2
      <4> QED BY <4>1, LeastNatural
    <3>4. PICK u \in Boundaries(S) : u <= t /\ n = t - u
      BY <3>3
    <3>5. u \in Nat
      BY BoundariesAre
    <3>6. \A b \in Boundaries(S) : ~(u < b /\ b <= t)
      <4> SUFFICES ASSUME NEW b \in Boundaries(S), u < b, b <= t PROVE FALSE
        OBVIOUS
      <4>1. b \in Nat
        BY BoundariesAre
      <4>2. t - b \in Back
        BY <4>1
      <4>3. n <= t - b
        BY <3>3, <4>2
      <4> QED BY <3>4, <3>5, <4>1, <4>3
    <3>7. At(S, t) = At(S, u)
      <4>1. u \in Int
        BY <3>5
      <4> QED BY <3>4, <3>6, <4>1, SameBetween
    <3>8. u \in Ones(S)
      BY <2>6, <3>7, FS_Singleton DEF Ones
    <3>9. Piece(S, u) \in U
      BY <2>1, <3>8
    <3>10. /\ Piece(S, u).start = u /\ Piece(S, u).end \in Boundaries(S)
           /\ Piece(S, u) \in Slots
      BY <3>8, PieceIs
    <3>11. Piece(S, u).end \in Nat /\ u < Piece(S, u).end
      BY <3>10 DEF Slots
    <3>12. t < Piece(S, u).end
      BY <3>6, <3>10, <3>11
    <3> QED BY <3>4, <3>9, <3>10, <3>12 DEF Covers
  <2> QED BY <2>2, <2>3, <2>4, <2>5, <2>6 DEF U
<1> QED BY <1>1, <1>2

\* The price of an hour where no two slots overlap.
LEMMA PriceIs ==
    ASSUME NEW U \in SUBSET Slots, ApartAll(U), NEW t \in Int
    PROVE  /\ \A x \in U : Covers(x, t) => CurrentPrice(U, t) = x.price
           /\ (\A x \in U : ~Covers(x, t)) => CurrentPrice(U, t) = Missing
<1>1. ASSUME NEW x \in U, Covers(x, t) PROVE CurrentPrice(U, t) = x.price
  <2>1. ASSUME NEW s \in U, Covers(s, t) PROVE s = x
    <3>1. ~Apart(s, x)
      BY <1>1, <2>1, SlotFacts DEF Apart, Covers
    <3> QED BY <3>1 DEF ApartAll
  <2>2. At(U, t) = {x}
    BY <1>1, <2>1 DEF At
  <2> QED BY <2>2, FS_Singleton DEF CurrentPrice
<1>2. ASSUME \A x \in U : ~Covers(x, t) PROVE CurrentPrice(U, t) = Missing
  <2>1. At(U, t) = {}
    BY <1>2 DEF At
  <2> QED BY <2>1, FS_EmptySet DEF CurrentPrice
<1> QED BY <1>1, <1>2

LEMMA HoursAre ==
    ASSUME NEW S, \A s \in S : s.start \in Int /\ s.end \in Int
    PROVE  \A t : t \in HoursOf(S) <=> t \in Int /\ \E s \in S : Covers(s, t)
BY DEF HoursOf, Covers

LEMMA NothingInvented ==
    ASSUME NEW raw \in SUBSET Entries, IsFiniteSet(raw), forecast = raw
    PROVE  NoPriceInvented
<1> DEFINE S == Finalized(raw)
           U == Unambiguous(S)
<1>1. S \subseteq Slots /\ IsFiniteSet(S)
  BY FinalizedIs, FinalizedIsFinite
<1>2. /\ U \subseteq Slots
      /\ \A x \in U : \A t \in Int :
            Covers(x, t) => \E s \in S : At(S, t) = {s} /\ s.price = x.price
  <2> HIDE DEF S
  <2> QED BY <1>1, CutIs
<1> SUFFICES ASSUME NEW x \in U, NEW t \in x.start..(x.end - 1)
             PROVE  \E e \in raw :
                       /\ e.price = x.price /\ e.start <= t
                       /\ \/ e.end # Missing /\ e.end > e.start /\ t < e.end
                          \/ \A o \in raw : ~(e.start < o.start /\ o.start <= t)
  BY DEF NoPriceInvented
<1> HIDE DEF S, U
<1>3. t \in Int /\ Covers(x, t)
  BY <1>2, SlotFacts DEF Covers
<1>4. PICK s \in S : At(S, t) = {s} /\ s.price = x.price
  BY <1>2, <1>3
<1>5. Covers(s, t) /\ s.start \in Nat /\ s.end \in Nat
  BY <1>1, <1>4, SlotFacts DEF At
<1>6. PICK e \in raw :
         /\ e.start = s.start /\ e.price = s.price
         /\ \/ e.end # Missing /\ e.end > e.start /\ e.end = s.end
            \/ \A o \in raw : ~(e.start < o.start /\ o.start < s.end)
  BY FinalizedIs DEF S
<1>7. e.price = x.price /\ e.start <= t /\ t < s.end
  BY <1>4, <1>5, <1>6 DEF Covers
<1>8. CASE e.end # Missing /\ e.end > e.start /\ e.end = s.end
  BY <1>7, <1>8
<1>9. CASE \A o \in raw : ~(e.start < o.start /\ o.start < s.end)
  <2>1. \A o \in raw : ~(e.start < o.start /\ o.start <= t)
    <3> TAKE o \in raw
    <3>1. o.start \in Nat
      BY EntryFacts
    <3> QED BY <1>3, <1>5, <1>7, <1>9, <3>1
  <2> QED BY <1>7, <2>1
<1> QED BY <1>6, <1>8, <1>9

LEMMA OnlyConflicts ==
    ASSUME NEW raw \in SUBSET Entries, IsFiniteSet(raw), forecast = raw
    PROVE  OnlyConflictsAreCut
<1> DEFINE S == Finalized(raw)
           U == Unambiguous(S)
<1>1. S \subseteq Slots /\ IsFiniteSet(S)
  BY FinalizedIs, FinalizedIsFinite
<1> SUFFICES ASSUME NEW t \in HoursOf(S)
             PROVE  CurrentPrice(U, t) = CurrentPrice(S, t)
  BY DEF OnlyConflictsAreCut
<1> HIDE DEF S
<1>2. /\ U \subseteq Slots /\ ApartAll(U)
      /\ \A x \in U : \A n \in Int :
            Covers(x, n) => \E s \in S : At(S, n) = {s} /\ s.price = x.price
      /\ \A n \in Int : \A s : At(S, n) = {s} => \E x \in U : Covers(x, n)
  BY <1>1, CutIs
<1> HIDE DEF U
<1>3. t \in Int
  BY <1>1, HoursAre, SlotFacts
<1>4. CASE \E x \in U : Covers(x, t)
  <2>1. PICK x \in U : Covers(x, t)
    BY <1>4
  <2>2. PICK s \in S : At(S, t) = {s} /\ s.price = x.price
    BY <1>2, <1>3, <2>1
  <2>3. CurrentPrice(S, t) = s.price
    BY <2>2, FS_Singleton DEF CurrentPrice
  <2>4. CurrentPrice(U, t) = x.price
    BY <1>2, <1>3, <2>1, PriceIs
  <2> QED BY <2>2, <2>3, <2>4
<1>5. CASE \A x \in U : ~Covers(x, t)
  <2>1. IsFiniteSet(At(S, t))
    BY <1>1, FS_Subset DEF At
  <2>2. Cardinality(At(S, t)) # 1
    BY <1>2, <1>3, <1>5, <2>1, FS_Singleton
  <2> QED BY <1>2, <1>3, <1>5, <2>2, PriceIs DEF CurrentPrice
<1> QED BY <1>4, <1>5

\* Finitely many have a first one, by any measure.
LEMMA FiniteLeast ==
    ASSUME NEW S, IsFiniteSet(S), S # {}, NEW f, \A x \in S : f[x] \in Int
    PROVE  \E x \in S : \A y \in S : f[x] <= f[y]
<1> DEFINE Has(T) == \E x \in T : \A y \in T : f[x] <= f[y]
           Bad == {n \in Nat : \E T \in SUBSET S : T # {} /\ Cardinality(T) = n /\ ~Has(T)}
<1>1. Bad = {}
  <2> SUFFICES ASSUME Bad # {} PROVE FALSE
    OBVIOUS
  <2>1. PICK n \in Bad : \A k \in Bad : n <= k
    BY LeastNatural
  <2>2. PICK T \in SUBSET S : T # {} /\ Cardinality(T) = n /\ ~Has(T)
    OBVIOUS
  <2>3. PICK x \in T : TRUE
    BY <2>2
  <2>4. /\ IsFiniteSet(T) /\ IsFiniteSet(T \ {x}) /\ Cardinality(T \ {x}) = n - 1 /\ n - 1 \in Nat
    <3>1. IsFiniteSet(T)
      BY FS_Subset
    <3>2. Cardinality(T) \in Nat
      BY <3>1, FS_CardinalityType
    <3>3. Cardinality(T \ {x}) = Cardinality(T) - 1 /\ IsFiniteSet(T \ {x})
      BY <2>3, <3>1, FS_RemoveElement
    <3>4. Cardinality(T \ {x}) \in Nat
      BY <3>3, FS_CardinalityType
    <3> QED BY <2>2, <3>1, <3>2, <3>3, <3>4
  <2>5. CASE T \ {x} = {}
    <3>1. \A y \in T : y = x
      BY <2>5
    <3>2. f[x] \in Int
      BY <2>3
    <3>3. ASSUME NEW y \in T PROVE f[x] <= f[y]
      <4>1. f[y] = f[x]
        BY <3>1
      <4> QED BY <3>2, <4>1
    <3> QED BY <2>2, <2>3, <3>3
  <2>6. CASE T \ {x} # {}
    <3>1. n - 1 \notin Bad
      BY <2>1, <2>4
    <3>2. Has(T \ {x})
      BY <2>4, <2>6, <3>1
    <3>3. PICK z \in T \ {x} : \A y \in T \ {x} : f[z] <= f[y]
      BY <3>2
    <3>4. f[x] \in Int /\ f[z] \in Int /\ \A y \in T : f[y] \in Int
      BY <2>3
    <3>5. CASE f[x] <= f[z]
      <4>1. \A y \in T : f[x] <= f[y]
        BY <3>3, <3>4, <3>5
      <4> QED BY <2>2, <2>3, <4>1
    <3>6. CASE ~(f[x] <= f[z])
      <4>1. \A y \in T : f[z] <= f[y]
        BY <3>3, <3>4, <3>6
      <4> QED BY <2>2, <4>1
    <3> QED BY <3>5, <3>6
  <2> QED BY <2>5, <2>6
<1>2. Cardinality(S) \in Nat /\ S \in SUBSET S
  BY FS_CardinalityType
<1>3. Cardinality(S) \notin Bad
  BY <1>1
<1> QED BY <1>2, <1>3

-----------------------------------------------------------------------------
(* The two loops                                                            *)

\* The loops are recursive functions; that their equations have a solution is
\* itself an induction.
Turns(f, N, base, at, target) ==
    f = [n \in 0..N |-> IF n = 0 THEN base ELSE TakesNext(f[n - 1], at, target)]

LEMMA TurnsExist ==
    ASSUME NEW N \in Nat, NEW base, NEW at, NEW target
    PROVE  \E f : Turns(f, N, base, at, target)
<1> DEFINE P(n) == \E f : Turns(f, n, base, at, target)
           Bad == {n \in Nat : ~P(n)}
<1>1. P(0)
  <2> DEFINE f == [k \in 0..0 |-> base]
  <2>1. Turns(f, 0, base, at, target)
    BY DEF Turns
  <2> QED BY <2>1
<1>2. ASSUME NEW n \in Nat, P(n) PROVE P(n + 1)
  <2>1. PICK f : Turns(f, n, base, at, target)
    BY <1>2
  <2> DEFINE V(x) == TakesNext(x, at, target)
             g == [k \in 0..(n + 1) |-> IF k <= n THEN f[k] ELSE V(f[n])]
  <2>2. f = [k \in 0..n |-> IF k = 0 THEN base ELSE V(f[k - 1])]
    BY <2>1 DEF Turns
  <2> HIDE DEF V
  <2>3. \A k \in 0..n : f[k] = IF k = 0 THEN base ELSE V(f[k - 1])
    BY <2>2
  <2>4. ASSUME NEW k \in 0..(n + 1)
        PROVE  g[k] = IF k = 0 THEN base ELSE V(g[k - 1])
    <3>1. CASE k = 0
      BY <2>3, <3>1
    <3>2. CASE k # 0 /\ k <= n
      <4>1. k \in 0..n /\ k - 1 \in 0..(n + 1) /\ k - 1 <= n
        BY <3>2
      <4>2. g[k] = f[k] /\ g[k - 1] = f[k - 1]
        BY <3>2, <4>1
      <4> QED BY <2>3, <3>2, <4>1, <4>2
    <3>3. CASE ~(k <= n)
      <4>1. k # 0 /\ k - 1 \in 0..(n + 1) /\ k - 1 <= n /\ k - 1 = n
        BY <3>3
      <4>2. g[k] = V(f[n]) /\ g[k - 1] = f[n]
        BY <3>3, <4>1
      <4> QED BY <4>1, <4>2
    <3> QED BY <3>1, <3>2, <3>3
  <2>5. g = [k \in 0..(n + 1) |-> IF k = 0 THEN base ELSE V(g[k - 1])]
    BY <2>4
  <2>6. Turns(g, n + 1, base, at, target)
    BY <2>5 DEF Turns, V
  <2> QED BY <2>6
<1> HIDE DEF P
<1>3. Bad = {}
  <2> SUFFICES ASSUME Bad # {} PROVE FALSE
    OBVIOUS
  <2>1. PICK n \in Bad : \A k \in Bad : n <= k
    BY LeastNatural
  <2>2. CASE n = 0
    BY <1>1, <2>2
  <2>3. CASE n # 0
    <3>1. n - 1 \in Nat /\ n - 1 \notin Bad /\ (n - 1) + 1 = n
      BY <2>1, <2>3
    <3>2. P(n - 1)
      BY <3>1
    <3> QED BY <1>2, <3>1, <3>2
  <2> QED BY <2>2, <2>3
<1> QED BY <1>3 DEF P

LEMMA TurnsGo ==
    ASSUME NEW N \in Nat, NEW base, NEW at, NEW target, NEW f, Turns(f, N, base, at, target)
    PROVE  f[0] = base /\ \A n \in 1..N : f[n] = TakesNext(f[n - 1], at, target)
<1> DEFINE V(x) == TakesNext(x, at, target)
<1>1. f = [n \in 0..N |-> IF n = 0 THEN base ELSE V(f[n - 1])]
  BY DEF Turns
<1> HIDE DEF V
<1>2. f[0] = base
  BY <1>1
<1>3. \A n \in 1..N : f[n] = V(f[n - 1])
  BY <1>1
<1> QED BY <1>2, <1>3 DEF V

LEMMA CheapestIsATurn ==
    ASSUME NEW S, IsFiniteSet(S), NEW at, NEW target
    PROVE  \E f : /\ f[0] = [left |-> S, taken |-> {}]
                  /\ \A n \in 1..Cardinality(S) : f[n] = TakesNext(f[n - 1], at, target)
                  /\ CheapestSlots(S, at, target) = f[Cardinality(S)].taken
<1> DEFINE base == [left |-> S, taken |-> {}]
           N == Cardinality(S)
           f == CHOOSE f : Turns(f, Cardinality(S), [left |-> S, taken |-> {}], at, target)
<1>1. N \in Nat
  BY FS_CardinalityType
<1>2. Turns(f, N, base, at, target)
  <2>1. \E g : Turns(g, N, base, at, target)
    <3> HIDE DEF N, base
    <3> QED BY <1>1, TurnsExist
  <2> QED BY <2>1
<1>3. CheapestSlots(S, at, target) = f[N].taken
  BY Zenon DEF CheapestSlots, Turns
<1> HIDE DEF f, N, base
<1>4. f[0] = base /\ \A n \in 1..N : f[n] = TakesNext(f[n - 1], at, target)
  BY <1>1, <1>2, TurnsGo
<1> QED BY <1>3, <1>4 DEF N, base

Merges(f, N, base) ==
    f = [n \in 0..N |-> IF n = 0 THEN base ELSE MergesNext(f[n - 1])]

LEMMA MergesExist ==
    ASSUME NEW N \in Nat, NEW base
    PROVE  \E f : Merges(f, N, base)
<1> DEFINE P(n) == \E f : Merges(f, n, base)
           Bad == {n \in Nat : ~P(n)}
<1>1. P(0)
  <2> DEFINE f == [k \in 0..0 |-> base]
  <2>1. Merges(f, 0, base)
    BY DEF Merges
  <2> QED BY <2>1
<1>2. ASSUME NEW n \in Nat, P(n) PROVE P(n + 1)
  <2>1. PICK f : Merges(f, n, base)
    BY <1>2
  <2> DEFINE V(x) == MergesNext(x)
             g == [k \in 0..(n + 1) |-> IF k <= n THEN f[k] ELSE V(f[n])]
  <2>2. f = [k \in 0..n |-> IF k = 0 THEN base ELSE V(f[k - 1])]
    BY <2>1 DEF Merges
  <2> HIDE DEF V
  <2>3. \A k \in 0..n : f[k] = IF k = 0 THEN base ELSE V(f[k - 1])
    BY <2>2
  <2>4. ASSUME NEW k \in 0..(n + 1)
        PROVE  g[k] = IF k = 0 THEN base ELSE V(g[k - 1])
    <3>1. CASE k = 0
      BY <2>3, <3>1
    <3>2. CASE k # 0 /\ k <= n
      <4>1. k \in 0..n /\ k - 1 \in 0..(n + 1) /\ k - 1 <= n
        BY <3>2
      <4>2. g[k] = f[k] /\ g[k - 1] = f[k - 1]
        BY <3>2, <4>1
      <4> QED BY <2>3, <3>2, <4>1, <4>2
    <3>3. CASE ~(k <= n)
      <4>1. k # 0 /\ k - 1 \in 0..(n + 1) /\ k - 1 <= n /\ k - 1 = n
        BY <3>3
      <4>2. g[k] = V(f[n]) /\ g[k - 1] = f[n]
        BY <3>3, <4>1
      <4> QED BY <4>1, <4>2
    <3> QED BY <3>1, <3>2, <3>3
  <2>5. g = [k \in 0..(n + 1) |-> IF k = 0 THEN base ELSE V(g[k - 1])]
    BY <2>4
  <2>6. Merges(g, n + 1, base)
    BY <2>5 DEF Merges, V
  <2> QED BY <2>6
<1> HIDE DEF P
<1>3. Bad = {}
  <2> SUFFICES ASSUME Bad # {} PROVE FALSE
    OBVIOUS
  <2>1. PICK n \in Bad : \A k \in Bad : n <= k
    BY LeastNatural
  <2>2. CASE n = 0
    BY <1>1, <2>2
  <2>3. CASE n # 0
    <3>1. n - 1 \in Nat /\ n - 1 \notin Bad /\ (n - 1) + 1 = n
      BY <2>1, <2>3
    <3>2. P(n - 1)
      BY <3>1
    <3> QED BY <1>2, <3>1, <3>2
  <2> QED BY <2>2, <2>3
<1> QED BY <1>3 DEF P

LEMMA MergesGo ==
    ASSUME NEW N \in Nat, NEW base, NEW f, Merges(f, N, base)
    PROVE  f[0] = base /\ \A n \in 1..N : f[n] = MergesNext(f[n - 1])
<1> DEFINE V(x) == MergesNext(x)
<1>1. f = [n \in 0..N |-> IF n = 0 THEN base ELSE V(f[n - 1])]
  BY DEF Merges
<1> HIDE DEF V
<1>2. f[0] = base
  BY <1>1
<1>3. \A n \in 1..N : f[n] = V(f[n - 1])
  BY <1>1
<1> QED BY <1>2, <1>3 DEF V

LEMMA MergedIsATurn ==
    ASSUME NEW S, IsFiniteSet(InCycle(S))
    PROVE  LET B == InCycle(S)
           IN \E f : /\ f[0] = [left |-> B, merged |-> <<>>]
                     /\ \A n \in 1..Cardinality(B) : f[n] = MergesNext(f[n - 1])
                     /\ Merged(S) = f[Cardinality(B)].merged
<1> DEFINE base == [left |-> InCycle(S), merged |-> <<>>]
           N == Cardinality(InCycle(S))
           f == CHOOSE f : Merges(f, Cardinality(InCycle(S)),
                                  [left |-> InCycle(S), merged |-> <<>>])
<1>1. N \in Nat
  BY FS_CardinalityType
<1>2. Merges(f, N, base)
  <2>1. \E g : Merges(g, N, base)
    <3> HIDE DEF N, base
    <3> QED BY <1>1, MergesExist
  <2> QED BY <2>1
<1>3. Merged(S) = f[N].merged
  BY Zenon DEF Merged, Merges
<1> HIDE DEF f, N, base
<1>4. f[0] = base /\ \A n \in 1..N : f[n] = MergesNext(f[n - 1])
  BY <1>1, <1>2, MergesGo
<1> QED BY <1>3, <1>4 DEF N, base

-----------------------------------------------------------------------------
(* The cheapest hours                                                       *)

\* Of what is left, the loop takes one slot that no other comes before.
LEMMA CheapestIs ==
    ASSUME NEW L \in SUBSET Slots, IsFiniteSet(L), ApartAll(L), L # {}
    PROVE  \E s \in L : \A u \in L : s = u \/ ByPrice(s, u)
<1>1. \A s \in L : s.start \in Nat /\ s.end \in Nat /\ s.price \in Int /\ s.start < s.end
  BY SlotFacts
<1> DEFINE f == [s \in L |-> s.price]
<1>2. PICK p \in L : \A u \in L : f[p] <= f[u]
  <2>1. \A s \in L : f[s] \in Int
    BY <1>1
  <2> HIDE DEF f
  <2> QED BY <2>1, FiniteLeast
<1>3. \A u \in L : p.price <= u.price
  BY <1>2
<1> DEFINE C == {s \in L : s.price = p.price}
           g == [s \in C |-> s.start]
<1>4. PICK s \in C : \A u \in C : g[s] <= g[u]
  <2>1. \A u \in C : g[u] \in Int
    BY <1>1
  <2>2. IsFiniteSet(C) /\ C # {}
    BY FS_Subset
  <2> HIDE DEF g, C
  <2> QED BY <2>1, <2>2, FiniteLeast
<1>5. ASSUME NEW u \in L PROVE s = u \/ ByPrice(s, u)
  <2>1. s.price = p.price /\ s.price <= u.price /\ s.price \in Int /\ u.price \in Int
    BY <1>1, <1>3
  <2>2. CASE u.price # s.price
    BY <2>1, <2>2 DEF ByPrice
  <2>3. CASE u.price = s.price
    <3>1. u \in C
      BY <2>1, <2>3
    <3>2. s.start <= u.start
      BY <1>4, <3>1
    <3>3. s = u \/ Apart(s, u)
      BY DEF ApartAll
    <3>4. s = u \/ s.start # u.start
      BY <1>1, <3>3 DEF Apart
    <3>5. s.start \in Nat /\ u.start \in Nat
      BY <1>1
    <3> QED BY <2>3, <3>2, <3>4, <3>5 DEF ByPrice
  <2> QED BY <2>2, <2>3
<1>6. s \in L
  OBVIOUS
<1> QED BY <1>5, <1>6

\* The hours of some slots that can still be used.
Known(D, at) == {t \in HoursOf(D) : at <= t /\ t < CycleEnd}

LEMMA KnownIsFinite ==
    ASSUME NEW D, NEW at \in Nat, NEW T, T \subseteq Known(D, at), D \subseteq Slots
    PROVE  IsFiniteSet(T) /\ Cardinality(T) \in Nat
<1>1. CycleEnd \in Nat
  BY SlotsAssumption
<1>2. T \subseteq 0..CycleEnd
  <2>1. HoursOf(D) \subseteq Int
    BY SlotFacts, HoursAre
  <2> QED BY <1>1, <2>1 DEF Known
<1>3. IsFiniteSet(0..CycleEnd)
  BY <1>1, FS_Interval
<1> QED BY <1>2, <1>3, FS_Subset, FS_CardinalityType

\* What the loop knows after some turns: it took the cheapest, as many as there
\* are among the slots it has seen, or as are wanted.
HasTaken(was, U, at, target) ==
    LET done == U \ was.left
        hoursTaken == HoursOf(was.taken)
    IN /\ was.left \subseteq U
       /\ \A d \in done, l \in was.left : ByPrice(d, l)
       /\ \A p \in was.taken :
             /\ p.start \in Nat /\ p.end \in Nat /\ at <= p.start /\ p.start < p.end
             /\ p.end <= CycleEnd
             /\ \E d \in done : p.price = d.price /\ d.start <= p.start /\ p.end <= d.end
       /\ Cardinality(hoursTaken) = Lower(target, Cardinality(Known(done, at)))
       /\ \A t \in hoursTaken, u \in Known(done, at) \ hoursTaken :
             CurrentPrice(U, t) <= CurrentPrice(U, u)

\* What is taken is known.
LEMMA TakenIsKnown ==
    ASSUME NEW U \in SUBSET Slots, NEW at \in Nat, NEW target \in Nat, NEW was,
           HasTaken(was, U, at, target)
    PROVE  HoursOf(was.taken) \subseteq Known(U \ was.left, at)
<1> SUFFICES ASSUME NEW t \in HoursOf(was.taken) PROVE t \in Known(U \ was.left, at)
  OBVIOUS
<1>1. \A p \in was.taken :
         /\ p.start \in Nat /\ p.end \in Nat /\ at <= p.start /\ p.start < p.end
         /\ p.end <= CycleEnd
         /\ \E d \in U \ was.left : p.price = d.price /\ d.start <= p.start /\ p.end <= d.end
  BY DEF HasTaken
<1>2. t \in Int /\ \E p \in was.taken : Covers(p, t)
  BY <1>1, HoursAre
<1>3. PICK p \in was.taken : p.start <= t /\ t < p.end
  BY <1>2 DEF Covers
<1>4. PICK d \in U \ was.left : d.start <= p.start /\ p.end <= d.end
  BY <1>1
<1>5. d.start \in Nat /\ d.end \in Nat /\ p.start \in Nat /\ p.end \in Nat /\ at <= p.start
      /\ p.end <= CycleEnd /\ CycleEnd \in Nat
  BY <1>1, SlotFacts, SlotsAssumption
<1>6. Covers(d, t) /\ at <= t /\ t < CycleEnd
  BY <1>2, <1>3, <1>4, <1>5 DEF Covers
<1>7. t \in HoursOf(U \ was.left)
  <2>1. \A s \in U \ was.left : s.start \in Int /\ s.end \in Int
    BY SlotFacts
  <2> QED BY <1>2, <1>6, <2>1, HoursAre
<1> QED BY <1>6, <1>7 DEF Known

\* The hours that one slot has from now until the cycle ends.
LEMMA SlotHoursAre ==
    ASSUME NEW s \in Slots, NEW at \in Nat
    PROVE  LET from == Upper(s.start, at)
               to == Lower(s.end, CycleEnd)
           IN /\ from \in Nat /\ to \in Nat
              /\ Known({s}, at) = from..(to - 1)
              /\ IsFiniteSet(Known({s}, at))
              /\ Cardinality(Known({s}, at)) = IF from < to THEN to - from ELSE 0
<1>1. s.start \in Nat /\ s.end \in Nat /\ CycleEnd \in Nat
  BY SlotsAssumption DEF Slots
<1> DEFINE from == Upper(s.start, at)
           to == Lower(s.end, CycleEnd)
<1>2. from \in Nat /\ to \in Nat
  BY <1>1 DEF Upper, Lower
<1>3. ASSUME NEW t PROVE t \in Known({s}, at) <=> t \in from..(to - 1)
  <2>1. t \in Known({s}, at) <=> t \in Int /\ s.start <= t /\ t < s.end /\ at <= t /\ t < CycleEnd
    <3>1. HoursOf({s}) = s.start..(s.end - 1)
      BY DEF HoursOf
    <3> QED BY <1>1, <3>1 DEF Known
  <2>2. ASSUME t \in Int
        PROVE  (s.start <= t /\ at <= t <=> from <= t) /\ (t < s.end /\ t < CycleEnd <=> t < to)
    BY <1>1, <2>2 DEF Upper, Lower
  <2> HIDE DEF from, to
  <2> QED BY <1>2, <2>1, <2>2
<1> HIDE DEF from, to
<1>4. Known({s}, at) = from..(to - 1)
  BY <1>3
<1>5. IsFiniteSet(from..(to - 1))
      /\ Cardinality(from..(to - 1)) = IF from > to - 1 THEN 0 ELSE (to - 1) - from + 1
  <2> DEFINE z == to - 1
  <2>1. z \in Int /\ from \in Int
    BY <1>2
  <2> HIDE DEF z
  <2>2. IsFiniteSet(from..z) /\ Cardinality(from..z) = IF from > z THEN 0 ELSE z - from + 1
    BY <2>1, FS_Interval
  <2> QED BY <2>2 DEF z
<1>6. (IF from > to - 1 THEN 0 ELSE (to - 1) - from + 1) = (IF from < to THEN to - from ELSE 0)
  BY <1>2
<1> QED BY <1>2, <1>4, <1>5, <1>6 DEF from, to

\* One turn keeps it.
LEMMA TurnTakes ==
    ASSUME NEW U \in SUBSET Slots, IsFiniteSet(U), ApartAll(U), NEW at \in Nat,
           NEW target \in Nat, NEW was, HasTaken(was, U, at, target), was.left # {}
    PROVE  LET is == TakesNext(was, at, target)
           IN /\ HasTaken(is, U, at, target)
              /\ Cardinality(is.left) = Cardinality(was.left) - 1
<1> DEFINE L == was.left
           done == U \ L
           X == HoursOf(was.taken)
           next == CHOOSE s \in L : \A u \in L : s = u \/ ByPrice(s, u)
           part == Part(next, at, target - Cardinality(X))
           is == TakesNext(was, at, target)
<1>1. L \subseteq U /\ IsFiniteSet(L) /\ ApartAll(L)
  BY FS_Subset DEF HasTaken, ApartAll
<1>2. next \in L /\ \A u \in L : next = u \/ ByPrice(next, u)
  <2>1. \E s \in L : \A u \in L : s = u \/ ByPrice(s, u)
    BY <1>1, CheapestIs
  <2> QED BY <2>1
<1>3. is = [left |-> L \ {next},
            taken |-> was.taken \cup (IF part.start < part.end THEN {part} ELSE {})]
  BY DEF TakesNext
<1>4. /\ is.left = L \ {next}
      /\ is.taken = was.taken \cup (IF part.start < part.end THEN {part} ELSE {})
  BY <1>3
<1> HIDE DEF is, next
<1>5. Cardinality(is.left) = Cardinality(L) - 1
  <2>1. Cardinality(L \ {next}) = Cardinality(L) - 1
    <3> HIDE DEF L
    <3> QED BY <1>1, <1>2, FS_RemoveElement
  <2> QED BY <1>4, <2>1
<1>6. U \ is.left = done \cup {next} /\ next \notin done /\ next \in U /\ next \in Slots
  BY <1>1, <1>2, <1>4
<1>7. next.start \in Nat /\ next.end \in Nat /\ next.price \in Int /\ next.start < next.end
  BY <1>6 DEF Slots
<1>8. /\ \A d \in done, l \in L : ByPrice(d, l)
      /\ \A p \in was.taken :
            /\ p.start \in Nat /\ p.end \in Nat /\ at <= p.start /\ p.start < p.end
            /\ p.end <= CycleEnd
            /\ \E d \in done : p.price = d.price /\ d.start <= p.start /\ p.end <= d.end
      /\ Cardinality(X) = Lower(target, Cardinality(Known(done, at)))
      /\ \A t \in X, u \in Known(done, at) \ X : CurrentPrice(U, t) <= CurrentPrice(U, u)
  BY DEF HasTaken
<1> DEFINE from == Upper(next.start, at)
           to == Lower(next.end, CycleEnd)
           KD == Known(done, at)
           K == Known({next}, at)
           R == target - Cardinality(X)
<1>9. /\ from \in Nat /\ to \in Nat /\ K = from..(to - 1) /\ IsFiniteSet(K)
      /\ Cardinality(K) = IF from < to THEN to - from ELSE 0
  BY <1>6, SlotHoursAre
<1>10. IsFiniteSet(KD) /\ Cardinality(KD) \in Nat /\ IsFiniteSet(X) /\ Cardinality(X) \in Nat
       /\ X \subseteq KD
  <2>1. X \subseteq KD
    BY TakenIsKnown
  <2> QED BY <2>1, KnownIsFinite
<1>11. R \in Nat
  BY <1>8, <1>10 DEF Lower
<1>12. KD \cap K = {}
  <2> SUFFICES ASSUME NEW t \in KD, t \in K PROVE FALSE
    OBVIOUS
  <2>1. t \in Int /\ (\E d \in done : Covers(d, t)) /\ Covers(next, t)
    <3>1. (\A s \in done : s.start \in Int /\ s.end \in Int)
          /\ \A s \in {next} : s.start \in Int /\ s.end \in Int
      BY <1>6, <1>7, SlotFacts
    <3> QED BY <3>1, HoursAre DEF Known
  <2>2. PICK d \in done : Covers(d, t)
    BY <2>1
  <2>3. Apart(d, next)
    BY <1>6 DEF ApartAll
  <2>4. d.start \in Nat /\ d.end \in Nat
    BY SlotFacts
  <2> QED BY <1>7, <2>1, <2>2, <2>3, <2>4 DEF Apart, Covers
<1>13. Known(done \cup {next}, at) = KD \cup K
  <2>1. HoursOf(done \cup {next}) = HoursOf(done) \cup HoursOf({next})
    BY DEF HoursOf
  <2> QED BY <2>1 DEF Known
<1>14. Cardinality(KD \cup K) = Cardinality(KD) + Cardinality(K)
  <2>1. Cardinality(KD \cup K) = Cardinality(KD) + Cardinality(K) - Cardinality(KD \cap K)
    <3> HIDE DEF KD, K
    <3> QED BY <1>9, <1>10, FS_Union
  <2>2. Cardinality(KD \cap K) = 0
    BY <1>12, FS_EmptySet
  <2>3. Cardinality(K) \in Nat
    BY <1>9
  <2> QED BY <1>10, <2>1, <2>2, <2>3
<1> DEFINE end == from + Lower(to - from, R)
           P == IF from < end THEN from..(end - 1) ELSE {}
<1>15. part = [start |-> from, end |-> end, price |-> next.price]
  BY DEF Part
<1>16. part.start = from /\ part.end = end /\ part.price = next.price
  BY <1>15
<1>17. /\ end \in Int /\ end <= to
       /\ from < end <=> from < to /\ R > 0
       /\ from < end => end - from = Lower(to - from, R)
  <2> HIDE DEF from, to, R
  <2> QED BY <1>9, <1>11 DEF Lower
<1>18. HoursOf(is.taken) = X \cup P
  <2>1. CASE from < end
    <3>1. is.taken = was.taken \cup {part}
      BY <1>4, <1>16, <2>1
    <3>2. HoursOf(is.taken) = X \cup (part.start..(part.end - 1))
      BY <3>1 DEF HoursOf
    <3> QED BY <1>16, <2>1, <3>2
  <2>2. CASE ~(from < end)
    <3>1. is.taken = was.taken
      BY <1>4, <1>16, <2>2
    <3> QED BY <2>2, <3>1
  <2> QED BY <2>1, <2>2
<1> HIDE DEF done, X, part, KD, K, from, to, R, end, P
<1>19. P \subseteq K
  BY <1>9, <1>17 DEF P
<1>20. IsFiniteSet(P) /\ Cardinality(P) = Lower(Cardinality(K), R)
  <2>1. CASE from < end
    <3> DEFINE z == end - 1
    <3>1. z \in Int /\ from \in Int /\ P = from..z /\ ~(from > z)
      BY <1>9, <1>17, <2>1 DEF P
    <3> HIDE DEF z
    <3>2. IsFiniteSet(P) /\ Cardinality(P) = z - from + 1
      BY <3>1, FS_Interval
    <3>3. Cardinality(K) = to - from
      BY <1>9, <1>17, <2>1
    <3>4. z - from + 1 = Lower(to - from, R)
      BY <1>9, <1>17, <2>1 DEF z
    <3> QED BY <3>2, <3>3, <3>4
  <2>2. CASE ~(from < end)
    <3>1. P = {} /\ Cardinality(P) = 0 /\ IsFiniteSet(P)
      BY <2>2, FS_EmptySet DEF P
    <3>2. ~(from < to) \/ R = 0
      BY <1>11, <1>17, <2>2
    <3>3. Lower(Cardinality(K), R) = 0
      BY <1>9, <1>11, <3>2 DEF Lower
    <3> QED BY <3>1, <3>3
  <2> QED BY <2>1, <2>2
<1>21. X \cap P = {}
  BY <1>10, <1>12, <1>19
<1>22. Cardinality(X \cup P) = Cardinality(X) + Cardinality(P)
  <2>1. Cardinality(X \cup P) = Cardinality(X) + Cardinality(P) - Cardinality(X \cap P)
    BY <1>10, <1>20, FS_Union
  <2>2. Cardinality(X \cap P) = 0
    BY <1>21, FS_EmptySet
  <2>3. Cardinality(P) \in Nat
    BY <1>20, FS_CardinalityType
  <2> QED BY <1>10, <2>1, <2>2, <2>3
<1>23. R > 0 => X = KD
  <2> SUFFICES ASSUME R > 0 PROVE X = KD
    OBVIOUS
  <2>1. Cardinality(X) = Cardinality(KD)
    <3> DEFINE x == Cardinality(X)
               k == Cardinality(KD)
    <3>1. x = Lower(target, k)
      BY <1>8 DEF KD
    <3>2. target - x > 0 /\ x \in Nat /\ k \in Nat
      BY <1>10 DEF R
    <3> HIDE DEF x, k
    <3>3. x = k
      BY <3>1, <3>2 DEF Lower
    <3> QED BY <3>3 DEF x, k
  <2> QED BY <1>10, <2>1, FS_Subset
<1>24. Cardinality(X \cup P) = Lower(target, Cardinality(KD \cup K))
  <2> DEFINE x == Cardinality(X)
             k == Cardinality(K)
             kd == Cardinality(KD)
             b == Cardinality(KD \cup K)
             y == Cardinality(X \cup P)
  <2>1. x \in Nat /\ k \in Nat /\ kd \in Nat /\ b = kd + k
    BY <1>9, <1>10, <1>14
  <2>2. x = Lower(target, kd)
    BY <1>8 DEF KD
  <2>3. y = x + Lower(k, R)
    BY <1>20, <1>22
  <2>4. R = target - x
    BY DEF R
  <2> HIDE DEF x, k, kd, b, y
  <2>5. y = Lower(target, b)
    BY <2>1, <2>2, <2>3, <2>4 DEF Lower
  <2> QED BY <2>5 DEF y, b
\* Prices: what is seen of an hour is what its slot says.
<1>25. \A t \in K : t \in Int /\ CurrentPrice(U, t) = next.price
  <2> TAKE t \in K
  <2>1. t \in Int /\ Covers(next, t)
    <3>1. \A s \in {next} : s.start \in Int /\ s.end \in Int
      BY <1>7
    <3> QED BY <3>1, HoursAre DEF K, Known
  <2> QED BY <1>6, <2>1, PriceIs
<1>26. \A t \in KD : CurrentPrice(U, t) \in Int /\ CurrentPrice(U, t) <= next.price
  <2> TAKE t \in KD
  <2>1. t \in Int /\ \E d \in done : Covers(d, t)
    <3>1. \A s \in done : s.start \in Int /\ s.end \in Int
      BY SlotFacts DEF done
    <3> QED BY <3>1, HoursAre DEF KD, Known
  <2>2. PICK d \in done : Covers(d, t)
    BY <2>1
  <2>3. d \in U /\ d.price \in Int
    BY SlotFacts DEF done
  <2>4. CurrentPrice(U, t) = d.price
    BY <2>1, <2>2, <2>3, PriceIs
  <2>5. ByPrice(d, next)
    BY <1>2, <1>8
  <2>6. d.price <= next.price
    BY <1>7, <2>3, <2>5 DEF ByPrice
  <2> QED BY <2>3, <2>4, <2>6
<1>27. ASSUME NEW t \in X \cup P, NEW u \in (KD \cup K) \ (X \cup P)
       PROVE  CurrentPrice(U, t) <= CurrentPrice(U, u)
  <2>1. CASE u \in K
    <3>1. CurrentPrice(U, u) = next.price
      BY <1>25, <2>1
    <3>2. t \in KD \/ t \in K
      BY <1>10, <1>19
    <3> QED BY <1>7, <1>25, <1>26, <3>1, <3>2
  <2>2. CASE u \notin K
    <3>1. u \in KD /\ u \notin X
      BY <2>2
    <3>2. R = 0
      BY <1>11, <1>23, <3>1
    <3>3. P = {}
      BY <1>17, <3>2 DEF P
    <3>4. t \in X /\ u \in Known(done, at) \ X
      BY <3>1, <3>3 DEF KD
    <3> QED BY <1>8, <3>4
  <2> QED BY <2>1, <2>2
<1>28. ASSUME NEW p \in is.taken
       PROVE  /\ p.start \in Nat /\ p.end \in Nat /\ at <= p.start /\ p.start < p.end
              /\ p.end <= CycleEnd
              /\ \E d \in done \cup {next} :
                    p.price = d.price /\ d.start <= p.start /\ p.end <= d.end
  <2>1. CASE p \in was.taken
    BY <1>8, <2>1
  <2>2. CASE p \notin was.taken
    <3>1. p = part /\ part.start < part.end
      BY <1>4, <2>2
    <3>2. p.start = from /\ p.end = end /\ p.price = next.price /\ from < end
      BY <1>16, <3>1
    <3>3. CycleEnd \in Nat
      BY SlotsAssumption
    <3>4. at <= from /\ next.start <= from /\ to <= CycleEnd /\ to <= next.end
      BY <1>7, <3>3 DEF from, to, Upper, Lower
    <3>5. /\ from \in Nat /\ end \in Nat /\ at <= from /\ end <= CycleEnd
          /\ next.start <= from /\ end <= next.end
      BY <1>7, <1>9, <1>17, <3>2, <3>3, <3>4
    <3> QED BY <3>2, <3>5
  <2> QED BY <2>1, <2>2
<1>29. \A d \in done \cup {next}, l \in is.left : ByPrice(d, l)
  BY <1>2, <1>4, <1>8
<1>30. is.left \subseteq U
  BY <1>1, <1>4
<1>31. U \ is.left = done \cup {next}
  BY <1>6 DEF done
<1>32. HasTaken(is, U, at, target)
  <2>1. Known(U \ is.left, at) = KD \cup K
    BY <1>13, <1>31
  <2>2. HoursOf(is.taken) = X \cup P
    BY <1>18
  <2> DEFINE D == U \ is.left
             H == HoursOf(is.taken)
  <2>3. Cardinality(H) = Lower(target, Cardinality(Known(D, at)))
    BY <1>24, <2>1, <2>2
  <2>4. \A t \in H, u \in Known(D, at) \ H : CurrentPrice(U, t) <= CurrentPrice(U, u)
    BY <1>27, <2>1, <2>2
  <2>5. \A d \in D, l \in is.left : ByPrice(d, l)
    BY <1>29, <1>31
  <2>6. \A p \in is.taken :
             /\ p.start \in Nat /\ p.end \in Nat /\ at <= p.start /\ p.start < p.end
             /\ p.end <= CycleEnd
             /\ \E d \in D : p.price = d.price /\ d.start <= p.start /\ p.end <= d.end
    BY <1>28, <1>31
  <2> QED BY <1>30, <2>3, <2>4, <2>5, <2>6 DEF HasTaken
<1> QED BY <1>5, <1>32 DEF is

\* After all of them: the cheapest hours there are.
LEMMA AllTurns ==
    ASSUME NEW U \in SUBSET Slots, IsFiniteSet(U), ApartAll(U), NEW at \in Nat,
           NEW target \in Nat
    PROVE  HasTaken([left |-> {}, taken |-> CheapestSlots(U, at, target)], U, at, target)
<1> DEFINE N == Cardinality(U)
<1>1. PICK f : /\ f[0] = [left |-> U, taken |-> {}]
               /\ \A n \in 1..N : f[n] = TakesNext(f[n - 1], at, target)
               /\ CheapestSlots(U, at, target) = f[N].taken
  BY CheapestIsATurn
<1>2. N \in Nat
  BY FS_CardinalityType
<1> DEFINE Right(n) == HasTaken(f[n], U, at, target) /\ Cardinality(f[n].left) = N - n
           Bad == {n \in 0..N : ~Right(n)}
<1>3. Right(0)
  <2>1. f[0].left = U /\ f[0].taken = {}
    BY <1>1
  <2>2. HoursOf({}) = {} /\ Known({}, at) = {} /\ Cardinality({}) = 0 /\ U \ U = {}
    BY FS_EmptySet DEF HoursOf, Known
  <2>3. Lower(target, 0) = 0
    BY DEF Lower
  <2> DEFINE was == f[0]
  <2>4. was.left = U /\ was.taken = {}
    BY <2>1
  <2> HIDE DEF was
  <2>5. HasTaken(was, U, at, target)
    BY <2>2, <2>3, <2>4 DEF HasTaken
  <2> QED BY <1>2, <2>1, <2>5 DEF was
<1>4. ASSUME NEW n \in 1..N, Right(n - 1) PROVE Right(n)
  <2>1. f[n - 1].left # {}
    <3> DEFINE c == Cardinality(f[n - 1].left)
    <3>1. c = N - (n - 1)
      BY <1>4
    <3> HIDE DEF c, N
    <3>2. c # 0
      BY <1>2, <3>1
    <3> QED BY <3>2, FS_EmptySet DEF c
  <2>2. f[n] = TakesNext(f[n - 1], at, target)
    BY <1>1
  <2> DEFINE was == f[n - 1]
  <2>3. HasTaken(was, U, at, target) /\ was.left # {} /\ Cardinality(was.left) = N - (n - 1)
    BY <1>4, <2>1
  <2> HIDE DEF was, N
  <2>4. LET is == TakesNext(was, at, target)
        IN HasTaken(is, U, at, target) /\ Cardinality(is.left) = Cardinality(was.left) - 1
    BY <2>3, TurnTakes
  <2>5. HasTaken(f[n], U, at, target) /\ Cardinality(f[n].left) = Cardinality(was.left) - 1
    BY <2>2, <2>4 DEF was
  <2> QED BY <1>2, <2>3, <2>5
<1> HIDE DEF Right
<1>5. Bad = {}
  <2> SUFFICES ASSUME Bad # {} PROVE FALSE
    OBVIOUS
  <2>1. Bad \in SUBSET Nat
    OBVIOUS
  <2>2. PICK n \in Bad : \A k \in Bad : n <= k
    BY <2>1, LeastNatural
  <2>3. CASE n = 0
    BY <1>3, <2>3
  <2>4. CASE n # 0
    <3> HIDE DEF N
    <3>1. n \in 0..N
      BY <2>2
    <3>2. n \in 1..N /\ n - 1 \in 0..N /\ n - 1 \in Nat /\ ~(n <= n - 1)
      BY <1>2, <2>4, <3>1
    <3>3. n - 1 \notin Bad
      BY <2>2, <3>2
    <3> QED BY <1>4, <3>2, <3>3
  <2> QED BY <2>3, <2>4
<1>6. Right(N)
  BY <1>2, <1>5
<1>7. f[N].left = {}
  <2>1. HasTaken(f[N], U, at, target) /\ Cardinality(f[N].left) = 0
    BY <1>2, <1>6 DEF Right
  <2>2. f[N].left \subseteq U
    BY <2>1 DEF HasTaken
  <2>3. IsFiniteSet(f[N].left)
    BY <2>2, FS_Subset
  <2> QED BY <2>1, <2>3, FS_EmptySet
<1> DEFINE end == [left |-> {}, taken |-> CheapestSlots(U, at, target)]
<1>8. end.left = f[N].left /\ end.taken = f[N].taken
  BY <1>1, <1>7
<1>9. HasTaken(f[N], U, at, target)
  BY <1>6 DEF Right
<1> HIDE DEF end, N
<1>10. HasTaken(end, U, at, target)
  BY <1>8, <1>9 DEF HasTaken
<1> QED BY <1>10 DEF end

\* What is chosen is right.
LEMMA ChosenIs ==
    ASSUME NEW U \in SUBSET Slots, IsFiniteSet(U), ApartAll(U), NEW at \in Nat,
           NEW target \in Nat
    PROVE  LET C == CheapestSlots(U, at, target)
           IN /\ \A p \in C : /\ p.start \in Nat /\ p.end \in Nat /\ at <= p.start
                              /\ p.start < p.end /\ p.end <= CycleEnd
              /\ HoursOf(C) \subseteq Known(U, at)
              /\ Cardinality(HoursOf(C)) = Lower(target, Cardinality(Known(U, at)))
              /\ \A t \in HoursOf(C), u \in Known(U, at) \ HoursOf(C) :
                    CurrentPrice(U, t) <= CurrentPrice(U, u)
              /\ \A p \in C : \A t \in p.start..(p.end - 1) : p.price = CurrentPrice(U, t)
<1> DEFINE C == CheapestSlots(U, at, target)
           end == [left |-> {}, taken |-> C]
<1>1. HasTaken(end, U, at, target) /\ end.left = {} /\ end.taken = C
  BY AllTurns
<1> HIDE DEF end, C
<1>2. U \ end.left = U
  BY <1>1
<1>3. HoursOf(C) \subseteq Known(U, at)
  BY <1>1, <1>2, TakenIsKnown
<1>4. /\ \A p \in C :
            /\ p.start \in Nat /\ p.end \in Nat /\ at <= p.start /\ p.start < p.end
            /\ p.end <= CycleEnd
            /\ \E d \in U : p.price = d.price /\ d.start <= p.start /\ p.end <= d.end
      /\ Cardinality(HoursOf(C)) = Lower(target, Cardinality(Known(U, at)))
      /\ \A t \in HoursOf(C), u \in Known(U, at) \ HoursOf(C) :
            CurrentPrice(U, t) <= CurrentPrice(U, u)
  BY <1>1, <1>2 DEF HasTaken
<1>5. ASSUME NEW p \in C, NEW t \in p.start..(p.end - 1)
      PROVE  p.price = CurrentPrice(U, t)
  <2>1. p.start \in Nat /\ p.end \in Nat
    BY <1>4
  <2>2. PICK d \in U : p.price = d.price /\ d.start <= p.start /\ p.end <= d.end
    BY <1>4
  <2>3. d.start \in Nat /\ d.end \in Nat
    BY SlotFacts
  <2>4. t \in Int /\ Covers(d, t)
    BY <2>1, <2>2, <2>3 DEF Covers
  <2> QED BY <2>2, <2>4, PriceIs
<1> QED BY <1>3, <1>4, <1>5 DEF C

-----------------------------------------------------------------------------
(* The record of the cycle                                                  *)

\* Intervals that are not empty, in order and apart.
InOrder(q) ==
    /\ q \in Seq(Intervals)
    /\ \A i \in 1..Len(q) : q[i].start < q[i].end
    /\ \A i \in 1..(Len(q) - 1) : q[i].end < q[i + 1].start

HasMerged(was, B) ==
    /\ was.left \subseteq B
    /\ InOrder(was.merged)
    /\ HoursOf(ToSet(was.merged)) = HoursOf(B \ was.left)
    /\ \A i \in 1..Len(was.merged), l \in was.left : was.merged[i].start <= l.start

LEMMA IntervalFacts ==
    ASSUME NEW i \in Intervals
    PROVE  i.start \in Nat /\ i.end \in Nat /\ i.end <= CycleEnd
BY SlotsAssumption DEF Intervals

\* An interval that begins no earlier is joined to the last or added.
LEMMA JoinsIs ==
    ASSUME NEW q, InOrder(q), NEW i \in Intervals, i.start < i.end,
           \A k \in 1..Len(q) : q[k].start <= i.start
    PROVE  /\ InOrder(Joins(q, i))
           /\ HoursOf(ToSet(Joins(q, i))) = HoursOf(ToSet(q)) \cup HoursOf({i})
           /\ \A k \in 1..Len(Joins(q, i)) : Joins(q, i)[k].start <= i.start
<1>1. q \in Seq(Intervals) /\ Len(q) \in Nat
  BY DEF InOrder
<1>2. \A k \in 1..Len(q) : q[k] \in Intervals
  BY <1>1
<1>3. i.start \in Nat /\ i.end \in Nat
  BY IntervalFacts
<1>4. q # <<>> <=> Len(q) # 0
  BY <1>1
<1> DEFINE n == Len(q)
           r == Joins(q, i)
<1>5. CASE q # <<>> /\ i.start <= Last(q).end
  <2> DEFINE e == Upper(q[n].end, i.end)
             was == q[n]
             is == [q[n] EXCEPT !.end = e]
  <2>1. n \in 1..n /\ was \in Intervals /\ Last(q) = was
    BY <1>1, <1>2, <1>4, <1>5 DEF Last
  <2>2. /\ was.start \in Nat /\ was.end \in Nat /\ was.start < was.end
        /\ was.start <= i.start /\ i.start <= was.end
    BY <1>5, <2>1, IntervalFacts DEF InOrder
  <2>3. r = [q EXCEPT ![n] = is]
    BY <1>5 DEF Joins
  <2>4. is \in Intervals /\ is.start = was.start /\ is.end = e
    <3>1. e \in {was.end, i.end}
      BY DEF Upper
    <3>2. e \in 0..CycleEnd
      BY <2>1, <3>1 DEF Intervals
    <3> HIDE DEF e
    <3> QED BY <2>1, <3>2 DEF Intervals
  <2>5. e \in Nat /\ was.end <= e /\ i.end <= e /\ (e = was.end \/ e = i.end)
    BY <1>3, <2>2 DEF Upper
  <2> HIDE DEF is, e, r
  <2>6. r \in Seq(Intervals) /\ Len(r) = n
    <3> DEFINE m == Len(q)
    <3>1. m \in 1..Len(q) /\ r = [q EXCEPT ![m] = is] /\ q \in Seq(Intervals) /\ is \in Intervals
      BY <1>1, <2>1, <2>3, <2>4
    <3> HIDE DEF m
    <3>2. r \in Seq(Intervals) /\ Len(r) = Len(q)
      BY <3>1
    <3> QED BY <3>2
  <2>7. r[n] = is /\ \A k \in 1..n : k # n => r[k] = q[k]
    BY <1>1, <2>1, <2>3
  <2>8. \A k \in 1..n : r[k].start = q[k].start /\ (k # n => r[k].end = q[k].end)
    BY <2>4, <2>7
  <2>9. ASSUME NEW k \in 1..n PROVE r[k].start < r[k].end
    <3>1. CASE k = n
      BY <2>2, <2>4, <2>5, <2>7, <3>1
    <3>2. CASE k # n
      BY <2>7, <3>2 DEF InOrder
    <3> QED BY <3>1, <3>2
  <2>10. ASSUME NEW k \in 1..(n - 1) PROVE r[k].end < r[k + 1].start
    <3>1. k \in 1..n /\ k + 1 \in 1..n /\ k # n
      BY <1>1
    <3>2. r[k].end = q[k].end /\ r[k + 1].start = q[k + 1].start
      BY <2>8, <3>1
    <3>3. q[k].end < q[k + 1].start
      BY DEF InOrder
    <3> QED BY <3>2, <3>3
  <2>11. InOrder(r)
    BY <2>6, <2>9, <2>10 DEF InOrder
  <2>12. \A k \in 1..Len(r) : r[k].start <= i.start
    BY <2>6, <2>8
  <2>13. HoursOf(ToSet(r)) = HoursOf(ToSet(q)) \cup HoursOf({i})
    <3>1. \A t : t \in HoursOf(ToSet(r)) <=> \E k \in 1..n : t \in r[k].start..(r[k].end - 1)
      BY <2>6 DEF HoursOf, ToSet
    <3>2. \A t : t \in HoursOf(ToSet(q)) <=> \E k \in 1..n : t \in q[k].start..(q[k].end - 1)
      BY <1>1 DEF HoursOf, ToSet
    <3>3. \A t : t \in HoursOf({i}) <=> t \in i.start..(i.end - 1)
      BY DEF HoursOf
    <3>4. \A t : t \in was.start..(e - 1)
                   <=> t \in was.start..(was.end - 1) \/ t \in i.start..(i.end - 1)
      BY <1>3, <2>2, <2>5
    <3>5. r[n].start = was.start /\ r[n].end = e /\ q[n] = was
      BY <2>4, <2>7
    <3>6. ASSUME NEW t PROVE t \in HoursOf(ToSet(r))
                               <=> t \in HoursOf(ToSet(q)) \/ t \in HoursOf({i})
      <4> DEFINE A(k) == t \in r[k].start..(r[k].end - 1)
                 B(k) == t \in q[k].start..(q[k].end - 1)
      <4>1. \A k \in 1..n : k # n => (A(k) <=> B(k))
        BY <2>7
      <4>2. A(n) <=> B(n) \/ t \in HoursOf({i})
        BY <3>3, <3>4, <3>5
      <4>3. (t \in HoursOf(ToSet(r)) <=> \E k \in 1..n : A(k))
            /\ (t \in HoursOf(ToSet(q)) <=> \E k \in 1..n : B(k))
        BY <3>1, <3>2
      <4> HIDE DEF A, B
      <4> QED BY <2>1, <4>1, <4>2, <4>3
    <3> QED BY <3>6
  <2> QED BY <2>11, <2>12, <2>13 DEF r
<1>6. CASE ~(q # <<>> /\ i.start <= Last(q).end)
  <2>1. r = Append(q, i)
    BY <1>6 DEF Joins
  <2> HIDE DEF r
  <2>2. /\ r \in Seq(Intervals) /\ Len(r) = n + 1 /\ r[n + 1] = i
        /\ \A k \in 1..n : r[k] = q[k]
    BY <1>1, <2>1
  <2>3. ASSUME NEW k \in 1..(n + 1) PROVE r[k].start < r[k].end
    <3>1. k \in 1..n \/ k = n + 1
      BY <1>1
    <3> QED BY <2>2, <3>1 DEF InOrder
  <2>4. ASSUME NEW k \in 1..n PROVE r[k].end < r[k + 1].start
    <3>1. CASE k = n
      <4>1. q # <<>> /\ n \in 1..n
        BY <1>1, <1>4, <3>1
      <4>2. ~(i.start <= q[n].end)
        BY <1>6, <4>1 DEF Last
      <4>3. q[n].end \in Nat
        BY <1>2, <4>1, IntervalFacts
      <4> QED BY <1>3, <2>2, <3>1, <4>1, <4>2, <4>3
    <3>2. CASE k # n
      <4>1. k \in 1..(n - 1) /\ k + 1 \in 1..n
        BY <1>1, <3>2
      <4>2. q[k].end < q[k + 1].start
        BY <4>1 DEF InOrder
      <4> QED BY <2>2, <4>1, <4>2
    <3> QED BY <3>1, <3>2
  <2>5. InOrder(r)
    <3>1. Len(r) - 1 = n
      BY <1>1, <2>2
    <3> QED BY <2>2, <2>3, <2>4, <3>1 DEF InOrder
  <2>6. ASSUME NEW k \in 1..Len(r) PROVE r[k].start <= i.start
    <3>1. k \in 1..n \/ k = n + 1
      BY <1>1, <2>2
    <3>2. i.start <= i.start
      BY <1>3
    <3> QED BY <2>2, <3>1, <3>2
  <2>7. HoursOf(ToSet(r)) = HoursOf(ToSet(q)) \cup HoursOf({i})
    <3>1. ToSet(q) = {q[k] : k \in 1..n} /\ ToSet(r) = {r[k] : k \in 1..(n + 1)}
      BY <1>1, <2>2 DEF ToSet
    <3>2. ToSet(r) = ToSet(q) \cup {i}
      <4>1. \A k : k \in 1..(n + 1) <=> k \in 1..n \/ k = n + 1
        BY <1>1
      <4> QED BY <2>2, <3>1, <4>1
    <3> QED BY <3>2 DEF HoursOf
  <2> QED BY <2>5, <2>6, <2>7 DEF r
<1> QED BY <1>5, <1>6

LEMMA TurnMerges ==
    ASSUME NEW B \in SUBSET {i \in Intervals : i.start < i.end}, IsFiniteSet(B),
           NEW was, HasMerged(was, B), was.left # {}
    PROVE  LET is == MergesNext(was)
           IN HasMerged(is, B) /\ Cardinality(is.left) = Cardinality(was.left) - 1
<1> DEFINE L == was.left
           q == was.merged
           next == CHOOSE i \in L : \A j \in L : i.start <= j.start
           is == MergesNext(was)
<1>1. L \subseteq B /\ IsFiniteSet(L)
  BY FS_Subset DEF HasMerged
<1>2. next \in L /\ \A j \in L : next.start <= j.start
  <2> DEFINE f == [i \in L |-> i.start]
  <2>1. \A i \in L : f[i] \in Int
    BY <1>1, IntervalFacts
  <2>2. \E i \in L : \A j \in L : f[i] <= f[j]
    <3> HIDE DEF f, L
    <3> QED BY <1>1, <2>1, FiniteLeast DEF L
  <2>3. \E i \in L : \A j \in L : i.start <= j.start
    BY <2>2
  <2> QED BY <2>3
<1>3. is = [left |-> L \ {next}, merged |-> Joins(q, next)]
  BY DEF MergesNext
<1>4. is.left = L \ {next} /\ is.merged = Joins(q, next)
  BY <1>3
<1> HIDE DEF is, next
<1>5. Cardinality(is.left) = Cardinality(L) - 1
  <2>1. Cardinality(L \ {next}) = Cardinality(L) - 1
    <3> HIDE DEF L
    <3> QED BY <1>1, <1>2, FS_RemoveElement
  <2> QED BY <1>4, <2>1
<1>6. next \in Intervals /\ next.start < next.end
  BY <1>1, <1>2
<1>7. /\ InOrder(q) /\ HoursOf(ToSet(q)) = HoursOf(B \ L)
      /\ \A i \in 1..Len(q), l \in L : q[i].start <= l.start
  BY DEF HasMerged
<1>8. \A k \in 1..Len(q) : q[k].start <= next.start
  BY <1>2, <1>7
<1> DEFINE r == Joins(q, next)
<1>9. /\ InOrder(r) /\ HoursOf(ToSet(r)) = HoursOf(ToSet(q)) \cup HoursOf({next})
      /\ \A k \in 1..Len(r) : r[k].start <= next.start
  <2> HIDE DEF q, L
  <2> QED BY <1>6, <1>7, <1>8, JoinsIs
<1>10. HoursOf(B \ is.left) = HoursOf(B \ L) \cup HoursOf({next})
  <2>1. B \ is.left = (B \ L) \cup {next}
    BY <1>1, <1>2, <1>4
  <2> QED BY <2>1 DEF HoursOf
<1>11. ASSUME NEW k \in 1..Len(r), NEW l \in is.left PROVE r[k].start <= l.start
  <2>1. r[k].start <= next.start /\ next.start <= l.start
    BY <1>2, <1>4, <1>9
  <2>2. r[k] \in Intervals /\ l \in Intervals
    BY <1>1, <1>4, <1>9 DEF InOrder
  <2>3. r[k].start \in Nat /\ l.start \in Nat /\ next.start \in Nat
    BY <1>6, <2>2, IntervalFacts
  <2> QED BY <2>1, <2>3
<1>12. HasMerged(is, B)
  <2>1. is.merged = r /\ is.left \subseteq B
    BY <1>1, <1>4
  <2> HIDE DEF r
  <2> QED BY <1>7, <1>9, <1>10, <1>11, <2>1 DEF HasMerged
<1> QED BY <1>5, <1>12 DEF is

\* All of them: the record is in order and has just their hours.
LEMMA MergedIs ==
    ASSUME NEW S, IsFiniteSet(InCycle(S)),
           InCycle(S) \subseteq {i \in Intervals : i.start < i.end}
    PROVE  InOrder(Merged(S)) /\ HoursOf(ToSet(Merged(S))) = HoursOf(InCycle(S))
<1> DEFINE B == InCycle(S)
           N == Cardinality(B)
<1>1. PICK f : /\ f[0] = [left |-> B, merged |-> <<>>]
               /\ \A n \in 1..N : f[n] = MergesNext(f[n - 1])
               /\ Merged(S) = f[N].merged
  BY MergedIsATurn
<1> HIDE DEF B
<1>2. N \in Nat /\ IsFiniteSet(B) /\ B \in SUBSET {i \in Intervals : i.start < i.end}
  BY FS_CardinalityType DEF B
<1> DEFINE Right(n) == HasMerged(f[n], B) /\ Cardinality(f[n].left) = N - n
           Bad == {n \in 0..N : ~Right(n)}
<1>3. Right(0)
  <2> DEFINE was == f[0]
  <2>1. was.left = B /\ was.merged = <<>>
    BY <1>1
  <2> HIDE DEF was
  <2>2. InOrder(<<>>)
    BY DEF InOrder
  <2>3. HoursOf(ToSet(<<>>)) = HoursOf(B \ B)
    <3>1. ToSet(<<>>) = {} /\ B \ B = {}
      BY DEF ToSet
    <3> QED BY <3>1
  <2>4. HasMerged(was, B)
    BY <2>1, <2>2, <2>3 DEF HasMerged
  <2> QED BY <1>2, <2>1, <2>4 DEF was
<1>4. ASSUME NEW n \in 1..N, Right(n - 1) PROVE Right(n)
  <2> DEFINE was == f[n - 1]
             c == Cardinality(was.left)
  <2>1. HasMerged(was, B) /\ c = N - (n - 1)
    BY <1>4
  <2>2. f[n] = MergesNext(was)
    BY <1>1
  <2> HIDE DEF was, N
  <2>3. was.left # {}
    <3> HIDE DEF c
    <3>1. c # 0
      BY <1>2, <2>1
    <3> QED BY <3>1, FS_EmptySet DEF c
  <2>4. LET is == MergesNext(was)
        IN HasMerged(is, B) /\ Cardinality(is.left) = Cardinality(was.left) - 1
    BY <1>2, <2>1, <2>3, TurnMerges
  <2>5. HasMerged(f[n], B) /\ Cardinality(f[n].left) = Cardinality(was.left) - 1
    BY <2>2, <2>4
  <2> QED BY <1>2, <2>1, <2>5
<1> HIDE DEF Right
<1>5. Bad = {}
  <2> SUFFICES ASSUME Bad # {} PROVE FALSE
    OBVIOUS
  <2>1. Bad \in SUBSET Nat
    OBVIOUS
  <2>2. PICK n \in Bad : \A k \in Bad : n <= k
    BY <2>1, LeastNatural
  <2>3. CASE n = 0
    BY <1>3, <2>3
  <2>4. CASE n # 0
    <3> HIDE DEF N
    <3>1. n \in 0..N
      BY <2>2
    <3>2. n \in 1..N /\ n - 1 \in 0..N /\ n - 1 \in Nat /\ ~(n <= n - 1)
      BY <1>2, <2>4, <3>1
    <3>3. n - 1 \notin Bad
      BY <2>2, <3>2
    <3> QED BY <1>4, <3>2, <3>3
  <2> QED BY <2>3, <2>4
<1>6. Right(N)
  BY <1>2, <1>5
<1>7. HasMerged(f[N], B) /\ f[N].left = {}
  <2>1. HasMerged(f[N], B) /\ Cardinality(f[N].left) = 0
    BY <1>2, <1>6 DEF Right
  <2>2. f[N].left \subseteq B
    BY <2>1 DEF HasMerged
  <2>3. IsFiniteSet(f[N].left)
    BY <1>2, <2>2, FS_Subset
  <2> QED BY <2>1, <2>3, FS_EmptySet
<1>8. B \ f[N].left = B
  BY <1>7
<1> HIDE DEF N
<1> QED BY <1>1, <1>7, <1>8 DEF HasMerged, B

\* What is cut to the cycle has just the hours that lie in it.
LEMMA InCycleIs ==
    ASSUME NEW S, IsFiniteSet(S), \A j \in S : j.start \in Nat /\ j.end \in Nat
    PROVE  /\ IsFiniteSet(InCycle(S))
           /\ InCycle(S) \subseteq {i \in Intervals : i.start < i.end}
           /\ HoursOf(InCycle(S)) = {t \in HoursOf(S) : t < CycleEnd}
<1> DEFINE f == [j \in S |-> [start |-> Upper(j.start, 0), end |-> Lower(j.end, CycleEnd)]]
           T == {f[j] : j \in S}
<1>1. InCycle(S) = {i \in T : i.start < i.end}
  BY DEF InCycle
<1>2. IsFiniteSet(T)
  <2>1. DOMAIN f = S /\ f = [x \in S |-> f[x]]
    OBVIOUS
  <2> HIDE DEF f
  <2> QED BY <2>1, ImageIsFinite
<1>3. CycleEnd \in Nat
  BY SlotsAssumption
<1>4. ASSUME NEW j \in S
      PROVE  /\ f[j].start = j.start /\ f[j].end = Lower(j.end, CycleEnd)
             /\ j.start \in Nat /\ j.end \in Nat
             /\ f[j] = [start |-> j.start, end |-> Lower(j.end, CycleEnd)]
  BY DEF Upper
<1>5. ASSUME NEW i \in InCycle(S) PROVE i \in Intervals /\ i.start < i.end
  <2>1. PICK j \in S : i = f[j]
    BY <1>1
  <2>2. i.start < i.end
    BY <1>1
  <2> DEFINE s == j.start
             e == Lower(j.end, CycleEnd)
  <2>a. i.start = s /\ i.end = e /\ s \in Nat /\ j.end \in Nat
    BY <1>4, <2>1
  <2>b. s < e
    BY <2>2, <2>a
  <2>3. s \in Nat /\ e \in Nat /\ e <= CycleEnd /\ s < e
    BY <1>3, <2>a, <2>b DEF Lower
  <2>4. i = [start |-> s, end |-> e]
    BY <1>4, <2>1
  <2> HIDE DEF s, e
  <2>5. s \in 0..CycleEnd /\ e \in 0..CycleEnd
    BY <1>3, <2>3
  <2> QED BY <2>2, <2>4, <2>5 DEF Intervals
<1>6. ASSUME NEW t PROVE t \in HoursOf(InCycle(S)) <=> t \in HoursOf(S) /\ t < CycleEnd
  <2>1. \A i \in InCycle(S) : i.start \in Int /\ i.end \in Int
    BY <1>5, IntervalFacts
  <2>2. t \in HoursOf(InCycle(S)) <=> t \in Int /\ \E i \in InCycle(S) : Covers(i, t)
    BY <2>1, HoursAre
  <2>3. t \in HoursOf(S) <=> t \in Int /\ \E j \in S : Covers(j, t)
    BY HoursAre
  <2>4. ASSUME t \in Int, NEW j \in S
        PROVE  (f[j].start < f[j].end /\ Covers(f[j], t)) <=> Covers(j, t) /\ t < CycleEnd
    <3> DEFINE s == j.start
               e == j.end
               g == Lower(j.end, CycleEnd)
    <3>1. s \in Nat /\ e \in Nat /\ f[j].start = s /\ f[j].end = g
      BY <1>4
    <3>2. (s < g /\ s <= t /\ t < g) <=> (s <= t /\ t < e /\ t < CycleEnd)
      BY <1>3, <2>4, <3>1 DEF Lower
    <3> QED BY <3>1, <3>2 DEF Covers
  <2>5. ASSUME t \in Int
        PROVE  (\E i \in InCycle(S) : Covers(i, t)) <=> (\E j \in S : Covers(j, t)) /\ t < CycleEnd
    <3>1. (\E i \in InCycle(S) : Covers(i, t))
             <=> \E j \in S : f[j].start < f[j].end /\ Covers(f[j], t)
      BY <1>1
    <3> HIDE DEF f
    <3> QED BY <2>4, <2>5, <3>1
  <2> QED BY <2>2, <2>3, <2>5
<1> HIDE DEF f, T
<1>7. IsFiniteSet(InCycle(S))
  BY <1>1, <1>2, FS_Subset
<1> QED BY <1>5, <1>6, <1>7

-----------------------------------------------------------------------------
(* The planner                                                              *)

SlotInv ==
    /\ forecast \subseteq Entries /\ IsFiniteSet(forecast)
    /\ moment \in Nat /\ wanted \in Nat /\ InOrder(intervals)
    /\ CheapestAreChosen

\* The loop takes finitely many.
LEMMA CheapestIsFinite ==
    ASSUME NEW S, IsFiniteSet(S), NEW at, NEW target
    PROVE  IsFiniteSet(CheapestSlots(S, at, target))
<1> DEFINE N == Cardinality(S)
<1>1. PICK f : /\ f[0] = [left |-> S, taken |-> {}]
               /\ \A n \in 1..N : f[n] = TakesNext(f[n - 1], at, target)
               /\ CheapestSlots(S, at, target) = f[N].taken
  BY CheapestIsATurn
<1>2. N \in Nat
  BY FS_CardinalityType
<1> HIDE DEF N
<1> DEFINE Right(n) == IsFiniteSet(f[n].taken)
           Bad == {n \in 0..N : ~Right(n)}
<1>3. Right(0)
  BY <1>1, FS_EmptySet
<1>4. ASSUME NEW n \in 1..N, Right(n - 1) PROVE Right(n)
  <2> DEFINE was == f[n - 1]
             next == CHOOSE s \in was.left : \A u \in was.left : s = u \/ ByPrice(s, u)
             part == Part(next, at, target - Cardinality(HoursOf(was.taken)))
             P == IF part.start < part.end THEN {part} ELSE {}
  <2>1. f[n].taken = was.taken \cup P
    <3>1. f[n] = TakesNext(was, at, target)
      BY <1>1
    <3>2. TakesNext(was, at, target) = [left |-> was.left \ {next}, taken |-> was.taken \cup P]
      BY DEF TakesNext
    <3> HIDE DEF was, next, P
    <3> QED BY <3>1, <3>2
  <2>2. IsFiniteSet(was.taken)
    BY <1>4
  <2> HIDE DEF was, part
  <2>3. IsFiniteSet(was.taken \cup {part})
    BY <2>2, FS_AddElement
  <2>4. was.taken \cup {} = was.taken
    OBVIOUS
  <2> QED BY <2>1, <2>2, <2>3, <2>4 DEF Right
<1> HIDE DEF Right
<1>5. Bad = {}
  <2> SUFFICES ASSUME Bad # {} PROVE FALSE
    OBVIOUS
  <2>1. Bad \in SUBSET Nat
    OBVIOUS
  <2>2. PICK n \in Bad : \A k \in Bad : n <= k
    BY <2>1, LeastNatural
  <2>3. CASE n = 0
    BY <1>3, <2>3
  <2>4. CASE n # 0
    <3>1. n \in 0..N
      BY <2>2
    <3>2. n \in 1..N /\ n - 1 \in 0..N /\ n - 1 \in Nat /\ ~(n <= n - 1)
      BY <1>2, <2>4, <3>1
    <3>3. n - 1 \notin Bad
      BY <2>2, <3>2
    <3> QED BY <1>4, <3>2, <3>3
  <2> QED BY <2>3, <2>4
<1>6. Right(N)
  BY <1>2, <1>5
<1> QED BY <1>1, <1>6 DEF Right

LEMMA PricesAreSlots ==
    ASSUME forecast \subseteq Entries, IsFiniteSet(forecast)
    PROVE  LET U == Unambiguous(Finalized(forecast))
           IN U \subseteq Slots /\ IsFiniteSet(U) /\ ApartAll(U)
<1> DEFINE S == Finalized(forecast)
<1>1. S \in SUBSET Slots /\ IsFiniteSet(S)
  BY FinalizedIs, FinalizedIsFinite
<1> HIDE DEF S
<1>2. LET U == Unambiguous(S) IN U \subseteq Slots /\ IsFiniteSet(U) /\ ApartAll(U)
  BY <1>1, CutIs
<1> QED BY <1>2 DEF S

LEMMA SlotsBegin == ASSUME SlotsInit PROVE SlotInv
<1>1. forecast \subseteq Entries /\ IsFiniteSet(forecast)
  <2>1. CASE forecast = {}
    BY <2>1, FS_EmptySet
  <2>2. CASE forecast # {}
    <3>1. PICK f \in [1..MaxEntries -> Entries] : forecast = ToSet(f)
      BY <2>2 DEF SlotsInit
    <3>2. forecast = {f[x] : x \in 1..MaxEntries} /\ DOMAIN f = 1..MaxEntries
          /\ f = [x \in 1..MaxEntries |-> f[x]]
      BY <3>1 DEF ToSet
    <3>3. IsFiniteSet(1..MaxEntries)
      BY SlotsAssumption, FS_Interval
    <3> DEFINE D == 1..MaxEntries
               g == f
               T == {g[x] : x \in D}
    <3>4. IsFiniteSet(D) /\ DOMAIN g = D /\ g = [x \in D |-> g[x]] /\ forecast = T
      BY <3>2, <3>3
    <3>5. \A x \in D : g[x] \in Entries
      OBVIOUS
    <3> HIDE DEF D, g
    <3>6. IsFiniteSet(T)
      BY <3>4, ImageIsFinite
    <3>7. forecast \subseteq Entries
      BY <3>4, <3>5
    <3> QED BY <3>4, <3>6, <3>7
  <2> QED BY <2>1, <2>2
<1>2. moment = 0 /\ wanted = 0 /\ chosen = {} /\ intervals = <<>>
  BY DEF SlotsInit
<1>3. InOrder(<<>>)
  BY DEF InOrder
<1>4. CheapestAreChosen
  <2> DEFINE U == Unambiguous(Finalized(forecast))
             known == {t \in HoursOf(U) : moment <= t /\ t < CycleEnd}
  <2>1. HoursOf(chosen) = {} /\ Cardinality({}) = 0
    BY <1>2, FS_EmptySet DEF HoursOf
  <2>2. U \subseteq Slots
    BY <1>1, PricesAreSlots
  <2> HIDE DEF U
  <2>3. Cardinality(known) \in Nat
    <3>1. known = Known(U, 0)
      BY <1>2 DEF Known
    <3> QED BY <2>2, <3>1, KnownIsFinite
  <2> HIDE DEF known
  <2>4. Cardinality({}) = Lower(wanted, Cardinality(known))
    BY <1>2, <2>1, <2>3 DEF Lower
  <2> QED BY <1>2, <2>1, <2>4 DEF CheapestAreChosen, known, U
<1> QED BY <1>1, <1>2, <1>3, <1>4 DEF SlotInv

LEMMA PlanningIs ==
    ASSUME SlotInv, PlansSlots
    PROVE  /\ SlotInv'
           /\ HoursOf(ToSet(intervals'))
                = {t \in HoursOf(ToSet(intervals)) : t < moment'} \cup HoursOf(chosen')
           /\ \A t \in HoursOf(chosen') : t \in Nat /\ moment' <= t
<1> DEFINE U == Unambiguous(Finalized(forecast))
           at == moment'
           C == chosen'
           I == ToSet(intervals)
           S == ElapsedOf(I, at) \cup {IntervalOf(s) : s \in C}
<1>1. /\ forecast \subseteq Entries /\ IsFiniteSet(forecast) /\ moment \in Nat
      /\ InOrder(intervals)
  BY DEF SlotInv
<1>2. at \in Nat /\ wanted' \in Nat /\ forecast' = forecast
  <2>1. at \in moment..LastMoment /\ wanted' \in 0..MaxWanted /\ forecast' = forecast
    BY DEF PlansSlots
  <2>2. LastMoment \in Nat /\ MaxWanted \in Nat
    BY SlotsAssumption
  <2> QED BY <1>1, <2>1, <2>2
<1>3. U \in SUBSET Slots /\ IsFiniteSet(U) /\ ApartAll(U)
  BY <1>1, PricesAreSlots
<1>4. C = CheapestSlots(U, at, wanted')
  BY DEF PlansSlots
<1>5. intervals' = Merged(S)
  BY DEF PlansSlots
<1>6. Unambiguous(Finalized(forecast))' = U
  BY <1>2
<1> HIDE DEF U
<1>7. /\ \A p \in C : /\ p.start \in Nat /\ p.end \in Nat /\ at <= p.start
                      /\ p.start < p.end /\ p.end <= CycleEnd
      /\ HoursOf(C) \subseteq Known(U, at)
      /\ Cardinality(HoursOf(C)) = Lower(wanted', Cardinality(Known(U, at)))
      /\ \A t \in HoursOf(C), u \in Known(U, at) \ HoursOf(C) :
            CurrentPrice(U, t) <= CurrentPrice(U, u)
      /\ \A p \in C : \A t \in p.start..(p.end - 1) : p.price = CurrentPrice(U, t)
  BY <1>2, <1>3, <1>4, ChosenIs
<1>8. CheapestAreChosen'
  <2>1. Known(U, at) = {t \in HoursOf(U) : moment' <= t /\ t < CycleEnd}
    BY DEF Known
  <2> QED BY <1>2, <1>6, <1>7, <2>1 DEF CheapestAreChosen
\* The record.
<1>9. /\ IsFiniteSet(C)
      /\ \A i \in I : i.start \in Nat /\ i.end \in Nat /\ i.end <= CycleEnd
      /\ IsFiniteSet(I)
  <2>1. IsFiniteSet(C)
    BY <1>2, <1>3, <1>4, CheapestIsFinite
  <2>2. /\ intervals \in Seq(Intervals) /\ Len(intervals) \in Nat
        /\ DOMAIN intervals = 1..Len(intervals)
    BY <1>1 DEF InOrder
  <2>3. I = {intervals[k] : k \in 1..Len(intervals)}
    BY <2>2 DEF ToSet
  <2>4. \A i \in I : i \in Intervals
    BY <2>2, <2>3
  <2>5. IsFiniteSet(I)
    <3> DEFINE D == 1..Len(intervals)
               f == intervals
    <3>1. IsFiniteSet(D) /\ DOMAIN f = D /\ f = [x \in D |-> f[x]] /\ I = {f[x] : x \in D}
      BY <2>2, <2>3, FS_Interval
    <3> HIDE DEF D, f, I
    <3> QED BY <3>1, ImageIsFinite
  <2> QED BY <2>1, <2>4, <2>5, IntervalFacts
<1> DEFINE E == ElapsedOf(I, at)
           P == {IntervalOf(s) : s \in C}
<1>10. /\ IsFiniteSet(E) /\ (\A j \in E : j.start \in Nat /\ j.end \in Nat)
       /\ HoursOf(E) = {t \in HoursOf(I) : t < at}
  <2> DEFINE J == {j \in I : j.start < at}
             f == [i \in J |-> [start |-> i.start, end |-> Lower(i.end, at)]]
  <2>1. E = {f[i] : i \in J}
    BY DEF ElapsedOf
  <2>2. IsFiniteSet(J)
    BY <1>9, FS_Subset
  <2>3. IsFiniteSet(E)
    <3>1. DOMAIN f = J /\ f = [x \in J |-> f[x]]
      OBVIOUS
    <3> HIDE DEF f, J, E
    <3> QED BY <2>1, <2>2, <3>1, ImageIsFinite
  <2>4. \A i \in J : /\ f[i].start = i.start /\ f[i].end = Lower(i.end, at)
                     /\ i.start \in Nat /\ i.end \in Nat /\ i.start < at
    BY <1>9
  <2>5. \A j \in E : j.start \in Nat /\ j.end \in Nat
    BY <1>2, <2>1, <2>4 DEF Lower
  <2> HIDE DEF E
  <2>6. ASSUME NEW t PROVE t \in HoursOf(E) <=> t \in HoursOf(I) /\ t < at
    <3>1. t \in HoursOf(E) <=> t \in Int /\ \E j \in E : Covers(j, t)
      BY <2>5, HoursAre
    <3>2. t \in HoursOf(I) <=> t \in Int /\ \E i \in I : Covers(i, t)
      <4> HIDE DEF I
      <4> QED BY <1>9, HoursAre
    <3>3. (\E j \in E : Covers(j, t)) <=> \E i \in J : Covers(f[i], t)
      BY <2>1
    <3>4. ASSUME t \in Int, NEW i \in I
          PROVE  (i \in J /\ Covers(f[i], t)) <=> Covers(i, t) /\ t < at
      <4>1. CASE i \in J
        <5>1. /\ f[i].start = i.start /\ f[i].end = Lower(i.end, at)
              /\ i.start \in Nat /\ i.end \in Nat
          BY <2>4, <4>1
        <5> DEFINE s == i.start
                   e == i.end
                   g == Lower(i.end, at)
        <5>2. (s <= t /\ t < g) <=> (s <= t /\ t < e /\ t < at)
          BY <1>2, <3>4, <5>1 DEF Lower
        <5> QED BY <4>1, <5>1, <5>2 DEF Covers
      <4>2. CASE i \notin J
        <5>1. ~(i.start < at) /\ i.start \in Nat
          BY <1>9, <4>2
        <5>2. ~(Covers(i, t) /\ t < at)
          BY <1>2, <3>4, <5>1 DEF Covers
        <5> QED BY <4>2, <5>2
      <4> QED BY <4>1, <4>2
    <3>5. \A i \in J : i \in I
      OBVIOUS
    <3> HIDE DEF J, f, I
    <3> QED BY <3>1, <3>2, <3>3, <3>4, <3>5
  <2> QED BY <2>3, <2>5, <2>6 DEF E
<1>11. /\ IsFiniteSet(P) /\ (\A j \in P : j.start \in Nat /\ j.end \in Nat)
       /\ HoursOf(P) = HoursOf(C)
  <2> DEFINE f == [s \in C |-> IntervalOf(s)]
  <2>1. P = {f[s] : s \in C} /\ DOMAIN f = C /\ f = [x \in C |-> f[x]]
    OBVIOUS
  <2>2. IsFiniteSet(P)
    <3> HIDE DEF f, P, C
    <3> QED BY <1>9, <2>1, ImageIsFinite
  <2>3. \A s \in C : IntervalOf(s).start = s.start /\ IntervalOf(s).end = s.end
    BY DEF IntervalOf
  <2>4. \A j \in P : j.start \in Nat /\ j.end \in Nat
    BY <1>7, <2>3
  <2>5. HoursOf(P) = HoursOf(C)
    BY <2>3 DEF HoursOf
  <2> QED BY <2>2, <2>4, <2>5
<1>12. /\ IsFiniteSet(S) /\ (\A j \in S : j.start \in Nat /\ j.end \in Nat)
       /\ HoursOf(S) = {t \in HoursOf(I) : t < at} \cup HoursOf(C)
  <2>1. S = E \cup P
    OBVIOUS
  <2> HIDE DEF S, E, P, I
  <2>2. IsFiniteSet(S)
    BY <1>10, <1>11, <2>1, FS_Union
  <2>3. HoursOf(S) = HoursOf(E) \cup HoursOf(P)
    BY <2>1 DEF HoursOf
  <2> QED BY <1>10, <1>11, <2>1, <2>2, <2>3
<1>13. InOrder(intervals') /\ HoursOf(ToSet(intervals')) = {t \in HoursOf(S) : t < CycleEnd}
  <2> HIDE DEF S
  <2>1. /\ IsFiniteSet(InCycle(S)) /\ InCycle(S) \subseteq {i \in Intervals : i.start < i.end}
        /\ HoursOf(InCycle(S)) = {t \in HoursOf(S) : t < CycleEnd}
    BY <1>12, InCycleIs
  <2> QED BY <1>5, <2>1, MergedIs
<1>14. ASSUME NEW t \in HoursOf(C) PROVE t \in Nat /\ at <= t /\ t < CycleEnd
  <2>1. t \in HoursOf(U) /\ at <= t /\ t < CycleEnd
    BY <1>7 DEF Known
  <2>2. t \in Int
    BY <1>3, <2>1, HoursAre, SlotFacts
  <2> QED BY <1>2, <2>1, <2>2
<1>15. \A t \in HoursOf(I) : t < CycleEnd
  <2> TAKE t \in HoursOf(I)
  <2> HIDE DEF I
  <2>1. PICK i \in I : t \in Int /\ Covers(i, t)
    BY <1>9, HoursAre
  <2>2. i.end \in Nat /\ i.end <= CycleEnd /\ CycleEnd \in Nat
    BY <1>9, SlotsAssumption
  <2> QED BY <2>1, <2>2 DEF Covers
<1>16. HoursOf(ToSet(intervals')) = {t \in HoursOf(I) : t < at} \cup HoursOf(C)
  <2> HIDE DEF I, S, C
  <2> QED BY <1>12, <1>13, <1>14, <1>15
<1>17. SlotInv'
  BY <1>1, <1>2, <1>8, <1>13 DEF SlotInv
<1> QED BY <1>14, <1>16, <1>17

LEMMA SlotsStayWhole ==
    ASSUME SlotInv
    PROVE  NoPriceInvented /\ OnlyConflictsAreCut /\ CheapestAreChosen /\ IntervalsAreApart
<1>1. forecast \in SUBSET Entries /\ IsFiniteSet(forecast)
  BY DEF SlotInv
<1>2. NoPriceInvented /\ OnlyConflictsAreCut
  BY <1>1, NothingInvented, OnlyConflicts
<1> QED BY <1>2 DEF SlotInv, InOrder, IntervalsAreApart

LEMMA UsedStay ==
    ASSUME SlotInv, PlansSlots
    PROVE  LET before == 0..(moment' - 1)
               target == HoursOf(ToSet(intervals'))
           IN /\ target \cap before = HoursOf(ToSet(intervals)) \cap before
              /\ target \ before = HoursOf(chosen')
<1> DEFINE before == 0..(moment' - 1)
           H == HoursOf(ToSet(intervals))
           C == HoursOf(chosen')
           G == HoursOf(ToSet(intervals'))
<1>1. G = {t \in H : t < moment'} \cup C /\ \A t \in C : t \in Nat /\ moment' <= t
  BY PlanningIs
<1>2. moment' \in Nat
  BY PlanningIs DEF SlotInv
<1>3. \A t \in H : t \in Nat
  <2> TAKE t \in H
  <2>1. intervals \in Seq(Intervals)
    BY DEF SlotInv, InOrder
  <2>2. \A i \in ToSet(intervals) : i \in Intervals
    BY <2>1 DEF ToSet
  <2>3. \A i \in ToSet(intervals) : i.start \in Nat /\ i.end \in Nat
    BY <2>2, IntervalFacts
  <2>4. PICK i \in ToSet(intervals) : t \in Int /\ Covers(i, t)
    BY <2>3, HoursAre
  <2> QED BY <2>3, <2>4 DEF Covers
<1> HIDE DEF H, C, G
<1>4. G \cap before = H \cap before
  BY <1>1, <1>2, <1>3
<1>5. G \ before = C
  BY <1>1, <1>2, <1>3
<1> QED BY <1>4, <1>5 DEF H, C, G

\* From a forecast in any order, with gaps, overlaps and contradictions, the
\* cheapest known hours are chosen, no price is made up, no more is cut out than
\* what is contradicted, and the record of used hours is kept, in order
\* (_finalize_slots, unambiguous_price_slots, _cheapest_slots, _merge_intervals).
THEOREM SlotsStayRight == SlotsSpec => SlotsAreRight
<1>1. SlotsInit => SlotInv
  BY SlotsBegin
<1>2. SlotInv /\ [PlansSlots]_slotVars => SlotInv'
  <2> SUFFICES ASSUME SlotInv, [PlansSlots]_slotVars PROVE SlotInv'
    OBVIOUS
  <2>1. CASE PlansSlots
    BY <2>1, PlanningIs
  <2>2. CASE UNCHANGED slotVars
    <3>1. /\ forecast' = forecast /\ moment' = moment /\ wanted' = wanted
          /\ chosen' = chosen /\ intervals' = intervals
      BY <2>2 DEF slotVars
    <3>2. CheapestAreChosen'
      BY <3>1 DEF SlotInv, CheapestAreChosen
    <3> QED BY <3>1, <3>2 DEF SlotInv
  <2> QED BY <2>1, <2>2
<1>3. SlotInv => NoPriceInvented /\ OnlyConflictsAreCut /\ CheapestAreChosen /\ IntervalsAreApart
  BY SlotsStayWhole
<1>4. SlotInv /\ [PlansSlots]_slotVars =>
        [LET before == 0..(moment' - 1)
             target == HoursOf(ToSet(intervals')) IN
         /\ target \cap before = HoursOf(ToSet(intervals)) \cap before
         /\ target \ before = HoursOf(chosen')]_slotVars
  BY UsedStay
<1> QED BY <1>1, <1>2, <1>3, <1>4, PTL DEF SlotsSpec, SlotsAreRight, UsedHoursStay
=============================================================================
