-------------------------- MODULE MaxSocHoldProofs --------------------------
(***************************************************************************)
(* What holds of the maximum-SOC hold for every set of states of charge    *)
(* and targets, every hysteresis and every choice of periods.              *)
(***************************************************************************)
EXTENDS MaxSocHold, TLAPS

USE DEF measured, latches, outcome, vars, Counters, Samples, AllPeriods

----------------------------------------------------------------------------
(* Types                                                                   *)

MeasurementOK ==
    data \in Measurements \cup {None} /\ reading \in Measurements \cup {None, Missing}
LatchesOK ==
    /\ lastSoc \in Socs \cup {None} /\ lastTarget \in Targets \cup {None}
    /\ windowBound \in BOOLEAN /\ slotBound \in BOOLEAN /\ released \in BOOLEAN
    /\ slotTarget \in Targets \cup {None}
OutcomeOK ==
    /\ clamped \in BOOLEAN /\ outageHold \in BOOLEAN
    /\ follows \in {"meter", "hold", "pvHold", "charge", "price", "unsure"}
    /\ capped \in {"no", "yes", "lost"}
CountersOK ==
    /\ seen \subseteq Counters
    /\ cycles \in [Counters -> 0..Cycles] /\ samples \in [Counters -> 0..Cycles]
WorldOK ==
    /\ reads \in {"fine", "failing", "suspended"}
    /\ inside \subseteq Periods /\ target \in Targets
    /\ reached \in Targets \cup {None}

\* TypeOK in the parts that one step touches together.
Parts == MeasurementOK /\ LatchesOK /\ OutcomeOK /\ CountersOK /\ WorldOK

LEMMA TypeParts == (TypeOK <=> Parts) /\ (TypeOK' <=> Parts')
BY DEF TypeOK, Parts, MeasurementOK, LatchesOK, OutcomeOK, CountersOK, WorldOK

\* A sample that is evaluated is a measurement, not the lack of one.
LEMMA EvaluatedTypes ==
    ASSUME Parts, NEW by \in {"poll", "worker"}, Evaluates(by)
    PROVE  /\ Measured(by) \in Measurements
           /\ Measured(by).soc \in Socs
           /\ Measured(by).sample \in Samples
           /\ Measured(by).fresh \subseteq Counters
<1>1. Measured(by) \in Measurements
  BY DEF Evaluates, Measured, Parts, MeasurementOK
<1> QED BY <1>1 DEF Measurements

LEMMA CountTypes ==
    ASSUME CountersOK, NEW c \in Counters, NEW m \in Measurements
    PROVE  /\ Count(c, m.sample) \in 0..Cycles
           /\ CountSamples(c, m) \in 0..Cycles
           /\ Zero \in [Counters -> 0..Cycles]
BY CyclesAssumption DEF CountersOK, Count, CountSamples, Zero

\* What the evaluation publishes is a measurement again.
LEMMA PublishesTypes ==
    ASSUME Parts, NEW by \in {"poll", "worker"}, Evaluates(by),
           NEW C \in SUBSET Counters, Publishes(by, C)
    PROVE  /\ MeasurementOK' /\ reads' = "fine" /\ outageHold' \in BOOLEAN
           /\ data'.sample = Measured(by).sample
<1>1. /\ Measured(by) \in Measurements
      /\ data' = [Measured(by) EXCEPT !.fresh = @ \ C]
      /\ reading' \in {reading, None}
  BY EvaluatedTypes DEF Publishes, Measured
<1>2. data' \in Measurements /\ data'.sample = Measured(by).sample
  BY <1>1 DEF Measurements
<1> QED BY <1>1, <1>2 DEF Publishes, Parts, MeasurementOK, OutcomeOK

LEMMA CountsTypes ==
    ASSUME Parts, NEW by \in {"poll", "worker"}, Evaluates(by),
           NEW c \in Counters, Counts(by, c)
    PROVE  CountersOK' /\ MeasurementOK' /\ reads' = "fine" /\ outageHold' \in BOOLEAN
<1>1. Measured(by) \in Measurements
  BY EvaluatedTypes
<1>2. CountersOK'
  BY <1>1, CountTypes DEF Counts, Offers, CountersOK, Parts
<1> QED BY <1>2, PublishesTypes DEF Counts, Offers

LEMMA CountsNothingTypes ==
    ASSUME Parts, NEW by \in {"poll", "worker"}, Evaluates(by), CountsNothing(by)
    PROVE  CountersOK' /\ MeasurementOK' /\ reads' = "fine" /\ outageHold' \in BOOLEAN
<1>1. CountersOK'
  BY CyclesAssumption DEF CountsNothing, CountersOK, Parts, Zero
<1> QED BY <1>1, PublishesTypes DEF CountsNothing

LEMMA ObservesTypes ==
    ASSUME Parts, NEW by \in {"poll", "worker"}, Evaluates(by), Observes(by)
    PROVE  lastSoc' \in Socs \cup {None} /\ lastTarget' \in Targets \cup {None}
BY EvaluatedTypes DEF Observes, Parts, WorldOK

LEMMA ReachedTypes ==
    ASSUME Parts, NEW by \in {"poll", "worker"}
    PROVE  ReachedNow(by) \in Targets \cup {None}
BY DEF ReachedNow, Parts, WorldOK

LEMMA HoldsTypes ==
    ASSUME Parts, NEW kind \in {"hold", "pvHold"}, Holds(kind)
    PROVE  /\ clamped' \in BOOLEAN /\ capped' \in {"no", "yes", "lost"}
           /\ follows' \in {"hold", "pvHold", "unsure"}
BY DEF Holds, Parts, OutcomeOK

LEMMA StopsTypes ==
    ASSUME Stops
    PROVE  /\ clamped' \in BOOLEAN /\ capped' \in {"no", "yes", "lost"}
           /\ follows' \in {"meter", "unsure"}
BY DEF Stops

LEMMA PollTypes == ASSUME Parts, Poll PROVE Parts'
<1>1. ASSUME PollReadsHigh PROVE Parts'
  <2>1. reading' \in Measurements
    BY <1>1 DEF PollReadsHigh, Measurements
  <2> QED BY <1>1, <2>1
          DEF PollReadsHigh, Parts, MeasurementOK, LatchesOK, OutcomeOK, CountersOK, WorldOK
<1>2. ASSUME PollReadsBasicOnly PROVE Parts'
  <2>1. PICK soc \in Socs :
          \/ reading' = [soc |-> soc, sample |-> "none", fresh |-> {}]
          \/ data # None /\ reading' = [data EXCEPT !.soc = soc]
    BY <1>2 DEF PollReadsBasicOnly
  <2>2. reading' \in Measurements
    BY <2>1 DEF Parts, MeasurementOK, Measurements
  <2> QED BY <1>2, <2>2
          DEF PollReadsBasicOnly, Parts, MeasurementOK, LatchesOK, OutcomeOK, CountersOK, WorldOK
<1>3. ASSUME PollFails PROVE Parts'
  BY <1>3 DEF PollFails, Parts, MeasurementOK, LatchesOK, OutcomeOK, CountersOK, WorldOK
<1> QED BY <1>1, <1>2, <1>3 DEF Poll

LEMMA WorldTypes == ASSUME Parts, World PROVE Parts'
<1>1. /\ inside' \subseteq Periods /\ target' \in Targets
      /\ reached' \in Targets \cup {None}
  BY DEF World, PeriodBegins, DischargeConfirmed, PeriodEnds, TargetChanges, Parts, WorldOK
<1>2. UNCHANGED <<measured, reads, latches, outageHold, outcome>>
  BY DEF World, PeriodBegins, DischargeConfirmed, PeriodEnds, TargetChanges
<1> QED BY <1>1, <1>2 DEF Parts, MeasurementOK, LatchesOK, OutcomeOK, CountersOK, WorldOK

LEMMA WriterTypes == ASSUME Parts, RefreshFails \/ HoldExpires PROVE Parts'
<1>1. ASSUME RefreshFails PROVE Parts'
  <2>1. OutcomeOK'
    BY <1>1 DEF RefreshFails, Parts, OutcomeOK
  <2>2. UNCHANGED <<measured, reads, inside, target, latches, reached>>
    BY <1>1 DEF RefreshFails
  <2> QED BY <2>1, <2>2 DEF Parts, MeasurementOK, LatchesOK, CountersOK, WorldOK
<1>2. ASSUME HoldExpires PROVE Parts'
  <2>1. /\ windowBound' \in BOOLEAN /\ slotBound' \in BOOLEAN /\ released' \in BOOLEAN
        /\ outageHold' = FALSE /\ clamped' = FALSE /\ follows' = "meter" /\ capped' = "no"
    BY <1>2 DEF HoldExpires, Parts, LatchesOK, OutcomeOK
  <2>2. UNCHANGED <<measured, reads, inside, target, lastSoc, lastTarget, slotTarget, cycles, reached>>
    BY <1>2 DEF HoldExpires
  <2> QED BY <2>1, <2>2 DEF Parts, MeasurementOK, LatchesOK, OutcomeOK, CountersOK, WorldOK
<1> QED BY <1>1, <1>2

LEMMA SuspendsTypes == ASSUME Parts, Suspends PROVE Parts'
<1>1. /\ reads' = "suspended" /\ reading' \in {reading, None}
      /\ UNCHANGED <<data, seen, samples, inside, target, lastSoc, lastTarget, slotTarget, cycles,
                     reached>>
  BY DEF Suspends
<1>2. outageHold' \in BOOLEAN /\ capped' \in {"no", "yes", "lost"}
  BY DEF Suspends, HadHold, StillRequired, Parts, OutcomeOK, LatchesOK
<1>3. /\ follows' \in {"meter", "hold", "pvHold", "unsure"} /\ clamped' \in BOOLEAN
      /\ windowBound' \in BOOLEAN /\ slotBound' \in BOOLEAN /\ released' \in BOOLEAN
  <2>1. HadHold \in BOOLEAN
    BY DEF HadHold, Parts, OutcomeOK
  <2> QED BY <2>1 DEF Suspends, Parts, LatchesOK
<1> QED BY <1>1, <1>2, <1>3
        DEF Parts, MeasurementOK, LatchesOK, OutcomeOK, CountersOK, WorldOK

LEMMA MissesTypes ==
    ASSUME Parts, NEW by \in {"poll", "worker"}, NEW bound \in BOOLEAN, Misses(by, bound)
    PROVE  Parts'
<1>1. /\ Evaluates(by) /\ Observes(by) /\ Publishes(by, {})
      /\ released' = StaysReleased(by) /\ windowBound' = bound
      /\ UNCHANGED <<seen, samples, inside, target, slotBound, slotTarget, cycles, reached>>
  BY DEF Misses, Overtaken, OptionsMoved
<1>2. /\ clamped' \in BOOLEAN /\ capped' \in {"no", "yes", "lost"}
      /\ follows' \in {"meter", "hold", "pvHold", "charge", "price", "unsure"}
  BY StopsTypes DEF Misses, Overtaken, OptionsMoved, Parts, OutcomeOK
<1>3. MeasurementOK' /\ reads' = "fine" /\ outageHold' \in BOOLEAN
  BY <1>1, PublishesTypes
<1>4. released' \in BOOLEAN
  BY <1>1 DEF StaysReleased, Parts, LatchesOK
<1>5. lastSoc' \in Socs \cup {None} /\ lastTarget' \in Targets \cup {None}
  BY <1>1, ObservesTypes
<1> QED BY <1>1, <1>2, <1>3, <1>4, <1>5 DEF Parts, LatchesOK, OutcomeOK, CountersOK, WorldOK

\* What every deciding evaluation leaves typed, whichever branch it takes.
LEMMA DecidesCommon ==
    ASSUME Parts, NEW by \in {"poll", "worker"}, NEW bound \in BOOLEAN, Decides(by, bound)
    PROVE  /\ Evaluates(by) /\ Observes(by)
           /\ UNCHANGED <<inside, target>>
           /\ reached' \in Targets \cup {None} /\ slotTarget' \in Targets \cup {None}
           /\ windowBound' \in BOOLEAN /\ slotBound' \in BOOLEAN /\ released' \in BOOLEAN
           /\ lastSoc' \in Socs \cup {None} /\ lastTarget' \in Targets \cup {None}
<1>1. Evaluates(by) /\ Observes(by) /\ UNCHANGED <<inside, target>>
  BY DEF Decides, HoldInPeriod, Outside, BoundHoldEnds, ReleaseGoesOn, ReleaseTakenBack, HoldGoesOn,
         ImportReleases, NoHold
<1>2. lastSoc' \in Socs \cup {None} /\ lastTarget' \in Targets \cup {None}
  BY <1>1, ObservesTypes
<1>3. reached' \in {reached, ReachedNow(by)} /\ slotTarget' \in {slotTarget, target}
  BY DEF Decides, HoldInPeriod, Outside, BoundHoldEnds, ReleaseGoesOn, ReleaseTakenBack, HoldGoesOn,
         ImportReleases, NoHold
<1>4. /\ StaysReleased(by) \in BOOLEAN /\ SlotHolds(by) \in BOOLEAN
      /\ SlotStillBound(by) \in BOOLEAN
  BY DEF StaysReleased, SlotHolds, SlotStillBound, Parts, LatchesOK
<1>5. windowBound' \in BOOLEAN /\ slotBound' \in BOOLEAN /\ released' \in BOOLEAN
  BY <1>4 DEF Decides, HoldInPeriod, Outside, BoundHoldEnds, ReleaseGoesOn, ReleaseTakenBack,
         HoldGoesOn, ImportReleases, NoHold
<1> QED BY <1>1, <1>2, <1>3, <1>5, ReachedTypes DEF Parts, LatchesOK, WorldOK

LEMMA DecidesTypes ==
    ASSUME Parts, NEW by \in {"poll", "worker"}, NEW bound \in BOOLEAN, Decides(by, bound)
    PROVE  Parts'
<1> SUFFICES /\ CountersOK' /\ MeasurementOK' /\ reads' = "fine" /\ outageHold' \in BOOLEAN
             /\ clamped' \in BOOLEAN /\ capped' \in {"no", "yes", "lost"}
             /\ follows' \in {"meter", "hold", "pvHold", "charge", "price", "unsure"}
  BY DecidesCommon DEF Parts, LatchesOK, OutcomeOK, WorldOK
<1>0. Evaluates(by) /\ {"import", "recharge"} = Counters
  BY DecidesCommon
<1>1. CASE HoldInPeriod(by, bound)
  <2>1. Holds(IF "discharge" \in inside THEN "pvHold" ELSE "hold") /\ CountsNothing(by)
    BY <1>1 DEF HoldInPeriod
  <2> QED BY <1>0, <2>1, CountsNothingTypes, HoldsTypes
<1>2. CASE BoundHoldEnds(by, bound)
  BY <1>0, <1>2, CountsNothingTypes, StopsTypes DEF BoundHoldEnds
<1>3. CASE ReleaseGoesOn(by, bound)
  BY <1>0, <1>3, CountsTypes, StopsTypes DEF ReleaseGoesOn
<1>4. CASE ReleaseTakenBack(by, bound)
  <2>1. CountersOK'
    BY <1>4, CyclesAssumption DEF ReleaseTakenBack, Offers, Zero, Parts, CountersOK
  <2>2. Publishes(by, {"recharge"}) /\ Holds("hold")
    BY <1>4 DEF ReleaseTakenBack, Offers
  <2> QED BY <1>0, <2>1, <2>2, PublishesTypes, HoldsTypes
<1>5. CASE HoldGoesOn(by, bound)
  BY <1>0, <1>5, CountsTypes, HoldsTypes DEF HoldGoesOn
<1>6. CASE ImportReleases(by, bound)
  <2>1. clamped' \in BOOLEAN /\ capped' = "no" /\ follows' \in {"meter", "unsure"}
    BY <1>6 DEF ImportReleases
  <2>2. CASE cycles' = Zero /\ samples' = Zero /\ Offers(by, "import")
    <3>1. CountersOK'
      BY <2>2, CyclesAssumption DEF Offers, Zero, Parts, CountersOK
    <3> QED BY <1>0, <2>1, <2>2, <3>1, PublishesTypes DEF Offers
  <2>3. CASE Counts(by, "import")
    BY <1>0, <2>1, <2>3, CountsTypes
  <2> QED BY <1>6, <2>2, <2>3 DEF ImportReleases
<1>7. CASE NoHold(by, bound)
  BY <1>0, <1>7, CountsNothingTypes DEF NoHold, Uses
<1> QED BY <1>1, <1>2, <1>3, <1>4, <1>5, <1>6, <1>7 DEF Decides

LEMMA BoundTypes == ASSUME Parts, NEW by PROVE Bound(by) \subseteq BOOLEAN
BY DEF Bound, Parts, LatchesOK

LEMMA NextTypes == ASSUME Parts, [Next]_vars PROVE Parts'
<1>1. ASSUME Next PROVE Parts'
  BY <1>1, PollTypes, WorldTypes, WriterTypes, SuspendsTypes, MissesTypes, DecidesTypes, BoundTypes
  DEF Next
<1>2. ASSUME UNCHANGED vars PROVE Parts'
  BY <1>2 DEF Parts, MeasurementOK, LatchesOK, OutcomeOK, CountersOK, WorldOK
<1> QED BY <1>1, <1>2

LEMMA InitTypes == Init => Parts
<1> SUFFICES ASSUME Init PROVE Parts
  OBVIOUS
<1>1. CountersOK
  BY CyclesAssumption DEF Init, CountersOK, Zero
<1> QED BY <1>1 DEF Init, Parts, MeasurementOK, LatchesOK, OutcomeOK, WorldOK

\* Every variable keeps its type in every run of the hold, whatever the SOCs,
\* the targets, the hysteresis and the periods (coordinator.py, 5838-6290).
THEOREM TypeCorrect == Spec => []TypeOK
<1>1. Init => TypeOK
  BY InitTypes, TypeParts
<1>2. TypeOK /\ [Next]_vars => TypeOK'
  BY NextTypes, TypeParts
<1> QED BY <1>1, <1>2, PTL DEF Spec

----------------------------------------------------------------------------
(* The cap                                                                 *)

\* A cap in force is a command the program knows of: it holds, or it has lost
\* the command in an outage and remembers the hold.
CapInv ==
    capped = "yes" =>
        /\ follows \in {"hold", "pvHold", "unsure"}
        /\ follows # "unsure" => clamped
        /\ follows = "unsure" => reads = "suspended"
        /\ reads = "suspended" => outageHold

LEMMA CapPreserved == ASSUME Parts, CapInv, [Next]_vars PROVE CapInv'
<1>1. ASSUME Poll PROVE CapInv'
  BY <1>1 DEF CapInv, Poll, PollReadsHigh, PollReadsBasicOnly, PollFails
<1>2. ASSUME World PROVE CapInv'
  BY <1>2 DEF CapInv, World, PeriodBegins, DischargeConfirmed, PeriodEnds, TargetChanges
<1>3. ASSUME RefreshFails PROVE CapInv'
  BY <1>3 DEF CapInv, RefreshFails
<1>4. ASSUME HoldExpires PROVE CapInv'
  BY <1>4 DEF CapInv, HoldExpires
<1>5. ASSUME NEW by \in {"poll", "worker"}, NEW bound \in BOOLEAN, Decides(by, bound)
      PROVE  CapInv'
  <2>1. reads' = "fine"
    BY <1>5 DEF Decides, HoldInPeriod, BoundHoldEnds, ReleaseGoesOn, ReleaseTakenBack, HoldGoesOn,
            ImportReleases, NoHold, Counts, CountsNothing, Offers, Publishes
  <2>2. \/ Holds("hold") \/ Holds("pvHold")
        \/ capped' = "no"
    BY <1>5 DEF Decides, HoldInPeriod, BoundHoldEnds, ReleaseGoesOn, ReleaseTakenBack, HoldGoesOn,
            ImportReleases, NoHold, Stops
  <2> QED BY <2>1, <2>2 DEF CapInv, Holds
<1>6. ASSUME NEW by \in {"poll", "worker"}, NEW bound \in BOOLEAN, Misses(by, bound)
      PROVE  CapInv'
  BY <1>6 DEF CapInv, Misses, Overtaken, OptionsMoved, Stops, Publishes
<1>7. ASSUME Suspends PROVE CapInv'
  <2> SUFFICES ASSUME capped' = "yes"
               PROVE  /\ follows' \in {"hold", "pvHold", "unsure"}
                      /\ follows' # "unsure" => clamped'
                      /\ outageHold'
    BY <1>7 DEF CapInv, Suspends
  <2>1. StillRequired /\ capped = "yes"
    BY <1>7 DEF Suspends
  <2>2. HadHold
    BY <2>1 DEF CapInv, HadHold
  <2>3. outageHold' = TRUE
    BY <1>7, <2>1, <2>2 DEF Suspends
  <2>4. \/ follows' \in {"hold", "pvHold"} /\ clamped' = HadHold
        \/ follows' = "unsure" /\ clamped' = FALSE
    BY <1>7, <2>3 DEF Suspends
  <2> QED BY <2>2, <2>3, <2>4
<1>8. ASSUME UNCHANGED vars PROVE CapInv'
  BY <1>8 DEF CapInv
<1> QED BY <1>1, <1>2, <1>3, <1>4, <1>5, <1>6, <1>7, <1>8, BoundTypes DEF Next

\* A cap in force is not given up by command: not in an evaluation that still
\* holds it, not by write errors during an outage of the SOC and not by the
\* outage itself, unless its window or slot ends (coordinator.py, 5399-5441).
THEOREM CapKept == Spec => []CapIsKept
<1>1. Init => Parts /\ CapInv
  BY InitTypes DEF Init, CapInv
<1>2. Parts /\ CapInv /\ [Next]_vars => (Parts /\ CapInv)'
  BY NextTypes, CapPreserved
<1>3. CapInv => CapIsKept
  BY DEF CapInv, CapIsKept
<1> QED BY <1>1, <1>2, <1>3, PTL DEF Spec

----------------------------------------------------------------------------
(* The price slot                                                          *)

\* While a reached target counts, its slot is on, the hold is bound to it at
\* exactly that target, and nothing regulates the storage upwards.
SlotInv ==
    /\ ~({"slot", "discharge"} \subseteq inside)
    /\ reached # None =>
          /\ "slot" \in inside
          /\ slotBound /\ slotTarget = reached
          /\ follows \notin {"price", "pvHold"}

LEMMA HoldInPeriodKeepsSlot ==
    ASSUME Parts, SlotInv, NEW by \in {"poll", "worker"}, NEW bound \in BOOLEAN,
           Evaluates(by), HoldInPeriod(by, bound)
    PROVE  SlotInv'
<1> USE DEF HoldInPeriod
<1>1. Measured(by).soc \in Nat /\ target \in Nat /\ reached \in Nat \cup {None}
  BY EvaluatedTypes, SocsAssumption DEF Parts, WorldOK
<1>2. CASE reached' = None
  BY <1>2 DEF SlotInv
<1>3. CASE reached' # None
  <2>1. reached' = target
    BY <1>3 DEF ReachedNow
  <2>2. "slot" \in inside
    BY <1>3 DEF ReachedNow, SlotInv
  <2>3. slotBound' = TRUE
    <3>1. CASE reached = None
      BY <1>3, <2>2, <3>1 DEF ReachedNow, InWindow
    <3>2. CASE reached # None
      <4>1. ~(target > slotTarget /\ Measured(by).soc < target)
        BY <1>1, <1>3, <3>2 DEF ReachedNow, SocReached, SlotInv
      <4>2. slotBound
        BY <3>2 DEF SlotInv
      <4> QED BY <2>2, <4>1, <4>2 DEF SlotHolds, SlotStillBound
    <3> QED BY <3>1, <3>2
  <2>4. "discharge" \notin inside
    BY <2>2 DEF SlotInv
  <2>5. slotTarget' = target /\ follows' \in {"hold", "unsure"}
    BY <2>3, <2>4 DEF Holds
  <2> QED BY <2>1, <2>2, <2>3, <2>4, <2>5 DEF SlotInv
<1> QED BY <1>2, <1>3

LEMMA NoHoldVoidsSlot ==
    ASSUME Parts, SlotInv, NEW by \in {"poll", "worker"}, NEW bound \in BOOLEAN,
           Evaluates(by), NoHold(by, bound)
    PROVE  SlotInv'
<1>1. Measured(by).soc \in Nat /\ target \in Nat /\ reached \in Nat \cup {None}
  BY EvaluatedTypes, SocsAssumption DEF Parts, WorldOK
<1>2. ~SocReached(by) /\ ~SlotHolds(by)
  BY DEF NoHold, HoldActive
<1>3. reached' = None
  <2>1. CASE reached = None
    BY <1>2, <2>1 DEF NoHold, ReachedNow
  <2>2. CASE reached # None
    <3>1. ~SlotStillBound(by)
      BY <1>2, <2>2 DEF SlotHolds, SlotInv
    <3>2. target > reached
      BY <2>2, <3>1 DEF SlotStillBound, SlotInv
    <3> QED BY <1>2, <2>2, <3>2 DEF NoHold, ReachedNow
  <2> QED BY <2>1, <2>2
<1> QED BY <1>3 DEF NoHold, SlotInv

LEMMA SlotPreserved == ASSUME Parts, SlotInv, [Next]_vars PROVE SlotInv'
<1>1. ASSUME Poll PROVE SlotInv'
  BY <1>1 DEF SlotInv, Poll, PollReadsHigh, PollReadsBasicOnly, PollFails
<1>2. ASSUME World PROVE SlotInv'
  BY <1>2 DEF SlotInv, World, PeriodBegins, DischargeConfirmed, PeriodEnds, TargetChanges
<1>3. ASSUME RefreshFails PROVE SlotInv'
  BY <1>3 DEF SlotInv, RefreshFails
<1>4. ASSUME HoldExpires PROVE SlotInv'
  BY <1>4 DEF SlotInv, HoldExpires
<1>5. ASSUME NEW by \in {"poll", "worker"}, NEW bound \in BOOLEAN, Decides(by, bound)
      PROVE  SlotInv'
  <2>1. ASSUME Outside(by, bound, TRUE) \/ Outside(by, bound, FALSE) PROVE SlotInv'
    BY <2>1 DEF Outside, SlotInv
  <2>2. Evaluates(by)
    BY <1>5 DEF Decides
  <2> QED BY <1>5, <2>1, <2>2, HoldInPeriodKeepsSlot, NoHoldVoidsSlot
          DEF Decides, BoundHoldEnds, ReleaseGoesOn, ReleaseTakenBack, HoldGoesOn, ImportReleases
<1>6. ASSUME NEW by \in {"poll", "worker"}, NEW bound \in BOOLEAN, Misses(by, bound)
      PROVE  SlotInv'
  BY <1>6 DEF SlotInv, Misses, Overtaken, OptionsMoved, Stops
<1>7. ASSUME Suspends PROVE SlotInv'
  <2>1. UNCHANGED <<inside, reached, slotTarget>>
    BY <1>7 DEF Suspends
  <2>2. CASE reached = None
    BY <2>1, <2>2 DEF SlotInv
  <2>3. CASE reached # None
    <3>1. "discharge" \notin inside /\ StillRequired
      BY <2>3 DEF SlotInv, StillRequired
    <3>2. slotBound' = slotBound /\ follows' \notin {"price", "pvHold"}
      <4>1. CASE HadHold
        BY <1>7, <3>1, <4>1 DEF Suspends
      <4>2. CASE ~HadHold
        BY <1>7, <3>1, <4>2 DEF Suspends
      <4> QED BY <4>1, <4>2
    <3> QED BY <2>1, <3>2 DEF SlotInv
  <2> QED BY <2>2, <2>3
<1>8. ASSUME UNCHANGED vars PROVE SlotInv'
  BY <1>8 DEF SlotInv
<1> QED BY <1>1, <1>2, <1>3, <1>4, <1>5, <1>6, <1>7, <1>8, BoundTypes DEF Next

\* Once the target was reached in a price slot, that slot charges no more until
\* it ends or a higher target is set, whatever windows open and close over it
\* and whatever happens to the SOC (coordinator.py, 6018-6073).
THEOREM NoSecondCharge == Spec => []NoSecondChargeInSlot
<1>1. Init => Parts /\ SlotInv
  BY InitTypes DEF Init, SlotInv
<1>2. Parts /\ SlotInv /\ [Next]_vars => (Parts /\ SlotInv)'
  BY NextTypes, SlotPreserved
<1>3. SlotInv => NoSecondChargeInSlot
  BY DEF SlotInv, NoSecondChargeInSlot
<1> QED BY <1>1, <1>2, <1>3, PTL DEF Spec

----------------------------------------------------------------------------
(* Counting measurements, when only polls evaluate                         *)

\* What is evaluated next, unless a new HIGH block comes first.
NextSample == IF reading \in {None, Missing} THEN data ELSE reading

\* A counter behind the revision was never offered the sample it will see.
CountInv ==
    /\ CountsMeasurements
    /\ \A c \in Counters \ seen :
          NextSample # None => NextSample.sample = "none" \/ c \in NextSample.fresh

LEMMA PolledSample ==
    ASSUME Parts, Evaluators \subseteq {"poll"}, NEW by, Evaluates(by)
    PROVE  by = "poll" /\ Measured(by) = reading /\ NextSample = reading /\ reading # None
BY DEF Evaluates, Measured, NextSample

\* The counter that is offered a sample counts it once, and the sample loses
\* its freshness for that counter only.
LEMMA OfferedOnce ==
    ASSUME Parts, CountInv, Evaluators \subseteq {"poll"},
           NEW by \in {"poll", "worker"}, Evaluates(by),
           NEW C \in SUBSET Counters, Publishes(by, C), seen' = seen \cup C
    PROVE  \A c \in Counters \ seen' :
              NextSample' # None => NextSample'.sample = "none" \/ c \in NextSample'.fresh
<1>1. reading \in Measurements /\ by = "poll"
  BY PolledSample, EvaluatedTypes
<1>2. data' = [reading EXCEPT !.fresh = @ \ C] /\ NextSample' = data'
  BY <1>1 DEF Publishes, NextSample
<1>3. data'.sample = reading.sample /\ data'.fresh = reading.fresh \ C
  BY <1>1, <1>2 DEF Measurements
<1>4. NextSample = reading /\ reading # None
  BY PolledSample
<1> QED BY <1>2, <1>3, <1>4 DEF CountInv

LEMMA CountsOnce ==
    ASSUME Parts, CountInv, Evaluators \subseteq {"poll"},
           NEW by \in {"poll", "worker"}, Evaluates(by), NEW c \in Counters
    PROVE  Count(c, Measured(by).sample) <= CountSamples(c, Measured(by))
<1>1. /\ cycles[c] \in 0..Cycles /\ samples[c] \in 0..Cycles /\ Cycles \in Nat
      /\ cycles[c] <= samples[c]
  BY CyclesAssumption DEF Parts, CountersOK, CountInv, CountsMeasurements
<1>2. c \notin seen /\ Measured(by).sample = Shows(c) => c \in Measured(by).fresh
  BY PolledSample DEF CountInv, Shows
<1> QED BY <1>1, <1>2 DEF Count, CountSamples

LEMMA CountsKeepsCount ==
    ASSUME Parts, CountInv, Evaluators \subseteq {"poll"},
           NEW by \in {"poll", "worker"}, Evaluates(by), NEW c \in Counters, Counts(by, c)
    PROVE  CountInv'
<1>1. CountsMeasurements'
  BY CountsOnce DEF Counts, CountsMeasurements, Zero
<1>2. seen' = seen \cup {c} /\ Publishes(by, {c})
  BY DEF Counts, Offers
<1> QED BY <1>1, <1>2, OfferedOnce DEF CountInv

LEMMA CountPreserved ==
    ASSUME Parts, CountInv, Evaluators \subseteq {"poll"}, [Next]_vars PROVE CountInv'
<1>0. \A c \in Counters : cycles[c] \in Int /\ samples[c] \in Int
  BY DEF Parts, CountersOK
<1>1. ASSUME Poll PROVE CountInv'
  <2>1. UNCHANGED <<data, cycles, samples>> /\ reading = None
    BY <1>1 DEF Poll, PollReadsHigh, PollReadsBasicOnly, PollFails
  <2>2. CountsMeasurements'
    BY <2>1 DEF CountInv, CountsMeasurements
  <2>3. CASE PollReadsHigh
    <3>1. reading' \in Measurements /\ reading'.fresh = Counters
      BY <2>3 DEF PollReadsHigh, Measurements
    <3>2. NextSample' = reading'
      <4>0. reading'.soc \in Nat
        BY <3>1, SocsAssumption DEF Measurements
      <4>1. reading'.soc # None
        BY <4>0, NoneAssumption
      <4> QED BY <3>1, <4>1, NoneAssumption DEF NextSample, Missing
    <3> QED BY <2>2, <3>1, <3>2 DEF CountInv
  <2>4. CASE PollReadsBasicOnly
    <3>1. PICK soc \in Socs :
            \/ reading' = [soc |-> soc, sample |-> "none", fresh |-> {}]
            \/ data # None /\ reading' = [data EXCEPT !.soc = soc]
      BY <2>4 DEF PollReadsBasicOnly
    <3>2. CASE reading' = [soc |-> soc, sample |-> "none", fresh |-> {}]
      BY <2>1, <2>2, <2>4, <3>2 DEF PollReadsBasicOnly, CountInv, NextSample
    <3>3. CASE data # None /\ reading' = [data EXCEPT !.soc = soc]
      <4>1. reading'.sample = data.sample /\ reading'.fresh = data.fresh
        BY <3>3 DEF Parts, MeasurementOK, Measurements
      <4>2. NextSample = data /\ NextSample' \in {data, reading'} /\ data' = data
        BY <2>1 DEF NextSample
      <4>3. seen' = seen
        BY <2>4 DEF PollReadsBasicOnly
      <4> QED BY <2>2, <3>3, <4>1, <4>2, <4>3 DEF CountInv
    <3> QED BY <3>1, <3>2, <3>3
  <2>5. CASE PollFails
    BY <2>1, <2>2, <2>5 DEF PollFails, CountInv, NextSample
  <2> QED BY <1>1, <2>3, <2>4, <2>5 DEF Poll
<1>2. ASSUME UNCHANGED <<data, reading, seen, cycles, samples>> PROVE CountInv'
  BY <1>2 DEF CountInv, CountsMeasurements, NextSample
<1>3. ASSUME World \/ RefreshFails \/ HoldExpires PROVE CountInv'
  BY <1>2, <1>3 DEF World, PeriodBegins, DischargeConfirmed, PeriodEnds, TargetChanges, RefreshFails,
                    HoldExpires
<1>4. ASSUME NEW by \in {"poll", "worker"}, NEW bound \in BOOLEAN, Decides(by, bound)
      PROVE  CountInv'
  <2>1. Evaluates(by)
    BY <1>4 DEF Decides
  <2>2. ASSUME CountsNothing(by) PROVE CountInv'
    <3>1. CountsMeasurements'
      BY <2>2 DEF CountsNothing, CountsMeasurements, Zero
    <3> QED BY <2>1, <2>2, <3>1, OfferedOnce DEF CountsNothing, CountInv
  <2>3. ASSUME NEW c \in Counters, Counts(by, c) PROVE CountInv'
    BY <2>1, <2>3, CountsKeepsCount
  <2>4. ASSUME NEW c \in Counters, Offers(by, c), CountsMeasurements' PROVE CountInv'
    BY <2>1, <2>4, OfferedOnce DEF Offers, CountInv
  <2>5. CASE ReleaseTakenBack(by, bound)
    <3>1. CountsMeasurements'
      <4>1. \/ cycles' = Zero /\ samples' = Zero
            \/ /\ cycles' = [cycles EXCEPT !["recharge"] = 0]
               /\ samples' = [samples EXCEPT !["recharge"] = 0]
        BY <2>5 DEF ReleaseTakenBack
      <4>2. cycles["import"] <= samples["import"]
        BY DEF CountInv, CountsMeasurements
      <4> QED BY <4>1, <4>2 DEF CountsMeasurements, Zero, Parts, CountersOK
    <3> QED BY <2>4, <2>5, <3>1 DEF ReleaseTakenBack
  <2>6. CASE ImportReleases(by, bound)
    <3>1. ASSUME cycles' = Zero, samples' = Zero PROVE CountsMeasurements'
      BY <3>1 DEF CountsMeasurements, Zero
    <3> QED BY <2>3, <2>4, <2>6, <3>1 DEF ImportReleases
  <2> QED BY <1>4, <2>2, <2>3, <2>5, <2>6
          DEF Decides, HoldInPeriod, BoundHoldEnds, ReleaseGoesOn, HoldGoesOn, NoHold
<1>5. ASSUME NEW by \in {"poll", "worker"}, NEW bound \in BOOLEAN, Misses(by, bound)
      PROVE  CountInv'
  <2>1. Evaluates(by) /\ Publishes(by, {}) /\ UNCHANGED <<seen, samples, cycles>>
    BY <1>5 DEF Misses, Overtaken, OptionsMoved
  <2>2. CountsMeasurements'
    BY <2>1 DEF CountInv, CountsMeasurements
  <2> QED BY <2>1, <2>2, OfferedOnce DEF CountInv
<1>6. ASSUME Suspends PROVE CountInv'
  <2>1. UNCHANGED <<data, seen, samples, cycles>> /\ NextSample' = NextSample
    BY <1>6 DEF Suspends, NextSample
  <2> QED BY <2>1 DEF CountInv, CountsMeasurements
<1> QED BY <1>1, <1>2, <1>3, <1>4, <1>5, <1>6, BoundTypes DEF Next

\* As long as only polls evaluate, a counter never exceeds the number of
\* measurements in a row that showed what it counts (coordinator.py, 5483-5503).
\* The worker's evaluations void this: see the run MaxSocRace.
THEOREM CountsOnlyMeasurements ==
    Evaluators \subseteq {"poll"} /\ Spec => []CountsMeasurements
<1> SUFFICES ASSUME Evaluators \subseteq {"poll"} PROVE Spec => []CountsMeasurements
  OBVIOUS
<1>1. Init => Parts /\ CountInv
  BY InitTypes DEF Init, CountInv, CountsMeasurements, NextSample, Zero
<1>2. Parts /\ CountInv /\ [Next]_vars => (Parts /\ CountInv)'
  BY NextTypes, CountPreserved
<1>3. CountInv => CountsMeasurements
  BY DEF CountInv
<1> QED BY <1>1, <1>2, <1>3, PTL DEF Spec

----------------------------------------------------------------------------
(* The release                                                             *)

\* What may end a release.
ReleaseMayEnd ==
    \/ lastSoc' < target
    \/ lastTarget # None /\ target < lastTarget
    \/ lastSoc # None /\ lastSoc' > lastSoc
    \/ data'.sample = "charge" /\ samples["recharge"] >= Cycles - 1

LEMMA ReleaseEndsLegally ==
    ASSUME Parts, CountInv, Evaluators \subseteq {"poll"}, [Next]_vars, released, ~released'
    PROVE  ReleaseMayEnd
<1>1. PICK by \in {"poll", "worker"}, bound \in BOOLEAN : Decides(by, bound) \/ Misses(by, bound)
  <2>1. /\ ~Poll /\ ~World /\ ~RefreshFails /\ ~HoldExpires /\ ~Suspends
        /\ ~UNCHANGED vars
    BY DEF Poll, PollReadsHigh, PollReadsBasicOnly, PollFails, World, PeriodBegins,
           DischargeConfirmed, PeriodEnds, TargetChanges, RefreshFails, HoldExpires, Suspends,
           Parts, LatchesOK
  <2> QED BY <2>1, BoundTypes DEF Next
<1>2. Evaluates(by) /\ lastSoc' = Measured(by).soc
  BY <1>1 DEF Decides, HoldInPeriod, Outside, BoundHoldEnds, ReleaseGoesOn, ReleaseTakenBack,
         HoldGoesOn, ImportReleases, NoHold, Misses, Overtaken, OptionsMoved, Observes
<1>3. /\ Measured(by).soc \in Nat /\ target \in Nat
      /\ lastTarget # None => lastTarget \in Nat
  BY <1>2, EvaluatedTypes, SocsAssumption DEF Parts, WorldOK, LatchesOK
<1>4. ASSUME ~StaysReleased(by) PROVE ReleaseMayEnd
  BY <1>2, <1>3, <1>4 DEF StaysReleased, ReleaseMayEnd
<1>5. CASE Misses(by, bound)
  BY <1>4, <1>5 DEF Misses, Overtaken, OptionsMoved
<1>6. CASE ReleaseTakenBack(by, bound)
  <2>1. CASE lastSoc # None /\ Measured(by).soc > lastSoc
    BY <1>2, <2>1 DEF ReleaseMayEnd
  <2>2. CASE Confirmed(by, "recharge")
    <3>1. /\ cycles["recharge"] \in Nat /\ samples["recharge"] \in Nat /\ Cycles \in Nat \ {0}
          /\ cycles["recharge"] <= samples["recharge"]
      BY CyclesAssumption DEF Parts, CountersOK, CountInv, CountsMeasurements
    <3>2. /\ Measured(by).sample = "charge"
          /\ cycles["recharge"] >= Cycles - 1
      BY <2>2, <3>1 DEF Confirmed, Count, Shows
    <3>3. Publishes(by, {"recharge"})
      BY <1>6 DEF ReleaseTakenBack, Offers
    <3>4. data'.sample = "charge"
      BY <1>2, <3>2, <3>3, PublishesTypes
    <3> QED BY <3>1, <3>2, <3>4 DEF ReleaseMayEnd
  <2> QED BY <1>6, <2>1, <2>2 DEF ReleaseTakenBack, Recharges
<1>7. CASE NoHold(by, bound)
  BY <1>2, <1>3, <1>7 DEF NoHold, HoldActive, SocReached, ReleaseMayEnd
<1>8. CASE HoldInPeriod(by, bound) \/ HoldGoesOn(by, bound) \/ ImportReleases(by, bound)
  BY <1>4, <1>8 DEF HoldInPeriod, HoldGoesOn, ImportReleases
<1>9. ~BoundHoldEnds(by, bound) /\ ~ReleaseGoesOn(by, bound)
  BY DEF BoundHoldEnds, ReleaseGoesOn
<1> QED BY <1>1, <1>5, <1>6, <1>7, <1>8, <1>9 DEF Decides

\* As long as only polls evaluate, a release lasts until the SOC falls below the
\* target or rises, the target is lowered, or charging was measured as often as
\* the hysteresis demands (coordinator.py, 5865-5877, 6121-6147).
THEOREM ReleaseIsLasting ==
    Evaluators \subseteq {"poll"} /\ Spec => ReleaseLasts
<1> SUFFICES ASSUME Evaluators \subseteq {"poll"} PROVE Spec => ReleaseLasts
  OBVIOUS
<1>1. Init => Parts /\ CountInv
  BY InitTypes DEF Init, CountInv, CountsMeasurements, NextSample, Zero
<1>2. Parts /\ CountInv /\ [Next]_vars => (Parts /\ CountInv)'
  BY NextTypes, CountPreserved
<1>3. Parts /\ CountInv /\ [Next]_vars => [released /\ ~released' => ReleaseMayEnd]_vars
  BY ReleaseEndsLegally
<1> QED BY <1>1, <1>2, <1>3, PTL DEF Spec, ReleaseLasts, ReleaseMayEnd
============================================================================
