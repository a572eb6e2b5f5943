----------------------------- MODULE MaxSocHold -----------------------------
(***************************************************************************)
(* The maximum-SOC hold of the charge-control evaluation                   *)
(* (REQ-TIMED-SOC-CHARGE): when it holds the storage at zero, to which     *)
(* window or price slot the hold is bound, when measured import releases   *)
(* it, what takes the release back, and what is left of it while the state *)
(* of charge cannot be read.                                               *)
(*                                                                         *)
(* Evaluations exclude each other (the charge-control lock) and are one    *)
(* action here, chosen by the branch they take.  A poll, however, reads the*)
(* storage before it asks for the lock: an evaluation of the configuration *)
(* worker, a setter or a timer may come between, with the data of the      *)
(* previous poll.                                                          *)
(***************************************************************************)
EXTENDS Integers

CONSTANTS
    None,        \* Python's None
    Socs,        \* states of charge the storage may report
    Targets,     \* effective maximum SOCs
    Cycles,      \* const.PV_SURPLUS_HYSTERESIS_CYCLES
    Periods,     \* which of the periods below exist
    Evaluators   \* who evaluates: "poll", "worker"

\* The timed window, the grid-serving window, the selected price slot, and the
\* confirmed discharge hold after a timed charge.
AllPeriods == {"timed", "grid", "slot", "discharge"}

ASSUME SocsAssumption == Socs \subseteq Nat /\ Targets \subseteq Nat
ASSUME CyclesAssumption == Cycles \in Nat \ {0}
ASSUME PeriodsAssumption == Periods \subseteq AllPeriods
ASSUME EvaluatorsAssumption == Evaluators \subseteq {"poll", "worker"}

VARIABLES
    data,         \* self.data: the measurement of the last finished poll, or None
    reading,      \* what a poll has read and not yet evaluated; Missing: nothing; or None
    seen,         \* counters whose recorded revision is _high_sample_revision
    reads,        \* "fine", "failing" (_basic_read_failed), "suspended": failing, and acted upon
    inside,       \* the periods that are on
    target,       \* effective_max_soc
    lastSoc,      \* _last_observed_soc
    lastTarget,   \* _last_effective_max_soc
    windowBound,  \* _max_soc_hold_is_window_bound
    slotBound,    \* _max_soc_hold_is_price_slot_bound
    slotTarget,   \* _max_soc_price_slot_target
    released,     \* _max_soc_released_for_discharge
    cycles,       \* _max_soc_grid_import_wait_cycles, _max_soc_recharge_confirm_cycles
    clamped,      \* _max_soc_clamped
    outageHold,   \* _max_soc_hold_during_basic_outage
    follows,      \* what the last command makes the storage do; "unsure" after a failed write
    \* History, read by the properties only.
    samples,      \* measurements in a row that showed what a counter counts
    capped,       \* "yes": the cap is in force; "lost": a write error came before an outage
    reached       \* the target the battery has reached in the running price slot, or None

measured == <<data, reading, seen, samples>>
latches == <<lastSoc, lastTarget, windowBound, slotBound, slotTarget, released, cycles>>
outcome == <<clamped, follows, capped>>
vars == <<measured, reads, inside, target, latches, outageHold, outcome, reached>>

Counters == {"import", "recharge"}

\* What the smart meter and the battery show: more than 50 W drawn from the
\* grid, more than 50 W fed in or charged, or neither of them (or nothing).
Samples == {"import", "charge", "none"}

\* fresh: the counters this sample was never offered to.
Measurements == [soc : Socs, sample : Samples, fresh : SUBSET Counters]

ASSUME NoneAssumption == None \notin Int /\ None \notin Measurements

\* What a poll is left with that could not read the SOC.
Missing == [soc |-> None, sample |-> "none", fresh |-> {}]

\* What a counter counts.
Shows(c) == IF c = "import" THEN "import" ELSE "charge"
----------------------------------------------------------------------------
(* The poll's reading                                                      *)

\* A new HIGH block arrives.  The revision moves before the poll has the lock.
PollReadsHigh ==
    /\ reading = None
    /\ \E soc \in Socs, sample \in Samples :
          reading' = [soc |-> soc, sample |-> sample, fresh |-> Counters]
    /\ seen' = {}
    /\ UNCHANGED <<data, samples, reads, inside, target, latches, outageHold, outcome, reached>>

\* The HIGH block cannot be read (no values, no new revision), or it is younger
\* than its interval and the last one serves again.
PollReadsBasicOnly ==
    /\ reading = None
    /\ \E soc \in Socs :
          \/ reading' = [soc |-> soc, sample |-> "none", fresh |-> {}]
          \/ data # None /\ reading' = [data EXCEPT !.soc = soc]
    /\ UNCHANGED <<data, seen, samples, reads, inside, target, latches, outageHold, outcome,
                   reached>>

\* The SOC cannot be read, or is none.
PollFails ==
    /\ reading = None /\ reading' = Missing
    /\ reads' = IF reads = "fine" THEN "failing" ELSE reads
    /\ UNCHANGED <<data, seen, samples, inside, target, latches, outageHold, outcome, reached>>
----------------------------------------------------------------------------
(* The world                                                               *)

\* Prices are not followed while a discharge hold is confirmed and vice versa.
PeriodBegins ==
    /\ \E p \in Periods \ (inside \cup {"discharge"}) :
          /\ p = "slot" => "discharge" \notin inside
          /\ inside' = inside \cup {p}
    /\ UNCHANGED <<measured, reads, target, latches, outageHold, outcome, reached>>

\* A proof of timed grid charging needs a charge that runs.
DischargeConfirmed ==
    /\ "discharge" \in Periods \ inside
    /\ "timed" \in inside /\ "slot" \notin inside
    /\ follows = "charge" /\ reads = "fine"
    /\ inside' = inside \cup {"discharge"}
    /\ UNCHANGED <<measured, reads, target, latches, outageHold, outcome, reached>>

PeriodEnds ==
    /\ \E p \in inside :
          /\ inside' = inside \ {p}
          /\ reached' = IF p = "slot" THEN None ELSE reached
    /\ UNCHANGED <<measured, reads, target, latches, outageHold, outcome>>

\* The user moves the limit, or the calibration lifts it or puts it back.
TargetChanges ==
    /\ target' \in Targets \ {target}
    /\ UNCHANGED <<measured, reads, inside, latches, outageHold, outcome, reached>>
----------------------------------------------------------------------------
(* Writing, as far as the hold depends on it (see SunCharge)               *)

\* async_start_sun_charge acknowledged, or not: then no activity is claimed.
Holds(kind) ==
    \/ follows' = kind /\ clamped' = TRUE /\ capped' = "yes"
    \/ /\ follows' = "unsure" /\ clamped' = FALSE
       /\ capped' = IF capped = "yes" THEN "lost" ELSE capped

\* async_stop_sun_charge swallows the error and leaves the reset on the books.
Stops ==
    /\ follows' \in {"meter", "unsure"}
    /\ clamped' = FALSE /\ capped' = "no"

\* The writer's own refresh is not acknowledged.
RefreshFails ==
    /\ follows \in {"hold", "pvHold", "charge", "price"}
    /\ follows' = "unsure" /\ clamped' = FALSE
    /\ capped' = IF capped = "yes" /\ reads # "suspended" THEN "lost" ELSE capped
    /\ UNCHANGED <<measured, reads, inside, target, latches, outageHold, reached>>

\* The discharge hold's writer finds its time over and resets the mode; a reset
\* that fails is RefreshFails.
HoldExpires ==
    /\ follows = "pvHold" /\ "discharge" \notin inside
    /\ follows' = "meter" /\ capped' = "no"
    /\ outageHold' = FALSE /\ clamped' = FALSE
    /\ released' = (released \/ clamped)
    /\ windowBound' = (windowBound /\ ~clamped)
    /\ slotBound' = (slotBound /\ ~clamped)
    /\ UNCHANGED <<measured, reads, inside, target, lastSoc, lastTarget, slotTarget, cycles,
                   reached>>
----------------------------------------------------------------------------
(* One evaluation                                                          *)

Measured(by) == IF by = "poll" THEN reading ELSE data

Evaluates(by) ==
    /\ by \in Evaluators
    /\ Measured(by) \notin {None, Missing}
    /\ by = "worker" => reads = "fine"

\* The poll's success ends the outage before it evaluates; its data replace the
\* old ones afterwards.  C: the counters that were offered the sample.
Publishes(by, C) ==
    /\ reads' = "fine"
    /\ IF by = "poll"
       THEN /\ data' = [reading EXCEPT !.fresh = @ \ C]
            /\ reading' = None /\ outageHold' = FALSE
       ELSE /\ data' = [data EXCEPT !.fresh = @ \ C]
            /\ UNCHANGED <<reading, outageHold>>

\* The latches of every evaluation: a lower target or a SOC below it ends the
\* release.
Observes(by) ==
    /\ lastSoc' = Measured(by).soc
    /\ lastTarget' = target

\* A slip: any new target counts as a new excess.
StaysReleasedSameTarget(by) ==
    /\ released
    /\ lastTarget # None => target = lastTarget
    /\ Measured(by).soc >= target

StaysReleased(by) ==
    /\ released
    /\ lastTarget # None => target >= lastTarget
    /\ Measured(by).soc >= target

\* The first evaluation of a run may find in the store that the timed window was
\* already completed; the hold is then taken as bound, to be released once.
Bound(by) ==
    {windowBound} \cup (IF lastTarget = None /\ "timed" \in Periods \ inside THEN {TRUE} ELSE {})

\* Slips: the same sample counts at every evaluation; there is no limit.
CountEach(c, shown) == IF shown # Shows(c) THEN 0
                       ELSE IF cycles[c] < Cycles THEN cycles[c] + 1 ELSE Cycles
CountUncapped(c, shown) == IF shown # Shows(c) THEN 0
                           ELSE IF c \in seen THEN cycles[c] ELSE cycles[c] + 1

\* _cycles_confirmed, up to its comparison.
Count(c, shown) ==
    IF shown # Shows(c) THEN 0
    ELSE IF c \in seen \/ cycles[c] = Cycles THEN cycles[c] ELSE cycles[c] + 1

\* What the counter should hold: every sample once.
CountSamples(c, m) ==
    IF m.sample # Shows(c) THEN 0
    ELSE IF c \notin m.fresh \/ samples[c] = Cycles THEN samples[c] ELSE samples[c] + 1

Zero == [c \in Counters |-> 0]

\* Counter c is offered the sample.
Offers(by, c) == seen' = seen \cup {c} /\ Publishes(by, {c})

\* It is offered the sample and counts; the other one is reset.
Counts(by, c) ==
    /\ cycles' = [Zero EXCEPT ![c] = Count(c, Measured(by).sample)]
    /\ samples' = [Zero EXCEPT ![c] = CountSamples(c, Measured(by))]
    /\ Offers(by, c)

Confirmed(by, c) == Count(c, Measured(by).sample) >= Cycles

CountsNothing(by) ==
    /\ cycles' = Zero /\ samples' = Zero
    /\ UNCHANGED seen
    /\ Publishes(by, {})

\* The price slot's hold goes on below the target, unless that was raised.
SlotStillBound(by) ==
    /\ slotBound
    /\ ~(slotTarget # None /\ target > slotTarget /\ Measured(by).soc < target)

SlotHolds(by) == SlotStillBound(by) /\ "slot" \in inside

SocReached(by) == Measured(by).soc >= target

HoldActive(by) == SocReached(by) \/ SlotHolds(by)

InWindow == inside \cap {"timed", "discharge", "grid"} # {}

\* History: the target counts as reached in this slot once it was reached with
\* the slot alone on; a higher target that the battery has not reached voids it.
ReachedNow(by) ==
    IF reached = None
    THEN IF SocReached(by) /\ inside = {"slot"} THEN target ELSE None
    ELSE IF target > reached /\ ~SocReached(by) THEN None ELSE target

\* The tariff moved while the latches were being saved: nothing is decided, and
\* no failed write made good.
Overtaken(by, bound) ==
    /\ Observes(by) /\ released' = StaysReleased(by) /\ windowBound' = bound
    /\ Publishes(by, {})
    /\ capped' = IF capped = "yes" /\ follows = "unsure" THEN "lost" ELSE capped
    /\ UNCHANGED <<seen, samples, inside, target, slotBound, slotTarget, cycles, clamped, follows,
                   reached>>

\* The options moved: whatever runs is stopped.
OptionsMoved(by, bound) ==
    /\ Observes(by) /\ released' = StaysReleased(by) /\ windowBound' = bound
    /\ Stops
    /\ Publishes(by, {})
    /\ UNCHANGED <<seen, samples, inside, target, slotBound, slotTarget, cycles, reached>>

\* A slip: the binding to the slot is worked out anew while it holds.
HoldInPeriodRebinding(by, bound) ==
    /\ HoldActive(by) /\ inside # {}
    /\ Observes(by) /\ released' = StaysReleased(by)
    /\ windowBound' = TRUE
    /\ slotBound' = ("slot" \in inside /\ ~InWindow)
    /\ slotTarget' = IF slotBound' THEN target ELSE slotTarget
    /\ CountsNothing(by)
    /\ Holds(IF "discharge" \in inside THEN "pvHold" ELSE "hold")
    /\ reached' = ReachedNow(by)
    /\ UNCHANGED <<inside, target>>

\* Within a window or slot the hold is bound to it, and import cannot end it.
HoldInPeriod(by, bound) ==
    /\ HoldActive(by) /\ inside # {}
    /\ Observes(by) /\ released' = StaysReleased(by)
    /\ windowBound' = TRUE
    /\ slotBound' = (SlotHolds(by) \/ ("slot" \in inside /\ ~InWindow))
    /\ slotTarget' = IF slotBound' THEN target ELSE slotTarget
    /\ CountsNothing(by)
    /\ Holds(IF "discharge" \in inside THEN "pvHold" ELSE "hold")
    /\ reached' = ReachedNow(by)
    /\ UNCHANGED <<inside, target>>

\* Outside: the rest of what the following four leave alone.
Outside(by, bound, isBound) ==
    /\ HoldActive(by) /\ inside = {}
    /\ bound = isBound /\ windowBound' = FALSE
    /\ Observes(by)
    /\ UNCHANGED <<inside, target, slotTarget, reached>>

\* The window or slot of a bound hold is over: meter regulation, and released.
BoundHoldEnds(by, bound) ==
    /\ Outside(by, bound, TRUE)
    /\ Stops
    /\ released' = TRUE /\ slotBound' = FALSE
    /\ CountsNothing(by)

\* While released the storage regulates itself; charging or a rising SOC takes
\* the release back.
Recharges(by) ==
    \/ Confirmed(by, "recharge")
    \/ lastSoc # None /\ Measured(by).soc > lastSoc

ReleaseGoesOn(by, bound) ==
    /\ Outside(by, bound, FALSE) /\ StaysReleased(by)
    /\ ~Recharges(by)
    /\ Stops
    /\ released' = TRUE /\ slotBound' = SlotStillBound(by)
    /\ Counts(by, "recharge")

\* A failed start leaves before the import counter is reset.
ReleaseTakenBack(by, bound) ==
    /\ Outside(by, bound, FALSE) /\ StaysReleased(by)
    /\ Recharges(by)
    /\ Holds("hold")
    /\ released' = FALSE /\ slotBound' = SlotStillBound(by)
    /\ cycles' = IF clamped' THEN Zero ELSE [cycles EXCEPT !["recharge"] = 0]
    /\ samples' = IF clamped' THEN Zero ELSE [samples EXCEPT !["recharge"] = 0]
    /\ Offers(by, "recharge")

\* The device-wide hold: it lasts until import is confirmed, ...
HoldGoesOn(by, bound) ==
    /\ Outside(by, bound, FALSE) /\ ~StaysReleased(by)
    /\ ~Confirmed(by, "import")
    /\ Holds("hold")
    /\ released' = FALSE /\ slotBound' = SlotStillBound(by)
    /\ Counts(by, "import")

\* ... and then until the reset is acknowledged.
ImportReleases(by, bound) ==
    /\ Outside(by, bound, FALSE) /\ ~StaysReleased(by)
    /\ Confirmed(by, "import")
    /\ slotBound' = SlotStillBound(by) /\ capped' = "no"
    /\ \/ /\ follows' = "meter" /\ clamped' = FALSE /\ released' = TRUE
          /\ cycles' = Zero /\ samples' = Zero /\ Offers(by, "import")
       \/ /\ follows' = "unsure" /\ clamped' = TRUE /\ released' = FALSE
          /\ Counts(by, "import")

\* Below the target the other uses have their turn: a manual or timed charge,
\* the discharge hold's own regulation, the grid-serving step or a price pause
\* at zero, the price charge, or none.
Uses ==
    {"charge", "hold", "meter"}
        \cup (IF "discharge" \in inside THEN {"pvHold"} ELSE {})
        \cup (IF "slot" \in inside /\ "grid" \notin inside THEN {"price"} ELSE {})

NoHold(by, bound) ==
    /\ ~HoldActive(by)
    /\ Observes(by)
    /\ windowBound' = FALSE /\ slotBound' = FALSE /\ released' = FALSE
    /\ CountsNothing(by)
    /\ follows' \in Uses \cup {"unsure"}
    /\ clamped' = FALSE /\ capped' = "no"
    /\ reached' = ReachedNow(by)
    /\ UNCHANGED <<inside, target, slotTarget>>

\* The evaluation that gets as far as the policy.
Decides(by, bound) ==
    /\ Evaluates(by)
    /\ \/ HoldInPeriod(by, bound)
       \/ BoundHoldEnds(by, bound)
       \/ ReleaseGoesOn(by, bound)
       \/ ReleaseTakenBack(by, bound)
       \/ HoldGoesOn(by, bound)
       \/ ImportReleases(by, bound)
       \/ NoHold(by, bound)

Misses(by, bound) ==
    /\ Evaluates(by)
    /\ \/ Overtaken(by, bound)
       \/ OptionsMoved(by, bound)
----------------------------------------------------------------------------
(* The evaluation without a state of charge                                *)

\* _max_soc_outage_hold_still_required; a slip: a bound hold stays for good.
StillRequiredAlways == TRUE
StillRequired ==
    \/ ~windowBound
    \/ "slot" \in inside
    \/ ~slotBound /\ inside \cap {"timed", "grid"} # {}

\* A slip: only what is claimed at this moment is kept.
HadHoldClaimed == clamped
HadHold == clamped \/ outageHold

Suspends ==
    /\ reads # "fine" /\ reads' = "suspended"
    /\ reading' \in {reading} \cup (IF reading = Missing THEN {None} ELSE {})
    /\ outageHold' = (HadHold /\ StillRequired)
    /\ capped' = IF StillRequired THEN capped ELSE "no"
    /\ IF "discharge" \in inside \/ outageHold'
       THEN /\ \/ /\ follows' = IF "discharge" \in inside THEN "pvHold" ELSE "hold"
                  /\ clamped' = HadHold
               \/ follows' = "unsure" /\ clamped' = FALSE
            /\ UNCHANGED <<windowBound, slotBound, released>>
       ELSE /\ follows' \in {"meter", "unsure"} /\ clamped' = FALSE
            /\ IF HadHold /\ windowBound
               THEN windowBound' = FALSE /\ slotBound' = FALSE /\ released' = TRUE
               ELSE UNCHANGED <<windowBound, slotBound, released>>
    /\ UNCHANGED <<data, seen, samples, inside, target, lastSoc, lastTarget, slotTarget, cycles,
                   reached>>
----------------------------------------------------------------------------
Init ==
    /\ data = None /\ reading = None /\ seen = Counters /\ reads = "fine"
    /\ inside \in {P \in SUBSET Periods : ~({"slot", "discharge"} \subseteq P)}
    /\ target \in Targets
    /\ lastSoc = None /\ lastTarget = None
    /\ windowBound = FALSE /\ slotBound = FALSE /\ slotTarget = None /\ released = FALSE
    /\ cycles = Zero
    /\ clamped = FALSE /\ outageHold = FALSE /\ follows = "unsure"
    /\ samples = Zero /\ capped = "no" /\ reached = None

Poll == PollReadsHigh \/ PollReadsBasicOnly \/ PollFails

World == PeriodBegins \/ DischargeConfirmed \/ PeriodEnds \/ TargetChanges

Next ==
    \/ Poll
    \/ World
    \/ RefreshFails
    \/ HoldExpires
    \/ \E by \in {"poll", "worker"} : \E bound \in Bound(by) :
          Decides(by, bound) \/ Misses(by, bound)
    \/ Suspends

Spec == Init /\ [][Next]_vars
----------------------------------------------------------------------------
(* Fairness                                                                *)

\* Polls come around and are evaluated; what is not readable is acted upon.
\* A tariff that moves again and again does not overtake every evaluation.
PollSpec ==
    /\ Spec
    /\ WF_vars(Poll) /\ WF_vars(Suspends)
    /\ SF_vars(\E bound \in BOOLEAN : bound \in Bound("poll") /\ Decides("poll", bound))

\* New HIGH values arrive, and a reset that is tried again and again is
\* acknowledged some day.
Readable ==
    /\ SF_vars(PollReadsHigh)
    /\ SF_vars(Decides("poll", FALSE) /\ follows' = "meter")
----------------------------------------------------------------------------
TypeOK ==
    /\ data \in Measurements \cup {None} /\ reading \in Measurements \cup {None, Missing}
    /\ seen \subseteq Counters /\ reads \in {"fine", "failing", "suspended"}
    /\ inside \subseteq Periods /\ target \in Targets
    /\ lastSoc \in Socs \cup {None} /\ lastTarget \in Targets \cup {None}
    /\ slotTarget \in Targets \cup {None} /\ reached \in Targets \cup {None}
    /\ {windowBound, slotBound, released, clamped, outageHold} \subseteq BOOLEAN
    /\ cycles \in [Counters -> 0..Cycles] /\ samples \in [Counters -> 0..Cycles]
    /\ follows \in {"meter", "hold", "pvHold", "charge", "price", "unsure"}
    /\ capped \in {"no", "yes", "lost"}

\* A counter never exceeds the number of measurements in a row that showed what
\* it counts: no sample is counted twice (_cycles_confirmed).
CountsMeasurements == \A c \in Counters : cycles[c] <= samples[c]

\* A cap that is in force is not given up by command: not in an evaluation that
\* still holds it, not by write errors during an outage and not by the outage
\* itself, unless its window or slot ends.
CapIsKept == capped = "yes" => follows \in {"hold", "pvHold", "unsure"}

\* The same for a cap whose last write failed before the SOC was lost: the
\* reason for the hold outlives a write error.
CapOutlivesWriteError == capped # "no" => follows \in {"hold", "pvHold", "unsure"}

\* Once the target was reached in a price slot, that slot charges no more,
\* whatever windows open and close over it and whatever happens to the SOC.
NoSecondChargeInSlot == follows = "price" => reached = None

\* A release lasts until the SOC falls below the target or rises, the target is
\* lowered, or charging was measured as often as the hysteresis demands.
ReleaseLasts ==
    [][released /\ ~released' =>
          \/ lastSoc' < target
          \/ lastTarget # None /\ target < lastTarget
          \/ lastSoc # None /\ lastSoc' > lastSoc
          \/ data'.sample = "charge" /\ samples["recharge"] >= Cycles - 1]_vars

\* A bound hold ends after its window, with or without a state of charge.
BoundHoldEndsWithPeriod ==
    []<>(~windowBound \/ inside # {} \/ follows \notin {"hold", "pvHold"})

\* Import that lasts releases the device-wide hold while the storage can be read:
\* the house is not supplied from the grid for ever beside a full battery.
LastingImportReleases ==
    LET imports(m) == m \notin {None, Missing} => m.soc >= target /\ m.sample = "import"
    IN  Readable => (<>[](inside = {} /\ reads = "fine" /\ imports(data) /\ imports(reading))
                        => []<>released)

\* No hold is for ever: one bound to a window ends with it, and the device-wide
\* one with import that lasts.
HoldsEnd == BoundHoldEndsWithPeriod /\ LastingImportReleases
============================================================================
