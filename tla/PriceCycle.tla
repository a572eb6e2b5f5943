----------------------------- MODULE PriceCycle ----------------------------
(***************************************************************************)
(* The time budget of charging by the price (REQ-DYNAMIC-PRICE-CHARGE,     *)
(* price_optimizer.SaxPricePlanner and infrastructure/price_plan_store):   *)
(* in a cycle of fixed length the relative strategy charges the configured *)
(* number of cheapest hours, the smart one no more than the battery needs. *)
(* The plan is made anew every minute, and a restart continues the cycle.  *)
(*                                                                         *)
(* Hours stand for moments, and a selection is a set of hours.  Which of   *)
(* the known prices are the lowest is left open (PriceSlots chooses).  The *)
(* clock does not run backwards, and a delayed save, which takes seconds,  *)
(* is over before the hour is.  The strategy "off" stands for everything   *)
(* without a budget: switched off, an absolute limit, no price sensor.     *)
(***************************************************************************)
EXTENDS Integers, FiniteSets

CONSTANTS
    Horizon,    \* const.PRICE_PLAN_HORIZON_HOURS
    MaxHours,   \* const.MAX_PRICE_HOURS
    LastHour,   \* bound: the clock stops here
    Needs,      \* of hours to charge, or
    Unknown     \* that none can be worked out

ASSUME HorizonAssumption ==
    /\ Horizon \in Nat \ {0} /\ MaxHours \in 1..Horizon
    /\ LastHour \in Nat /\ Unknown \notin Nat /\ Needs \subseteq Nat \cup {Unknown}
\* Unknown stands for None, which is no pair of a slider and a need.
ASSUME UnknownIsNoInput == \A h \in 1..MaxHours, n \in Needs : Unknown # <<h, n>>

VARIABLES
    hour,
    running,        \* the planner is set up
    strategy, hours,    \* the user's settings, price_charge_hours
    need,           \* _smart_required_hours of the battery's data
    cycle,          \* _cycle_state
    plan,           \* the hours of plan.slots
    storedCycle,         \* the cycle in the store's file
    due,            \* something changed since the last evaluation
    \* History, read by the properties only.
    began,          \* the first cycle since the user last chose the strategy
    used,           \* how many hours of this cycle charging was permitted in
    most,           \* the largest budget the user had in it
    steady,         \* hours, and the need if it matters, did not change in it
    whole           \* it ran, is relative, and knew prices enough, from its beginning

cycleVars == <<hour, running, strategy, hours, need, cycle, plan, storedCycle, due,
               began, used, most, steady, whole>>
ours == <<began, used, most, steady, whole>>

Strategies == {"off", "relative", "smart"}
Sliders == 1..MaxHours
NoCycle == [anchor |-> -1, strategy |-> "off", budget |-> 0, picked |-> {},
            inputs |-> Unknown]
NeverBegan == [at |-> -1, strategy |-> "off"]

Lesser(a, b) == IF a < b THEN a ELSE b
Greater(a, b) == IF a < b THEN b ELSE a
Ends(c) == c.anchor + Horizon

-----------------------------------------------------------------------------
(* The budget                                                               *)

\* The slider limits the smart strategy, too.
Wanted(h) == IF need = Unknown THEN h ELSE Lesser(h, need)

\* _smart_budget_inputs
Inputs(s, h) == IF s = "smart" THEN <<h, need>> ELSE Unknown

\* _new_cycle, _initial_budget
NewCycle(at, s, h) ==
    [anchor |-> at, strategy |-> s, budget |-> IF s = "smart" THEN Wanted(h) ELSE h,
     picked |-> {}, inputs |-> Inputs(s, h)]

\* _active_cycle.
Active(c, s, h) ==
    IF c # NoCycle /\ c.strategy = s /\ c.anchor <= hour
    THEN IF hour < Ends(c) THEN c
         ELSE NewCycle(c.anchor + ((hour - c.anchor) \div Horizon) * Horizon, s, h)
    ELSE NewCycle(hour, s, h)

\* What counts as used.
\* A slip: an hour counts when it begins.
ElapsedWithNow(c) == {t \in c.picked : t <= hour}
Elapsed(c) == {t \in c.picked : t < hour}

\* _updated_budget.
Budget(c, s, h) ==
    IF s = "relative" THEN h
    ELSE IF c.inputs = Inputs(s, h) THEN c.budget
    ELSE Lesser(h, Cardinality(Elapsed(c)) + Wanted(h))

\* How many hours compute_plan chooses, at most.
ToChoose(c, s, h) ==
    Lesser(IF s = "smart" THEN Wanted(h) ELSE h,
           Greater(0, Budget(c, s, h) - Cardinality(Elapsed(c))))

\* The slots compute_plan looks at; the plan of a cycle ends with it.
Candidates(c) == hour..(Ends(c) - 1)

-----------------------------------------------------------------------------
(* One evaluation: evaluate, _evaluate_price_charge, _compute_budgeted_plan *)

\* History: the cycle as the user knows it.
Reckons(s, h, complete, c) ==
    IF s # "off" /\ began.strategy = s
    THEN /\ most' = Greater(most, h) /\ UNCHANGED <<began, used>>
         /\ steady' = (steady /\ h = hours) /\ whole' = (whole /\ complete)
    ELSE /\ began' = IF s = "off" THEN NeverBegan ELSE [at |-> c.anchor, strategy |-> s]
         /\ used' = 0 /\ most' = h /\ steady' = TRUE
         /\ whole' = (s = "relative" /\ hour = c.anchor /\ complete)

\* What is past stays in the selection.
Kept(c, chosen) == Elapsed(c) \cup chosen

\* Prices may be known for fewer hours than wanted.
Evaluates(before, s, h) ==
    /\ strategy' = s /\ hours' = h /\ due' = FALSE
    /\ IF s = "off" THEN cycle' = NoCycle /\ plan' = {} /\ Reckons(s, h, FALSE, NoCycle)
       ELSE LET c == Active(before, s, h)
                n == ToChoose(c, s, h)
            IN  /\ plan' \in SUBSET Candidates(c) /\ Cardinality(plan') <= n
                /\ cycle' = [c EXCEPT !.budget = Budget(c, s, h), !.picked = Kept(c, plan'),
                                      !.inputs = Inputs(s, h)]
                /\ Reckons(s, h, Cardinality(plan') = Lesser(n, Cardinality(Candidates(c))), c)

\* The timer, a changed price or forecast, a boundary of a slot.
Replans == running /\ Evaluates(cycle, strategy, hours) /\ UNCHANGED <<hour, running, need, storedCycle>>

\* A setter evaluates before it returns.
SetsPrices ==
    /\ running
    /\ \/ \E s \in Strategies \ {strategy} : Evaluates(cycle, s, hours)
       \/ \E h \in Sliders \ {hours} : Evaluates(cycle, strategy, h)
    /\ UNCHANGED <<hour, running, need, storedCycle>>

\* The battery's data or the forecast; the timer notices it within a minute.
NeedChanges ==
    /\ need' \in Needs \ {need} /\ due' = TRUE /\ steady' = (steady /\ strategy # "smart")
    /\ UNCHANGED <<hour, running, strategy, hours, cycle, plan, storedCycle,
                   began, used, most, whole>>

-----------------------------------------------------------------------------
(* The store, restarts, and the clock                                       *)

\* _deserialize: anything else begins a new cycle.
Valid(c) ==
    /\ c # NoCycle => c.budget \in 0..MaxHours
    /\ \A t \in c.picked : c.anchor <= t /\ t < Ends(c)
    /\ (c.inputs # Unknown) <=> (c.strategy = "smart")
Deserialized(c) == IF Valid(c) THEN c ELSE NoCycle

SavesCycle ==
    /\ running /\ storedCycle # cycle /\ storedCycle' = cycle
    /\ UNCHANGED <<hour, running, strategy, hours, need, cycle, plan, due, ours>>

\* Unloaded, which saves the cycle, or the process dies.
\* History: a choice that was not saved is one of the next start.
GoesDown ==
    /\ running /\ running' = FALSE /\ storedCycle' \in {storedCycle, cycle}
    /\ cycle' = NoCycle /\ plan' = {} /\ due' = FALSE /\ whole' = FALSE
    /\ IF began.at = hour /\ storedCycle' # cycle
       THEN began' = NeverBegan /\ used' = 0 /\ most' = hours /\ steady' = TRUE
       ELSE UNCHANGED <<began, used, most, steady>>
    /\ UNCHANGED <<hour, strategy, hours, need>>

\* async_load_cycle_state comes before the first evaluation, in async_setup.
LoadedCycle == Deserialized(storedCycle)

ComesUp ==
    /\ ~running /\ running' = TRUE
    /\ Evaluates(LoadedCycle, strategy, hours)
    /\ UNCHANGED <<hour, need, storedCycle>>

Charged == IF hour \in plan THEN used + 1 ELSE used

\* An hour passes, charging if it is selected (plan_at).
HourPasses ==
    /\ hour < LastHour /\ hour' = hour + 1
    /\ ~due /\ (running => storedCycle = cycle)
    /\ due' = running
    /\ IF began # NeverBegan /\ (hour' - began.at) % Horizon = 0
       THEN used' = 0 /\ most' = hours /\ steady' = TRUE /\ whole' = (running /\ strategy = "relative")
       ELSE used' = Charged
            /\ UNCHANGED <<most, steady, whole>>
    /\ UNCHANGED <<running, strategy, hours, need, cycle, plan, storedCycle, began>>

-----------------------------------------------------------------------------
CycleInit ==
    /\ hour = 0 /\ running = FALSE /\ strategy = "off" /\ hours \in Sliders
    /\ need \in Needs /\ cycle = NoCycle /\ plan = {} /\ storedCycle = NoCycle /\ due = FALSE
    /\ began = NeverBegan /\ used = 0 /\ most = hours /\ steady = TRUE /\ whole = FALSE

CycleNext ==
    \/ Replans \/ SetsPrices \/ NeedChanges
    \/ SavesCycle \/ GoesDown \/ ComesUp \/ HourPasses

CycleSpec == CycleInit /\ [][CycleNext]_cycleVars

-----------------------------------------------------------------------------
\* The types; what is stored is what a load accepts.
CycleTypeOK ==
    /\ hour \in 0..LastHour /\ hours \in Sliders /\ strategy \in Strategies
    /\ {running, due, steady, whole} \subseteq BOOLEAN /\ need \in Needs
    /\ Valid(cycle) /\ Valid(storedCycle)
    /\ plan \subseteq cycle.picked /\ used \in Nat
    /\ most \in Sliders

\* However often the plan is made anew, prices come and go or the program
\* restarts: within one cycle no more hours are charged than the user allowed
\* at some time in it.
BudgetIsKept == began # NeverBegan => used <= most

\* The smart strategy does not buy the same need twice.
NeedIsMetOnce ==
    began.strategy = "smart" /\ steady /\ need # Unknown => used <= need

\* The cycle renews itself at the hour of the day at which the user chose the
\* strategy, however late it is evaluated and however long it was down.
CycleKeepsItsHour ==
    cycle # NoCycle => (cycle.anchor - began.at) % Horizon = 0

\* Nor is the user sold short: where prices enough are known and the program
\* runs, all hours allowed are charged by the end of a cycle.
BudgetIsSpent ==
    [][began # NeverBegan /\ whole /\ steady
        /\ hour' # hour /\ (hour' - began.at) % Horizon = 0
        => Charged = hours]_cycleVars

\* A cycle charges the hours the user allowed, not more and not less, and begins
\* at its hour.
CycleIsFair == []BudgetIsKept /\ []NeedIsMetOnce /\ []CycleKeepsItsHour /\ BudgetIsSpent
=============================================================================
