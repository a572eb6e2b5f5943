--------------------------- MODULE EconomicsBalance ---------------------------
(***************************************************************************)
(* What the poll books (coordinator.py, _accumulate_energy and             *)
(* _accumulate_economics; economics.py; domain/economics_accounting.py).   *)
(* A measured interval ends with a fresh sample of the HIGH block and      *)
(* begins with the one before it, unless that is too old.  Its energy is   *)
(* constant over the interval, its prices are those that were in force     *)
(* while it lasted: the tariff provider keeps the snapshots of tariff and  *)
(* price sensor from one measurement to the next.  Energy charged without  *)
(* a price goes to an inventory without value, and discharging it later    *)
(* earns nothing.                                                          *)
(*                                                                         *)
(* Time is counted in ticks, energy in units of one tick at unit power,    *)
(* prices in integers.  Tick t is the time between the instants t - 1      *)
(* and t.                                                                  *)
(***************************************************************************)
EXTENDS Integers, Sequences, SequencesExt, FiniteSetsExt

CONSTANTS LastStep,      \* the clock's bound
          MaxAge,        \* READ_BLOCK_EXT_HIGH_MAX_AGE, in ticks
          DayTicks,      \* the length of a calendar day
          Confirmations, \* INVENTORY_CORRECTION_IDLE_CONFIRMATIONS
          FixedPrices,   \* prices of fixed tariffs and price sensors
          DayPrices,     \* the price of each tick of the day, time of use
          FeedIn,        \* the feed-in price of an active tariff
          MaxHistory,    \* entries of _price_history
          NoValue           \* no price, no measured value, no instant

ASSUME BalanceBounds ==
    /\ LastStep \in Nat /\ MaxAge \in Nat \ {0} /\ DayTicks \in Nat \ {0}
    /\ Confirmations \in Nat \ {0} /\ MaxHistory \in Nat \ {0}
    /\ FixedPrices \subseteq Int /\ FeedIn \in Int
    /\ DayPrices \in [0..(DayTicks - 1) -> Int]
    /\ NoValue \notin Int

VARIABLES
    tick,            \* the clock
    tariffNow,       \* the options and the price sensor as they are now
    priceHistory,    \* _price_history: snapshots since the last measurement
    sampleAt,        \* _high_sample_time
    energyAt,        \* _energy_last_ts
    counters,        \* charged and discharged energy, by origin
    started,         \* the balance is activated (economics_started_at)
    money,           \* the sums of the balance
    highWater,       \* _economics_operating_result_high_water_eur
    moneyDay,        \* _economics_current_day
    dayResult,       \* _economics_current_day_operating_result_eur
    dayResults,      \* _economics_day_results, as a function of the day
    idleCount,       \* _economics_inventory_idle_confirmations
    dischargedSince, \* _economics_inventory_discharged_since_charge
    inForce,         \* history: the snapshot in force in each tick
    asItWas,         \* history: the sums from the prices of inForce
    earned,          \* history: what the polls of each day have added
    restRun          \* history: unbroken run of booked samples at rest

balVars == <<tick, tariffNow, priceHistory, sampleAt, energyAt, counters,
             started, money, highWater, moneyDay, dayResult, dayResults,
             idleCount, dischargedSince, inForce, asItWas, earned, restRun>>

-----------------------------------------------------------------------------
\* A snapshot of tariff and source: disabled, one price or an unavailable
\* one, or the daily profile.
Tariffs == [kind : {"off"}, price : {NoValue}]
           \cup [kind : {"single"}, price : FixedPrices \cup {NoValue}]
           \cup [kind : {"daily"}, price : {NoValue}]
Off == [kind |-> "off", price |-> NoValue]

DayOf(t) == (t - 1) \div DayTicks
Days == 0..DayOf(LastStep)

\* _quote_snapshot: the import price of a snapshot in a tick.
ImportPrice(snap, t) ==
    CASE snap.kind = "single" -> snap.price
      [] snap.kind = "daily" -> DayPrices[(t - 1) % DayTicks]
      [] OTHER -> NoValue

\* feed_in_price_eur_kwh: known whenever the tariff is active.
FeedInPrice(snap) == IF snap.kind = "off" THEN NoValue ELSE FeedIn

ZeroMoney == [grid |-> 0, pv |-> 0, avoided |-> 0, inventory |-> 0,
              pricedCharge |-> 0, unpricedCharge |-> 0,
              pricedDischarge |-> 0, unpricedDischarge |-> 0]
RawResult(m) == m.avoided - m.grid - m.pv

\* compute_charge_delta for one tick: what the grid delivers counts as grid
\* charge, the rest is PV; without a meter the origin is a fallback.
Flow(power, meter) ==
    LET charge == IF power < 0 THEN -power ELSE 0
        drawn == IF meter = NoValue \/ meter > charge THEN charge
                 ELSE IF meter > 0 THEN meter ELSE 0
    IN [charge |-> charge, grid |-> drawn, pv |-> charge - drawn,
        known |-> charge = 0 \/ meter # NoValue,
        discharge |-> IF power > 0 THEN power ELSE 0]

\* compute_economics_delta: the sums after a tick with this flow and prices.
\* The inventory without value is discharged first and earns nothing.
Valued(m, flow, import, feed) ==
    LET gridPriced == flow.known /\ import # NoValue
        pvPriced == flow.known /\ feed # NoValue
        priced == (IF gridPriced THEN flow.grid ELSE 0)
                  + (IF pvPriced THEN flow.pv ELSE 0)
        unpriced == flow.charge - priced
        consumed == IF flow.discharge < m.inventory THEN flow.discharge
                                                    ELSE m.inventory
        worth == flow.discharge - consumed
    IN [grid |-> m.grid + (IF gridPriced THEN flow.grid * import ELSE 0),
        pv |-> m.pv + (IF pvPriced THEN flow.pv * feed ELSE 0),
        avoided |-> m.avoided + (IF import # NoValue THEN worth * import ELSE 0),
        inventory |-> m.inventory + unpriced - consumed,
        pricedCharge |-> m.pricedCharge + priced,
        unpricedCharge |-> m.unpricedCharge + unpriced,
        pricedDischarge |-> m.pricedDischarge
                            + (IF import # NoValue THEN worth ELSE 0),
        unpricedDischarge |-> m.unpricedDischarge
                              + (IF import = NoValue THEN worth ELSE 0)]

\* compute_economics_interval: tick by tick, each with its own snapshot.
ValuedInterval(m, flow, from, to, snaps) ==
    LET after[t \in from..to] ==
            IF t = from THEN m
            ELSE Valued(after[t - 1], flow, ImportPrice(snaps[t], t),
                        FeedInPrice(snaps[t]))
    IN after[to]

-----------------------------------------------------------------------------
\* _price_history.

\* _observe: a changed snapshot is appended with its instant.
Observed(history, t, snap) ==
    IF Last(history).snap = snap THEN history
    ELSE Append(history, [at |-> t, snap |-> snap])

\* accounting_segments: the snapshot of tick t; before the first entry the
\* history is forgotten and the tick stays without a price.
SnapshotFrom(history, t) ==
    LET known == {i \in 1..Len(history) : history[i].at <= t - 1}
    IN IF known = {} THEN Off ELSE history[Max(known)].snap

\* Once the interval is priced, only the latest snapshot counts.
Consumed(history, t) == <<[at |-> t, snap |-> Last(history).snap]>>

-----------------------------------------------------------------------------
BalInit ==
    /\ tick = 0
    /\ tariffNow = Off
    /\ priceHistory = <<[at |-> 0, snap |-> Off]>>
    /\ sampleAt = NoValue /\ energyAt = NoValue
    /\ counters = [charged |-> 0, discharged |-> 0, grid |-> 0, pv |-> 0]
    /\ started = FALSE
    /\ money = ZeroMoney /\ highWater = 0
    /\ moneyDay = NoValue /\ dayResult = 0
    /\ dayResults = [d \in Days |-> NoValue]
    /\ idleCount = 0 /\ dischargedSince = FALSE
    /\ inForce = [t \in 1..LastStep |-> Off]
    /\ asItWas = ZeroMoney
    /\ earned = [d \in Days |-> 0]
    /\ restRun = 0

\* New options or a new state of the price sensor.
ChangeTariff ==
    /\ tick < LastStep
    /\ tariffNow' \in Tariffs \ {tariffNow}
    /\ Len(priceHistory) < MaxHistory
    /\ priceHistory' = Observed(priceHistory, tick, tariffNow')
    /\ UNCHANGED <<tick, sampleAt, energyAt, counters, started, money,
                   highWater, moneyDay, dayResult, dayResults, idleCount,
                   dischargedSince, inForce, asItWas, earned, restRun>>

-----------------------------------------------------------------------------
\* One poll: the clock advances by a tick, with or without a fresh sample.

\* _battery_energy_interval: the ticks that a fresh sample closes.
\* A slip: an interval may bridge any gap.
MeasuredLong(now) == IF energyAt = NoValue THEN 0 ELSE now - energyAt
Measured(now) ==
    IF energyAt = NoValue \/ now - energyAt > MaxAge THEN 0 ELSE now - energyAt

\* _start_economics_day and _close_economics_day, before the interval.
NewDay(now) == moneyDay # DayOf(now)

\* _advance_economics_day: the closed day keeps what it had, the interval
\* belongs to the day in which it ends.
AdvanceDay(m, mAfter, now) ==
    /\ moneyDay' = DayOf(now)
    /\ dayResults' = IF NewDay(now) /\ moneyDay # NoValue
                     THEN [dayResults EXCEPT ![moneyDay] = dayResult]
                     ELSE dayResults
    /\ dayResult' = (IF NewDay(now) THEN 0 ELSE dayResult)
                    + RawResult(mAfter) - RawResult(m)

\* The confirmations of a standstill: a gap starts them anew.
IdleAfter(power, length) ==
    LET before == IF length = 0 THEN 0 ELSE idleCount
    IN IF power # 0 THEN 0
       ELSE IF before < Confirmations THEN before + 1 ELSE before

\* History: the samples at rest since the last motion or gap that was booked.
RestAfter(power, length) ==
    IF power # 0 THEN 0 ELSE IF length = 0 THEN 1 ELSE restRun + 1

\* min_soc_inventory_correction and capacity_inventory_correction on a
\* confirmed standstill: nothing usable is left at the minimum, and there is
\* never more than the battery can hold at its state of charge.
Corrected(m, idle, discharged, atMinimum, content) ==
    LET atFloor == IF discharged /\ atMinimum THEN 0 ELSE m.inventory
        capped == IF content # NoValue /\ atFloor > content THEN content
                                                         ELSE atFloor
    IN IF idle < Confirmations THEN m ELSE [m EXCEPT !.inventory = capped]

\* _bootstrap_economics_if_ready.
StartedBy(snap) == started \/ snap.kind # "off"

\* The balance's part of a poll: skipped as a whole if it raises, and what the
\* sample said of motion and rest with it.
BookMoney(flow, power, length, now, atMinimum, content) ==
    LET from == now - length
        history == Observed(priceHistory, now, tariffNow)
        booked == ValuedInterval(money, flow, from, now,
                                 [t \in (from + 1)..now |-> SnapshotFrom(history, t)])
        idle == IdleAfter(power, length)
        discharged == IF power < 0 THEN FALSE
                      ELSE IF power > 0 THEN TRUE ELSE dischargedSince
        after == Corrected(booked, idle, discharged, atMinimum, content)
        true == ValuedInterval(asItWas, flow, from, now,
                               [inForce EXCEPT ![now] = tariffNow])
    IN /\ started' = StartedBy(tariffNow)
       /\ IF started'
          THEN /\ money' = after
               /\ highWater' = Max({0, highWater, RawResult(booked)})
               /\ AdvanceDay(money, booked, now)
               /\ idleCount' = idle
               /\ dischargedSince' =
                    (discharged /\ ~(idle >= Confirmations /\ discharged
                                     /\ atMinimum /\ booked.inventory > 0))
               /\ asItWas' = [true EXCEPT !.inventory = after.inventory]
               /\ earned' = [earned EXCEPT ![DayOf(now)] =
                               @ + RawResult(booked) - RawResult(money)]
          ELSE UNCHANGED <<money, highWater, moneyDay, dayResult, dayResults,
                           idleCount, dischargedSince, asItWas, earned>>

SkipMoney ==
    UNCHANGED <<started, money, highWater, moneyDay, dayResult, dayResults,
                idleCount, dischargedSince, asItWas, earned>>

\* What the standstill of a sample says: nothing, the state of charge at
\* its minimum, or room for one unit.  It is read at rest only.
Levels == {[atMinimum |-> FALSE, content |-> NoValue],
           [atMinimum |-> TRUE, content |-> NoValue],
           [atMinimum |-> FALSE, content |-> 1]}

\* A fresh sample: its energy is counted and valued.
FreshPoll ==
    /\ tick < LastStep
    /\ \E power \in {-1, 0, 1}, meter \in {NoValue, 0, 1}, level \in Levels,
          fails \in BOOLEAN :
         LET now == tick + 1
             length == Measured(now)
             flow == Flow(power, meter)
         IN /\ meter # NoValue => power < 0
            /\ power # 0 \/ fails => level = [atMinimum |-> FALSE, content |-> NoValue]
            /\ tick' = now
            /\ sampleAt' = now /\ energyAt' = now
            /\ counters' = [charged |-> counters.charged + length * flow.charge,
                            discharged |-> counters.discharged
                                           + length * flow.discharge,
                            grid |-> counters.grid + length * flow.grid,
                            pv |-> counters.pv + length * flow.pv]
            /\ inForce' = [inForce EXCEPT ![now] = tariffNow]
            /\ restRun' = IF fails THEN restRun ELSE RestAfter(power, length)
            /\ priceHistory' = Consumed(Observed(priceHistory, now, tariffNow),
                                        now)
            /\ IF fails THEN SkipMoney
               ELSE BookMoney(flow, power, length, now, level.atMinimum,
                              level.content)
    /\ UNCHANGED tariffNow

\* A cached refresh: nothing is measured, the snapshots wait.  Once the
\* sample is too old the interval is given up.  The balance's part may raise,
\* too: then only the energy's interval is given up.
StalePoll ==
    /\ tick < LastStep
    /\ \E lost \in BOOLEAN, fails \in BOOLEAN :
         LET now == tick + 1
             gone == lost \/ sampleAt = NoValue \/ now - sampleAt > MaxAge
         IN /\ tick' = now
            /\ energyAt' = IF gone THEN NoValue ELSE energyAt
            /\ inForce' = [inForce EXCEPT ![now] = tariffNow]
            /\ restRun' = IF gone /\ ~fails THEN 0 ELSE restRun
            /\ LET history == Observed(priceHistory, now, tariffNow)
               IN priceHistory' = IF gone THEN Consumed(history, now)
                                          ELSE priceHistory
            /\ IF fails
               THEN UNCHANGED <<started, moneyDay, dayResult, dayResults>>
               ELSE /\ started' = StartedBy(tariffNow)
                    /\ IF started'
                       THEN AdvanceDay(money, money, now)
                       ELSE UNCHANGED <<moneyDay, dayResult, dayResults>>
            /\ idleCount' = IF gone /\ started' /\ ~fails THEN 0 ELSE idleCount
    /\ UNCHANGED <<tariffNow, sampleAt, counters, money, highWater,
                   dischargedSince, asItWas, earned>>

Ended == tick = LastStep /\ UNCHANGED balVars

BalNext == ChangeTariff \/ FreshPoll \/ StalePoll \/ Ended

BalSpec == BalInit /\ [][BalNext]_balVars

-----------------------------------------------------------------------------
BalTypeOK ==
    /\ tick \in 0..LastStep /\ tariffNow \in Tariffs
    /\ priceHistory \in Seq([at : 0..LastStep, snap : Tariffs])
    /\ priceHistory # <<>>
    /\ sampleAt \in 0..LastStep \cup {NoValue}
    /\ energyAt \in {sampleAt, NoValue}
    /\ started \in BOOLEAN /\ dischargedSince \in BOOLEAN
    /\ money \in [DOMAIN ZeroMoney -> Int]
    /\ highWater \in Nat /\ dayResult \in Int
    /\ moneyDay \in Days \cup {NoValue}
    /\ dayResults \in [Days -> Int \cup {NoValue}]
    /\ idleCount \in 0..Confirmations

\* Every unit is valued at the prices that were in force while it flowed,
\* whatever changed between two measurements and however late it was seen.
PricedAsItWas == money = asItWas

\* The sums account for the energy once: what was discharged without value
\* is what was charged without a price, minus what is still there.
NothingInvented ==
    /\ money.inventory >= 0
    /\ money.inventory <= money.unpricedCharge
    /\ money.pricedCharge + money.unpricedCharge <= counters.charged
    /\ money.pricedDischarge + money.unpricedDischarge <= counters.discharged
    /\ counters.charged = counters.grid + counters.pv

\* A closed day keeps exactly what its own polls have added, the open day
\* what has been added since it began.
DaysAddUp ==
    started => /\ moneyDay # NoValue => dayResult = earned[moneyDay]
               /\ \A d \in Days : dayResults[d] # NoValue
                                  => dayResults[d] = earned[d]

\* The inventory is corrected only at rest: it falls by more than what was
\* discharged only after enough booked measurements at rest, with no booked
\* motion or gap between them.  What a failed poll saw does not count.
CorrectedAtRest ==
    [][ money'.inventory < money.inventory
        => \/ counters'.discharged > counters.discharged
           \/ restRun' >= Confirmations ]_balVars

\* No interval reaches back over a gap: a poll counts at most MaxAge ticks
\* of energy.
NoBridgedGap ==
    [][ counters'.charged + counters'.discharged
        - counters.charged - counters.discharged <= MaxAge ]_balVars

\* Every unit is valued once, at the price of its time, and on the right day.
BalanceIsTrue ==
    /\ []PricedAsItWas /\ []NothingInvented /\ []DaysAddUp
    /\ CorrectedAtRest /\ NoBridgedGap
===============================================================================
