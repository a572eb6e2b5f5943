# Formal models of the SAX Power integration

The repository is a Home Assistant integration for a battery storage with a
Modbus interface.  It measures, it accounts for energy and money, and above all
it decides when the storage charges from the grid, when it holds, and when it is
left to its own smart-meter regulation.  The TLA+ modules here model the parts of
`custom_components/sax_power` in which order and failure matter; TLC checks them
on small instances, TLAPS proves what matters most for every instance.

All paths below are relative to `src/custom_components/sax_power/`; line numbers
without a file are those of `coordinator.py`.

## 1. Inventory

Everything runs in one asyncio event loop: what lies between two awaits is atomic,
and every await is a place where another task may run.

| Component | State | Operations | Hard about it | What makes it correct |
|---|---|---|---|---|
| Immediate Controls writer (4003-4552) | the task, its power and kind, the open reset, the commanded and the last observed mode | start or update, refresh, cancel, stop, roll back | two registers, each write may fail, be executed without an answer or be cancelled in flight; several callers | one sequence at a time; a setpoint mode is never forgotten; a stop tells the truth |
| Charge-control lock and its users (751-814, 3898-3973, 5318-5442, 5638-6290) | the manual order, the permission of the running charge, the failure of the last reading | poll, configuration worker, start and stop service, unload | decisions outdated by the time they are written | no charge without SOC or permission; services return |
| Transport gate (3256-3316), storage switch | one lock, the shutdown flags | write a register | queued writes at unload | silence after the final gate |
| Calibration (`application/calibration.py`) | time of the last full charge, whether the last reading was full | evaluate, save, load | edges, calendar days, restarts, lost saves | limit lifted only when due, until full, and eventually |
| Charge policy and maximum-SOC hold (`application/charge_policy.py`, 5940-6222) | hold, what it is bound to, release latch, hysteresis counters | one decision per evaluation | priorities and latches over changing windows | priority order; a hold ends when and only when it should |
| Grid-serving step machine (6292-6432) | setpoint flag, wait cycles, confirmation counters | step, interruption by another use | a wait cut in two by other uses; failed writes | the wait is served in full; no orphaned zero |
| Timed charge window, fixed-time charge | armed latch per window, date of the last run | arm, disarm, persist, restore | restart inside a window | at most one arming per window |
| Timed discharge hold (4838-4994) | proof, expiry | confirm, activate, expire | persistence before activation | the hold never outlives its window |
| Bridge charge (`application/bridge_session.py`, `domain/bridge_charge.py`) | session, plan, waiting reason | plan, start, pause, wait | stale measurements, lapsed forecast | no charge on a stale plan |
| Control store and bootstrap (3465-3860) | all settings, unresolved fields, delayed save | load, migrate, finish, save, flush | restart between migration and first save | no setting is lost or overwritten by a partial state |
| Setters, window conflicts (4996-5298, 5505-5632, 6446-6805) | windows, months, modes | validated changes | overlap by month and across midnight | no two charge windows overlap |
| Energy and economics (1136-2880, `infrastructure/*_store.py`) | counters, inventory, day, main file and backup | accumulate, close a day, save, restore | gaps, damaged files, older backups | nothing counted twice |
| Price planner (`price_optimizer.py`) | plan, cycle state, slots | evaluate, refresh, persist | cycle boundaries, price gaps | the chosen slots of a cycle stay within its budget |
| Tariff (`domain/tariff.py`, `application/tariff_*.py`) | none | windows, prices | seasons, midnight | agrees with its definition |
| SunSpec decoding, entities, config flow, dashboard, diagnostics | caches only | conversions, presentation | widths and scale factors | conversions are right |

The interactions that matter: the poll, the configuration worker, the services and
the unload take the charge-control lock and call one evaluation
(`_async_enforce_grid_charge_locked`); the evaluation starts or stops the writer;
the writer takes the control lock itself for charges with a deadline and for the
PV hold, and in any case the Immediate Controls lock for a sequence and the
transport lock for each request.  A tariff change is only a pair of revision
numbers that everybody compares when its turn comes.

The list `hazards` in `PROJECT.json` names, at its line, each behaviour that a
test would hardly reach; the properties below are aimed at it.

## 2. What is modelled

| Module | Component | Proofs in | Checked in |
|---|---|---|---|
| `SunCharge` | writer, charge-control lock and its users, transport gate | `SunChargeProofs` | `MCSunCharge` |
| `MaxSocHold` | charge policy: the hold at the maximum SOC | `MaxSocHoldProofs` | `MCMaxSocHold` |
| `Calibration` | calibration cycle | `CycleProofs` | `MCPromises` |
| `GridServing` | grid-serving step machine | `GridServingProofs` | `MCPromises`, `MCGridServing` |
| `ControlStore`, `DurableSetting` | control store and bootstrap, and what it promises | `ControlStoreProofs` | `MCPromises` |
| `EconomicsStore` | the two files of the balance | `AccountsProofs` | `MCPromises` |
| `EnergyCounters` | energy counters and their file | `AccountsProofs` | `MCPolicies` |
| `EconomicsStatus` | price availability and status | `AccountsProofs` | `MCPolicies` |
| `EconomicsBalance` | accounting of money | `AccountsProofs` | `MCPolicies` |
| `ChargeWindows`, `ChargeSwitches` | setters, window and automation conflicts | `SettersProofs` | `MCPolicies` |
| `TimedWindow` | timed charge window and discharge hold | `TimedChargeProofs` | `MCClocks` |
| `FixedTimeCharge` | fixed-time charge | `TimedChargeProofs` | `MCPolicies` |
| `BridgeSession` | bridge charge: the session | `TimedChargeProofs` | `MCPolicies` |
| `BridgePlan` | bridge charge: the choice of the plan | `TimedChargeProofs` | `MCPolicies` |
| `PriceCycle` | price planner: the budget of a cycle | `CycleProofs` | `MCClocks` |
| `PriceSlots` | price planner: the choice of slots | `CycleProofs` | `MCPolicies` |
| `Setpoint` | conversion of the power setpoint | `GridServingProofs` | `MCPolicies` |

`MCPromises`, `MCPolicies` and `MCClocks` run machines *side by side*: they share no
state in the model, so a behaviour picks one (`part`) and the others rest.  That is
three TLC runs instead of sixteen; it composes nothing, and what the machines share in the
code (the storage, the evaluation) is the subject of `SunCharge` and `MaxSocHold`.

A definition whose name says what it gets wrong (`...Forgotten`, `...Anyway`,
`...Late`), marked "a slip", is not part of a specification: see section 4.

### `SunCharge` - the writer and everybody who drives it

Three processes: `control` is whoever runs under the charge-control lock (`ctl`
says on whose behalf), `writer` is the background task, `basic` the storage
switch, which shares only the transport.

| Model | Code |
|---|---|
| `ctl`, `ic`, `bus` | `_charge_control_lock`, `_sun_charge_write_lock`, `_write_lock` |
| `task`, `sunPower`, `hold` | `_sun_charge_task is not None`, `_sun_charge_power`, `_sun_charge_timed_discharge` |
| `reset`, `commanded`, `observed`, `cached` | `_sun_charge_reset_required`, `_sun_charge_commanded_mode`, `_last_observed_ic_control_mode`, `data["ic_control_mode"]` |
| `acked` | the command revision moved during this evaluation |
| `manual`, `saved` | `_grid_charge_power`, `previous_power` of a running service |
| `permit` | which deadline, or the fixed-time flag, the charge rests on |
| `stale`, `due` | tariff revisions differ; the worker has something to apply |
| `basicFailed` | `_basic_read_failed or _charge_soc_unavailable` |
| `dev`, `unknown` | the registers 40051 and 40049; history: mode 1 may be there without an acknowledgement |

A request is two steps: queued (`...Q`) for the transport lock and its gate, then in
flight (`...F`), where it ends answered (executed and acknowledged) or not (executed
or not, timeout or error).  A sequence is `mode`, `set`, and on any failure or lost
permission `back`; a reset is `zero`.  Each is one action per await of the code:
`EntersSequence`, `Sends`, `ModeAcked` / `ModeFails`, `SetpointAcked` /
`SetpointFails`, `RollbackAcked` / `RollbackFails`, `ResetAcked` / `ResetFails`.

Cancelling the writer (4324-4333) kills it at whatever await it stands
(`CancelWriter`): its locks are released, a request in flight may still be executed.
A transport may also report the cancelled request as an error; then the writer
still rolls its mode write back while the canceller waits (`CancelRollsBack`,
`CancelEnds`).  The comment at 4372-4374 and `tests/test_manual_stop_response.py`
are about this case.

One evaluation is `Begins` (shutdown check, reconcile of the tariff, SOC check,
readback) and then `Suspends`, `DecidesLate`, `DecidesStart` or `DecidesStop`,
followed by `Starts` (4234-4309) or `Stops` (4335-4391), and `Leaves`.  What the
policy would decide now is `plan`; it changes at any time and so stands for the
clock, the SOC, the prices and the settings.

Abstractions: what the policy decides is chosen by the environment.  The bridge
deadline behaves like the tariff window's (`window`).  A new deadline of the same
kind is a nondeterministic cancel.  Reads of a poll are one step; each poll reads
the storage (there is no two-second cache); a block that could not be read yields
`None`.  The locks are granted in any order; the two places where asyncio's
first-in, first-out order matters are fairness assumptions.  An answered request
is executed and acknowledged in one step.  Missing scale factors are a
nondeterministic failure on entering a sequence with a charging power.

Left out: the grid-serving step inside one evaluation, the price pause (a zero
setpoint below a manual order), `async_shutdown(reset_device=False)`, options that
change without a revision (5900-5916), the pending bootstrap.

### `Calibration` - the periodic full charge

`NextSchedule` and `CalibrationActive` are `evaluate_calibration`; `Evaluate` is
`_async_update_cell_calibration` with a save that may fail; `Restart` loads what
was saved, or nothing when the store cannot be read.  Time is counted in ticks, a
fixed number of them to a local calendar day.  A user limit of `None` is the limit
100.

### `MaxSocHold` - the hold at the maximum SOC

What a charge-control evaluation does once the battery is full enough (6018-6174),
and what happens to the hold when the SOC cannot be read (5399-5481).

| Model | Code |
|---|---|
| `data` | `self.data`: the measurement of the last finished poll |
| `reading` | what a poll has read (751-757) before it gets the control lock |
| `seen` | the counters whose entry in `_cycle_sample_revisions` is `_high_sample_revision` |
| `reads` | `_basic_read_failed or _charge_soc_unavailable`, and whether the suspension has run |
| `inside` | which of the timed window, the grid-serving window, the price slot and the confirmed discharge hold are on |
| `target` | `effective_max_soc` |
| `windowBound`, `slotBound`, `slotTarget` | `_max_soc_hold_is_window_bound`, `_max_soc_hold_is_price_slot_bound`, `_max_soc_price_slot_target` |
| `released` | `_max_soc_released_for_discharge` |
| `cycles` | `_max_soc_grid_import_wait_cycles`, `_max_soc_recharge_confirm_cycles` |
| `clamped`, `outageHold` | `_max_soc_clamped`, `_max_soc_hold_during_basic_outage` |
| `follows` | what the last command makes the storage do; `unsure` after a failed write |

One evaluation is one action, named for the branch it takes: `HoldInPeriod`
(6063-6093), `BoundHoldEnds` (6094-6110), `ReleaseGoesOn` and `ReleaseTakenBack`
(6121-6147), `HoldGoesOn` and `ImportReleases` (6148-6173), `NoHold` (6175-6238);
`Overtaken` and `OptionsMoved` leave before the decision (5894-5916).  Evaluations
exclude each other by the charge-control lock.  A poll reads before it asks for that
lock, so `PollReadsHigh`, which moves the sample revision (3188), is an action of its
own, and an evaluation of somebody else may come between it and the poll's.
`Suspends` is the evaluation without SOC, `RefreshFails` and `HoldExpires` are the
background writer (4541-4551, 4496-4525).

History variables, which no action reads: `samples` (measurements in a row that
showed what a counter counts), `capped` (whether the cap is in force), `reached`
(the target reached in the running price slot).

Abstractions: the smart meter and the battery show import, charging or neither; the
thresholds of 50 W are in that classification.  A write is acknowledged or not, in
one step: `SunCharge` has the detail.  A start or stop may fail here even where the
code would find nothing to write.  Which of the lower priorities comes into play
below the target (manual order, fixed time, window, grid-serving step, pause) is a
nondeterministic choice, `Uses`.  A tariff source that no longer matches counts as
the timed window being over.  The calibration, which lifts the target, is one of the
ways it changes.  Left out: restarts, which lose this state altogether, shutdown and
bootstrap, and a user who switches the discharge hold's options under it.

### `GridServing` - the pause for the grid's sake

| Model | Code |
|---|---|
| `held`, `wait` | `_grid_serving_setpoint_active`, `_grid_serving_wait_cycles` |
| `rounds` | `_grid_serving_{charge,import,release}_confirm_cycles` |
| `shown`, `arrived` | `self.data`; what a poll has read and not yet evaluated |
| `counted` | counters whose recorded revision is `_high_sample_revision` |
| `storage` | what the last command makes the storage do |
| `turn` | what the policy lets come into play: the pause, a manual order, others |

`Step` is `_async_apply_grid_serving_step` with the writes it makes, which may fail;
`PollEvaluates` and `WorkerEvaluates` are the two who call it.  `since` and `row` are
history: HIGH blocks read since the pause began, and measurements of import in a row.

### `TimedWindow` - the daily window and the discharge hold it earns

Two latches outlive restarts, each with a store of its own: the release to charge
(`armed`, `window`; `believed` is `_timed_charge_persisted_state`, `disk` the file) and
the discharge hold (`hold`, `last`; `pending`, `saved`, `holdDisk`).  One evaluation is
one action, which meets a SOC class, a HIGH block (`Blocks`) and the outcomes of its
saves; a restart loses what is not on disk.  A write may be lost although it seemed to
succeed, fail, or reach the file and then fail to be read back (`Readback`).
History: `lows` (windows in which the minimum was seen), `shownRow` (blocks in a row
that showed the charge), `latched` and `proven` (what was confirmed stored).

### `FixedTimeCharge` - one charge a day

`mark` is `_fixed_time_charge_state`, `savedMark` and `markFile` its persisted copy and
the store, `dailyStage` the step of the evaluation that holds the control lock.
`Prepares` is `_async_prepare_fixed_time_charge`; saving takes time, in which the
writer goes on, settings change or the process dies.  A day has no change of the clock,
and a stop succeeds.  Two things the model shows about the code: a mark of any earlier
day that is not completed is resumed, and when a readback fails after the write the
file may be cleared beside a completed mark, so that the next start charges again on
the same day (`MarkReadback` excludes the latter in the run; section 5).

### `BridgeSession` and `BridgePlan` - charging until PV starts

`BridgeSession` is `BridgeChargeSession` (`FinishIfDue`, `WaitForData`, `Prepared`) and
the coordinator around it, in minutes and in memory only; which plan is chosen is left
open.  `BridgePlan` is that choice, `plan_bridge_charge`, compared with every charge
there could be.  Windows begin and end at whole hours and are finitely many, the
quotients are whole (`PlanAssumption`), the average discharge is positive, and the
tolerance for floating point is left out.

### `ControlStore` and `DurableSetting`

| Model | Code |
|---|---|
| `setFile`, `confirmed`, `wanted` | the file, `_last_persisted`, `_pending` |
| `scheduled`, `timerRuns`, `listener` | `_save_scheduled`, Home Assistant's delayed write, FINAL_WRITE |
| `writer`, `queue` | the holder of `_write_lock` with its payload, and who waits |
| `source`, `config` | `_control_config_status`, the coordinator's settings |
| `moved`, `worker` | the month-control revision and its task |
| `shownLast` | what Home Assistant restores for the entities |

One setting stands for all; "odd" is content that only `sanitized` corrects.  A start
reads the file, migrates from the restored entities when there has never been one, or
gives up writing when it cannot be read.  The abstract `DurableSetting` keeps accepted
settings in their order, some perhaps never; `KeepsItsPromise` is the refinement, with
`kept <- setFile` and `accepted` the history of settings since the one on file.

### `ChargeWindows` and `ChargeSwitches` - the setters

`ChargeWindows` holds the two windows, their months and whether the first rests
(`rests`: a tariff or a fixed time takes its place).  Every setter, the load and the
migration is an action.  `ChargeSwitches` holds the two automations, the tariff in the
coordinator and in the entry, the listeners under way, the raised issues and the
repair dialog somebody may still have open.

### `EnergyCounters`, `EconomicsStore`, `EconomicsStatus`, `EconomicsBalance`

`EnergyCounters`: three groups of counters, restored independently, and a coalesced
save; an unreadable file blocks writing.  `EconomicsStore`: main file and backup, one
lock, a step per await (`holding`), deaths that damage a file; a balance is its
activation and the number of intervals booked since.  `EconomicsStatus`: a poll's
outcome, the period of grace, the counters of the day, the order of the problems.
`EconomicsBalance`: what a poll books, tick by tick, compared with sums that value each
tick at the price in force in it (`inForce`, `asItWas`).  The bookkeeping of a poll may
raise; then every field of the balance is put back (1429-1441), the energy counters are
not, and the poll's interval is never valued.

### `PriceCycle`, `PriceSlots`, `Setpoint`

`PriceCycle` is the time budget of a cycle over evaluations, restarts and changed
settings; which prices are lowest is left open.  `PriceSlots` is that choice, from the
raw entries of a forecast to the recorded intervals; its two loops, which take the
cheapest slots and merge those that touch, are recursive functions over their turns
(`TakesNext`, `MergesNext`).  `Setpoint` is `_watts_to_ic_setpoint_raw`, exact where the
code uses floats.

### What these models take for granted

* `ControlStore`: a free lock is handed on before a delayed timer fires.  The mark of a
  guessed setting is lost if the process dies after Home Assistant dumped its restore
  file and before the first save of a migration; the next migration finds a value like
  any other, and `guessed`, the history, begins anew with it.
* `EconomicsStore`: no write that succeeds but cannot be read back; reading fails only
  for the main file.
* `TimedWindow`: tariff windows are in the model and the proofs, not in the run.
* `PriceCycle`: the clock never runs backwards, the ten seconds of a delayed save are
  over before the hour, settings survive restarts, "off" stands for every strategy
  without a budget, an evaluation comes at least hourly, setters evaluate at once.
* `PriceSlots` and `ChargeWindows`: hours stand for seconds.

## 3. Runs

| Run | Asks | Properties |
|---|---|---|
| `SunChargeWriter` | poll, worker and both services; PV hold and price charge under tariff changes | `TypeOK`, `OwnedSetpointMode`, `WriterRepeatsDevice`, `SequenceNotTorn`, `StopTellsTheTruth` |
| `SunChargeUnload` | unload against charge, start service, worker and switch | `QuietAfterUnload`, `ServicesEnd` |
| `SunChargeEnds` | SOC or permission lost, polls may be absent | `ChargesEnd` |
| `SunChargeRestored` | a storage that never falls back by itself | `MeterRestored` |
| `MaxSocPeriods` | polls, price slot, timed window, discharge hold, failing reads and writes | `TypeOK`, `CountsMeasurements`, `NoSecondChargeInSlot`, `CapIsKept`, `ReleaseLasts` |
| `MaxSocEnds` | does a hold end | `HoldsEnd` |
| `Promises` | what is promised over crashes, faults and interruptions, and what comes in the end | `OverrideIsBounded`, `ScheduleIsSteady`, `OverdueIsCalibrated` (calibration); `SettingsAreSafe`, `KeepsItsPromise`, `SettingsArrive` (settings store); `BooksAreSafe`, `BalanceReachesDisk` (economics store); `PauseIsKept`, `PauseFollows` (grid-serving pause); `PromisesTypeOK` |
| `Policies` | what may charge and what is booked | `WindowsAreApart`, `AutomationsAgree`, `DailyChargeIsOwed`, `BridgeIsKept`, `PlanIsBest`, `SlotsAreRight`, `GraceIsExact`, `BalanceIsTrue`, `CountersAreKept`, `SetpointIsTrue`, `PoliciesTypeOK` |
| `Clocks` | what charges by the clock, over restarts | `WindowKeepsItsOwn`, `CycleIsFair`, `ClocksTypeOK` |
| `MaxSocRace` | a second evaluator between a poll's read and its evaluation | `CountsMeasurements`, violated |
| `MaxSocWriteError` | a write error just before the SOC is lost | `CapOutlivesWriteError`, violated |
| `GridServingInARow` | a manual order between two measurements | `ImportInARow`, violated |

A property of a run is often a conjunction of named parts, each stated and commented
in its module; "leads to" is written as `[]<>`, that the debt is again and again paid.

**Bounds.** `SunCharge` has no counter to bound: every variable ranges over a small
set, and TLC visits every reachable state.  What an instance chooses is who takes
part (`Actors`), which automatic charges exist (`PermitKinds`), what the policy may
decide (`Plans`) and the powers: `Full` = -2, one manual power -1, PV setpoints 0
and -1, so that an update to another power, a change of kind and a hold at zero all
occur.  There is one writer, one control process and one switch in the code, so no
set of nodes is cut down.  The runs divide the actors among themselves because the
questions do: the unload does not depend on the PV hold, the PV hold does not depend
on the switch.  The proofs of section 5 are for all actors at once.

`MaxSocHold` has no unbounded counter either: the code itself stops counting at
`Cycles`, which is 2 as in the code.  Three SOCs and two targets let the SOC be below,
at and above a target, rise without falling below it, and let a target move up past
the SOC and back.  `MaxSocPeriods` takes the timed window for every window: the
grid-serving window differs only in never having a discharge hold.  `MaxSocEnds` has
the timed window only, because neither question depends on the others.

`Promises`: `MaxTime` = 8 with an interval of two days of two ticks lets a calibration
fall due, end and fall due again, with a day at full or a restart in between.  Two
changed settings (`MaxChanges`) are one in flight and one that overtakes it; one I/O
fault or death at any step (the proof allows any number).  Two intervals booked, two
activations, two faults and one death are a backup older than the main file, a reset of
a balance that has both, and a damaged file after a lost write.  The hysteresis of the
pause is 2 as in the code.

`Policies`: a day of three hours has windows inside each other, touching, and over
midnight; two months are a common one and one that is not.  Five polls exceed the grace
of two.  Three entries of a forecast touch, overlap, contradict each other, lack an end
or a price.  Three minutes are a bridge charge, its minute of rest and the next.  The
planner has every combination of two powers, two discharges, three amounts and up to
two windows out of all that fit two hours.  Two days of two instants see the daily
charge resumed, charged once and due again.  Four ticks with a maximum age of two hold
a gap, a stale sample and a midnight.  Three loads and two faults let counters start
anew beside older ones twice.  The setpoint has both signs, both ends of int16 and
every kind of scale factor.

`Clocks`: a day of three ticks and one more hold a window, its extension, its end and
the same window of the next day; five hours hold two cycles of two hours and a part.

Deadlock is checked in every run: where a clock stops at its bound or a count of changes
runs out, the other actions go on.

**Fairness.** In `SunCharge`, `Progress` says that every task gets on when it can
(asyncio schedules what is ready; each request has a timeout, so it ends), that the
writer's timer and the scheduled worker come around, and that a storage nobody writes
to falls back after register 40050's time.  Nothing is assumed of users, tariff,
policy, the switch starting, or of any request being answered.
`TimerSpec` is only that: the polls may stop.  `Turns`, a premise of the part of
`ServicesEnd` about start services, adds strong fairness of the control process and of
the writer, because asyncio's locks are first-in, first-out and nobody can be overtaken
for ever.  `StubbornSpec` is for the opposite storage: it never falls back by itself; in
exchange a mode write that is repeated again and again is answered some day and the
mode can be read again and again.  Without that nothing could be promised.

In `MaxSocHold`, `PollSpec` says that polls come around and are evaluated (Home
Assistant schedules them) and that an unreadable SOC is acted upon; the evaluation is
strongly fair because a tariff that moves while latches are being saved overtakes an
evaluation now and then, not every one.  `Readable`, a premise of the release by
lasting import, adds that new HIGH values arrive again and again and that a reset
repeated at every poll is acknowledged some day.

`PromisesFairness` is, part by part: polls evaluate the calibration and time passes;
the settings store's timer fires, its lock is handed on, file accesses end (in success
or failure) and the scheduled worker runs; file accesses and timers of the economics
store likewise, its delayed write strongly fair because a save that is due again each
time the lock is free cannot be overtaken for ever by the others who want it; polls
read and evaluate the pause.  `PauseFollows` has the premises that new blocks arrive
again and again and that a zero repeated at every poll is acknowledged again and
again.  `Policies` and `Clocks` need no fairness.

**What they show.** In `SunChargeWriter`, a stop tells the truth with one exception,
stated in `StopIsConfirmed`: when nothing was ever acknowledged or read back, a stop
service returns without a write, even though a lost answer may have left the storage in
setpoint mode; the next readback finds it (`MeterRestored`).  That a charge without SOC
ends holds because three layers work together (the check before and between the writes,
the expiry in the writer, the storage's timeout), and without any poll.  That a start
service ends carries the exception that a tariff change repeats the evaluation.

Three promises of the documentation do not hold:

* `MaxSocRace`.  A poll moves `_high_sample_revision` when it reads the HIGH block
  (3188) and gets the control lock only afterwards.  If the worker, a setter or a
  timer evaluates in between, `_cycles_confirmed` (5494) sees a new revision and the
  smart-meter value of the previous poll, and counts that value again: one
  measurement of import confirms two cycles and releases the hold.  The docstring at
  5484-5489 and the comment at 5496 say that events and setters bring no new
  measurement.
* `MaxSocWriteError`.  A refresh of the zero setpoint that fails clears
  `_max_soc_clamped` (4322).  If the SOC is lost before the next evaluation succeeds,
  the suspension finds no hold to keep (5410-5412) and stops: the storage regulates
  itself and may charge from PV above the cap.  `anforderung.yaml:1272-1276` says that
  the reason for the hold survives a write error; it does once the outage has begun
  (`CapIsKept`), not before.
* `GridServingInARow`.  While a manual order has its turn over a pause that goes on, the
  step is not run (6374) and its confirmation counters stand still: import measured
  before the order and import measured after it confirm each other, although the
  measurements between them showed none.  The docstrings at 5487 and 6319 speak of
  cycles in a row.

One more showed while the invariant of the balance was strengthened for its proof, and is
stated as the code has it.  A poll whose bookkeeping raises is rolled back with all it
saw, the reset of the idle confirmations included.  If that poll measured motion, or
ended a gap, a sample at rest before it and one after it still confirm each other and the
inventory is corrected, although the comments ask for two consecutive fresh samples at
rest (225-228) and let a gap interrupt the confirmation (1638-1639).  `CorrectedAtRest`
therefore counts the samples at rest that were *booked* (`RestAfter`); with every
measured sample instead it is violated, but only after more polls than the run has.

Observed while modelling, and stated as such in the modules rather than as findings:
options changed while an entry is being set up wait for the next change
(`__init__.py:317`; `missed`); an issue raised before the bootstrap may be out of date,
and a repair dialog left open can still confirm or cancel (`leftOver`); a migration
restores times against all months, so that a legal window may be cleared; while the
battery counter is unknown, energy of known origin is counted without a save being
scheduled; a first migration evaluates the planner with the strategy "off" and drops a
stored price cycle; a bridge verdict that was deferred by more than a minute is worked
out and replaced by a new plan in the same evaluation; the word 0x8000, which a SunSpec
device reads as "not available", passes the int16 check (-32.768 % at a scale factor
of -3).

## 4. Mutants

For every property `PROJECT.json` names a variant of a definition (`...Forgotten`,
`...Blind`, `...Unlocked`), written beside it as a slip of that code, under which
TLC finds the property violated: a reset struck off when it fails, a sequence that is
not serialised, a gate closed with a request in flight, a schedule saved before it is
adopted, a binding worked out anew in mid-slot, a sample counted at every evaluation, a
gap that forgets a charge that began, a save that is confirmed without reading it back.
The three violated runs need none.

## 5. Proofs

Eight modules hold the theorems; tlapm checks every step.  They hold for all values of
the constants that satisfy the assumptions named in the modules: any actors, powers,
days, hystereses, settings and numbers of faults, not those of a `.cfg`.  Each follows
the same argument: an inductive invariant (`...Inv`) that joins the types, the
properties and what relates them, one lemma per action that it is preserved, then the
properties from it.

**`SunChargeProofs`.**  `IInv == TypeOK /\ Flow /\ OwnedSetpointMode /\ Followed /\ ResetBooked`.

* `Flow` is the flow of control: which program counter holds which lock
  (`LocksHeld`), that no writer lives where the control process has cancelled it
  (`WriterCancelled`), and how far the unload has drained (`UnloadOrdered`).  None of
  the properties is inductive without it; `OneSequence` and `QuietAfterUnload`
  follow from it alone.
* `OwnedSetpointMode` is inductive beside `Flow`: only the process that holds the
  transport can have its request executed, and only an acknowledged mode 0 strikes
  the reset off the books.
* `Followed` strengthens `WriterRepeatsDevice` from the sleeping writer to every
  place where it lives and nobody holds the Immediate Controls lock: an update that
  fails must therefore end the writer before it gives the lock back.
* `ResetBooked` says that a process on its way to the reset write, or in it, has it
  on the books; `FailedStopIsOwed` follows.
* `StopAchieved` is what a stop has brought about at each of its program counters; with
  it the success of a stop service is true as well as its refusal (`StopTellsTheTruth`).

**`CycleProofs`.**

* `CalibrationInv` adds `NotInFuture` (no schedule, stored or in memory, is later than
  the clock; without it a new edge could move the due date back behind the store) and
  `BaselineOnceSeen` (the limit is lifted only in a run that has seen a reading).
  `OverrideIsBounded` and `ScheduleIsSteady` follow.
* `CycleInv` keeps the books of a price cycle.  `Sound`: a smart budget is never more
  than what is over and what its inputs still want.  `Reckoned`: the hours charged are
  among the hours of the selection that are over, and a budget of the present inputs
  counts them.  `Booked` says both of the cycle in memory and of the stored one, except
  in the hour of the user's choice, which may not be saved yet.  `WithinBudget` adds the
  hours ahead, and `Spends` makes it exact for a relative cycle that knew prices enough.
  That a cycle renews itself where the user's does is arithmetic of multiples of
  the horizon (`RollsOver`, `EndsInPhase`).  All of `CycleIsFair` follows, for any
  horizon, slider, set of needs and number of restarts.  The model names every hour of a
  cycle and counts them by `Cardinality`; it assumes that the slider does not exceed the
  horizon (both are 24 in `const.py`).
* `SlotInv` is about one evaluation of the planner at a time, whose loops have
  invariants of their own.  Slots are cut where entries contradict each other and
  nowhere else (`CutIs`).  After any number of turns the hours taken are the cheapest
  among the slots seen, as many as there are or as are wanted (`HasTaken`, hence
  `ChosenIs`); and the record is in order, without touching intervals, and has just the
  hours of what was merged (`HasMerged`, hence `MergedIs`).  `SlotsAreRight` follows for
  any forecast, moment, budget and cycle.

**`MaxSocHoldProofs`.**  Four invariants, each inductive beside the types.

* `CapInv`: a cap in force is a command the program knows of.  Either the storage
  holds and `clamped` says so, or the command was lost during an outage that has been
  acted upon and `outageHold` remembers it.  `CapIsKept` follows, for polls and worker.
* `SlotInv`: while a reached target counts, its slot is on, no discharge hold is,
  and the hold is bound to the slot at exactly that target (`slotTarget` = `reached`),
  which is what keeps `SlotStillBound` true when the SOC falls a little.
  `NoSecondChargeInSlot` follows.
* `CountInv`: a counter behind the revision has never been offered the sample it will
  see next (`NextSample`).  This needs `Evaluators` \subseteq {"poll"}, the premise of
  the two theorems that rest on it; with the worker it fails, and `MaxSocRace` shows how.
* `ReleaseLasts` follows from `CountInv`, branch by branch of the evaluation.

**`GridServingProofs`.**  `PauseInv` pays for waiting in measured blocks.
`WaitIsPaid`: of the wait's cycles no more have passed than there were blocks since the
pause began, one less while the newest has not been offered.  `ReleaseIsPaid`: so too
for wait and release together.  Every evaluation spends a block at most once, because `counted`
remembers it, and an interrupting order spends none; hence a pause ends after two
hystereses of blocks or by confirmed import.  For any hysteresis, polls and worker.
The module also proves `SetpointIsTrue` for any order, reference and scale
(`SetpointStaysTrue`): rounding moves by half a unit at most and never beyond zero
(`RoundsToNearest`), a power of ten is positive (`PowersOfTen`, the ten that occur), and
what int16 holds is read back as it was written (`RegisterRoundTrip`).

**`ControlStoreProofs`.**  `StoreInv` has a part for each question of the store:
what the types are; what a store at rest implies (`Quiet`); what a flush still owes
(`Flush`); what the books (`confirmed`, `wanted`, the writer's payload) say of the file
(`Books`, `Owed`); that the history names what is in force (`History`); and which guess
is marked (`Guess`).  `SettingsAreSafe` follows, and so does the refinement: each step
is a step of `DurableSetting` or stutters.  The store writes only payloads that occur
in the history after what the file holds, which is `History`'s business.  For any
number of changes and faults.

**`AccountsProofs`.**

* `StatusInv`: `GraceSince` ties the start of the grace to the last price and to the
  unbroken run of polls without one, and `VerdictStands` says that a published verdict
  is not taken back without a price.  `GraceIsExact` follows for any grace.
* `EnergyInv`: `AllMeasured` bounds every copy of a group (memory, file, scheduled
  save, restored sensor) by what was measured since the load it names, `Monotone` says
  that a snapshot of the memory is never older than what it would replace, and
  `EvidenceIsSafe` that nothing is scheduled where the file could not be read.
  `CountersAreKept` follows for any number of loads, faults and intervals.
* `BooksInv`: `NothingOlder` orders balances by activation and count, `LockSteps` and
  `RestartSteps` say which balance each step under the lock or of the restart carries,
  `OnDisk` and `InOrder` what the two files then hold.  `BooksAreSafe` follows for any
  number of deaths and faults.
* `BalInv`: `HistoryIsTrue` says that the price history names, for each instant since
  the last sample, what was in force, so that an interval is split where a price moved
  and each part has its price (`PricedAsItWas`); `NothingInvented` bounds every sum
  of money by the energy measured; `DaysInOrder` gives each day its results once; `RestIsMeasured`
  says that no more rest is confirmed than was booked.  `BalanceIsTrue` follows for any
  prices, gaps, failures and length of history.

**`SettersProofs`.**  The windows never meet because every setter asks the overlap
test before it returns (`WinInv`), and that test is exact for a day of any length
(`OverlapTestIsExact`, by cases on which window crosses midnight).  `SwitchInv` joins
the two automations, the tariff, the open question and the listener that must be under
way whenever the coordinator's options are behind the entry's.

**`TimedChargeProofs`.**

* `WindowInv`: a release, wherever it is remembered, names a window in `lows`
  (`Earned`); the confirmations counted are at most the blocks shown (`RowCounts`); the
  hold's store is only ever asked for the end of the last hold (`HoldFlow`).  With it,
  what is in force was earned, whatever the stores do.
* `KeptInv`, for stores in which what reached the file can be read back (the
  hypothesis `"fails" \notin Readback`): what is believed stored is stored, and a stored
  latch is in force, waits to be restored, or is over.  So the release lasts its window,
  the hold survives, and a longer window is no new one.  The hypothesis is needed: a
  write that reaches the file and is reported as failed leaves the program and its
  file apart.
* `FixedInv`: every mark is of a time that came while permitted (`TimesCame`,
  `MarksAreProof`) and the storage is told to charge only for a mark
  (`ChargedIsMarked`): the permission holds whatever the store does.  `OncePerDay` needs
  the same hypothesis on `MarkReadback`, for the reason given in section 2.
* `BridgeInv`: plan, start, end and verdict fit together, and the writer's deadline is
  the end of the plan in force.  Every step of the session is one of `Develops`, from
  which the action properties follow.
* `PlanIsBest` is not about steps but about one choice out of infinitely many charges.
  Every charge that is permitted throughout lies in one merged window
  (`PermittedIsMerged`); the candidate of that window is possible (`ChargeFits`) and at
  least as good (`NoneBetter`); and of finitely many candidates one is preferred to all
  others (`OneIsPreferred`).  For any powers, discharges, horizons and windows.

**Recursion.**  What a recursive function computes for every argument is induction over
data, for which the prover has no rule to instantiate.  `EconomicsBalance`
(`ValuedInterval`) and `PriceSlots` (the two loops) are therefore written so that one
turn is an operator of its own; the proofs show that a function with these equations
exists and keeps the loop's invariant by minimal counterexample: of
the turns after which it fails there would be a first, and the turn before it, after
which it still held, shows that it cannot.

**Only model-checked.**  Every liveness property (`ServicesEnd`, `ChargesEnd`,
`MeterRestored`, `HoldsEnd`, `OverdueIsCalibrated`, `SettingsArrive`,
`BalanceReachesDisk`, `PauseFollows`): fairness and ENABLED are out of the prover's
reach.  `PromisesTypeOK`, `PoliciesTypeOK` and `ClocksTypeOK` as they stand, because they
join the types of machines that only share a run; the inductive invariants above carry
each machine's types.  Every other property of a passing run is stated by a theorem.

## 6. Plan

Built so far: every module of section 2.  Left: the daily windows and seasons of the
tariff (`domain/tariff.py`) against a definition by minutes.

## 7. Not modelled, and why

The tariff's calendar (next in the plan; everywhere else a tariff is a member of a
small set), decoding of register blocks beyond the setpoint conversion, charge progress
and the texts of diagnostics and repairs (derived from state, never read back), forms
of the config flow, entities, dashboard and frontend (presentation), release scripts,
brand and translations.  In `SunCharge`, the order of the single register reads of a
poll.  The storage itself is known only by how the code uses it (registers 40049-40051)
and marked external, as is what the Modbus library does with a cancelled request.
