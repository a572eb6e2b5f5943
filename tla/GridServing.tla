---------------------------- MODULE GridServing ----------------------------
(***************************************************************************)
(* The charging pause for the grid's sake (REQ-GRID-SERVING-CHARGE): when  *)
(* the battery charges from PV inside its window, the storage is held at   *)
(* zero, until the grid takes no more (release) or has to supply the house *)
(* (import).  One evaluation is one action; a poll reads before it         *)
(* evaluates, and the configuration worker may evaluate in between.        *)
(***************************************************************************)
EXTENDS Integers

CONSTANTS
    HysteresisCycles,  \* const.PV_SURPLUS_HYSTERESIS_CYCLES
    Deciders           \* who evaluates: "poll", "worker"

ASSUME HysteresisAssumption == HysteresisCycles \in Nat \ {0}
ASSUME DecidersAssumption == Deciders \subseteq {"poll", "worker"}

VARIABLES
    turn,      \* what the policy lets come into play: the pause, a manual order above it, others
    shown,     \* self.data: what the last evaluated poll measured
    arrived,   \* what a poll has read and not yet evaluated
    counted,   \* counters whose recorded revision is _high_sample_revision
    held,      \* _grid_serving_setpoint_active
    wait,      \* _grid_serving_wait_cycles
    rounds,    \* _grid_serving_{charge,import,release}_confirm_cycles
    storage,   \* what the last command makes the storage do; "unsure" after a failed write
    socKnown,  \* neither _basic_read_failed nor _charge_soc_unavailable
    \* History, read by the properties only.
    since,     \* HIGH blocks read since the pause began
    row        \* measurements of import in a row, evaluated by polls

pauseMeasured == <<shown, arrived, row>>
pauseState == <<counted, held, wait, rounds, storage>>
pauseVars == <<turn, pauseMeasured, pauseState, socKnown, since>>

Turns == {"pause", "manual", "other"}
Confirmed == {"charge", "import", "release"}

\* More than 50 W drawn, neither, or at least 50 W fed in (or nothing known),
\* and whether the battery charges with at least 50 W.
Readings == [grid : {"import", "near", "fed"}, charges : BOOLEAN]
Unread == [grid |-> "fed", charges |-> FALSE]
NoReading == [grid |-> "none", charges |-> FALSE]

\* The condition a counter is offered.
Fulfils(c, m) ==
    CASE c = "charge" -> m.charges
      [] c = "import" -> m.grid = "import"
      [] c = "release" -> m.grid \in {"import", "near"}

NoRounds == [c \in Confirmed |-> 0]

UpTo(n, limit) == IF n < limit THEN n ELSE limit
----------------------------------------------------------------------------
(* The world                                                               *)

\* A new HIGH block: the revision moves before the poll has the lock.
BlockArrives ==
    /\ arrived = NoReading
    /\ arrived' \in Readings
    /\ counted' = {}
    /\ since' = IF held THEN UpTo(since + 1, 2 * HysteresisCycles) ELSE 0
    /\ UNCHANGED <<turn, shown, row, held, wait, rounds, storage, socKnown>>

\* The HIGH block is missing, or young enough to serve again.
BlockServesAgain ==
    /\ arrived = NoReading
    /\ arrived' \in {Unread} \cup (IF shown = NoReading THEN {} ELSE {shown})
    /\ UNCHANGED <<turn, shown, row, pauseState, socKnown, since>>

TurnChanges ==
    /\ turn' \in Turns \ {turn}
    /\ UNCHANGED <<pauseMeasured, pauseState, socKnown, since>>

\* The background refresh fails, or the storage leaves the setpoint mode.
PauseLost ==
    /\ storage = "zero"
    /\ storage' \in {"unsure", "meter"}
    /\ UNCHANGED <<turn, pauseMeasured, counted, held, wait, rounds, socKnown, since>>
----------------------------------------------------------------------------
(* One evaluation                                                          *)

Seen(by) == IF by = "poll" THEN arrived ELSE shown

\* The poll's data replace the old ones, whatever the evaluation came to.
\* row: what a hysteresis over measurements would have to count.
Evaluated(by) ==
    /\ by \in Deciders /\ Seen(by) # NoReading
    /\ IF by = "poll"
       THEN /\ shown' = arrived /\ arrived' = NoReading
            /\ row' = IF Fulfils("import", arrived) THEN UpTo(row + 1, HysteresisCycles) ELSE 0
       ELSE socKnown /\ UNCHANGED <<shown, arrived, row>>
    /\ socKnown' = TRUE
    /\ UNCHANGED turn

\* History: the blocks are counted from the pause's beginning.
CountsBlocks == since' = IF held /\ held' THEN since ELSE 0

\* _cycles_confirmed.
\* A slip: a known measurement starts again.
RoundsOnceMore(c, m) ==
    IF Fulfils(c, m) /\ c \notin counted THEN UpTo(rounds[c] + 1, HysteresisCycles) ELSE 0
Rounds(c, m) ==
    IF ~Fulfils(c, m) THEN 0
    ELSE IF c \in counted THEN rounds[c] ELSE UpTo(rounds[c] + 1, HysteresisCycles)

Reached(c, m) == Rounds(c, m) >= HysteresisCycles

\* async_start_sun_charge(0): zero, or an error that ends the evaluation; the
\* pause that was on stays intended.
Starts == /\ storage' \in {"zero", "unsure"}
          /\ held' = (held \/ storage' = "zero")

\* async_stop_sun_charge: an error is swallowed, the reset stays on the books.
Stops == storage' \in {"meter", "unsure"}

\* a. The storage regulates itself (a former owner's zero is taken back first).
WatchesCharge(by) ==
    /\ ~held /\ ~Reached("charge", Seen(by))
    /\ Stops
    /\ rounds' = [rounds EXCEPT !["charge"] = Rounds("charge", Seen(by))]
    /\ counted' = counted \cup {"charge"}
    /\ UNCHANGED <<held, wait>>

\* What is waited for.
NewWait == HysteresisCycles

\* Charging is confirmed: zero, and a wait before anything releases it.  A
\* failed start leaves the confirmation as it is.
PauseBegins(by) ==
    /\ ~held /\ Reached("charge", Seen(by))
    /\ Starts
    /\ IF held'
       THEN /\ wait' = NewWait
            /\ rounds' = [rounds EXCEPT !["charge"] = 0]
            /\ counted' = counted \cup {"charge", "wait"}
       ELSE /\ rounds' = [rounds EXCEPT !["charge"] = HysteresisCycles]
            /\ counted' = counted \cup {"charge"}
            /\ UNCHANGED wait

\* a.1 Import is confirmed, even while waiting.
ImportEndsPause(by) ==
    /\ held /\ Reached("import", Seen(by))
    /\ Stops
    /\ held' = FALSE /\ wait' = 0
    /\ rounds' = [rounds EXCEPT !["import"] = 0, !["release"] = 0]
    /\ counted' = counted \cup {"import"}

\* Each new measurement shortens the wait by one; none counts for the release.
\* A slip: every evaluation shortens it.
ShorterEach == wait - 1
Shorter == IF "wait" \in counted THEN wait ELSE wait - 1

Waits(by) ==
    /\ held /\ ~Reached("import", Seen(by)) /\ wait > 0
    /\ Starts
    /\ wait' = Shorter
    /\ rounds' = [rounds EXCEPT !["import"] = Rounds("import", Seen(by)), !["release"] = 0]
    /\ counted' = counted \cup {"import", "wait", "release"}

\* b. After the wait: the grid takes no more.
PauseReleases(by) ==
    /\ held /\ ~Reached("import", Seen(by)) /\ wait = 0
    /\ Reached("release", Seen(by))
    /\ Stops
    /\ held' = FALSE
    /\ rounds' = [rounds EXCEPT !["import"] = Rounds("import", Seen(by)), !["release"] = 0]
    /\ counted' = counted \cup {"import", "release"}
    /\ UNCHANGED wait

\* It still does: the zero is repeated, which also revives a dead writer.
PauseGoesOn(by) ==
    /\ held /\ ~Reached("import", Seen(by)) /\ wait = 0
    /\ ~Reached("release", Seen(by))
    /\ Starts
    /\ rounds' = [rounds EXCEPT !["import"] = Rounds("import", Seen(by)),
                                !["release"] = Rounds("release", Seen(by))]
    /\ counted' = counted \cup {"import", "release"}
    /\ UNCHANGED wait

\* _async_step_grid_serving, with the handover before it.
Step(by) ==
    /\ turn = "pause" /\ Evaluated(by)
    /\ \/ WatchesCharge(by)
       \/ PauseBegins(by)
       \/ ImportEndsPause(by)
       \/ Waits(by)
       \/ PauseReleases(by)
       \/ PauseGoesOn(by)
    /\ CountsBlocks

\* A manual order goes first and leaves the pause's state as it is.
ManualFirst(by) ==
    /\ turn = "manual" /\ Evaluated(by)
    /\ storage' \in {"charge", "unsure"}
    /\ UNCHANGED <<counted, held, wait, rounds>>
    /\ CountsBlocks

\* Not eligible (window over, not permitted, full, a timed charge or hold):
\* everything is forgotten, and another use has the storage, or none.
NotEligible(by) ==
    /\ turn = "other" /\ Evaluated(by)
    /\ held' = FALSE /\ wait' = 0 /\ rounds' = NoRounds
    /\ storage' \in {"zero", "meter", "charge", "unsure"}
    /\ UNCHANGED counted
    /\ CountsBlocks

\* Without a state of charge the pause is given up, its counters are not.
SocMissing ==
    /\ held' = FALSE
    /\ storage' \in {"zero", "meter", "unsure"}
    /\ arrived' = NoReading /\ socKnown' = FALSE
    /\ UNCHANGED <<turn, shown, row, counted, wait, rounds>>
    /\ CountsBlocks
----------------------------------------------------------------------------
PauseInit ==
    /\ turn \in Turns
    /\ shown = NoReading /\ arrived = NoReading /\ row = 0
    /\ counted = Confirmed \cup {"wait"}
    /\ held = FALSE /\ wait = 0 /\ rounds = NoRounds
    /\ storage = "unsure" /\ socKnown = TRUE
    /\ since = 0

PauseNext ==
    \/ BlockArrives
    \/ BlockServesAgain
    \/ TurnChanges
    \/ PauseLost
    \/ \E by \in {"poll", "worker"} : Step(by) \/ ManualFirst(by) \/ NotEligible(by)
    \/ SocMissing

PauseSpec == PauseInit /\ [][PauseNext]_pauseVars
----------------------------------------------------------------------------
(* Fairness                                                                *)

PollEvaluates == Step("poll") \/ ManualFirst("poll") \/ NotEligible("poll")

\* Polls come around and are evaluated (Home Assistant schedules them).
PausePollSpec ==
    /\ PauseSpec
    /\ WF_pauseVars(BlockArrives \/ BlockServesAgain) /\ WF_pauseVars(PollEvaluates)

\* Blocks that are new arrive again and again.
BlocksArrive == []<><<BlockArrives>>_pauseVars

\* A zero repeated at every poll is acknowledged again and again.
ZeroReachable == SF_pauseVars(Step("poll") /\ storage' = "zero")
----------------------------------------------------------------------------
PauseTypeOK ==
    /\ turn \in Turns /\ {shown, arrived} \subseteq Readings \cup {Unread, NoReading}
    /\ row \in 0..HysteresisCycles
    /\ counted \subseteq Confirmed \cup {"wait"}
    /\ {held, socKnown} \subseteq BOOLEAN /\ wait \in 0..HysteresisCycles
    /\ rounds \in [Confirmed -> 0..HysteresisCycles]
    /\ storage \in {"zero", "meter", "charge", "unsure"}
    /\ since \in 0..(2 * HysteresisCycles)

\* A pause is released no earlier than two hystereses of measurements after it
\* began, however many events evaluate in between and whatever write fails: the
\* measurements of the wait do not count for the release, and only confirmed
\* import is quicker.
ImportConfirmed ==
    shown'.grid = "import" /\ rounds["import"] >= HysteresisCycles - 1

WaitRespected ==
    [][held /\ ~held' /\ turn = "pause" /\ socKnown' =>
          since >= 2 * HysteresisCycles \/ ImportConfirmed]_pauseVars

\* Where the pause has the turn nobody's zero goes on without an owner: the
\* storage could never charge and the pause never begin.
ZeroIsOwned ==
    [][(\E by \in {"poll", "worker"} : Step(by)) /\ storage' = "zero" => held']_pauseVars

\* The hysteresis as it is documented: as many measurements in a row.
ImportInARow == rounds["import"] <= row

\* Charging that lasts is interrupted.
LastingChargeIsPaused ==
    LET charging(m) == m # NoReading => m.charges
    IN  BlocksArrive /\ ZeroReachable
            => (<>[](turn = "pause" /\ socKnown /\ charging(shown) /\ charging(arrived))
                   => []<>held)

\* Import that lasts ends the pause for good.
LastingImportEndsPause ==
    LET importing(m) == m # NoReading => m.grid = "import" /\ ~m.charges
    IN  BlocksArrive
            => (<>[](turn = "pause" /\ socKnown /\ importing(shown) /\ importing(arrived))
                   => <>[](~held))

\* A pause that stays on is written again after the writer died: the storage
\* does not charge behind a pause that is reported.
PauseIsRewritten ==
    ZeroReachable => (<>[](held /\ turn = "pause") => []<>(storage = "zero"))

\* A pause ends neither early nor unnoticed: its wait is kept over interrupts and
\* failed writes, and no zero goes on without one.
PauseIsKept == WaitRespected /\ ZeroIsOwned

\* The pause follows what lasts: charging begins it, import ends it, and as long
\* as it goes on the storage gets its zero again.
PauseFollows == LastingChargeIsPaused /\ LastingImportEndsPause /\ PauseIsRewritten
============================================================================
