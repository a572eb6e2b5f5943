---------------------------- MODULE TimedWindow ----------------------------
(***************************************************************************)
(* Charging from the grid in a daily window (REQ-TIMED-SOC-CHARGE).  Two   *)
(* latches outlive restarts: the release to charge, set when the SOC falls *)
(* to its minimum inside a window, and the discharge hold, set when two    *)
(* measurements confirmed the charge.  Each belongs to one occurrence of   *)
(* one window and has a store of its own, whose writes may fail or get     *)
(* lost.  One evaluation is one action.                                    *)
(***************************************************************************)
EXTENDS Integers

CONSTANTS
    Day,       \* ticks of the clock in a local day
    LastTick,  \* bound: the clock stops here
    Settings,  \* [on, start, end, source]: what the user may configure
    Needed,    \* const.PV_SURPLUS_HYSTERESIS_CYCLES
    Readback   \* outcomes of reading a written file back: subset of {"ok", "fails"}

ASSUME DayAssumption == Day \in Nat \ {0, 1} /\ LastTick \in Nat
ASSUME SettingsAssumption ==
    \A s \in Settings :
        /\ s.on \in BOOLEAN /\ {s.start, s.end} \subseteq 0..(Day - 1)
        /\ DOMAIN s = {"on", "start", "end", "source"}
ASSUME NeededAssumption == Needed \in Nat \ {0}
ASSUME ReadbackAssumption == Readback \subseteq {"ok", "fails"}

\* source is "manual" for configured times, else what identifies a tariff.
NoWindow == [start |-> 0, end |-> 0, expires |-> -1, source |-> "manual"]
NoProof == [expires |-> -1, source |-> "manual"]

VARIABLES
    clock,
    settings,   \* enabled, times, tariff
    armed, window,      \* _timed_charge_armed, _timed_charge_window
    restore,            \* _timed_charge_restore_state
    believed, disk,     \* _timed_charge_persisted_state, and what the store holds
    active,             \* _timed_charge_active
    confirmations,      \* _timed_charge_confirmation_cycles
    hold, last,         \* _timed_discharge_state; _timed_discharge_last_window_end/_source
    pending, saved, holdDisk,   \* its store: the open request, the confirmed one, the file
    \* History, read by the properties only.
    lows,       \* windows, still known somewhere, in which the SOC was seen at its minimum
    shownRow,   \* blocks in a row that showed the charge while it was commanded
    latched,    \* the release that is confirmed stored and not used up
    proven      \* the last hold that was confirmed stored and not withdrawn

latch == <<armed, window, restore, believed, disk>>
proof == <<confirmations, hold, last, pending, saved, holdDisk>>
history == <<lows, shownRow, latched, proven>>
windowVars == <<clock, settings, latch, active, proof, history>>

\* What an evaluation finds: the SOC, up to the minimum, from the target, or
\* unknown; the HIGH block, counted before, new with a charge from the grid that
\* no manual order explains, or new without one or too old.
SocLevels == {"none", "low", "mid", "full"}
Blocks == {"again", "idle", "charging"}
----------------------------------------------------------------------------
(* Windows                                                                 *)

\* is_time_in_window
Inside(t, s) ==
    LET now == t % Day
    IN  \/ s.start < s.end /\ s.start <= now /\ now < s.end
        \/ s.start > s.end /\ (now >= s.start \/ now < s.end)

\* window_end, and the beginning completed_window_extended works out.
EndsAt(t, s) == t + 1 + ((s.end - t - 1) % Day)
BeganAt(t, s) == t - ((t - s.start) % Day)

UsesTariff == settings.source # "manual"

\* _timed_window_completed
Completed(t) ==
    /\ settings.on /\ ~UsesTariff
    /\ last # NoProof /\ last.source = "manual"
    /\ t >= last.expires /\ Inside(t, settings) /\ BeganAt(t, settings) < last.expires

\* _timed_charge_window_state, and tariff_charge_state for a tariff.
OpenWindow(t) ==
    IF settings.on /\ Inside(t, settings)
    THEN [start |-> settings.start, end |-> settings.end,
          expires |-> EndsAt(t, settings), source |-> settings.source]
    ELSE NoWindow
Window(t) == IF Completed(t) THEN NoWindow ELSE OpenWindow(t)

\* _timed_discharge_is_active
Allows(h, t) ==
    /\ settings.on /\ t < h.expires
    /\ IF UsesTariff
       THEN h.source = OpenWindow(t).source /\ h.expires = OpenWindow(t).expires
       ELSE h.source = "manual"
HoldIsActive(t) == hold # NoProof /\ Allows(hold, t)
----------------------------------------------------------------------------
(* The two stores                                                          *)

\* TimedChargeStateStore.async_save under _async_persist_timed_charge_state: a
\* write may get lost, the readback may fail; only what was read back counts.
Persist(wanted) ==
    IF believed = wanted THEN UNCHANGED <<believed, disk>>
    ELSE \/ "ok" \in Readback /\ disk' = wanted /\ believed' = wanted
         \/ "fails" \in Readback /\ disk' = wanted /\ UNCHANGED believed
         \/ UNCHANGED <<believed, disk>>

\* TimedDischargeStateStore.async_flush of a request, which stays pending until
\* it was read back; a Core that is stopping defers it.
Flush(wanted) ==
    \/ /\ IF wanted = saved THEN UNCHANGED holdDisk
          ELSE "ok" \in Readback /\ holdDisk' = wanted
       /\ saved' = wanted /\ pending' = NoProof
    \/ /\ wanted # saved
       /\ holdDisk' \in {holdDisk} \cup (IF "fails" \in Readback THEN {wanted} ELSE {})
       /\ pending' = wanted /\ UNCHANGED saved

\* A request for no hold has a content of its own.
Cleared == [expires |-> 0, source |-> "manual"]
Content(h) == IF h = NoProof THEN Cleared ELSE h

\* _async_set_timed_discharge_state
SetHold(h, retain) ==
    IF hold = h /\ (h # NoProof \/ retain \/ last = NoProof) /\ pending = NoProof
    THEN UNCHANGED <<hold, last, pending, saved, holdDisk>>
    ELSE LET end == IF h # NoProof THEN h ELSE IF retain THEN last ELSE NoProof
         IN  /\ hold' = h /\ last' = end
             /\ IF pending = NoProof /\ Content(end) = saved
                THEN UNCHANGED <<pending, saved, holdDisk>>
                ELSE Flush(Content(end))

KeepHold == UNCHANGED <<hold, last, pending, saved, holdDisk>>
----------------------------------------------------------------------------
(* The world                                                               *)

Ticks ==
    /\ clock < LastTick
    /\ clock' = clock + 1
    /\ UNCHANGED <<settings, latch, active, proof, history>>

Configures ==
    /\ settings' \in Settings \ {settings}
    /\ UNCHANGED <<clock, latch, active, proof, history>>
----------------------------------------------------------------------------
(* One evaluation                                                          *)

\* Whether the release of the window before still counts.
StillArmed == armed /\ Window(clock) # NoWindow /\ window = Window(clock)

\* A tariff's charge belongs to its window, a manual one is decided anew.
StillActive == active /\ (UsesTariff => StillArmed)
StillConfirmed == IF UsesTariff /\ ~StillArmed THEN 0 ELSE confirmations
StillRestorable == IF restore = Window(clock) THEN restore ELSE NoWindow

\* History.  A release is used up at the target and with its window; a hold is
\* withdrawn with its window, its tariff or the whole function.
Remembers(soc) ==
    /\ latched' = IF armed' /\ believed' = window' THEN window'
                  ELSE IF latched = Window(clock) /\ soc # "full" THEN latched
                  ELSE NoWindow
    /\ proven' = IF ~settings.on \/ (clock < proven.expires /\ ~Allows(proven, clock)) THEN NoProof
                 ELSE IF hold' = NoProof THEN proven
                 ELSE IF saved' = hold' THEN hold'
                 ELSE NoProof
    /\ lows' = {w \in lows \cup (IF soc = "low" THEN {window'} ELSE {}) :
                   w # NoWindow /\ w \in {window', restore', disk'}}

\* Read while the charge was commanded, or not.
SeesRow(block) ==
    shownRow' = CASE block = "again" -> shownRow
                  [] block = "charging" /\ active -> IF shownRow < Needed THEN shownRow + 1 ELSE Needed
                  [] OTHER -> 0

\* _async_update_timed_discharge_proof: what a new block adds to the proof.
ShowsCharge(block) == block = "charging" /\ StillActive

\* A slip: counted beyond what is needed.
ConfirmedOn(block) ==
    IF ~settings.on \/ Completed(clock) THEN 0
    ELSE IF block = "again" THEN StillConfirmed
    ELSE IF ~ShowsCharge(block) THEN 0 ELSE StillConfirmed + 1
ConfirmedBy(block) ==
    IF ~settings.on \/ Completed(clock) THEN 0
    ELSE IF block = "again" THEN StillConfirmed
    ELSE IF ~ShowsCharge(block) THEN 0
    ELSE IF StillConfirmed < Needed THEN StillConfirmed + 1 ELSE Needed

NewProof(block) ==
    /\ settings.on /\ block = "charging" /\ ConfirmedBy(block) = Needed
    /\ ~HoldIsActive(clock) /\ OpenWindow(clock) # NoWindow

\* A slip: the end of the window is forgotten with the hold.
ProvesForgetting(block) ==
    IF ~settings.on THEN SetHold(NoProof, FALSE)
    ELSE IF HoldIsActive(clock) THEN SetHold(hold, FALSE)
    ELSE IF NewProof(block) THEN SetHold([expires |-> OpenWindow(clock).expires,
                                   source |-> OpenWindow(clock).source], FALSE)
    ELSE SetHold(NoProof, FALSE)
Proves(block) ==
    IF ~settings.on THEN SetHold(NoProof, FALSE)
    ELSE IF HoldIsActive(clock) THEN SetHold(hold, FALSE)
    ELSE IF NewProof(block) THEN SetHold([expires |-> OpenWindow(clock).expires,
                                   source |-> OpenWindow(clock).source], FALSE)
    ELSE SetHold(NoProof, TRUE)

\* The release: taken over, restored, or given at the minimum; used up at the
\* target.
Released(soc) ==
    /\ Window(clock) # NoWindow /\ soc # "full"
    /\ StillArmed \/ StillRestorable # NoWindow \/ soc = "low"

\* Outside a window the state of charge decides nothing.
WindowDecides(soc, block) ==
    /\ soc # "none" /\ (Window(clock) = NoWindow => soc = "mid")
    /\ window' = Window(clock) /\ restore' = NoWindow
    /\ armed' = Released(soc) /\ SeesRow(block)
    /\ Proves(block)
    /\ Persist(IF armed' THEN window' ELSE NoWindow)
    /\ Remembers(soc)
    /\ UNCHANGED <<clock, settings>>

\* Surplus, a manual order or a write error may keep the released charge from
\* going on.  When the tariff was changed meanwhile, the charge stays as it is
\* up to another evaluation, which is due.
WindowEvaluates(soc, block) ==
    /\ WindowDecides(soc, block)
    /\ active' \in IF armed' THEN BOOLEAN ELSE {FALSE, StillActive}
    /\ confirmations' = IF active' /\ ~StillActive THEN 0 ELSE ConfirmedBy(block)

\* Options that have no revision were changed meanwhile: everything is given up.
OptionsMove(block) ==
    /\ settings' \in Settings \ {settings}
    /\ armed' = FALSE /\ window' = NoWindow /\ restore' = NoWindow /\ active' = FALSE
    /\ SetHold(NoProof, FALSE) /\ Persist(NoWindow)
    /\ confirmations' = ConfirmedBy(block) /\ SeesRow(block)
    /\ latched' = NoWindow /\ proven' = NoProof
    /\ UNCHANGED <<clock, lows>>

\* _async_suspend_charge_for_missing_soc.  What a restart has left to restore
\* stays stored.
Stored == armed' \/ restore' # NoWindow

WindowSuspends ==
    /\ window' = Window(clock) /\ armed' = StillArmed /\ restore' = StillRestorable
    /\ active' = FALSE
    /\ confirmations' \in {0, StillConfirmed} /\ shownRow' = 0
    /\ IF HoldIsActive(clock) THEN KeepHold
       ELSE KeepHold \/ SetHold(NoProof, settings.on)
    /\ Persist(IF Stored THEN window' ELSE NoWindow)
    /\ Remembers("none")
    /\ UNCHANGED <<clock, settings>>
----------------------------------------------------------------------------
(* Restarts                                                                *)

\* Core's last event gives an open request another try.
FinalWrite ==
    /\ pending # NoProof
    /\ Flush(pending)
    /\ UNCHANGED <<clock, settings, latch, active, confirmations, hold, last, history>>

\* async_load_timed_discharge_state: 25 hours are a day and a little.
Loaded == IF holdDisk \in {NoProof, Cleared} THEN NoProof
          ELSE IF holdDisk.source # "manual" /\ clock < holdDisk.expires THEN holdDisk
          ELSE IF clock - holdDisk.expires \in (-Day)..Day THEN holdDisk
          ELSE NoProof

\* async_load_timed_charge_state; either file may turn out unreadable.
Restarts ==
    /\ armed' = FALSE /\ window' = NoWindow /\ active' = FALSE
    /\ confirmations' = 0 /\ pending' = NoProof /\ shownRow' = 0
    /\ \/ restore' = disk /\ believed' = disk /\ UNCHANGED latched
       \/ restore' = NoWindow /\ believed' = NoWindow /\ latched' = NoWindow
    /\ \/ /\ last' = Loaded /\ saved' = holdDisk
          /\ hold' = IF Loaded # NoProof /\ clock < Loaded.expires THEN Loaded ELSE NoProof
          /\ UNCHANGED proven
       \/ /\ last' = NoProof /\ saved' = NoProof /\ hold' = NoProof
          /\ proven' = NoProof
    /\ UNCHANGED <<clock, settings, disk, holdDisk, lows>>
----------------------------------------------------------------------------
WindowInit ==
    /\ clock = 0 /\ settings \in Settings
    /\ armed = FALSE /\ window = NoWindow /\ restore = NoWindow
    /\ believed = NoWindow /\ disk = NoWindow /\ active = FALSE
    /\ confirmations = 0 /\ hold = NoProof /\ last = NoProof
    /\ pending = NoProof /\ saved = NoProof /\ holdDisk = NoProof
    /\ lows = {} /\ shownRow = 0 /\ latched = NoWindow /\ proven = NoProof

WindowNext ==
    \/ Ticks \/ Configures
    \/ \E soc \in SocLevels, block \in Blocks : WindowEvaluates(soc, block)
    \/ \E block \in Blocks : OptionsMove(block)
    \/ WindowSuspends \/ FinalWrite \/ Restarts

WindowSpec == WindowInit /\ [][WindowNext]_windowVars
----------------------------------------------------------------------------
HoldRecords == [expires : -1..(LastTick + Day), source : {s.source : s \in Settings} \cup {"manual"}]
Occurrences ==
    [start : 0..(Day - 1), end : 0..(Day - 1), expires : -1..(LastTick + Day),
     source : {s.source : s \in Settings} \cup {"manual"}]

WindowTypeOK ==
    /\ clock \in 0..LastTick /\ settings \in Settings
    /\ {armed, active} \subseteq BOOLEAN
    /\ {window, restore, believed, disk, latched} \subseteq Occurrences
    /\ {hold, last, pending, saved, holdDisk, proven} \subseteq HoldRecords
    /\ confirmations \in 0..Needed /\ shownRow \in 0..Needed
    /\ lows \subseteq Occurrences

\* The release belongs to the window it was given in: no restart, no edited
\* window and no lost write turns it into a release for another one.
ReleaseIsEarned == armed => window \in lows

\* A release that was stored lasts until the target is reached or its window
\* ends, over restarts and outages of the SOC before or after them.
ReleaseLastsWindow ==
    latched # NoWindow /\ window = latched => armed \/ restore = latched

\* Storage is held against discharge only for a charge that was measured, in as
\* many blocks as needed, each read while the charge was commanded.
HoldIsEarned ==
    [][hold' \notin {hold, NoProof, holdDisk} => shownRow' >= Needed]_windowVars

\* A hold that was stored lasts to the end of its window.
HoldSurvives == proven # NoProof /\ Allows(proven, clock) => hold = proven

\* A window that is made longer after its charge has ended does not start a
\* second one (issue 165), not even after a restart.
NoSecondLife ==
    [][~active /\ active' /\ ~UsesTariff /\ proven # NoProof /\ proven.source = "manual"
          => clock < proven.expires \/ BeganAt(clock, settings) >= proven.expires]_windowVars

\* What a window has earned it keeps, and nothing else: its release and its hold
\* are its own, measured, and survive restarts; and a longer window is no new one.
WindowKeepsItsOwn ==
    /\ []ReleaseIsEarned /\ []ReleaseLastsWindow /\ []HoldSurvives
    /\ HoldIsEarned /\ NoSecondLife
============================================================================
