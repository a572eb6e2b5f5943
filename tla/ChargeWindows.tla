---------------------------- MODULE ChargeWindows --------------------------
(***************************************************************************)
(* The two daily windows the user configures, for charging from the grid   *)
(* and for grid-serving charging, and the months they hold in.  They never *)
(* overlap (REQ-GRID-SERVING-CHARGE), except while a tariff or a fixed     *)
(* time takes the place of the first: then its times rest.                 *)
(*                                                                         *)
(* A window is a pair of times, each perhaps empty; hours stand for        *)
(* seconds.  Setters run to their end without waiting.                     *)
(***************************************************************************)
EXTENDS Integers

CONSTANTS
    Hours,     \* of a day
    Months,    \* const.ALL_MONTHS
    Empty      \* no time

ASSUME HoursAssumption == Hours \in Nat \ {0, 1} /\ Empty \notin Nat

VARIABLES
    timed, grid,                \* the two windows
    timedMonths, gridMonths,
    rests,      \* timed_charge_uses_tariff or fixed_time_charge_enabled
    stage       \* "new", "loaded" or "migrates" up to the end of the bootstrap, "up"

winVars == <<timed, grid, timedMonths, gridMonths, rests, stage>>
windows == <<timed, grid>>
monthSets == <<timedMonths, gridMonths>>

Times == 0..(Hours - 1)
Windows == [start : Times \cup {Empty}, end : Times \cup {Empty}]
NoTimes == [start |-> Empty, end |-> Empty]
Bounds == {"start", "end"}

Booting == stage # "up"         \* _control_bootstrap_pending

-----------------------------------------------------------------------------
(* domain/scheduling.py                                                     *)

IsTimeInWindow(h, w) ==
    /\ Empty \notin {w.start, w.end} /\ w.start # w.end
    /\ IF w.start < w.end THEN w.start <= h /\ h < w.end
       ELSE h >= w.start \/ h < w.end

WindowIntervals(w) ==
    IF w.start = w.end THEN {}
    ELSE IF w.start < w.end THEN {<<w.start, w.end>>}
    ELSE {<<w.start, Hours>>, <<0, w.end>>}

WindowsOverlap(a, b) ==
    /\ Empty \notin {a.start, a.end, b.start, b.end}
    /\ \E i \in WindowIntervals(a), j \in WindowIntervals(b) : i[1] < j[2] /\ j[1] < i[2]

OverlapWithMonths(a, aMonths, b, bMonths) ==
    WindowsOverlap(a, b) /\ aMonths \cap bMonths # {}

\* _configured_windows_overlap_with_months: resting times restrict nothing.
Overlap(a, aMonths, b, bMonths) == ~rests /\ OverlapWithMonths(a, aMonths, b, bMonths)

-----------------------------------------------------------------------------
(* Setters.  A time that would overlap is cleared, a month refused.         *)

\* A bound of the first window cannot be set while it rests.
SetsTimedBound(b, t) ==
    LET w == [timed EXCEPT ![b] = t] IN
    /\ ~rests \/ Booting
    /\ timed' = IF Overlap(w, timedMonths, grid, gridMonths)
                THEN [timed EXCEPT ![b] = Empty] ELSE w
    /\ UNCHANGED grid

SetsTimedWindow(w) ==
    /\ ~rests \/ Booting
    /\ timed' = IF Overlap(w, timedMonths, grid, gridMonths) THEN NoTimes ELSE w
    /\ UNCHANGED grid

SetsGridBound(b, t) ==
    LET w == [grid EXCEPT ![b] = t] IN
    /\ grid' = IF Overlap(w, gridMonths, timed, timedMonths)
               THEN [grid EXCEPT ![b] = Empty] ELSE w
    /\ UNCHANGED timed

SetsGridWindow(w) ==
    /\ grid' = IF Overlap(w, gridMonths, timed, timedMonths) THEN NoTimes ELSE w
    /\ UNCHANGED timed

WithMonth(months, m, on) == IF on THEN months \cup {m} ELSE months \ {m}

SetsTimedMonth(m, on, validate) ==
    /\ validate => ~Overlap(timed, WithMonth(timedMonths, m, on), grid, gridMonths)
    /\ timedMonths' = WithMonth(timedMonths, m, on) /\ UNCHANGED gridMonths

SetsGridMonth(m, on, validate) ==
    /\ validate => ~Overlap(grid, WithMonth(gridMonths, m, on), timed, timedMonths)
    /\ gridMonths' = WithMonth(gridMonths, m, on) /\ UNCHANGED timedMonths

\* What the user sets, by the services or in the entities, which are there
\* before the start is over.
UserSets ==
    /\ stage # "new" /\ UNCHANGED <<rests, stage>>
    /\ \/ /\ UNCHANGED monthSets
          /\ \/ \E b \in Bounds, t \in Times : SetsTimedBound(b, t) \/ SetsGridBound(b, t)
             \/ \E w \in [start : Times, end : Times] : SetsTimedWindow(w) \/ SetsGridWindow(w)
       \/ /\ UNCHANGED windows
          /\ \E m \in Months, on \in BOOLEAN :
                SetsTimedMonth(m, on, TRUE) \/ SetsGridMonth(m, on, TRUE)

\* Options: the tariff or the fixed time begins or ceases to stand for the
\* first window.  reconcile_charge_time_source clears it before it comes back.
\* A slip: it does not.
ReconciledNot(w) == w
Reconciled(w) ==
    IF ~rests' /\ OverlapWithMonths(w, timedMonths, grid, gridMonths) THEN NoTimes ELSE w

OptionsChange ==
    /\ ~Booting /\ rests' = ~rests
    /\ timed' = Reconciled(timed)
    /\ UNCHANGED <<grid, monthSets, stage>>

-----------------------------------------------------------------------------
(* Starting                                                                 *)

\* ControlConfig.sanitized.  Any combination of valid fields may be stored.
SanitizedWindow(w, wMonths, g, gMonths) ==
    IF Overlap(w, wMonths, g, gMonths) THEN NoTimes ELSE w

LoadsSettings ==
    /\ stage = "new" /\ stage' = "loaded" /\ UNCHANGED rests
    /\ grid' \in Windows /\ timedMonths' \in SUBSET Months /\ gridMonths' \in SUBSET Months
    /\ \E w \in Windows : timed' = SanitizedWindow(w, timedMonths', grid', gridMonths')

\* There is no store, or none that can be read: no times, all months.
StartsEmpty ==
    /\ stage = "new" /\ stage' \in {"loaded", "migrates"}
    /\ UNCHANGED <<windows, monthSets, rests>>

\* Without a store every entity brings in what it showed last, in the order
\* the platforms happen to be set up: a bound that is not set yet, or a month,
\* without a question.  All months are on, so bringing in one that is on
\* changes nothing.
Migrates ==
    /\ stage = "migrates" /\ UNCHANGED <<rests, stage>>
    /\ \/ /\ UNCHANGED monthSets
          /\ \E b \in Bounds, t \in Times :
                \/ timed[b] = Empty /\ SetsTimedBound(b, t)
                \/ grid[b] = Empty /\ SetsGridBound(b, t)
       \/ /\ UNCHANGED windows
          /\ \E m \in Months : SetsTimedMonth(m, FALSE, FALSE) \/ SetsGridMonth(m, FALSE, FALSE)

FinishesBoot ==
    /\ stage \in {"loaded", "migrates"} /\ stage' = "up"
    /\ UNCHANGED <<windows, monthSets, rests>>

\* The entry is loaded again, with a new coordinator and today's options.
Fresh(w, g, wMonths, gMonths) ==
    w = NoTimes /\ g = NoTimes /\ wMonths = Months /\ gMonths = Months

StartsAnew ==
    /\ stage' = "new" /\ rests' \in BOOLEAN
    /\ Fresh(timed', grid', timedMonths', gridMonths')

-----------------------------------------------------------------------------
WinInit ==
    stage = "new" /\ rests \in BOOLEAN /\ Fresh(timed, grid, timedMonths, gridMonths)

WinNext ==
    \/ UserSets \/ OptionsChange
    \/ LoadsSettings \/ StartsEmpty \/ Migrates \/ FinishesBoot \/ StartsAnew

WinSpec == WinInit /\ [][WinNext]_winVars

-----------------------------------------------------------------------------
WinTypeOK ==
    /\ {timed, grid} \subseteq Windows
    /\ {timedMonths, gridMonths} \subseteq SUBSET Months
    /\ rests \in BOOLEAN /\ stage \in {"new", "loaded", "migrates", "up"}

\* Whatever was edited in whatever order, restored or switched back to: in no
\* hour of any month both windows are open.
NeverBothOpen ==
    ~Booting /\ ~rests =>
        \A h \in Times, m \in timedMonths \cap gridMonths :
            ~(IsTimeInWindow(h, timed) /\ IsTimeInWindow(h, grid))

\* Nor is an edit refused, or a time cleared, for windows that never meet.
OverlapIsExact ==
    WindowsOverlap(timed, grid) <=>
        \E h \in Times : IsTimeInWindow(h, timed) /\ IsTimeInWindow(h, grid)

\* The two windows stay apart, and no edit is refused without need.
WindowsAreApart == NeverBothOpen /\ OverlapIsExact
=============================================================================
