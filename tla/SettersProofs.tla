---------------------------- MODULE SettersProofs --------------------------
(***************************************************************************)
(* Proofs about what the user sets: the charge windows (ChargeWindows, for *)
(* any number of hours and any months) and the automations' switches       *)
(* (ChargeSwitches).  The two machines share no state.                     *)
(*                                                                         *)
(* NeverBothOpen says nothing of the windows while the bootstrap runs, so  *)
(* it is not inductive.  WindowsApart is: from the first load to the last  *)
(* edit the intervals of windows that do not rest never meet in a month    *)
(* they share.  That intervals meet exactly where both windows are open is *)
(* a fact about the two operators alone.                                   *)
(*                                                                         *)
(* To the switches' properties two parts are added to make them inductive: *)
(* what was asked before the entry was set up counts as left over (so a    *)
(* restored pair of switches contradicts no question), and the coordinator *)
(* has the entry's options from the moment it is made, unless they changed *)
(* meanwhile (OptionsArrive is about a complete setup).                    *)
(***************************************************************************)
EXTENDS ChargeWindows, ChargeSwitches, TLAPS

-----------------------------------------------------------------------------
(* The windows                                                              *)

WindowsApart == ~rests => ~OverlapWithMonths(timed, timedMonths, grid, gridMonths)

WinInv == WinTypeOK /\ WindowsApart

-----------------------------------------------------------------------------
(* The operators                                                            *)

LEMMA EmptyIsNoTime == Empty \notin Times
  BY HoursAssumption DEF Times

LEMMA BoundIsSet ==
    ASSUME NEW w \in Windows, NEW b \in Bounds, NEW t \in Times \cup {Empty}
    PROVE  [w EXCEPT ![b] = t] \in Windows /\ [w EXCEPT ![b] = t][b] = t
  BY DEF Windows, Bounds

\* A window without one of its bounds meets nothing, on either side.
LEMMA EmptyBoundOverlapsNothing ==
    ASSUME NEW w, NEW v, NEW b \in Bounds, w[b] = Empty
    PROVE  ~WindowsOverlap(w, v) /\ ~WindowsOverlap(v, w)
  BY DEF WindowsOverlap, Bounds

LEMMA NoTimesOverlapNothing ==
    ASSUME NEW v
    PROVE  ~WindowsOverlap(NoTimes, v) /\ ~WindowsOverlap(v, NoTimes)
  BY DEF WindowsOverlap, NoTimes

\* It does not matter which of the two windows is edited.
LEMMA OverlapIsSymmetric ==
    ASSUME NEW a, NEW b, NEW aMonths, NEW bMonths
    PROVE  OverlapWithMonths(a, aMonths, b, bMonths)
            <=> OverlapWithMonths(b, bMonths, a, aMonths)
  <1>1. WindowsOverlap(a, b) <=> WindowsOverlap(b, a)
    <2>1. {a.start, a.end, b.start, b.end} = {b.start, b.end, a.start, a.end}
      OBVIOUS
    <2> QED BY <2>1 DEF WindowsOverlap
  <1>2. aMonths \cap bMonths = bMonths \cap aMonths
    OBVIOUS
  <1> QED BY <1>1, <1>2 DEF OverlapWithMonths

\* Where both windows are open their intervals meet.
LEMMA CommonHourOverlaps ==
    ASSUME NEW a \in Windows, NEW b \in Windows, NEW h \in Times,
           IsTimeInWindow(h, a), IsTimeInWindow(h, b)
    PROVE  WindowsOverlap(a, b)
  <1>1. \A w \in Windows : IsTimeInWindow(h, w) =>
            \E i \in WindowIntervals(w) :
                i \in Int \X Int /\ i[1] <= h /\ h < i[2]
    <2> SUFFICES ASSUME NEW w \in Windows, IsTimeInWindow(h, w)
                 PROVE  \E i \in WindowIntervals(w) :
                            i \in Int \X Int /\ i[1] <= h /\ h < i[2]
      OBVIOUS
    <2>1. w.start \in Times /\ w.end \in Times /\ w.start # w.end
      BY DEF IsTimeInWindow, Windows
    <2>2. /\ h \in Int /\ 0 <= h /\ h < Hours /\ Hours \in Int
          /\ w.start \in Int /\ w.end \in Int
      BY <2>1, HoursAssumption DEF Times
    <2>3. CASE w.start < w.end
      <3>1. WindowIntervals(w) = {<<w.start, w.end>>}
        BY <2>1, <2>3 DEF WindowIntervals
      <3>2. w.start <= h /\ h < w.end
        BY <2>3 DEF IsTimeInWindow
      <3>3. <<w.start, w.end>> \in Int \X Int
        BY <2>1, <2>2
      <3>4. <<w.start, w.end>> \in WindowIntervals(w)
        BY <3>1
      <3> QED BY <3>2, <3>3, <3>4
    <2>4. CASE ~(w.start < w.end)
      <3>1. WindowIntervals(w) = {<<w.start, Hours>>, <<0, w.end>>}
        BY <2>1, <2>4 DEF WindowIntervals
      <3>2. h >= w.start \/ h < w.end
        BY <2>1, <2>4 DEF IsTimeInWindow
      <3>3. <<w.start, Hours>> \in Int \X Int /\ <<0, w.end>> \in Int \X Int
        BY <2>2
      <3>4. CASE h >= w.start
        <4>1. <<w.start, Hours>> \in WindowIntervals(w)
          BY <3>1
        <4> QED BY <2>2, <3>3, <3>4, <4>1
      <3>5. CASE h < w.end
        <4>1. <<0, w.end>> \in WindowIntervals(w)
          BY <3>1
        <4> QED BY <2>2, <3>3, <3>5, <4>1
      <3> QED BY <3>2, <3>4, <3>5
    <2> QED BY <2>3, <2>4
  <1>2. PICK i \in WindowIntervals(a) : i \in Int \X Int /\ i[1] <= h /\ h < i[2]
    BY <1>1
  <1>3. PICK j \in WindowIntervals(b) : j \in Int \X Int /\ j[1] <= h /\ h < j[2]
    BY <1>1
  <1>4. i[1] < j[2] /\ j[1] < i[2]
    BY <1>2, <1>3, HoursAssumption DEF Times
  <1>5. Empty \notin {a.start, a.end, b.start, b.end}
    BY DEF IsTimeInWindow
  <1> QED BY <1>4, <1>5 DEF WindowsOverlap

\* And where the intervals meet there is an hour both windows are open: the
\* later of the two starts.
LEMMA OverlapHasCommonHour ==
    ASSUME NEW a \in Windows, NEW b \in Windows, WindowsOverlap(a, b)
    PROVE  \E h \in Times : IsTimeInWindow(h, a) /\ IsTimeInWindow(h, b)
  <1>1. PICK i \in WindowIntervals(a), j \in WindowIntervals(b) :
            i[1] < j[2] /\ j[1] < i[2]
    BY DEF WindowsOverlap
  <1>2. /\ a.start \in Times /\ a.end \in Times /\ b.start \in Times /\ b.end \in Times
        /\ Empty \notin {a.start, a.end, b.start, b.end}
    BY DEF WindowsOverlap, Windows
  <1>3. Times \subseteq Int /\ Hours \in Int
    BY HoursAssumption DEF Times
  <1>4. \A w \in Windows : \A k \in WindowIntervals(w), h \in Int :
            /\ w.start \in Times /\ w.end \in Times /\ Empty \notin {w.start, w.end}
            => /\ k \in Int \X Int /\ 0 <= k[1] /\ k[2] <= Hours
               /\ k[1] <= h /\ h < k[2] => IsTimeInWindow(h, w)
    <2> SUFFICES ASSUME NEW w \in Windows, NEW k \in WindowIntervals(w), NEW h \in Int,
                        w.start \in Times, w.end \in Times, Empty \notin {w.start, w.end}
                 PROVE  /\ k \in Int \X Int /\ 0 <= k[1] /\ k[2] <= Hours
                        /\ k[1] <= h /\ h < k[2] => IsTimeInWindow(h, w)
      OBVIOUS
    <2>0. w.start \in Int /\ w.end \in Int /\ 0 <= w.start /\ 0 <= w.end
          /\ w.start < Hours /\ w.end < Hours
      BY HoursAssumption DEF Times
    <2>1. w.start # w.end
      BY DEF WindowIntervals
    <2>2. CASE w.start < w.end
      <3>1. k = <<w.start, w.end>>
        BY <2>1, <2>2 DEF WindowIntervals
      <3> QED BY <1>3, <2>0, <2>1, <2>2, <3>1 DEF IsTimeInWindow
    <2>3. CASE ~(w.start < w.end)
      <3>1. k = <<w.start, Hours>> \/ k = <<0, w.end>>
        BY <2>1, <2>3 DEF WindowIntervals
      <3> QED BY <1>3, <2>0, <2>1, <2>3, <3>1 DEF IsTimeInWindow
    <2> QED BY <2>2, <2>3
  <1>5. /\ i \in Int \X Int /\ 0 <= i[1] /\ i[2] <= Hours
        /\ j \in Int \X Int /\ 0 <= j[1] /\ j[2] <= Hours
    BY <1>1, <1>2, <1>4
  <1>6. i[1] < i[2] /\ j[1] < j[2]
    <2>1. \A w \in Windows : \A k \in WindowIntervals(w) :
              w.start \in Times /\ w.end \in Times => k[1] < k[2] \/ k[2] = 0
      BY <1>3, HoursAssumption DEF WindowIntervals, Times
    <2>2. (i[1] < i[2] \/ i[2] = 0) /\ (j[1] < j[2] \/ j[2] = 0)
      BY <1>2, <2>1
    <2> QED BY <1>1, <1>5, <2>2
  <1> DEFINE h == IF i[1] < j[1] THEN j[1] ELSE i[1]
  <1>7. h \in Int /\ i[1] <= h /\ h < i[2] /\ j[1] <= h /\ h < j[2] /\ h \in Times
    BY <1>1, <1>3, <1>5, <1>6 DEF Times
  <1>8. IsTimeInWindow(h, a) /\ IsTimeInWindow(h, b)
    <2> HIDE DEF h
    <2> QED BY <1>1, <1>2, <1>4, <1>7
  <1> QED BY <1>7, <1>8

-----------------------------------------------------------------------------
(* The edits                                                                *)

\* A cleared time leaves no overlap, whichever window it is cleared in; so an
\* edit that clears what would overlap keeps the windows apart.
LEMMA TimedEditKeepsApart ==
    ASSUME WinInv, UNCHANGED <<monthSets, rests>>, NEW w \in Windows,
           \/ ~Overlap(w, timedMonths, grid, gridMonths) /\ timed' = w
           \/ timed' = NoTimes
           \/ \E b \in Bounds : timed' = [timed EXCEPT ![b] = Empty],
           UNCHANGED grid
    PROVE  WindowsApart' /\ timed' \in Windows
  <1>0. timed \in Windows
    BY DEF WinInv, WinTypeOK
  <1>1. CASE ~Overlap(w, timedMonths, grid, gridMonths) /\ timed' = w
    BY <1>1 DEF Overlap, OverlapWithMonths, WindowsApart, monthSets
  <1>2. CASE timed' = NoTimes
    <2>1. ~WindowsOverlap(timed', grid')
      BY <1>2, NoTimesOverlapNothing
    <2> QED BY <1>2, <2>1 DEF OverlapWithMonths, WindowsApart, NoTimes, Windows
  <1>3. CASE \E b \in Bounds : timed' = [timed EXCEPT ![b] = Empty]
    <2>1. PICK b \in Bounds : timed' = [timed EXCEPT ![b] = Empty]
      BY <1>3
    <2>2. timed' \in Windows /\ timed'[b] = Empty
      BY <1>0, <2>1, BoundIsSet
    <2>3. ~WindowsOverlap(timed', grid')
      BY <2>2, EmptyBoundOverlapsNothing
    <2> QED BY <2>2, <2>3 DEF OverlapWithMonths, WindowsApart
  <1> QED BY <1>1, <1>2, <1>3

LEMMA GridEditKeepsApart ==
    ASSUME WinInv, UNCHANGED <<monthSets, rests>>, NEW w \in Windows,
           \/ ~Overlap(w, gridMonths, timed, timedMonths) /\ grid' = w
           \/ grid' = NoTimes
           \/ \E b \in Bounds : grid' = [grid EXCEPT ![b] = Empty],
           UNCHANGED timed
    PROVE  WindowsApart' /\ grid' \in Windows
  <1>0. grid \in Windows
    BY DEF WinInv, WinTypeOK
  <1>1. CASE ~Overlap(w, gridMonths, timed, timedMonths) /\ grid' = w
    <2>1. ~rests => ~OverlapWithMonths(timed, timedMonths, w, gridMonths)
      BY <1>1, OverlapIsSymmetric DEF Overlap
    <2> QED BY <1>1, <2>1 DEF OverlapWithMonths, WindowsApart, monthSets
  <1>2. CASE grid' = NoTimes
    <2>1. ~WindowsOverlap(timed', grid')
      BY <1>2, NoTimesOverlapNothing
    <2> QED BY <1>2, <2>1 DEF OverlapWithMonths, WindowsApart, NoTimes, Windows
  <1>3. CASE \E b \in Bounds : grid' = [grid EXCEPT ![b] = Empty]
    <2>1. PICK b \in Bounds : grid' = [grid EXCEPT ![b] = Empty]
      BY <1>3
    <2>2. grid' \in Windows /\ grid'[b] = Empty
      BY <1>0, <2>1, BoundIsSet
    <2>3. ~WindowsOverlap(timed', grid')
      BY <2>2, EmptyBoundOverlapsNothing
    <2> QED BY <2>2, <2>3 DEF OverlapWithMonths, WindowsApart
  <1> QED BY <1>1, <1>2, <1>3

LEMMA BoundEdit ==
    ASSUME WinInv, NEW b \in Bounds, NEW t \in Times, UNCHANGED <<monthSets, rests, stage>>,
           SetsTimedBound(b, t) \/ SetsGridBound(b, t)
    PROVE  WinInv'
  <1>1. /\ [timed EXCEPT ![b] = t] \in Windows
        /\ [grid EXCEPT ![b] = t] \in Windows
    BY BoundIsSet DEF WinInv, WinTypeOK
  <1>2. CASE SetsTimedBound(b, t)
    <2>1. WindowsApart' /\ timed' \in Windows
      BY <1>1, <1>2, TimedEditKeepsApart DEF SetsTimedBound
    <2> QED BY <1>2, <2>1 DEF SetsTimedBound, WinInv, WinTypeOK, monthSets
  <1>3. CASE SetsGridBound(b, t)
    <2>1. WindowsApart' /\ grid' \in Windows
      BY <1>1, <1>3, GridEditKeepsApart DEF SetsGridBound
    <2> QED BY <1>3, <2>1 DEF SetsGridBound, WinInv, WinTypeOK, monthSets
  <1> QED BY <1>2, <1>3

LEMMA WindowEdit ==
    ASSUME WinInv, NEW w \in Windows, UNCHANGED <<monthSets, rests, stage>>,
           SetsTimedWindow(w) \/ SetsGridWindow(w)
    PROVE  WinInv'
  <1>1. CASE SetsTimedWindow(w)
    <2>1. WindowsApart' /\ timed' \in Windows
      BY <1>1, TimedEditKeepsApart DEF SetsTimedWindow
    <2> QED BY <1>1, <2>1 DEF SetsTimedWindow, WinInv, WinTypeOK, monthSets
  <1>2. CASE SetsGridWindow(w)
    <2>1. WindowsApart' /\ grid' \in Windows
      BY <1>2, GridEditKeepsApart DEF SetsGridWindow
    <2> QED BY <1>2, <2>1 DEF SetsGridWindow, WinInv, WinTypeOK, monthSets
  <1> QED BY <1>1, <1>2

\* A month is refused where it would let the windows meet; without a question
\* only months are taken away.
LEMMA MonthEdit ==
    ASSUME WinInv, NEW m \in Months, NEW on \in BOOLEAN, NEW validate \in BOOLEAN,
           validate \/ ~on, UNCHANGED <<windows, rests, stage>>,
           SetsTimedMonth(m, on, validate) \/ SetsGridMonth(m, on, validate)
    PROVE  WinInv'
  <1>0. /\ WithMonth(timedMonths, m, on) \in SUBSET Months
        /\ WithMonth(gridMonths, m, on) \in SUBSET Months
        /\ ~on => WithMonth(timedMonths, m, on) \subseteq timedMonths
        /\ ~on => WithMonth(gridMonths, m, on) \subseteq gridMonths
    BY DEF WithMonth, WinInv, WinTypeOK
  <1>1. CASE SetsTimedMonth(m, on, validate)
    <2>1. CASE validate
      BY <1>0, <1>1, <2>1
      DEF SetsTimedMonth, WinInv, WinTypeOK, WindowsApart, Overlap, OverlapWithMonths, windows
    <2>2. CASE ~on
      <3>1. timedMonths' \cap gridMonths' \subseteq timedMonths \cap gridMonths
        BY <1>0, <1>1, <2>2 DEF SetsTimedMonth
      <3> QED BY <1>0, <1>1, <3>1
          DEF SetsTimedMonth, WinInv, WinTypeOK, WindowsApart, OverlapWithMonths, windows
    <2> QED BY <2>1, <2>2
  <1>2. CASE SetsGridMonth(m, on, validate)
    <2>1. CASE validate
      <3>1. ~rests => ~OverlapWithMonths(timed, timedMonths, grid, WithMonth(gridMonths, m, on))
        BY <1>2, <2>1, OverlapIsSymmetric DEF SetsGridMonth, Overlap
      <3> QED BY <1>0, <1>2, <3>1
          DEF SetsGridMonth, WinInv, WinTypeOK, WindowsApart, OverlapWithMonths, windows
    <2>2. CASE ~on
      <3>1. timedMonths' \cap gridMonths' \subseteq timedMonths \cap gridMonths
        BY <1>0, <1>2, <2>2 DEF SetsGridMonth
      <3> QED BY <1>0, <1>2, <3>1
          DEF SetsGridMonth, WinInv, WinTypeOK, WindowsApart, OverlapWithMonths, windows
    <2> QED BY <2>1, <2>2
  <1> QED BY <1>1, <1>2

LEMMA FreshIsApart ==
    ASSUME Fresh(timed, grid, timedMonths, gridMonths), rests \in BOOLEAN, stage = "new"
    PROVE  WinInv
  <1>1. ~WindowsOverlap(timed, grid)
    BY NoTimesOverlapNothing DEF Fresh
  <1> QED BY <1>1 DEF Fresh, WinInv, WinTypeOK, WindowsApart, OverlapWithMonths, NoTimes, Windows

-----------------------------------------------------------------------------
(* The invariant                                                            *)

LEMMA WinInitEstablishes == WinInit => WinInv
  BY FreshIsApart DEF WinInit

LEMMA WinStepPreserves == WinInv /\ [WinNext]_winVars => WinInv'
  <1> SUFFICES ASSUME WinInv, [WinNext]_winVars PROVE WinInv'
    OBVIOUS
  <1>0. [start : Times, end : Times] \subseteq Windows
    BY DEF Windows
  <1>1. CASE UserSets
    <2>1. CASE /\ UNCHANGED monthSets
               /\ \E b \in Bounds, t \in Times : SetsTimedBound(b, t) \/ SetsGridBound(b, t)
      BY <1>1, <2>1, BoundEdit DEF UserSets
    <2>2. CASE /\ UNCHANGED monthSets
               /\ \E w \in [start : Times, end : Times] : SetsTimedWindow(w) \/ SetsGridWindow(w)
      BY <1>0, <1>1, <2>2, WindowEdit DEF UserSets
    <2>3. CASE /\ UNCHANGED windows
               /\ \E m \in Months, on \in BOOLEAN :
                      SetsTimedMonth(m, on, TRUE) \/ SetsGridMonth(m, on, TRUE)
      BY <1>1, <2>3, MonthEdit DEF UserSets
    <2> QED BY <1>1, <2>1, <2>2, <2>3 DEF UserSets
  <1>2. CASE OptionsChange
    <2>1. CASE timed' = timed /\ ~(~rests' /\ OverlapWithMonths(timed, timedMonths, grid, gridMonths))
      BY <1>2, <2>1 DEF OptionsChange, WinInv, WinTypeOK, WindowsApart, OverlapWithMonths, monthSets
    <2>2. CASE timed' = NoTimes
      <3>1. ~WindowsOverlap(timed', grid')
        BY <2>2, NoTimesOverlapNothing
      <3> QED BY <1>2, <2>2, <3>1
          DEF OptionsChange, WinInv, WinTypeOK, WindowsApart, OverlapWithMonths, monthSets, NoTimes, Windows
    <2> QED BY <1>2, <2>1, <2>2 DEF OptionsChange, Reconciled
  <1>3. CASE LoadsSettings
    <2>1. PICK w \in Windows : timed' = SanitizedWindow(w, timedMonths', grid', gridMonths')
      BY <1>3 DEF LoadsSettings
    <2>2. CASE timed' = w /\ ~Overlap(w, timedMonths', grid', gridMonths')
      BY <1>3, <2>2 DEF LoadsSettings, WinInv, WinTypeOK, WindowsApart, Overlap, OverlapWithMonths
    <2>3. CASE timed' = NoTimes
      <3>1. ~WindowsOverlap(timed', grid')
        BY <2>3, NoTimesOverlapNothing
      <3> QED BY <1>3, <2>3, <3>1
          DEF LoadsSettings, WinInv, WinTypeOK, WindowsApart, OverlapWithMonths, NoTimes, Windows
    <2> QED BY <2>1, <2>2, <2>3 DEF SanitizedWindow
  <1>4. CASE Migrates
    <2>1. CASE /\ UNCHANGED monthSets
               /\ \E b \in Bounds, t \in Times : SetsTimedBound(b, t) \/ SetsGridBound(b, t)
      BY <1>4, <2>1, BoundEdit DEF Migrates
    <2>2. CASE /\ UNCHANGED windows
               /\ \E m \in Months : SetsTimedMonth(m, FALSE, FALSE) \/ SetsGridMonth(m, FALSE, FALSE)
      BY <1>4, <2>2, MonthEdit DEF Migrates
    <2> QED BY <1>4, <2>1, <2>2 DEF Migrates
  <1>5. CASE StartsAnew
    <2>1. ~WindowsOverlap(timed', grid')
      BY <1>5, NoTimesOverlapNothing DEF StartsAnew, Fresh
    <2> QED BY <1>5, <2>1
        DEF StartsAnew, Fresh, WinInv, WinTypeOK, WindowsApart, OverlapWithMonths, NoTimes, Windows
  <1>6. CASE StartsEmpty \/ FinishesBoot \/ UNCHANGED winVars
    <2>1. UNCHANGED <<windows, monthSets, rests>> /\ stage' \in {"new", "loaded", "migrates", "up"}
      BY <1>6 DEF StartsEmpty, FinishesBoot, winVars, windows, monthSets, WinInv, WinTypeOK
    <2> QED BY <2>1 DEF WinInv, WinTypeOK, WindowsApart, OverlapWithMonths, windows, monthSets
  <1> QED BY <1>1, <1>2, <1>3, <1>4, <1>5, <1>6 DEF WinNext

THEOREM WinInvariant == WinSpec => []WinInv
  BY WinInitEstablishes, WinStepPreserves, PTL DEF WinSpec

\* The windows, months and stages have their types (anything stored, edited or
\* migrated is a window again).
THEOREM WinTypeCorrect == WinSpec => []WinTypeOK
  <1>1. WinInv => WinTypeOK
    BY DEF WinInv
  <1> QED BY <1>1, WinInvariant, PTL

\* For any hours and months: whatever is edited, migrated, restored or switched
\* back to, no hour of a common month has both windows open.
THEOREM WindowsNeverMeet == WinSpec => []NeverBothOpen
  <1>1. WinInv => NeverBothOpen
    <2> SUFFICES ASSUME WinInv, ~rests, NEW h \in Times,
                        NEW m \in timedMonths \cap gridMonths,
                        IsTimeInWindow(h, timed), IsTimeInWindow(h, grid)
                 PROVE  FALSE
      BY DEF NeverBothOpen
    <2>1. WindowsOverlap(timed, grid)
      BY CommonHourOverlaps DEF WinInv, WinTypeOK
    <2> QED BY <2>1 DEF WinInv, WindowsApart, OverlapWithMonths
  <1> QED BY <1>1, WinInvariant, PTL

\* The overlap test of the setters and of the restore finds a conflict exactly
\* where an hour belongs to both windows.
THEOREM OverlapTestIsExact == WinSpec => []OverlapIsExact
  <1>1. WinInv => OverlapIsExact
    BY CommonHourOverlaps, OverlapHasCommonHour DEF WinInv, WinTypeOK, OverlapIsExact
  <1> QED BY <1>1, WinInvariant, PTL

\* The two charge windows stay apart, and no edit is refused without need.
THEOREM WindowsStayApart == WinSpec => []WindowsAreApart
  BY WindowsNeverMeet, OverlapTestIsExact, PTL DEF WindowsAreApart

-----------------------------------------------------------------------------
(* The switches                                                             *)

NothingNewAsked == phase = "new" => asked \subseteq leftOver
OptionsTaken == phase # "new" /\ listeners = {} /\ ~missed => tariff = entryTariff

SwitchInv ==
    /\ SwitchTypeOK
    /\ OneAutomation /\ AutomationFitsTariff
    /\ QuestionIsCurrent /\ NothingNewAsked
    /\ OptionsTaken

-----------------------------------------------------------------------------
\* What stays when only the switches and the questions are concerned.
LEMMA NoTypeIsUnsaid == NotSaid \notin TariffTypes /\ NotSaid \notin {"on", "off"}
  BY DEF NotSaid, TariffTypes

LEMMA DismissalKeepsInv ==
    ASSUME SwitchTypeOK', OneAutomation', AutomationFitsTariff', OptionsTaken', Dismisses
    PROVE  SwitchInv'
  BY DEF SwitchInv, QuestionIsCurrent, NothingNewAsked, Dismisses

LEMMA SwitchingKeepsInv ==
    ASSUME SwitchInv, NEW k \in Conflicts, NEW wanted \in BOOLEAN, NEW force \in BOOLEAN,
           Switches(k, wanted, force), phase # "new", UNCHANGED <<options, phase>>,
           dialog' \in Conflicts \cup {"none"}
    PROVE  SwitchInv'
  <1> DEFINE on == wanted /\ ~Refused(k, wanted)
             other == IF k = "timed" THEN priceOn ELSE timedOn
  <1>0. (Refused(k, wanted) => phase = "boot") /\ on \in BOOLEAN
    BY DEF Switches, Refused
  <1>1. CASE on /\ other /\ ~force
    <2>1. Asks(k)
      BY <1>1 DEF Switches
    <2> QED BY <1>1, <2>1 DEF Asks, SwitchInv, SwitchTypeOK, OneAutomation, AutomationFitsTariff,
            QuestionIsCurrent, NothingNewAsked, OptionsTaken, Conflicts, options, switches
  <1>2. CASE ~(on /\ other /\ ~force)
    <2>1. /\ timedOn' = IF k = "timed" THEN on ELSE timedOn /\ ~on
          /\ priceOn' = IF k = "price" THEN on ELSE priceOn /\ ~on
          /\ Dismisses
      BY <1>2 DEF Switches
    <2>2. SwitchTypeOK' /\ OptionsTaken'
      BY <1>0, <2>1 DEF Dismisses, SwitchInv, SwitchTypeOK, OptionsTaken, Conflicts, options
    <2>3. OneAutomation'
      BY <2>1 DEF SwitchInv, OneAutomation, Conflicts
    <2>4. AutomationFitsTariff'
      <3>1. phase = "up" => on = wanted /\ ~Refused(k, wanted)
        BY <1>0
      <3> QED BY <1>0, <2>1, <3>1
          DEF SwitchInv, AutomationFitsTariff, Conflicts, Refused, options
    <2> QED BY <2>1, <2>2, <2>3, <2>4, DismissalKeepsInv
  <1> QED BY <1>1, <1>2

\* Whatever automation the tariff leaves on, it is one, and the tariff's own.
LEMMA ControlsFitTariff ==
    ASSUME SwitchInv, NEW t \in TariffTypes, NEW before \in TariffTypes \cup {NotSaid},
           NEW enabled \in {"on", "off", NotSaid}
    PROVE  LET c == Controls(t, before, enabled) IN
           /\ c.timed \in BOOLEAN /\ c.price \in BOOLEAN /\ ~(c.timed /\ c.price)
           /\ t = "dynamic" => ~c.timed
           /\ t = "timeOfUse" => ~c.price
  BY DEF Controls, SwitchInv, SwitchTypeOK, OneAutomation, TariffTypes

LEMMA ApplyingKeepsInv ==
    ASSUME SwitchInv, phase = "up", NEW t \in TariffTypes, NEW enabled \in {"on", "off", NotSaid},
           Applies(t, enabled), UNCHANGED <<phase, dialog>>,
           entryTariff' = t, missed' = FALSE, listeners' \subseteq TariffTypes
    PROVE  SwitchInv'
  <1>1. /\ timedOn' \in BOOLEAN /\ priceOn' \in BOOLEAN /\ ~(timedOn' /\ priceOn')
        /\ t = "dynamic" => ~timedOn'
        /\ t = "timeOfUse" => ~priceOn'
    <2>1. tariff \in TariffTypes \cup {NotSaid}
      BY DEF SwitchInv, SwitchTypeOK
    <2> QED BY <2>1, ControlsFitTariff DEF Applies
  <1>2. CASE enabled # NotSaid \/ t # tariff
    <2>1. Dismisses
      BY <1>2 DEF Applies
    <2>2. SwitchTypeOK' /\ OneAutomation' /\ AutomationFitsTariff' /\ OptionsTaken'
      BY <1>1, <2>1 DEF Applies, Dismisses, SwitchInv, SwitchTypeOK, OneAutomation,
         AutomationFitsTariff, OptionsTaken
    <2> QED BY <2>1, <2>2, DismissalKeepsInv
  <1>3. CASE enabled = NotSaid /\ t = tariff
    <2>1. UNCHANGED repair /\ Controls(t, tariff, enabled).timed = timedOn
          /\ Controls(t, tariff, enabled).price = priceOn
      <3>1. UNCHANGED repair
        BY <1>3 DEF Applies
      <3>2. Controls(t, t, NotSaid).timed = timedOn /\ Controls(t, t, NotSaid).price = priceOn
        BY <1>3 DEF Controls, SwitchInv, SwitchTypeOK, AutomationFitsTariff, TariffTypes
      <3> QED BY <1>3, <3>1, <3>2
    <2> QED BY <1>1, <1>3, <2>1 DEF Applies, SwitchInv, SwitchTypeOK, OneAutomation,
        AutomationFitsTariff, QuestionIsCurrent, NothingNewAsked, OptionsTaken, repair
  <1> QED BY <1>2, <1>3

-----------------------------------------------------------------------------
LEMMA SwitchInitEstablishes == SwitchInit => SwitchInv
  BY DEF SwitchInit, SwitchInv, SwitchTypeOK, OneAutomation, AutomationFitsTariff,
     QuestionIsCurrent, NothingNewAsked, OptionsTaken, TariffTypes, Conflicts

LEMMA SwitchStepPreserves == SwitchInv /\ [SwitchNext]_switchVars => SwitchInv'
  <1> SUFFICES ASSUME SwitchInv, [SwitchNext]_switchVars PROVE SwitchInv'
    OBVIOUS
  <1>1. CASE UserSwitches
    <2>1. PICK k \in Conflicts, on \in BOOLEAN, force \in BOOLEAN : Switches(k, on, force)
      BY <1>1 DEF UserSwitches
    <2> QED BY <1>1, <2>1, SwitchingKeepsInv DEF UserSwitches, SwitchInv, SwitchTypeOK
  <1>2. CASE OpensDialog
    BY <1>2 DEF OpensDialog, SwitchInv, SwitchTypeOK, OneAutomation, AutomationFitsTariff,
       QuestionIsCurrent, NothingNewAsked, OptionsTaken, switches, options, repair
  <1>3. CASE ConfirmsDialog
    <2>1. CASE phase = "new"
      BY <1>3, <2>1 DEF ConfirmsDialog, SwitchInv, SwitchTypeOK, OneAutomation,
         AutomationFitsTariff, QuestionIsCurrent, NothingNewAsked, OptionsTaken, switches, options
    <2>2. CASE phase # "new"
      <3>1. Switches(dialog, TRUE, TRUE) /\ dialog \in Conflicts
        BY <1>3, <2>2 DEF ConfirmsDialog, SwitchInv, SwitchTypeOK
      <3> QED BY <1>3, <2>2, <3>1, SwitchingKeepsInv DEF ConfirmsDialog
    <2> QED BY <2>1, <2>2
  <1>4. CASE CancelsDialog
    <2>1. asked' \subseteq asked /\ asked' \ leftOver' \subseteq asked \ leftOver
          /\ (asked \subseteq leftOver => asked' \subseteq leftOver')
          /\ leftOver' \subseteq leftOver
      BY <1>4 DEF CancelsDialog, Dismisses
    <2> QED BY <1>4, <2>1 DEF CancelsDialog, SwitchInv, SwitchTypeOK, OneAutomation,
        AutomationFitsTariff, QuestionIsCurrent, NothingNewAsked, OptionsTaken, switches, options
  <1>5. CASE \E t \in TariffTypes : OptionsFlow(t)
    <2>1. PICK t \in TariffTypes : OptionsFlow(t)
      BY <1>5
    <2>2. CASE phase = "up"
      BY <2>1, <2>2 DEF OptionsFlow, Called, SwitchInv, SwitchTypeOK, OneAutomation,
         AutomationFitsTariff, QuestionIsCurrent, NothingNewAsked, OptionsTaken, switches, repair
    <2>3. CASE phase # "up"
      BY <2>1, <2>3 DEF OptionsFlow, Called, SwitchInv, SwitchTypeOK, OneAutomation,
         AutomationFitsTariff, QuestionIsCurrent, NothingNewAsked, OptionsTaken, switches, repair
    <2> QED BY <2>2, <2>3
  <1>6. CASE \E t \in TariffTypes : OptionsListener(t)
    <2>1. PICK t \in TariffTypes : OptionsListener(t)
      BY <1>6
    <2>2. phase = "up" /\ entryTariff \in TariffTypes /\ listeners' \subseteq TariffTypes
      BY <2>1 DEF OptionsListener, SwitchInv, SwitchTypeOK
    <2>3. CASE tariff = entryTariff
      BY <2>1, <2>2, <2>3 DEF OptionsListener, ReadAgain, SwitchInv, SwitchTypeOK, OneAutomation,
         AutomationFitsTariff, QuestionIsCurrent, NothingNewAsked, OptionsTaken, switches, repair
    <2>4. CASE tariff # entryTariff
      <3>1. Applies(entryTariff, NotSaid) /\ UNCHANGED <<entryTariff, phase, dialog>>
            /\ missed' = FALSE
        BY <2>1, <2>4 DEF OptionsListener, ReadAgain
      <3> QED BY <2>2, <3>1, ApplyingKeepsInv
    <2> QED BY <2>3, <2>4
  <1>7. CASE \E t \in TariffTypes : \E enabled \in {"on", "off", NotSaid} : Dashboard(t, enabled)
    <2>1. PICK t \in TariffTypes, enabled \in {"on", "off", NotSaid} : Dashboard(t, enabled)
      BY <1>7
    <2>2. listeners' \subseteq TariffTypes
      BY <2>1 DEF Dashboard, SwitchInv, SwitchTypeOK
    <2> QED BY <2>1, <2>2, ApplyingKeepsInv DEF Dashboard
  <1>8. CASE SetsUp
    BY <1>8 DEF SetsUp, SanitizedPrice, SwitchInv, SwitchTypeOK, OneAutomation,
       AutomationFitsTariff, QuestionIsCurrent, NothingNewAsked, OptionsTaken, repair
  <1>9. CASE IsSetUp
    <2>1. /\ timedOn' \in BOOLEAN /\ priceOn' \in BOOLEAN /\ ~(timedOn' /\ priceOn')
          /\ tariff = "dynamic" => ~timedOn'
          /\ tariff = "timeOfUse" => ~priceOn'
      <3>1. tariff \in TariffTypes
        BY DEF SwitchInv, SwitchTypeOK
      <3> QED BY <1>9, <3>1, ControlsFitTariff DEF IsSetUp, FinishesAsTariff
    <2>2. asked' \ leftOver' = {}
      BY <1>9 DEF IsSetUp
    <2>3. SwitchTypeOK'
      BY <1>9, <2>1 DEF IsSetUp, SwitchInv, SwitchTypeOK, options
    <2>4. OneAutomation' /\ AutomationFitsTariff' /\ OptionsTaken'
      BY <1>9, <2>1 DEF IsSetUp, SwitchInv, OneAutomation, AutomationFitsTariff, OptionsTaken, options
    <2>5. QuestionIsCurrent' /\ NothingNewAsked'
      BY <1>9, <2>2 DEF IsSetUp, QuestionIsCurrent, NothingNewAsked
    <2> QED BY <2>3, <2>4, <2>5 DEF SwitchInv
  <1>10. CASE UnloadsSwitches
    BY <1>10 DEF UnloadsSwitches, Dismisses, SwitchInv, SwitchTypeOK, OneAutomation,
       AutomationFitsTariff, QuestionIsCurrent, NothingNewAsked, OptionsTaken
  <1>11. CASE UNCHANGED switchVars
    BY <1>11 DEF switchVars, SwitchInv, SwitchTypeOK, OneAutomation,
       AutomationFitsTariff, QuestionIsCurrent, NothingNewAsked, OptionsTaken
  <1> QED BY <1>1, <1>2, <1>3, <1>4, <1>5, <1>6, <1>7, <1>8, <1>9, <1>10, <1>11 DEF SwitchNext

THEOREM SwitchInvariant == SwitchSpec => []SwitchInv
  BY SwitchInitEstablishes, SwitchStepPreserves, PTL DEF SwitchSpec

\* The state has its types, and no listener is under way before the setup is
\* complete.
THEOREM SwitchTypeCorrect == SwitchSpec => []SwitchTypeOK
  BY SwitchInvariant, PTL DEF SwitchInv

\* Timed and price charging are never on together.
THEOREM NeverTwoAutomations == SwitchSpec => []OneAutomation
  BY SwitchInvariant, PTL DEF SwitchInv

\* A complete setup runs no automation the tariff has no prices for.
THEOREM TariffDecides == SwitchSpec => []AutomationFitsTariff
  BY SwitchInvariant, PTL DEF SwitchInv

\* A question of this setup is about the state the switches are in.
THEOREM QuestionsAreCurrent == SwitchSpec => []QuestionIsCurrent
  BY SwitchInvariant, PTL DEF SwitchInv

\* The coordinator ends with the entry's options, in whatever order listeners run.
THEOREM OptionsAlwaysArrive == SwitchSpec => []OptionsArrive
  <1>1. SwitchInv => OptionsArrive
    BY DEF SwitchInv, OptionsTaken, OptionsArrive
  <1> QED BY <1>1, SwitchInvariant, PTL

\* An automation that was on stays on, as the new tariff's, when the options
\* flow changes the tariff; none begins.
THEOREM TariffKeepsAutomation == SwitchSpec => AutomationSurvivesTariff
  <1> DEFINE Kept ==
        phase = "up" /\ tariff' # tariff /\ listeners' # listeners /\ entryTariff' = entryTariff
        => (timedOn' \/ priceOn') = (timedOn \/ priceOn)
  <1>1. SwitchInv /\ [SwitchNext]_switchVars => [Kept]_switchVars
    <2> SUFFICES ASSUME SwitchInv, SwitchNext, phase = "up", tariff' # tariff,
                        listeners' # listeners, entryTariff' = entryTariff
                 PROVE  (timedOn' \/ priceOn') = (timedOn \/ priceOn)
      BY DEF switchVars
    <2>1. PICK t \in TariffTypes :
              OptionsListener(t) \/ \E enabled \in {"on", "off", NotSaid} : Dashboard(t, enabled)
      BY DEF SwitchNext, UserSwitches, OpensDialog, ConfirmsDialog, CancelsDialog, OptionsFlow,
         SetsUp, IsSetUp, UnloadsSwitches, options
    <2>2. CASE OptionsListener(t)
      <3>1. Applies(entryTariff, NotSaid) /\ tariff # entryTariff
        BY <2>2 DEF OptionsListener, ReadAgain
      <3>2. tariff \in TariffTypes /\ entryTariff \in TariffTypes
        BY DEF SwitchInv, SwitchTypeOK
      <3> QED BY <3>1, <3>2, NoTypeIsUnsaid
          DEF Applies, Controls, TariffTypes, SwitchInv, SwitchTypeOK
    <2>3. CASE \E enabled \in {"on", "off", NotSaid} : Dashboard(t, enabled)
      BY <2>3 DEF Dashboard
    <2> QED BY <2>1, <2>2, <2>3
  <1> QED BY <1>1, SwitchInvariant, PTL DEF SwitchSpec, AutomationSurvivesTariff

\* Switches, dialogs, options flow and dashboard agree about the one automation
\* that is on, in whatever order they act.
THEOREM AutomationsStayAgreed == SwitchSpec => AutomationsAgree
  BY NeverTwoAutomations, TariffDecides, QuestionsAreCurrent, OptionsAlwaysArrive,
     TariffKeepsAutomation, PTL DEF AutomationsAgree
=============================================================================
