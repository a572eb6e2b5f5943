-------------------------- MODULE FixedTimeCharge --------------------------
(***************************************************************************)
(* One charge a day from a fixed local time (REQ-FIXED-TIME-GRID-CHARGE):  *)
(* the permission of an occurrence lasts until the target is reached, over *)
(* midnight and restarts, and its end is remembered in a store.  Saving    *)
(* takes time, in which the writer goes on, the settings change, or the    *)
(* process dies.                                                           *)
(*                                                                         *)
(* Days have no changes of the clock.  A stop succeeds; what a refused one *)
(* leaves behind is SunCharge's subject, and so are the power and whoever  *)
(* else wants the storage.                                                 *)
(***************************************************************************)
EXTENDS Integers

CONSTANTS
    DayLength,      \* ticks of the clock in a day
    LastInstant,    \* bound: the clock stops here
    DailyStarts,    \* times of day the user may configure
    MarkReadback    \* outcomes of reading a written mark back: subset of {"ok", "fails"}

ASSUME FixedAssumption ==
    /\ DayLength \in Nat \ {0} /\ LastInstant \in Nat
    /\ DailyStarts \subseteq 0..(DayLength - 1) /\ MarkReadback \subseteq {"ok", "fails"}

VARIABLES
    instant,
    permittedBy,    \* switches, tariff and month allow it
    startTime,      \* fixed_time_charge_start
    mark,           \* _fixed_time_charge_state
    savedMark, markFile,    \* _fixed_time_charge_persisted_state, and the store
    dailyStage,     \* of the evaluation that holds the control lock
    writing,        \* _fixed_time_charge_writing
    charged,        \* the occurrence the storage was told to charge for
    \* History, read by the properties only.
    reached,        \* the occurrence whose target was reached, as far as it is known
    begun           \* occurrences whose time came while they were permitted

fixedVars == <<instant, permittedBy, startTime, mark, savedMark, markFile,
               dailyStage, writing, charged, reached, begun>>

Today == instant \div DayLength
TimeOfDay == instant % DayLength

\* An occurrence is a start time and a day.
NoMark == [start |-> 0, day |-> -1, completed |-> FALSE]
NoOccurrence == <<0, -1>>
Occurrence(m) == <<m.start, m.day>>
-----------------------------------------------------------------------------
(* fixed_time_charge_state, _async_prepare_fixed_time_charge               *)

OfToday == [start |-> startTime, day |-> Today, completed |-> FALSE]
Fitting(m) == IF m.start = startTime THEN m ELSE NoMark

DueMark(m) == IF TimeOfDay >= startTime /\ m.day # Today THEN OfToday ELSE m

Marked(soc) ==
    IF ~permittedBy THEN NoMark
    ELSE IF soc = "none" THEN mark
    ELSE LET due == DueMark(Fitting(mark))
         IN  IF due # NoMark /\ soc = "full" THEN [due EXCEPT !.completed = TRUE] ELSE due

\* _fixed_time_charge_permitted
Permitted(m) == permittedBy /\ m # NoMark /\ ~m.completed /\ m.start = startTime

\* An order that lost its permission ends before the store is written.
StillCharged(m) == IF writing /\ ~Permitted(m) THEN NoOccurrence
                   ELSE IF charged # NoOccurrence THEN Occurrence(m) ELSE charged

Prepares(soc) ==
    /\ dailyStage = "idle" /\ dailyStage' = "saving"
    /\ mark' = Marked(soc)
    /\ charged' = StillCharged(mark')
    /\ reached' = IF mark' # NoMark /\ mark'.completed THEN Occurrence(mark') ELSE reached
    /\ begun' = IF permittedBy /\ soc # "none" /\ TimeOfDay >= startTime
                THEN begun \cup {<<startTime, Today>>} ELSE begun
    /\ UNCHANGED <<instant, permittedBy, startTime, savedMark, markFile, writing>>

\* A cancellation that was stored leaves nothing to come back to.
Withdrawn == IF {mark, savedMark', markFile'} = {NoMark} THEN {} ELSE begun

\* FixedTimeChargeStateStore.async_save: only what was read back counts.
Saves ==
    \/ "ok" \in MarkReadback /\ markFile' = mark /\ savedMark' = mark
    \/ "fails" \in MarkReadback /\ markFile' = mark /\ UNCHANGED savedMark
    \/ UNCHANGED <<markFile, savedMark>>

SavesMark ==
    /\ dailyStage = "saving" /\ dailyStage' = "deciding"
    /\ IF mark = savedMark THEN UNCHANGED <<savedMark, markFile>> ELSE Saves
    /\ begun' = Withdrawn
    /\ UNCHANGED <<instant, permittedBy, startTime, mark, writing, charged, reached>>

\* The rest of the evaluation: surplus, a manual order or a cap may prevail.
\* Without a SOC, or when it is changed meanwhile, nothing is charged.
Decides ==
    /\ dailyStage = "deciding" /\ dailyStage' = "idle"
    /\ writing' \in IF Permitted(mark) THEN BOOLEAN ELSE {FALSE}
    /\ charged' = IF writing' THEN charged ELSE NoOccurrence
    /\ UNCHANGED <<instant, permittedBy, startTime, mark, savedMark, markFile, reached, begun>>

\* _check_timed_charge_write: the writer repeats its order while it may.
\* A slip: it asks the mark alone.
MayWriteByMark == writing /\ mark # NoMark /\ ~mark.completed
MayWrite == writing /\ Permitted(mark)

WriterCharges ==
    /\ MayWrite /\ charged' = Occurrence(mark)
    /\ UNCHANGED <<instant, permittedBy, startTime, mark, savedMark, markFile,
                   dailyStage, writing, reached, begun>>
-----------------------------------------------------------------------------
(* The world                                                                *)

InstantPasses ==
    /\ instant < LastInstant /\ instant' = instant + 1
    /\ UNCHANGED <<permittedBy, startTime, mark, savedMark, markFile, dailyStage, writing,
                   charged, reached, begun>>

\* The user, or the month.  History: a changed setting may be obeyed anew.
ChangesDaily ==
    /\ \/ permittedBy' = ~permittedBy /\ UNCHANGED startTime
       \/ startTime' \in DailyStarts \ {startTime} /\ UNCHANGED permittedBy
    /\ reached' = NoOccurrence
    /\ UNCHANGED <<instant, mark, savedMark, markFile, dailyStage, writing, charged, begun>>

\* async_load, which may find the file unreadable.
\* History: a completion that was confirmed, or is found, must be obeyed.
LoadsMark ==
    /\ \/ /\ mark' = markFile
          /\ reached' = IF [start |-> reached[1], day |-> reached[2], completed |-> TRUE]
                            \in {savedMark, mark'}
                        THEN reached ELSE NoOccurrence
       \/ mark' = NoMark /\ reached' = NoOccurrence
    /\ savedMark' = mark'
    /\ dailyStage' = "idle" /\ writing' = FALSE /\ charged' = NoOccurrence
    /\ UNCHANGED <<instant, permittedBy, startTime, markFile, begun>>
-----------------------------------------------------------------------------
FixedInit ==
    /\ instant = 0 /\ permittedBy = FALSE /\ startTime \in DailyStarts
    /\ mark = NoMark /\ savedMark = NoMark /\ markFile = NoMark
    /\ dailyStage = "idle" /\ writing = FALSE /\ charged = NoOccurrence
    /\ reached = NoOccurrence /\ begun = {}

FixedNext ==
    \/ \E soc \in {"none", "low", "full"} : Prepares(soc)
    \/ SavesMark \/ Decides \/ WriterCharges
    \/ InstantPasses \/ ChangesDaily \/ LoadsMark

FixedSpec == FixedInit /\ [][FixedNext]_fixedVars
-----------------------------------------------------------------------------
MarkDays == 0..(LastInstant \div DayLength)
Marks == [start : DailyStarts, day : MarkDays, completed : BOOLEAN] \cup {NoMark}
DailyOccurrences == (DailyStarts \X MarkDays) \cup {NoOccurrence}

\* The types; the time of every mark has come.
FixedTypeOK ==
    /\ instant \in 0..LastInstant /\ permittedBy \in BOOLEAN /\ startTime \in DailyStarts
    /\ {mark, savedMark, markFile} \subseteq Marks
    /\ mark.day * DayLength + mark.start <= instant
    /\ dailyStage \in {"idle", "saving", "deciding"} /\ writing \in BOOLEAN
    /\ {charged, reached} \cup begun \subseteq DailyOccurrences

\* A target that was reached is not charged for again, whatever the SOC does
\* afterwards and whatever restarts in between: a stored completion outlives
\* them, and an order found completed is gone before it is stored.
OncePerDay == charged # NoOccurrence => charged # reached

\* Nobody charges for a time that came while the function was not permitted:
\* yesterday's permission counts only with a mark of its own.
ResumesWithProof == charged # NoOccurrence => charged \in begun

\* A setpoint is given only while it is permitted, although the settings may
\* have moved since the evaluation that ordered it.
OrderIsStillPermitted ==
    [][charged' \notin {charged, NoOccurrence}
          => permittedBy /\ charged'[1] = startTime]_fixedVars

\* Once a day, at a time that came while it was permitted, and not after that
\* permission or that time is gone.
DailyChargeIsOwed == []OncePerDay /\ []ResumesWithProof /\ OrderIsStillPermitted
=============================================================================
