---------------------------- MODULE Calibration ----------------------------
(***************************************************************************)
(* The periodic full-charge calibration (REQ-PERIODIC-FULL-CALIBRATION).   *)
(* The coordinator keeps the time of the last edge from "below full" to    *)
(* "full"; from the local midnight Interval days later it lifts the user's *)
(* charge limit to 100 % until the battery is full again.  The schedule is *)
(* written to a store on every change and loaded before the first device   *)
(* refresh of the next run.                                                *)
(*                                                                         *)
(* Time is counted in ticks, TicksPerDay of them in a local calendar day;  *)
(* days of 23 or 25 hours are days like the others.                        *)
(***************************************************************************)
EXTENDS Naturals

CONSTANTS
    None,          \* Python's None
    Interval,      \* days between calibrations (CELL_CALIBRATION_INTERVAL)
    TicksPerDay,   \* resolution of the clock
    Limits,        \* charge limits the user may set, in percent
    Socs,          \* states of charge the device may report, in percent
    MaxTime        \* bound of the clock

MaximumSoc == 100   \* const.MAX_SOC

ASSUME NoneAssumption == None \notin Nat
ASSUME IntervalAssumption == Interval \in Nat \ {0}
ASSUME TicksAssumption == TicksPerDay \in Nat \ {0}
ASSUME LimitsAssumption == Limits \subseteq 0..MaximumSoc
ASSUME SocsAssumption == Socs \subseteq 0..MaximumSoc
ASSUME MaxTimeAssumption == MaxTime \in Nat

VARIABLES
    now,       \* the clock
    maxSoc,    \* _max_soc, the limit the user configured
    sched,     \* _cell_calibration_state
    active,    \* _cell_calibration_active
    stored,    \* what the calibration store holds, or None
    seen       \* the SOC of the last evaluation of this run, or None

vars == <<now, maxSoc, sched, active, stored, seen>>

Schedules == [last : 0..MaxTime, wasFull : BOOLEAN]

\* The state before any valid SOC was seen.
NoSchedule == [last |-> None, wasFull |-> FALSE]

Due(last) == (last \div TicksPerDay + Interval) * TicksPerDay

IsFull(soc) == soc >= MaximumSoc

\* The first SOC sets the baseline; after that only an edge to full moves it.
\* A slip: every full reading counts as an edge.
NextScheduleEveryPoll(s, soc, t) ==
    [last |-> IF s.last = None \/ IsFull(soc) THEN t ELSE s.last,
     wasFull |-> IsFull(soc)]
NextSchedule(s, soc, t) ==
    CASE s.last = None -> [last |-> t, wasFull |-> IsFull(soc)]
      [] s.last # None /\ IsFull(soc) /\ ~s.wasFull -> [last |-> t, wasFull |-> TRUE]
      [] s.last # None /\ ~IsFull(soc) /\ s.wasFull -> [last |-> s.last, wasFull |-> FALSE]
      [] OTHER -> s

\* A variant of CalibrationActive: an override for the due day only.
CalibrationActiveDueDay(s, soc, t, limit) ==
    /\ limit < MaximumSoc /\ ~IsFull(soc)
    /\ t >= Due(s.last) /\ t < Due(s.last) + 1

CalibrationActive(s, soc, t, limit) ==
    /\ limit < MaximumSoc
    /\ ~IsFull(soc)
    /\ t >= Due(s.last)

TypeOK ==
    /\ now \in 0..MaxTime
    /\ maxSoc \in Limits
    /\ sched \in Schedules \cup {NoSchedule}
    /\ active \in BOOLEAN
    /\ stored \in Schedules \cup {None}
    /\ seen \in Socs \cup {None}

Init ==
    /\ now = 0
    /\ maxSoc \in Limits
    /\ sched = NoSchedule
    /\ active = FALSE
    /\ stored = None
    /\ seen = None


(***************************************************************************)
(* A valid SOC is evaluated: in a poll, in a re-evaluation after a change  *)
(* of the settings, or in the PV regulator between two polls.  A changed   *)
(* schedule is saved at once; the save may fail, which is only logged.     *)
(***************************************************************************)
Evaluate(soc) ==
    LET next == NextSchedule(sched, soc, now) IN
    /\ sched' = next
    /\ active' = CalibrationActive(next, soc, now, maxSoc)
    /\ seen' = soc
    /\ \/ next # sched /\ stored' = next
       \/ UNCHANGED stored
    /\ UNCHANGED <<now, maxSoc>>

\* The user moves the limit.  The override changes in the Evaluate that follows
\* when the control lock, or the worker, gets to it.
SetMaxSoc(limit) ==
    /\ maxSoc' = limit
    /\ UNCHANGED <<now, sched, active, stored, seen>>

\* Home Assistant restarts: RAM is lost, the store is read or found invalid.
Restart ==
    /\ \E loaded \in {stored, None} :
          sched' = IF loaded = None THEN NoSchedule ELSE loaded
    /\ active' = FALSE
    /\ seen' = None
    /\ UNCHANGED <<now, maxSoc, stored>>

Tick ==
    /\ now < MaxTime
    /\ now' = now + 1
    /\ UNCHANGED <<maxSoc, sched, active, stored, seen>>

Next ==
    \/ \E soc \in Socs : Evaluate(soc)
    \/ \E limit \in Limits : SetMaxSoc(limit)
    \/ Restart
    \/ Tick

Spec == Init /\ [][Next]_vars

\* The poll comes around and the clock moves.
FairSpec ==
    /\ Spec
    /\ WF_vars(\E soc \in Socs : Evaluate(soc))
    /\ WF_vars(Tick)

----------------------------------------------------------------------------
(* Properties                                                              *)

(***************************************************************************)
(* The user's limit is lifted only while the last full charge is at least  *)
(* Interval calendar days old and the battery has been below full since:   *)
(* through restarts, lost saves and moved limits.                          *)
(***************************************************************************)
OverrideJustified ==
    active => /\ sched.last # None
              /\ now >= Due(sched.last)
              /\ ~sched.wasFull

(***************************************************************************)
(* A save that fails leaves an older schedule on disk, never a newer one:  *)
(* a restart can only bring the next calibration forward.                  *)
(***************************************************************************)
StoredNeverAhead ==
    stored # None /\ sched.last # None => stored.last <= sched.last

(***************************************************************************)
(* The edge detector agrees with the last reading of this run, so that no  *)
(* later reading is taken for an edge, or misses one.                      *)
(***************************************************************************)
EdgeTracksReading ==
    seen # None => sched.last # None /\ sched.wasFull = IsFull(seen)

(***************************************************************************)
(* The due date moves only on a new full reading or on a new baseline; a   *)
(* battery resting at full does not push it ahead with every poll.         *)
(***************************************************************************)
DueDateMovesOnEdge ==
    [][ sched.last # None /\ sched'.last # None /\ seen' # None
        /\ sched'.last # sched.last
            => IsFull(seen') /\ ~(seen # None /\ IsFull(seen)) ]_vars

(***************************************************************************)
(* Once lifted, the limit comes back only with a full battery, a configured*)
(* limit of 100 % or a restart: not because the clock moved on.            *)
(***************************************************************************)
OverrideEndsWhenFull ==
    [][ active /\ ~active' =>
            \/ seen' = None
            \/ IsFull(seen')
            \/ maxSoc = MaximumSoc ]_vars

(***************************************************************************)
(* A battery that stays below full past its due date, under a limit below  *)
(* 100 %, is calibrated, however often the program restarts in between.    *)
(***************************************************************************)
Overdue ==
    /\ sched.last # None
    /\ now >= Due(sched.last)
    /\ maxSoc < MaximumSoc
    /\ (seen # None => ~IsFull(seen))

OverdueIsCalibrated == <>[]Overdue => []<>active

(***************************************************************************)
(* The schedule is steady: what is stored is never ahead of it, the edge   *)
(* detector follows the readings, and only an edge moves the due date.     *)
(***************************************************************************)
ScheduleIsSteady == []StoredNeverAhead /\ []EdgeTracksReading /\ DueDateMovesOnEdge

(***************************************************************************)
(* The limit is lifted from the due day until the battery is full, and at  *)
(* no other time: neither too early nor given up halfway.                  *)
(***************************************************************************)
OverrideIsBounded == []OverrideJustified /\ OverrideEndsWhenFull
=============================================================================
