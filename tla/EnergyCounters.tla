---------------------------- MODULE EnergyCounters ----------------------------
(***************************************************************************)
(* The energy counters on disk (infrastructure/energy_store.py,            *)
(* storage_load.py and the coordinator's side of them).  Three groups are  *)
(* initialised and restored independently: the battery counter, the origin *)
(* of the charged energy with the instant its accounting began, and the    *)
(* grid meter with its own.  A group that is incomplete on disk starts     *)
(* anew at zero.  Saving is coalesced by Home Assistant's Store; an        *)
(* unreadable file blocks every write until somebody repairs it.           *)
(*                                                                         *)
(* The discharge counter follows the same path as the charge counter and   *)
(* is left out; the two counters of a group stand for one.  An instant is  *)
(* the number of the load that set it.                                     *)
(***************************************************************************)
EXTENDS Naturals

CONSTANTS MaxCounted, MaxLoads, MaxEnergyFaults, Unset

ASSUME EnergyBounds ==
    /\ MaxCounted \in Nat /\ MaxLoads \in Nat /\ MaxEnergyFaults \in Nat
    /\ Unset \notin Nat

VARIABLES
    energyFile,      \* the store file: what is in it, or why it is unreadable
    energyTrace,     \* a <file>.corrupt.* lies beside it
    energyPhase,     \* "off", "loading", "up"
    energyNow,       \* the coordinator's counters
    writeBlocked,    \* _energy_store_write_blocked
    lastSaved,       \* the store's _last_persisted
    pendingSave,     \* _pending; Unset when nothing is scheduled
    restoring,       \* the energy sensor has not been added yet
    sensorDump,      \* the sensor's state in Home Assistant's restore file, if any
    loads,           \* loads so far
    unsaved,         \* history: counted since the last accepted write
    sinceLoad,       \* history: for each load, the energy measured since it
    energyFaults

energyVars == <<energyFile, energyTrace, energyPhase, energyNow, writeBlocked,
                lastSaved, pendingSave, restoring, sensorDump, loads, unsaved,
                sinceLoad, energyFaults>>

-----------------------------------------------------------------------------
KwhValues == 0..MaxCounted \cup {Unset}
Groups == [start : 1..MaxLoads \cup {Unset}, kwh : KwhValues]
EnergyStates == [charged : KwhValues, origin : Groups, meter : Groups]
ASSUME UnsetIsNoState == Unset \notin EnergyStates

NoGroup == [start |-> Unset, kwh |-> Unset]
NoCounters == [charged |-> Unset, origin |-> NoGroup, meter |-> NoGroup]

\* origin_initialized, grid_initialized.
Complete(group) == group.start # Unset /\ group.kwh # Unset

\* A file holds counters, is absent, or is not readable at all.
EnergyFiles == [kind : {"good"}, state : EnergyStates]
               \cup [kind : {"none", "bad"}, state : {NoCounters}]
NoEnergyFile == [kind |-> "none", state |-> NoCounters]
GoodFile(s) == [kind |-> "good", state |-> s]

EnergyTypeOK ==
    /\ energyFile \in EnergyFiles
    /\ energyTrace \in BOOLEAN /\ writeBlocked \in BOOLEAN
    /\ energyPhase \in {"off", "loading", "up"}
    /\ energyNow \in EnergyStates /\ lastSaved \in EnergyStates
    /\ pendingSave \in EnergyStates \cup {Unset}
    /\ restoring \in BOOLEAN /\ unsaved \in BOOLEAN
    /\ sensorDump \in {<<>>} \cup {<<v>> : v \in KwhValues}
    /\ loads \in 0..MaxLoads /\ energyFaults \in 0..MaxEnergyFaults
    /\ sinceLoad \in [1..MaxLoads -> 0..MaxCounted]
    /\ energyPhase = "up" /\ ~writeBlocked
          => Complete(energyNow.origin) /\ Complete(energyNow.meter)

EnergyInit ==
    /\ energyFile = NoEnergyFile /\ energyTrace = FALSE
    /\ energyPhase = "off" /\ energyNow = NoCounters
    /\ writeBlocked = FALSE /\ lastSaved = NoCounters
    /\ pendingSave = Unset /\ restoring = FALSE /\ sensorDump = <<>>
    /\ loads = 0 /\ unsaved = FALSE
    /\ sinceLoad = [n \in 1..MaxLoads |-> 0]
    /\ energyFaults = 0

-----------------------------------------------------------------------------
\* _accept_monotonic: no counter falls or disappears, and the instant at
\* which a group began never changes.
NotBefore(value, previous) ==
    previous # Unset => value # Unset /\ value >= previous
SameStart(group, base) == base.start # Unset => group.start = base.start

AcceptMonotonic(s) ==
    LET base == IF pendingSave # Unset THEN pendingSave ELSE lastSaved
    IN /\ NotBefore(s.charged, base.charged)
       /\ NotBefore(s.origin.kwh, base.origin.kwh)
       /\ NotBefore(s.meter.kwh, base.meter.kwh)
       /\ SameStart(s.origin, base.origin) /\ SameStart(s.meter, base.meter)

\* EnergyState.initialized.
Countable(s) == s.charged # Unset \/ Complete(s.meter)

MaySave(s) == ~writeBlocked /\ Countable(s)

\* _async_schedule_energy_save: a refused snapshot is only logged.
ScheduleEnergySave(s) ==
    pendingSave' = IF MaySave(s) /\ AcceptMonotonic(s) THEN s ELSE pendingSave

Faulty(ok) == \/ ok /\ UNCHANGED energyFaults
              \/ ~ok /\ energyFaults < MaxEnergyFaults
                     /\ energyFaults' = energyFaults + 1

-----------------------------------------------------------------------------
\* Measured energy.

KwhPlus(value) == IF value = Unset THEN Unset ELSE value + 1
GroupPlus(group) == [group EXCEPT !.kwh = KwhPlus(@)]

Metered(next) ==
    /\ energyPhase = "up" /\ sinceLoad[1] < MaxCounted
    /\ energyNow' = next
    /\ sinceLoad' = [n \in 1..MaxLoads |-> sinceLoad[n] + (IF n <= loads THEN 1 ELSE 0)]
    /\ UNCHANGED <<energyFile, energyTrace, energyPhase, writeBlocked,
                   lastSaved, restoring, sensorDump, loads, energyFaults>>

\* _accumulate_energy: only the battery counter's movement asks for a save;
\* while it is unknown the origin is counted without one.
CountCharge ==
    /\ Metered([energyNow EXCEPT !.charged = KwhPlus(@), !.origin = GroupPlus(@)])
    /\ IF energyNow.charged # Unset
       THEN ScheduleEnergySave(energyNow') /\ unsaved' = TRUE
       ELSE UNCHANGED <<pendingSave, unsaved>>

\* _update_grid_energy.
CountImport ==
    /\ Complete(energyNow.meter)
    /\ Metered([energyNow EXCEPT !.meter = GroupPlus(@)])
    /\ ScheduleEnergySave(energyNow') /\ unsaved' = TRUE

\* Home Assistant's own dump of the sensor's state.
DumpSensor ==
    /\ energyPhase = "up" /\ ~restoring
    /\ sensorDump' = <<energyNow.charged>>
    /\ UNCHANGED <<energyFile, energyTrace, energyPhase, energyNow, writeBlocked,
                   lastSaved, pendingSave, restoring, loads, unsaved,
                   sinceLoad, energyFaults>>

-----------------------------------------------------------------------------
\* Saving.

\* _consume_pending: the newest snapshot is taken for saved when Home
\* Assistant asks for it; a write that fails is only logged.
ConsumePending(ok) ==
    /\ pendingSave' = Unset
    /\ lastSaved' = pendingSave
    /\ energyFile' = IF ok THEN GoodFile(pendingSave) ELSE energyFile
    /\ unsaved' = (unsaved /\ ~ok)

DelayedSave ==
    /\ pendingSave # Unset
    /\ \E ok \in BOOLEAN : Faulty(ok) /\ ConsumePending(ok)
    /\ UNCHANGED <<energyTrace, energyPhase, energyNow, writeBlocked, restoring,
                   sensorDump, loads, sinceLoad>>

\* _async_flush_energy_state at the unload; the process or the entry ends.
FlushEnergy ==
    /\ energyPhase = "up" /\ ~restoring
    /\ IF MaySave(energyNow) /\ AcceptMonotonic(energyNow)
       THEN \E ok \in BOOLEAN :
              /\ Faulty(ok)
              /\ energyFile' = IF ok THEN GoodFile(energyNow) ELSE energyFile
              /\ unsaved' = (unsaved /\ ~ok)
       ELSE UNCHANGED <<energyFile, unsaved, energyFaults>>
    /\ energyPhase' = "off" /\ pendingSave' = Unset
    /\ UNCHANGED <<energyTrace, energyNow, writeBlocked, lastSaved, restoring,
                   sensorDump, loads, sinceLoad>>

-----------------------------------------------------------------------------
\* Loading.

LoadEnergy ==
    /\ energyPhase = "off" /\ loads < MaxLoads
    /\ energyPhase' = "loading" /\ loads' = loads + 1
    /\ energyNow' = NoCounters /\ lastSaved' = NoCounters
    /\ pendingSave' = Unset /\ writeBlocked' = FALSE /\ unsaved' = FALSE
    /\ restoring' = TRUE
    /\ UNCHANGED <<energyFile, energyTrace, sensorDump, sinceLoad, energyFaults>>

\* async_load_checked: the file, or what is left of it, was there before, and
\* nothing can be read.
\* A slip: a file that was moved away is taken for a new entry.
UnreadableNow == energyFile.kind = "bad"
UnreadableStore ==
    energyFile.kind = "bad" \/ (energyFile.kind = "none" /\ energyTrace)

\* _origin_baseline, _grid_baseline: a fragment must not refuse the fresh
\* counters of its group.
GroupBaseline(group) == IF Complete(group) THEN group ELSE NoGroup

\* _bootstrap_energy_origin, _bootstrap_grid_energy: restored as a whole, or
\* counted from zero and from now on.
Bootstrapped(group) ==
    IF Complete(group) THEN group ELSE [start |-> loads, kwh |-> 0]

LoadReads ==
    /\ energyPhase = "loading" /\ ~UnreadableStore
    /\ LET s == energyFile.state
       IN /\ energyNow' = [charged |-> s.charged,
                         origin |-> Bootstrapped(s.origin),
                         meter |-> Bootstrapped(s.meter)]
          /\ lastSaved' = [charged |-> s.charged,
                           origin |-> GroupBaseline(s.origin),
                           meter |-> GroupBaseline(s.meter)]
    /\ energyPhase' = "up"
    /\ UNCHANGED <<energyFile, energyTrace, writeBlocked, pendingSave,
                   restoring, sensorDump, loads, unsaved, sinceLoad,
                   energyFaults>>

\* The load fails: an unreadable file is moved away and stays evidence, and
\* nothing is written until the next load.
LoadFails ==
    /\ energyPhase = "loading"
    /\ IF UnreadableStore
       THEN /\ energyTrace' = TRUE /\ energyFile' = NoEnergyFile
            /\ UNCHANGED energyFaults
       ELSE /\ energyFaults < MaxEnergyFaults
            /\ energyFaults' = energyFaults + 1
            /\ UNCHANGED <<energyFile, energyTrace>>
    /\ writeBlocked' = TRUE /\ energyPhase' = "up"
    /\ UNCHANGED <<energyNow, lastSaved, pendingSave, restoring, sensorDump,
                   loads, unsaved, sinceLoad>>

\* _restore_legacy_energy: an unknown counter takes the sensor's last value.
RestoreOnce(value) ==
    IF energyNow.charged # Unset THEN energyNow
                               ELSE [energyNow EXCEPT !.charged = value]

\* async_added_to_hass of the energy sensor: a new sensor starts at zero, one
\* whose last state was unknown restores nothing.
AddSensor ==
    /\ energyPhase = "up" /\ restoring
    /\ restoring' = FALSE
    /\ LET value == IF sensorDump = <<>> THEN 0 ELSE sensorDump[1]
       IN IF value = Unset
          THEN UNCHANGED <<energyNow, pendingSave, unsaved>>
          ELSE /\ energyNow' = RestoreOnce(value)
               /\ IF energyNow' # energyNow
                  THEN ScheduleEnergySave(energyNow') /\ unsaved' = TRUE
                  ELSE UNCHANGED <<pendingSave, unsaved>>
    /\ UNCHANGED <<energyFile, energyTrace, energyPhase, writeBlocked,
                   lastSaved, sensorDump, loads, sinceLoad, energyFaults>>

-----------------------------------------------------------------------------
\* The world outside: death, damage and repair.

EnergyDies ==
    /\ energyPhase # "off"
    /\ energyPhase' = "off" /\ pendingSave' = Unset
    /\ UNCHANGED <<energyFile, energyTrace, energyNow, writeBlocked, lastSaved,
                   restoring, sensorDump, loads, unsaved, sinceLoad,
                   energyFaults>>

\* One field is no longer valid, or the file is not JSON any more.  A
\* snapshot of an older version lacks its group in the same way.
DamageFile ==
    /\ energyPhase = "off" /\ energyFile.kind = "good"
    /\ energyFaults < MaxEnergyFaults /\ energyFaults' = energyFaults + 1
    /\ energyFile' \in
         {[kind |-> "bad", state |-> NoCounters],
          [energyFile EXCEPT !.state.charged = Unset],
          [energyFile EXCEPT !.state.origin.start = Unset],
          [energyFile EXCEPT !.state.origin.kwh = Unset],
          [energyFile EXCEPT !.state.meter.start = Unset],
          [energyFile EXCEPT !.state.meter.kwh = Unset]}
    /\ UNCHANGED <<energyTrace, energyPhase, energyNow, writeBlocked, lastSaved,
                   pendingSave, restoring, sensorDump, loads, unsaved,
                   sinceLoad>>

\* Somebody removes the quarantined copy and accepts a new beginning.
ClearTrace ==
    /\ energyPhase = "off" /\ energyTrace
    /\ energyTrace' = FALSE
    /\ UNCHANGED <<energyFile, energyPhase, energyNow, writeBlocked, lastSaved,
                   pendingSave, restoring, sensorDump, loads, unsaved,
                   sinceLoad, energyFaults>>

EnergyEnded == energyPhase = "off" /\ loads = MaxLoads /\ UNCHANGED energyVars

EnergyNext ==
    \/ CountCharge \/ CountImport \/ DumpSensor
    \/ DelayedSave \/ FlushEnergy
    \/ LoadEnergy \/ LoadReads \/ LoadFails \/ AddSensor
    \/ EnergyDies \/ DamageFile \/ ClearTrace \/ EnergyEnded

EnergySpec == EnergyInit /\ [][EnergyNext]_energyVars

-----------------------------------------------------------------------------
\* The store never refuses what the coordinator has counted, whatever was
\* missing or invalid in the file it loaded.
NeverRefused ==
    energyPhase = "up" /\ MaySave(energyNow) => AcceptMonotonic(energyNow)

\* A group counts exactly what was measured since the instant it carries:
\* nothing older is booked under a new start.
SinceItsStart ==
    energyPhase = "up" =>
        \A group \in {energyNow.origin, energyNow.meter} :
            Complete(group) => group.kwh <= sinceLoad[group.start]

\* While no write fails, what was counted since the last write is what
\* the next one will save.
SavedWhenQuiet ==
    energyPhase = "up" /\ ~writeBlocked /\ energyFaults = 0 /\ unsaved
    /\ energyNow.charged # Unset
        => pendingSave = energyNow

\* A loaded counter never falls below the one on disk.
NeverBelowDisk ==
    energyPhase = "up" /\ energyFile.kind = "good" /\ ~writeBlocked
    /\ energyFile.state.charged # Unset /\ energyNow.charged # Unset
        => energyNow.charged >= energyFile.state.charged

\* An unreadable store is not overwritten: a file comes to be beside a
\* quarantined copy only after somebody has dealt with it.
EvidenceIsKept ==
    [][ energyTrace /\ energyFile.kind # "good"
        => energyFile'.kind # "good" ]_energyVars

\* The counters of a run continue those of the file, whatever it holds: they are
\* never refused, never hold what was not measured since their start, never fall
\* and are on their way to disk; and a file nobody could read is left alone.
CountersAreKept ==
    /\ []NeverRefused /\ []SinceItsStart /\ []SavedWhenQuiet /\ []NeverBelowDisk
    /\ EvidenceIsKept
===============================================================================
