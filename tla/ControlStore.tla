----------------------------- MODULE ControlStore ---------------------------
(***************************************************************************)
(* The settings of the charge control and their store                      *)
(* (infrastructure/control_store.py, and the coordinator's bootstrap and   *)
(* configuration worker).  A start reads the file, or, where there has     *)
(* never been one, migrates what the entities showed last; a file that     *)
(* cannot be read is not written for as long as the entry is loaded.       *)
(* Changes are saved together after a while; a save counts once its        *)
(* content was read back.  Home Assistant defers saves while it stops.     *)
(*                                                                         *)
(* One setting stands for all of them, a switch that is off by default;    *)
(* "odd" is content that single fields do not show to be wrong and         *)
(* ControlConfig.sanitized corrects.                                       *)
(***************************************************************************)
EXTENDS Naturals, Sequences, SequencesExt

CONSTANTS MaxChanges,   \* settings accepted while an entry is loaded
          MaxIoFaults   \* reads and writes that fail, and deaths of the process

ASSUME SettingBounds == MaxChanges \in Nat /\ MaxIoFaults \in Nat

VARIABLES
    setFile,    \* the store file, or NoSetting, or Rubbish
    shownLast,  \* the entity's last state in Home Assistant's restore file
    hassState,  \* hass.state: "running", "stopping", "final" (final_write)
    setPhase,   \* "new", "off", "boot", "up", "closing", "flushing"
    source,     \* _control_config_status
    config,     \* the coordinator's settings
    confirmed,  \* the store's _last_persisted
    wanted,     \* _pending
    replaced,   \* _pending was assigned since the writer took its payload
    scheduled,  \* _save_scheduled
    timerRuns,      \* the timer of the delayed write runs
    listener,   \* FINAL_WRITE is listened to
    writer,     \* who holds _write_lock, with what, and whether it is written
    queue,      \* who waits for it
    moved,      \* _month_control_revision differs from the worker's
    worker,     \* _month_control_task: "none", "due", "evaluates"
    accepted,   \* history: what the file holds, and the settings accepted since
    guessed,    \* history: no user has confirmed the setting yet
    finalLost,  \* history: the last save before the exit failed
    ioFaults

storeVars == <<setFile, shownLast, hassState, setPhase, source, config,
               confirmed, wanted, replaced, scheduled, timerRuns, listener,
               writer, queue, moved, worker, accepted, guessed, finalLost,
               ioFaults>>
writeVars == <<confirmed, wanted, replaced, scheduled, timerRuns, listener,
               writer, queue>>
workVars == <<moved, worker>>
outsideVars == <<shownLast, hassState>>

-----------------------------------------------------------------------------
Configs == [value : {"on", "off", "odd"}, marked : BOOLEAN]
Factory == [value |-> "off", marked |-> FALSE]
NoSetting == [value |-> "none", marked |-> FALSE]
Rubbish == [value |-> "rubbish", marked |-> FALSE]

SettingContents == Configs \cup {NoSetting, Rubbish}
Jobs == {"timer", "save", "flush", "final"}
NoWriter == [by |-> "nobody", config |-> NoSetting, written |-> FALSE]

Blocked == source = "failed"

StoreInit ==
    /\ setFile = NoSetting /\ shownLast = "none" /\ hassState = "running"
    /\ setPhase = "new" /\ source = "missing" /\ config = Factory
    /\ confirmed = NoSetting /\ wanted = NoSetting /\ replaced = FALSE
    /\ scheduled = FALSE /\ timerRuns = FALSE /\ listener = FALSE
    /\ writer = NoWriter /\ queue = <<>>
    /\ moved = FALSE /\ worker = "none"
    /\ accepted = <<NoSetting>> /\ guessed = FALSE /\ finalLost = FALSE
    /\ ioFaults = 0

Flaw(ok) == \/ ok /\ UNCHANGED ioFaults
            \/ ~ok /\ ioFaults < MaxIoFaults /\ ioFaults' = ioFaults + 1

-----------------------------------------------------------------------------
(* The store's bookkeeping                                                  *)

\* _schedule_write.
SchedulesWrite == scheduled' = TRUE /\ timerRuns' = (timerRuns \/ ~scheduled) /\ listener' = TRUE

\* async_delay_save refuses what is on its way or confirmed already.
OnItsWay(c, busy) ==
    /\ c = (IF wanted # NoSetting THEN wanted ELSE confirmed)
    /\ wanted = NoSetting \/ scheduled \/ busy

DelaySave(c, busy) ==
    IF OnItsWay(c, busy)
    THEN UNCHANGED <<wanted, replaced, scheduled, timerRuns, listener>>
    ELSE wanted' = c /\ replaced' = TRUE /\ SchedulesWrite

\* _async_schedule_control_save.
\* A slip: a file that could not be read is written like any other.
SchedulesAnySave(c) == DelaySave(c, writer # NoWriter)
SchedulesSave(c) ==
    IF Blocked THEN UNCHANGED <<wanted, replaced, scheduled, timerRuns, listener>>
    ELSE DelaySave(c, writer # NoWriter)

\* _cancel_delayed_write.
Cancels == scheduled' = FALSE /\ timerRuns' = FALSE /\ listener' = FALSE

\* async_save: the newest settings, then the lock.
SavesNow(by, c) ==
    /\ wanted' = c /\ replaced' = TRUE /\ Cancels
    /\ queue' = Append(queue, by)

-----------------------------------------------------------------------------
(* Writing                                                                  *)

\* A free lock is handed on at once, long before a delay is over.
TimerFires ==
    /\ writer = NoWriter => queue = <<>>
    /\ timerRuns /\ timerRuns' = FALSE /\ queue' = Append(queue, "timer")
    /\ UNCHANGED <<setFile, outsideVars, setPhase, source, config, confirmed,
                   wanted, replaced, scheduled, listener, writer, workVars,
                   accepted, guessed, finalLost, ioFaults>>

\* While Home Assistant stops, a write is left to the FINAL_WRITE event.
Deferred == hassState = "stopping"

Listens == listener' = (wanted # NoSetting /\ Deferred)

\* The lock is free for the first that waits for it: _async_write_pending up
\* to the call of Home Assistant's Store.
TakesLock ==
    /\ writer = NoWriter /\ queue # <<>> /\ queue' = Tail(queue)
    /\ scheduled' = FALSE /\ timerRuns' = FALSE /\ Listens
    /\ IF wanted = NoSetting \/ Deferred
       THEN UNCHANGED <<writer, replaced>>
       ELSE /\ writer' = [by |-> Head(queue), config |-> wanted, written |-> FALSE]
            /\ replaced' = FALSE
    /\ setPhase' = IF writer' = NoWriter /\ Head(queue) = "flush" THEN "off" ELSE setPhase
    /\ UNCHANGED <<setFile, outsideVars, source, config, confirmed, wanted,
                   workVars, accepted, guessed, finalLost, ioFaults>>

SinceAccepted(c) ==
    LET at == {i \in DOMAIN accepted : accepted[i] = c}
    IN  IF c = setFile THEN accepted
        ELSE IF at = {} THEN <<c>> ELSE SubSeq(accepted, Max(at), Len(accepted))

\* Home Assistant writes the file; a failure is swallowed.
WritesFile ==
    /\ writer # NoWriter /\ ~writer.written
    /\ writer' = [writer EXCEPT !.written = TRUE]
    /\ \E ok \in BOOLEAN :
          /\ Flaw(ok)
          /\ setFile' = IF ok THEN writer.config ELSE setFile
          /\ accepted' = IF ok THEN SinceAccepted(writer.config) ELSE accepted
    /\ UNCHANGED <<outsideVars, setPhase, source, config, confirmed, wanted,
                   replaced, scheduled, timerRuns, listener, queue, workVars,
                   guessed, finalLost>>

\* The readback confirms the content.
\* A slip: newer settings that came meanwhile count as saved, too.
ConfirmsAll ==
    /\ writer.written /\ setFile = writer.config
    /\ confirmed' = writer.config
    /\ wanted' = NoSetting
Confirms ==
    /\ writer.written /\ setFile = writer.config
    /\ confirmed' = writer.config
    /\ wanted' = IF replaced THEN wanted ELSE NoSetting

Releases == writer' = NoWriter /\ UNCHANGED queue

ReadsBack ==
    /\ Confirms /\ Releases
    /\ setPhase' = IF writer.by = "flush" THEN "off" ELSE setPhase
    /\ UNCHANGED <<setFile, outsideVars, source, config, replaced, scheduled,
                   timerRuns, listener, workVars, accepted, guessed, finalLost, ioFaults>>

\* What the failed writer leaves behind: the delayed write tries again, at the
\* FINAL_WRITE event while Home Assistant stops; the bootstrap's save is
\* scheduled; the unload gives up.
AfterFailure(by) ==
    IF hassState = "stopping" THEN listener' = TRUE /\ UNCHANGED <<scheduled, timerRuns>>
    ELSE IF hassState = "final" \/ by = "flush"
    THEN UNCHANGED <<scheduled, timerRuns, listener>>
    ELSE SchedulesWrite

ReadbackFails ==
    /\ writer.written
    /\ Flaw(setFile # writer.config)
    /\ Releases
    /\ IF writer.by = "save"
       THEN DelaySave(config, FALSE)
       ELSE AfterFailure(writer.by) /\ UNCHANGED <<wanted, replaced>>
    /\ setPhase' = IF writer.by = "flush" THEN "off" ELSE setPhase
    /\ finalLost' = (finalLost \/ hassState = "final")
    /\ UNCHANGED <<setFile, outsideVars, source, config, confirmed, workVars,
                   accepted, guessed>>

-----------------------------------------------------------------------------
(* Starting and ending                                                      *)

\* The entry is found with a file, or without one but with what the entity
\* showed when there was no store yet.
Found ==
    /\ setPhase = "new" /\ setPhase' = "off"
    /\ \/ /\ setFile' \in Configs \cup {Rubbish}
          /\ guessed' = setFile'.marked
          /\ UNCHANGED shownLast
       \/ /\ shownLast' \in {"none", "on", "off", "unusable"}
          /\ UNCHANGED <<setFile, guessed>>
    /\ UNCHANGED <<hassState, source, config, writeVars, workVars, accepted,
                   finalLost, ioFaults>>

\* ControlConfig.sanitized.
Sanitized(c) == [c EXCEPT !.value = IF @ = "odd" THEN "off" ELSE @]

LoadedConfig == Sanitized(setFile)

Began(from) == IF from = setFile THEN <<setFile>> ELSE <<setFile, from>>

\* async_load_control_state.
Loads ==
    /\ setPhase = "off" /\ hassState = "running" /\ setPhase' = "boot"
    /\ \E ok \in BOOLEAN :
          /\ Flaw(ok) /\ (setFile \in {NoSetting, Rubbish} => ok)
          /\ source' = IF setFile = NoSetting THEN "missing"
                       ELSE IF ok /\ setFile # Rubbish THEN "loaded" ELSE "failed"
    /\ config' = IF source' = "loaded" THEN LoadedConfig ELSE Factory
    /\ confirmed' = IF source' = "loaded" THEN setFile ELSE NoSetting
    /\ accepted' = IF source' = "failed" THEN <<setFile>> ELSE Began(config')
    \* Settings that were never saved are gone, and what was said about them.
    /\ guessed' = IF source' = "loaded" /\ setFile # config
                  THEN setFile.marked ELSE guessed /\ source' = "loaded"
    \* A new coordinator with a new store object.
    /\ wanted' = NoSetting /\ replaced' = FALSE /\ scheduled' = FALSE
    /\ moved' = FALSE
    /\ UNCHANGED <<setFile, outsideVars, timerRuns, listener, writer, queue,
                   worker, finalLost>>

\* async_added_to_hass of the entity: only without a store.
Migrated ==
    IF source # "missing" THEN config
    ELSE [value |-> IF shownLast \in {"on", "off"} THEN shownLast ELSE "off",
          marked |-> shownLast = "unusable"]

\* async_finish_bootstrap.
Finishes ==
    /\ setPhase = "boot" /\ hassState # "final" /\ setPhase' = "up"
    /\ config' = Migrated
    /\ accepted' = IF config' = config THEN accepted ELSE Append(accepted, config')
    /\ guessed' = (guessed \/ config'.marked)
    /\ IF source = "missing"
       THEN SavesNow("save", config')
       ELSE SchedulesSave(config') /\ UNCHANGED queue
    /\ UNCHANGED <<setFile, outsideVars, source, confirmed, writer, workVars,
                   finalLost, ioFaults>>

\* _async_rollback_failed_setup: nothing is saved of a bootstrap.
SetupFails ==
    /\ setPhase = "boot" /\ setPhase' = "off"
    /\ UNCHANGED <<setFile, outsideVars, source, config, writeVars, workVars,
                   accepted, guessed, finalLost, ioFaults>>

\* The entry is unloaded; its setup, which awaits the first save, is complete.
Unloads ==
    /\ setPhase = "up" /\ writer.by # "save" /\ ~Contains(queue, "save")
    /\ setPhase' = "closing"
    /\ UNCHANGED <<setFile, outsideVars, source, config, writeVars, workVars,
                   accepted, guessed, finalLost, ioFaults>>

\* _async_flush_control_state, after the worker's end.
Flushes ==
    /\ setPhase = "closing" /\ worker = "none"
    /\ IF Blocked
       THEN setPhase' = "off" /\ UNCHANGED <<wanted, replaced, scheduled, timerRuns, listener, queue>>
       ELSE setPhase' = "flushing" /\ SavesNow("flush", config)
    /\ UNCHANGED <<setFile, outsideVars, source, config, confirmed, writer,
                   workVars, accepted, guessed, finalLost, ioFaults>>

\* Home Assistant dumps the entities' states from time to time; nobody reads
\* them once there is a file.
Dumped == IF setPhase = "up" /\ setFile = NoSetting THEN config.value ELSE shownLast

HassStops ==
    /\ hassState = "running" /\ setPhase # "new" /\ hassState' = "stopping"
    /\ UNCHANGED <<setFile, shownLast, setPhase, source, config, writeVars,
                   workVars, accepted, guessed, finalLost, ioFaults>>

\* EVENT_HOMEASSISTANT_FINAL_WRITE; the entity's state is dumped as well.
FinalEvent ==
    /\ hassState = "stopping" /\ hassState' = "final"
    /\ listener' = FALSE
    /\ queue' = IF listener THEN Append(queue, "final") ELSE queue
    /\ shownLast' = Dumped
    /\ UNCHANGED <<setFile, setPhase, source, config, confirmed, wanted, replaced,
                   scheduled, timerRuns, writer, workVars, accepted, guessed,
                   finalLost, ioFaults>>

EndsProcess ==
    /\ setPhase' = "off" /\ hassState' = "running" /\ finalLost' = FALSE
    /\ wanted' = NoSetting /\ replaced' = FALSE /\ Cancels
    /\ writer' = NoWriter /\ queue' = <<>>
    /\ moved' = FALSE /\ worker' = "none"
    /\ UNCHANGED <<setFile, shownLast, source, config, confirmed, accepted, guessed>>

\* Home Assistant waits for the writes the event started, then exits.
HassExits ==
    /\ hassState = "final" /\ writer = NoWriter /\ queue = <<>>
    /\ EndsProcess /\ UNCHANGED ioFaults

Dies == setPhase # "new" /\ Flaw(FALSE) /\ EndsProcess

\* The user repairs the file.
Repaired == [value |-> "on", marked |-> FALSE]
Repairs ==
    /\ setPhase = "off" /\ hassState = "running" /\ setFile = Rubbish
    /\ setFile' = Repaired /\ guessed' = FALSE
    /\ UNCHANGED <<outsideVars, setPhase, source, config, writeVars, workVars,
                   accepted, finalLost, ioFaults>>

-----------------------------------------------------------------------------
(* Changes, and the worker that brings them to the storage                  *)

\* A setter, with _async_schedule_month_control_change.
Changes(value) ==
    /\ setPhase = "up" /\ hassState # "final" /\ Len(accepted) <= MaxChanges
    /\ config' = [value |-> value, marked |-> FALSE] /\ guessed' = FALSE
    /\ accepted' = IF Blocked \/ config' = config THEN accepted
                   ELSE Append(accepted, config')
    /\ SchedulesSave(config')
    /\ moved' = TRUE /\ worker' = IF worker = "none" THEN "due" ELSE worker
    /\ UNCHANGED <<setFile, outsideVars, setPhase, source, confirmed, writer,
                   queue, finalLost, ioFaults>>

WorkerLocks ==
    /\ worker = "due"
    /\ IF setPhase = "up" THEN worker' = "evaluates" /\ moved' = FALSE
       ELSE worker' = "none" /\ UNCHANGED moved
    /\ UNCHANGED <<setFile, outsideVars, setPhase, source, config, writeVars,
                   accepted, guessed, finalLost, ioFaults>>

\* The revision is compared after the lock is released.
\* A slip: the worker's task ends after one evaluation.
GoesOnNever == FALSE
GoesOn == moved /\ setPhase = "up"

WorkerEvaluated ==
    /\ worker = "evaluates"
    /\ worker' = IF GoesOn THEN "due" ELSE "none"
    /\ UNCHANGED <<setFile, outsideVars, setPhase, source, config, writeVars,
                   moved, accepted, guessed, finalLost, ioFaults>>

Dumps ==
    /\ shownLast' = Dumped /\ shownLast' # shownLast
    /\ UNCHANGED <<setFile, hassState, setPhase, source, config, writeVars,
                   workVars, accepted, guessed, finalLost, ioFaults>>

-----------------------------------------------------------------------------
Writes == TakesLock \/ WritesFile \/ ReadsBack \/ ReadbackFails

StoreNext ==
    \/ Found \/ Loads \/ Finishes \/ SetupFails \/ Unloads \/ Flushes
    \/ HassStops \/ FinalEvent \/ HassExits \/ Dies \/ Repairs
    \/ \E value \in {"on", "off"} : Changes(value)
    \/ WorkerLocks \/ WorkerEvaluated \/ Dumps
    \/ TimerFires \/ Writes

StoreSpec == StoreInit /\ [][StoreNext]_storeVars

\* Timers fire, awaited I/O comes back and Home Assistant runs its tasks.
StoreFairness ==
    /\ WF_storeVars(TimerFires) /\ WF_storeVars(TakesLock) /\ WF_storeVars(WritesFile)
    /\ WF_storeVars(ReadsBack \/ ReadbackFails)
    /\ WF_storeVars(WorkerLocks) /\ WF_storeVars(WorkerEvaluated)

-----------------------------------------------------------------------------
\* The types; a delayed write that is noted has its timer, or has asked for
\* the lock already.
StoreTypeOK ==
    /\ setFile \in SettingContents /\ config \in Configs
    /\ {confirmed, wanted} \subseteq Configs \cup {NoSetting}
    /\ shownLast \in {"none", "on", "off", "unusable"}
    /\ hassState \in {"running", "stopping", "final"}
    /\ setPhase \in {"new", "off", "boot", "up", "closing", "flushing"}
    /\ source \in {"loaded", "missing", "failed"}
    /\ {replaced, scheduled, timerRuns, listener, moved, guessed, finalLost} \subseteq BOOLEAN
    /\ writer \in {NoWriter} \cup [by : Jobs, config : Configs, written : BOOLEAN]
    /\ queue \in Seq(Jobs) /\ accepted \in Seq(SettingContents)
    /\ worker \in {"none", "due", "evaluates"} /\ ioFaults \in 0..MaxIoFaults
    /\ timerRuns => scheduled
    /\ scheduled => timerRuns \/ Contains(queue, "timer")

\* What the store believes saved is what a restart finds.
NothingOwedIsSaved ==
    setPhase = "up" /\ ~Blocked /\ wanted = NoSetting => setFile = confirmed

\* When no save is under way or scheduled the file holds the settings; and
\* after Home Assistant's last event it does unless that last save failed.
QuietSettingsAreSaved ==
    setPhase = "up" /\ ~Blocked /\ writer = NoWriter /\ queue = <<>>
    => \/ setFile = config
       \/ timerRuns /\ hassState # "final"
       \/ listener /\ hassState = "stopping"
       \/ finalLost

\* NoSetting of an unloaded entry can still write: not even a failed last save
\* may repeat itself over what the entry saves when it is loaded again.
NothingLeftBehind ==
    setPhase = "off" /\ hassState = "running" =>
        ~timerRuns /\ ~listener /\ writer = NoWriter /\ queue = <<>>

\* A setting nobody has confirmed stays marked through every restart.
GuessIsMarked == setPhase = "up" /\ guessed => config.marked

\* The store as it is promised: the settings are kept in their order, by the
\* instance that read the file, or made it.
StillWrites == timerRuns \/ listener \/ writer # NoWriter \/ queue # <<>>
InUse == setPhase \in {"boot", "up", "closing", "flushing"}
Use == IF InUse /\ Blocked THEN "refused"
       ELSE IF InUse \/ StillWrites THEN "read" ELSE "none"

Durable == INSTANCE DurableSetting
    WITH Contents <- SettingContents, kept <- setFile, use <- Use,
         accepted <- IF Use = "read" THEN accepted ELSE <<setFile>>

KeepsItsPromise == Durable!DurableSpec

\* Settings reach the file although saves fail, unless the entry is unloaded
\* or Home Assistant stops.
SettingsReachFile ==
    []<>(setFile = config \/ setPhase # "up" \/ Blocked \/ hassState # "running")

\* A change that arrives while the worker evaluates an older one is evaluated.
ChangeIsEvaluated == []<>(~moved \/ setPhase # "up")

\* No setting is lost on its way: what is believed saved is saved, what is not
\* yet is on its way, nothing of an unloaded entry comes after it, and a guess is
\* marked as one.
SettingsAreSafe ==
    NothingOwedIsSaved /\ QuietSettingsAreSaved /\ NothingLeftBehind /\ GuessIsMarked

\* A change reaches both: the file and the decisions of the worker.
SettingsArrive == SettingsReachFile /\ ChangeIsEvaluated
=============================================================================
