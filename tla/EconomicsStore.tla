---------------------------- MODULE EconomicsStore ----------------------------
(***************************************************************************)
(* The money balance on disk (infrastructure/economics_store.py and the    *)
(* coordinator's side of it).  The poll books intervals into the balance   *)
(* in memory and schedules one coalesced write; a timer writes it and      *)
(* reads it back; a second timer copies the last confirmed balance to a    *)
(* backup file; the unload flushes; a service starts the balance anew.     *)
(* All of them await file I/O under one lock.  A write may be lost without *)
(* an error, the process may die between any two steps, and a death may    *)
(* leave one of the two files unreadable.                                  *)
(*                                                                         *)
(* A balance is abstracted to the activation it belongs to and the number  *)
(* of intervals booked since: every counter the store compares grows with  *)
(* it.  Activation 0 is a state that is not initialised.                   *)
(***************************************************************************)
EXTENDS Naturals, FiniteSets

CONSTANTS MaxBooked,      \* intervals booked in one activation
          MaxStarts,      \* activations and restarts of the balance
          MaxCrashes,     \* deaths of the process, each may damage one file
          MaxFaults       \* writes, removals and reads that fail

ASSUME EconomicsBounds ==
    /\ MaxBooked \in Nat \ {0} /\ MaxStarts \in Nat \ {0}
    /\ MaxCrashes \in Nat /\ MaxFaults \in Nat

VARIABLES
    mainFile,       \* the store file
    backupFile,     \* the backup file
    keptCopies,     \* balances renamed to <file>.corrupt.<time>
    phase,          \* "off", "loading", "restoring", "up", "closing"
    balance,        \* the coordinator's balance
    storageError,   \* _economics_storage_error
    lastPersisted,  \* the store's _last_persisted
    pendingState,   \* _pending
    writeTimer,     \* _unsub_delayed_write is set
    loadFailed,     \* _load_failed
    generation,     \* _generation
    writeLock,      \* the holder of _write_lock
    holding,        \* the snapshot and the position of the holder
    flushing,       \* the unload's async_save waiting for the lock
    newest,         \* the number of activations so far
    resetDone,      \* history: the last activation whose reset succeeded
    crashes, faults

econVars == <<mainFile, backupFile, keptCopies, phase, balance, storageError,
              lastPersisted, pendingState, writeTimer, loadFailed, generation,
              writeLock, holding, flushing, newest, resetDone, crashes, faults>>

-----------------------------------------------------------------------------
Balances == [start : 0..MaxStarts, booked : 0..MaxBooked]
Nothing == [start |-> 0, booked |-> 0]
Initialized(b) == b.start > 0

\* A damaged file is not JSON any more ("bad") or lacks a valid field of the
\* balance ("part"), which makes all of it useless.
Files == [kind : {"none", "good", "bad", "part"}, bal : Balances]
NoFile == [kind |-> "none", bal |-> Nothing]
Damaged == [kind : {"bad", "part"}, bal : {Nothing}]
Holds(b) == [kind |-> "good", bal |-> b]

Holders == {"free", "timer", "backup", "flush", "reset", "load"}
Steps == {"idle", "remove", "preserve", "write", "copy", "recopy"}
Idle == [at |-> "idle", snap |-> Nothing]
At(step, b) == [at |-> step, snap |-> b]

EconTypeOK ==
    /\ mainFile \in Files /\ backupFile \in Files
    /\ keptCopies \subseteq Files
    /\ phase \in {"off", "loading", "restoring", "up", "closing"}
    /\ balance \in Balances /\ lastPersisted \in Balances
    /\ pendingState \in Balances
    /\ storageError \in BOOLEAN /\ writeTimer \in BOOLEAN
    /\ loadFailed \in BOOLEAN
    /\ generation \in 0..MaxStarts
    /\ writeLock \in Holders
    /\ holding \in [at : Steps, snap : Balances]
    /\ flushing \in [waits : BOOLEAN, seen : 0..MaxStarts, snap : Balances]
    /\ newest \in 0..MaxStarts /\ resetDone \in 0..MaxStarts
    /\ crashes \in 0..MaxCrashes /\ faults \in 0..MaxFaults
    /\ writeTimer <=> Initialized(pendingState)
    /\ writeLock = "free" <=> holding = Idle

NotFlushing == [waits |-> FALSE, seen |-> 0, snap |-> Nothing]

EconInit ==
    /\ mainFile = NoFile /\ backupFile = NoFile /\ keptCopies = {}
    /\ phase = "off"
    /\ balance = Nothing /\ storageError = FALSE
    /\ lastPersisted = Nothing /\ pendingState = Nothing
    /\ writeTimer = FALSE /\ loadFailed = FALSE /\ generation = 0
    /\ writeLock = "free" /\ holding = Idle /\ flushing = NotFlushing
    /\ newest = 0 /\ resetDone = 0 /\ crashes = 0 /\ faults = 0

-----------------------------------------------------------------------------
\* _accept: counters of one activation never go back, and the activation of
\* a balance on its way to the disk never changes.  _baseline: a state that
\* is not initialised compares with nothing.
Accepts(b) ==
    LET base == IF Initialized(pendingState) THEN pendingState
                                             ELSE lastPersisted
    IN Initialized(base) => b.start = base.start /\ b.booked >= base.booked

\* async_delay_save with a snapshot: one timer for all the changes until it
\* fires; a rejected snapshot is reported as a storage error.
ScheduleSave(b) ==
    IF Accepts(b)
    THEN /\ pendingState' = b /\ writeTimer' = TRUE
         /\ UNCHANGED storageError
    ELSE /\ storageError' = TRUE
         /\ UNCHANGED <<pendingState, writeTimer>>

\* A file operation that works, or that fails while the budget lasts.
Works(ok) == \/ ok /\ UNCHANGED faults
             \/ ~ok /\ faults < MaxFaults /\ faults' = faults + 1

\* The holder of the lock lets go.
Release == writeLock' = "free" /\ holding' = Idle

\* A slip: the timer is cancelled, its snapshot stays.
CancelTimerOnly == writeTimer' = FALSE /\ UNCHANGED pendingState

\* _cancel_delayed_write: the coalesced state and its timer are dropped.
CancelDelayed == pendingState' = Nothing /\ writeTimer' = FALSE

\* Renaming the store file away keeps what it held.
Keeps == keptCopies' = IF mainFile.kind = "none" THEN keptCopies
                                                 ELSE keptCopies \cup {mainFile}

\* _write_and_verify begins by preserving a file that could not be read.
WriteStep == IF loadFailed THEN "preserve" ELSE "write"

-----------------------------------------------------------------------------
\* The poll.

\* _bootstrap_economics_if_ready: the first interval with an active tariff.
Bootstrap ==
    /\ phase = "up" /\ ~Initialized(balance) /\ newest < MaxStarts
    /\ newest' = newest + 1
    /\ balance' = [start |-> newest + 1, booked |-> 0]
    /\ ScheduleSave(balance')
    /\ UNCHANGED <<mainFile, backupFile, keptCopies, phase, lastPersisted,
                   loadFailed, generation, writeLock, holding, flushing,
                   resetDone, crashes, faults>>

\* An interval is booked, or only its observed time passes a save step.
Book ==
    /\ phase = "up" /\ Initialized(balance)
    /\ balance' \in {balance} \cup
                    (IF balance.booked < MaxBooked
                     THEN {[balance EXCEPT !.booked = @ + 1]} ELSE {})
    /\ ScheduleSave(balance')
    /\ UNCHANGED <<mainFile, backupFile, keptCopies, phase, lastPersisted,
                   loadFailed, generation, writeLock, holding, flushing,
                   newest, resetDone, crashes, faults>>

-----------------------------------------------------------------------------
\* The timers.

\* _async_delayed_write has fired and gets the lock: it takes whatever is
\* pending by then.
TimerTakes ==
    /\ writeTimer /\ writeLock = "free" /\ phase \in {"up", "closing"}
    /\ CancelDelayed
    /\ IF Initialized(pendingState)
       THEN /\ writeLock' = "timer"
            /\ holding' = At(WriteStep, pendingState)
       ELSE UNCHANGED <<writeLock, holding>>
    /\ UNCHANGED <<mainFile, backupFile, keptCopies, phase, balance,
                   storageError, lastPersisted, loadFailed, generation,
                   flushing, newest, resetDone, crashes, faults>>

\* A slip: the failed write is not taken up again.
RetryNever(b) ==
    storageError' = TRUE /\ UNCHANGED <<pendingState, writeTimer>>

\* A failed delayed write schedules its own state again, unless a newer one
\* is already waiting.
RetryFailed(b) ==
    /\ storageError' = TRUE
    /\ IF Initialized(pendingState) \/ ~Accepts(b)
       THEN UNCHANGED <<pendingState, writeTimer>>
       ELSE pendingState' = b /\ writeTimer' = TRUE

\* _async_backup_tick: the last confirmed state is copied.
BackupTakes ==
    /\ phase = "up" /\ writeLock = "free"
    /\ Initialized(lastPersisted) /\ backupFile # Holds(lastPersisted)
    /\ writeLock' = "backup" /\ holding' = At("copy", lastPersisted)
    /\ UNCHANGED <<mainFile, backupFile, keptCopies, phase, balance,
                   storageError, lastPersisted, pendingState, writeTimer,
                   loadFailed, generation, flushing, newest, resetDone,
                   crashes, faults>>

BackupWrites ==
    /\ writeLock = "backup"
    /\ \E ok \in BOOLEAN :
         /\ Works(ok)
         /\ backupFile' = IF ok THEN Holds(holding.snap) ELSE backupFile
    /\ Release
    /\ UNCHANGED <<mainFile, keptCopies, phase, balance, storageError,
                   lastPersisted, pendingState, writeTimer, loadFailed,
                   generation, flushing, newest, resetDone, crashes>>

-----------------------------------------------------------------------------
\* The write that every holder but the backup makes.

\* _preserve_unreadable_store, in the executor.
Preserve ==
    /\ holding.at = "preserve"
    /\ Keeps /\ mainFile' = NoFile
    /\ loadFailed' = FALSE
    /\ holding' = At("write", holding.snap)
    /\ UNCHANGED <<backupFile, phase, balance, storageError, lastPersisted,
                   pendingState, writeTimer, generation, writeLock, flushing,
                   newest, resetDone, crashes, faults>>

\* What the holder does with the verdict of its write.
TimerEnds(ok) ==
    /\ writeLock = "timer"
    /\ IF ok THEN storageError' = FALSE /\ UNCHANGED <<pendingState, writeTimer>>
             ELSE RetryFailed(holding.snap)
    /\ lastPersisted' = IF ok THEN holding.snap ELSE lastPersisted
    /\ Release
    /\ UNCHANGED <<phase, balance>>

FlushEnds(ok) ==
    /\ writeLock = "flush"
    /\ storageError' = ~ok
    /\ lastPersisted' = IF ok THEN holding.snap ELSE lastPersisted
    /\ phase' = "off"
    /\ Release
    /\ UNCHANGED <<balance, pendingState, writeTimer>>

\* async_load: the recovered state counts even if writing it back failed.
LoadEnds(ok) ==
    /\ writeLock = "load"
    /\ storageError' = ~ok
    /\ balance' = holding.snap
    /\ phase' = "up"
    /\ Release
    /\ UNCHANGED <<lastPersisted, pendingState, writeTimer>>

\* async_reset goes on to the backup either way; a confirmed write makes the
\* old baseline valid again until the new generation is complete.
ResetGoesOn(ok) ==
    /\ writeLock = "reset"
    /\ storageError' = IF ok THEN FALSE ELSE storageError
    /\ holding' = At(IF ok THEN "copy" ELSE "recopy", holding.snap)
    /\ UNCHANGED <<lastPersisted, pendingState, writeTimer, phase, balance,
                   writeLock>>

\* _write_and_verify: the read-back tells a lost write from a confirmed one.
WriteMain ==
    /\ holding.at = "write"
    /\ \E ok \in BOOLEAN :
         /\ Works(ok)
         /\ mainFile' = IF ok THEN Holds(holding.snap) ELSE mainFile
         /\ \/ TimerEnds(ok) \/ FlushEnds(ok)
            \/ LoadEnds(ok) \/ ResetGoesOn(ok)
    /\ UNCHANGED <<backupFile, keptCopies, loadFailed, generation, flushing,
                   newest, resetDone, crashes>>

-----------------------------------------------------------------------------
\* The restart of the balance (service restart_economics_accounting).

\* The service takes the lock with a balance that starts now.
ResetTakes ==
    /\ phase = "up" /\ Initialized(balance) /\ newest < MaxStarts
    /\ writeLock = "free"
    /\ newest' = newest + 1
    /\ writeLock' = "reset"
    /\ holding' = At("remove", [start |-> newest + 1, booked |-> 0])
    /\ UNCHANGED <<mainFile, backupFile, keptCopies, phase, balance,
                   storageError, lastPersisted, pendingState, writeTimer,
                   loadFailed, generation, flushing, resetDone, crashes,
                   faults>>

\* The old backup goes first: it must not bring the old balance back.
RemovesBackup(ok) == backupFile' = IF ok THEN NoFile ELSE backupFile

ResetRemoves ==
    /\ holding.at = "remove"
    /\ \E ok \in BOOLEAN :
         /\ Works(ok)
         /\ RemovesBackup(ok)
         /\ IF ok THEN /\ holding' = At(WriteStep, holding.snap)
                       /\ UNCHANGED writeLock
                  ELSE Release
    /\ UNCHANGED <<mainFile, keptCopies, phase, balance, storageError,
                   lastPersisted, pendingState, writeTimer, loadFailed,
                   generation, flushing, newest, resetDone, crashes>>

\* The write failed: the backup of the old balance is put back.
ResetFails ==
    /\ holding.at = "recopy"
    /\ \E ok \in BOOLEAN :
         /\ Works(ok)
         /\ backupFile' = IF ok /\ Initialized(lastPersisted)
                          THEN Holds(lastPersisted) ELSE backupFile
    /\ Release
    /\ UNCHANGED <<mainFile, keptCopies, phase, balance, storageError,
                   lastPersisted, pendingState, writeTimer, loadFailed,
                   generation, flushing, newest, resetDone, crashes>>

\* The new generation, the dropped old snapshot and the coordinator's new
\* balance: no await separates them.
Supersedes == generation' = generation + 1 /\ CancelDelayed

ResetCommits ==
    /\ writeLock = "reset" /\ holding.at = "copy"
    /\ \E ok \in BOOLEAN :
         /\ Works(ok)
         /\ backupFile' = IF ok THEN Holds(holding.snap) ELSE backupFile
    /\ lastPersisted' = holding.snap
    /\ Supersedes
    /\ balance' = holding.snap
    /\ resetDone' = holding.snap.start
    /\ Release
    /\ UNCHANGED <<mainFile, keptCopies, phase, storageError, loadFailed,
                   flushing, newest, crashes>>

-----------------------------------------------------------------------------
\* The unload: polls have stopped, the balance is flushed.

FlushStarts ==
    /\ phase = "up" /\ ~flushing.waits
    /\ phase' = IF Initialized(balance) /\ Accepts(balance) THEN "closing"
                                                            ELSE "off"
    /\ IF phase' = "closing"
       THEN /\ flushing' = [waits |-> TRUE, seen |-> generation, snap |-> balance]
            /\ CancelDelayed
       ELSE /\ writeLock = "free"
            /\ UNCHANGED <<flushing, pendingState, writeTimer>>
    /\ UNCHANGED <<mainFile, backupFile, keptCopies, balance, storageError,
                   lastPersisted, loadFailed, generation, writeLock, holding,
                   newest, resetDone, crashes, faults>>


\* A reset that finished while the flush waited has written a newer balance.
Superseded == flushing.seen # generation

FlushTakes ==
    /\ flushing.waits /\ writeLock = "free"
    /\ flushing' = NotFlushing
    /\ IF Superseded
       THEN /\ phase' = "off"
            /\ UNCHANGED <<writeLock, holding, pendingState, writeTimer>>
       ELSE /\ CancelDelayed
            /\ writeLock' = "flush" /\ holding' = At(WriteStep, flushing.snap)
            /\ UNCHANGED phase
    /\ UNCHANGED <<mainFile, backupFile, keptCopies, balance, storageError,
                   lastPersisted, loadFailed, generation, newest, resetDone,
                   crashes, faults>>

-----------------------------------------------------------------------------
\* Death and start.

Forgets ==
    /\ balance' = Nothing /\ storageError' = FALSE
    /\ lastPersisted' = Nothing /\ pendingState' = Nothing
    /\ writeTimer' = FALSE /\ loadFailed' = FALSE /\ generation' = 0
    /\ writeLock' = "free" /\ holding' = Idle /\ flushing' = NotFlushing

\* The process dies; at most one file is unreadable afterwards.
Crash ==
    /\ phase # "off" /\ crashes < MaxCrashes
    /\ crashes' = crashes + 1
    /\ \/ UNCHANGED <<mainFile, backupFile>>
       \/ /\ mainFile.kind = "good" /\ backupFile \notin Damaged
          /\ mainFile' \in Damaged /\ UNCHANGED backupFile
       \/ /\ backupFile.kind = "good" /\ mainFile \notin Damaged
          /\ backupFile' \in Damaged /\ UNCHANGED mainFile
    /\ Forgets
    /\ phase' = "off"
    /\ UNCHANGED <<keptCopies, newest, resetDone, faults>>

Start ==
    /\ phase = "off"
    /\ Forgets /\ phase' = "loading"
    /\ UNCHANGED <<mainFile, backupFile, keptCopies, newest, resetDone,
                   crashes, faults>>

\* A file that Home Assistant has moved away, now or at an earlier start.
LeftATrace ==
    mainFile.kind = "bad" \/ (mainFile.kind = "none" /\ keptCopies # {})

\* _async_load_state: a readable file is the balance.  Home Assistant moves a
\* damaged one away; a trace of it, or a read that fails, marks the load as
\* failed.  Without a complete balance the backup is asked.
LoadMain ==
    /\ phase = "loading"
    /\ \E ok \in BOOLEAN :
         /\ ok \/ mainFile.kind = "good"
         /\ Works(ok)
         /\ IF ok /\ mainFile.kind = "good"
            THEN /\ balance' = mainFile.bal /\ lastPersisted' = mainFile.bal
                 /\ phase' = "up"
                 /\ UNCHANGED <<loadFailed, mainFile, keptCopies>>
            ELSE /\ loadFailed' = (~ok \/ LeftATrace)
                 /\ IF ok /\ mainFile.kind = "bad"
                    THEN Keeps /\ mainFile' = NoFile
                    ELSE UNCHANGED <<mainFile, keptCopies>>
                 /\ phase' = "restoring"
                 /\ UNCHANGED <<balance, lastPersisted>>
    /\ UNCHANGED <<backupFile, storageError, pendingState, writeTimer,
                   generation, writeLock, holding, flushing, newest,
                   resetDone, crashes>>

\* A slip: the file that a restored balance replaces is not preserved.
NeverPreserve == loadFailed' = FALSE
PreserveFirst == loadFailed' = TRUE

\* The backup is asked whenever the store file yields no balance.
AskBackup == TRUE

\* A balance restored from the backup replaces the store file, which is
\* preserved first; without a backup the balance is not initialised.
LoadBackup ==
    /\ phase = "restoring" /\ writeLock = "free"
    /\ IF backupFile.kind = "good" /\ AskBackup
       THEN /\ writeLock' = "load"
            /\ PreserveFirst
            /\ holding' = At(IF loadFailed' THEN "preserve" ELSE "write",
                             backupFile.bal)
            /\ lastPersisted' = backupFile.bal
            /\ UNCHANGED <<phase, storageError>>
       ELSE /\ phase' = "up"
            /\ storageError' = (loadFailed /\ mainFile.kind # "none")
            /\ UNCHANGED <<writeLock, holding, lastPersisted, loadFailed>>
    /\ UNCHANGED <<mainFile, backupFile, keptCopies, balance, pendingState,
                   writeTimer, generation, flushing, newest, resetDone,
                   crashes, faults>>

EconNext ==
    \/ Bootstrap \/ Book
    \/ TimerTakes \/ BackupTakes \/ BackupWrites
    \/ Preserve \/ WriteMain
    \/ ResetTakes \/ ResetRemoves \/ ResetFails \/ ResetCommits
    \/ FlushStarts \/ FlushTakes
    \/ Crash \/ Start \/ LoadMain \/ LoadBackup

\* Timers fire and awaited I/O comes back; nothing has to be booked, and
\* nobody has to unload, restart the balance or kill the process.
EconFairness ==
    /\ WF_econVars(BackupWrites) /\ WF_econVars(Preserve)
    /\ WF_econVars(WriteMain)
    /\ WF_econVars(ResetRemoves) /\ WF_econVars(ResetFails)
    /\ WF_econVars(ResetCommits) /\ WF_econVars(FlushTakes)
    /\ WF_econVars(Start) /\ WF_econVars(LoadMain) /\ WF_econVars(LoadBackup)
    /\ SF_econVars(TimerTakes)

EconSpec == EconInit /\ [][EconNext]_econVars

-----------------------------------------------------------------------------
\* A restart of the balance is final: once it has reported success no file
\* that a later start could read, and no balance in memory, belongs to an
\* earlier activation, whichever timer, flush or backup was on its way.
ResetIsFinal ==
    /\ \A f \in {mainFile, backupFile} :
         f.kind = "good" => f.bal.start >= resetDone
    /\ Initialized(balance) => balance.start >= resetDone

\* When nothing is scheduled or under way and no storage error is shown, the
\* store file holds the coordinator's balance.
QuietMeansSaved ==
    ( /\ phase = "up" /\ writeLock = "free" /\ ~writeTimer
      /\ ~storageError /\ Initialized(balance) )
    => mainFile = Holds(balance)

\* What the store compares new snapshots with is what the file holds, unless
\* the write of a restored balance failed.
ConfirmedIsOnDisk ==
    ( /\ phase \in {"up", "closing"} /\ writeLock = "free"
      /\ Initialized(lastPersisted) /\ ~storageError )
    => mainFile = Holds(lastPersisted)

\* A balance in the store file gives way to a later one of its activation,
\* to a restart of the balance, to damage, or it is kept in a copy.
FileGoesForward ==
    [][ (mainFile.kind = "good" /\ mainFile' # mainFile)
        => \/ writeLock = "reset"
           \/ /\ mainFile'.bal.start = mainFile.bal.start
              /\ mainFile'.bal.booked >= mainFile.bal.booked
           \/ mainFile' \in Damaged
           \/ mainFile \in keptCopies' ]_econVars

\* A start finds the balance of the store file or of the backup as long as
\* one of them can be read: it never begins at zero beside a readable file.
NoZeroStartBesideBackup ==
    [][ ( /\ phase \in {"loading", "restoring"} /\ phase' = "up"
          /\ ~Initialized(balance') )
        => backupFile.kind # "good" ]_econVars

\* Once faults end, the balance of a running coordinator is in one of the
\* files: a lost write is made again even if nothing is booked any more.
BalanceReachesDisk ==
    []<>( \/ phase # "up" \/ ~Initialized(balance)
          \/ Holds(balance) \in {mainFile, backupFile} )

\* Nothing is counted twice and nothing is lost: a reset is final, a quiet store
\* has the balance, it knows what is on disk, balances on disk only go forward,
\* and a start takes the best there is.
BooksAreSafe ==
    /\ []ResetIsFinal /\ []QuietMeansSaved /\ []ConfirmedIsOnDisk
    /\ FileGoesForward /\ NoZeroStartBesideBackup
===============================================================================
