---------------------------- MODULE MCPromises -----------------------------
(* The machines that promise something in the end, for TLC, side by side:   *)
(* they share no state, so a behaviour runs one of them and leaves the      *)
(* others where they start.                                                 *)
(* Calibration has two ticks a day, two days' interval and nine instants:   *)
(* a calibration falls due, ends and falls due again.  GridServing has a    *)
(* hysteresis of two measurements, as in the code.                          *)
EXTENDS Calibration, ControlStore, EconomicsStore, GridServing

VARIABLE part           \* the machine this behaviour runs

Parts == {"calibration", "settings", "economics", "pause"}

MCLimits == {80, MaximumSoc}
MCSocs == {50, MaximumSoc - 1, MaximumSoc}

PromisesInit ==
    /\ part \in Parts
    /\ Init /\ (part = "calibration" \/ maxSoc = MaximumSoc)
    /\ StoreInit /\ EconInit
    /\ PauseInit /\ (part = "pause" \/ turn = "pause")

PromisesNext ==
    /\ UNCHANGED part
    /\ \/ part = "calibration" /\ Next /\ UNCHANGED <<storeVars, econVars, pauseVars>>
       \/ part = "settings" /\ StoreNext /\ UNCHANGED <<vars, econVars, pauseVars>>
       \/ part = "economics" /\ EconNext /\ UNCHANGED <<vars, storeVars, pauseVars>>
       \/ part = "pause" /\ PauseNext /\ UNCHANGED <<vars, storeVars, econVars>>

promisesVars == <<part, vars, storeVars, econVars, pauseVars>>

\* The fairness of the machine that runs: FairSpec of Calibration, StoreFairness,
\* EconFairness and PausePollSpec.
PromisesFairness ==
    /\ WF_vars(part = "calibration" /\ \E soc \in Socs : Evaluate(soc))
    /\ WF_vars(part = "calibration" /\ Tick)
    /\ WF_storeVars(part = "settings" /\ TimerFires)
    /\ WF_storeVars(part = "settings" /\ TakesLock)
    /\ WF_storeVars(part = "settings" /\ WritesFile)
    /\ WF_storeVars(part = "settings" /\ (ReadsBack \/ ReadbackFails))
    /\ WF_storeVars(part = "settings" /\ WorkerLocks)
    /\ WF_storeVars(part = "settings" /\ WorkerEvaluated)
    /\ WF_econVars(part = "economics" /\ BackupWrites)
    /\ WF_econVars(part = "economics" /\ Preserve)
    /\ WF_econVars(part = "economics" /\ WriteMain)
    /\ WF_econVars(part = "economics" /\ ResetRemoves)
    /\ WF_econVars(part = "economics" /\ ResetFails)
    /\ WF_econVars(part = "economics" /\ ResetCommits)
    /\ WF_econVars(part = "economics" /\ FlushTakes)
    /\ WF_econVars(part = "economics" /\ Start)
    /\ WF_econVars(part = "economics" /\ LoadMain)
    /\ WF_econVars(part = "economics" /\ LoadBackup)
    /\ SF_econVars(part = "economics" /\ TimerTakes)
    /\ WF_pauseVars(part = "pause" /\ (BlockArrives \/ BlockServesAgain))
    /\ WF_pauseVars(part = "pause" /\ PollEvaluates)

PromisesSpec == PromisesInit /\ [][PromisesNext]_promisesVars /\ PromisesFairness

\* The types of the machine that runs, and of the others, which rest.
PromisesTypeOK == TypeOK /\ StoreTypeOK /\ EconTypeOK /\ PauseTypeOK
============================================================================
