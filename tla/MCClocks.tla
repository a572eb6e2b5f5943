---------------------------- MODULE MCClocks -------------------------------
(* The machines that charge by the clock, for TLC, side by side: they share *)
(* no state, so a behaviour runs one of them and leaves the other where it  *)
(* starts.  TimedWindow has a window, the same made longer, and none.       *)
EXTENDS TimedWindow, PriceCycle

VARIABLE part           \* the machine this behaviour runs

Parts == {"window", "cycle"}

Manual(on, s, e) == [on |-> on, start |-> s, end |-> e, source |-> "manual"]
MCSettings == {Manual(TRUE, 0, 1), Manual(TRUE, 0, 2), Manual(FALSE, 0, 2)}
MCNeeds == {1, Unknown}

ClocksInit ==
    /\ part \in Parts
    /\ WindowInit /\ (part = "window" \/ settings = Manual(FALSE, 0, 2))
    /\ CycleInit /\ (part = "cycle" \/ (hours = 1 /\ need = Unknown))

ClocksNext ==
    /\ UNCHANGED part
    /\ \/ part = "window" /\ WindowNext /\ UNCHANGED cycleVars
       \/ part = "cycle" /\ CycleNext /\ UNCHANGED windowVars

ClocksSpec ==
    ClocksInit /\ [][ClocksNext]_<<part, windowVars, cycleVars>>

\* The types of the machine that runs, and of the other, which rests.
ClocksTypeOK == WindowTypeOK /\ CycleTypeOK
============================================================================
