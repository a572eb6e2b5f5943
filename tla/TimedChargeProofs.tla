-------------------------- MODULE TimedChargeProofs -------------------------
(***************************************************************************)
(* Proofs about the machines that charge at a time: the daily window with  *)
(* its two latches (TimedWindow), the daily charge from a fixed time       *)
(* (FixedTimeCharge), the bridge charge (BridgeSession) and its plan       *)
(* (BridgePlan).  They share no state.                                     *)
(*                                                                         *)
(* TimedWindow.  A latch is kept because three places agree: what is in    *)
(* force, what waits to be restored or is remembered of the last hold, and *)
(* the file.  LatchIsKept and ProvenIsKept say so.  They need writes that  *)
(* are read back once they reached the file; what a window has earned, and *)
(* that nothing else is in force, needs no such luck.                      *)
(*                                                                         *)
(* FixedTimeCharge.  A target that was reached is known as a completed     *)
(* mark, or as a mark of a later day (ReachedIsMarked), and the storage is *)
(* only told to charge for a mark (ChargedIsMarked) made of a time that    *)
(* came (MarksAreProof).                                                   *)
(*                                                                         *)
(* BridgeSession.  The invariant says of the session what the type         *)
(* invariant says of its fields, that its end is not in the future, and    *)
(* how the last charge that ended is still remembered: as the end of the   *)
(* present session, or as something at least a minute ago.  What           *)
(* wait_for_data and _finish_if_due may do to a session is one relation,   *)
(* Develops, from which the properties of the steps follow.                *)
(*                                                                         *)
(* BridgePlan.  Every charge there could be lies in one merged window      *)
(* (PermittedIsMerged), the charge of that window is at least as good      *)
(* (NoneBetter), and possible (ChargeFits); finitely many candidates have  *)
(* a best one.  Every quotient is whole, so no rounding is hidden.         *)
(***************************************************************************)
EXTENDS TimedWindow, FixedTimeCharge, BridgeSession, BridgePlan, TLAPS, FiniteSetTheorems,
        WellFoundedInduction

-----------------------------------------------------------------------------
(* TimedWindow: what the two latches rest on                               *)

\* A release, in memory or stored, belongs to a window that had its minimum.
Earned ==
    /\ armed => window # NoWindow /\ window \in lows
    /\ restore # NoWindow => restore \in lows
    /\ disk # NoWindow => disk \in lows

\* A running charge counted no more proofs than blocks showed it.
RowCounts == active => confirmations <= shownRow

\* What the hold's store is asked for is the end of the last hold; no end lies
\* further ahead than a day.
HoldFlow ==
    /\ pending # NoProof => pending = Content(last)
    /\ hold # NoProof => last = hold
    /\ \A h \in {hold, last, pending, saved, holdDisk, proven} : h.expires <= clock + Day
    /\ Cleared \notin {hold, last, proven}

WindowInv == WindowTypeOK /\ Earned /\ RowCounts /\ HoldFlow

\* What counts as stored is stored, or nothing counts.
StoresAreTrue == believed \in {disk, NoWindow} /\ saved \in {holdDisk, NoProof}

\* A stored release is on disk, and in force or waiting to be restored.
LatchIsKept ==
    latched # NoWindow =>
        disk = latched /\ ((armed /\ window = latched) \/ restore = latched)

\* A stored hold is on disk and remembered, and holds to its end; after a day
\* it may be forgotten.
ProvenIsKept ==
    proven # NoProof =>
        \/ last = proven /\ holdDisk = proven /\ (hold = proven \/ clock >= proven.expires)
        \/ clock - proven.expires > Day

KeptInv == StoresAreTrue /\ LatchIsKept /\ ProvenIsKept
-----------------------------------------------------------------------------
\* The remainder of a division by the day.
LEMMA Remainder == \A i \in Int : i % Day \in 0..(Day - 1)
  BY DayAssumption

\* What a window of the settings in force is.
LEMMA OpenWindowTypes ==
    ASSUME WindowTypeOK
    PROVE  /\ OpenWindow(clock) \in Occurrences /\ Window(clock) \in Occurrences
           /\ NoWindow \in Occurrences
           /\ Window(clock) # NoWindow =>
                /\ Window(clock) = OpenWindow(clock)
                /\ settings.on /\ Inside(clock, settings) /\ ~Completed(clock)
           /\ OpenWindow(clock) # NoWindow =>
                OpenWindow(clock).expires \in (clock + 1)..(clock + Day)
<1>1. /\ clock \in Nat /\ clock <= LastTick /\ LastTick \in Nat /\ Day \in Nat /\ Day > 1
      /\ settings.on \in BOOLEAN /\ settings.start \in 0..(Day - 1)
      /\ settings.end \in 0..(Day - 1)
      /\ settings.source \in {s.source : s \in Settings} \cup {"manual"}
  BY DayAssumption, SettingsAssumption DEF WindowTypeOK
<1>2. EndsAt(clock, settings) \in (clock + 1)..(clock + Day)
  <2>1. settings.end - clock - 1 \in Int
    BY <1>1
  <2>2. PICK r \in 0..(Day - 1) : r = (settings.end - clock - 1) % Day
    BY <2>1, Remainder
  <2>. QED BY <1>1, <2>2 DEF EndsAt
<1>3. NoWindow \in Occurrences
  BY <1>1 DEF NoWindow, Occurrences
<1>4. CASE settings.on /\ Inside(clock, settings)
  <2>. DEFINE w == [start |-> settings.start, end |-> settings.end,
                    expires |-> EndsAt(clock, settings), source |-> settings.source]
  <2>1. OpenWindow(clock) = w
    BY <1>4 DEF OpenWindow
  <2>2. EndsAt(clock, settings) \in -1..(LastTick + Day)
    BY <1>1, <1>2
  <2>3. w \in Occurrences /\ w.expires = EndsAt(clock, settings)
    BY <1>1, <2>2 DEF Occurrences
  <2>. HIDE DEF w
  <2>. QED BY <1>2, <1>3, <1>4, <2>1, <2>3 DEF Window
<1>5. CASE ~(settings.on /\ Inside(clock, settings))
  <2>1. OpenWindow(clock) = NoWindow /\ Window(clock) = NoWindow
    BY <1>5 DEF OpenWindow, Window
  <2>. QED BY <1>3, <2>1
<1>. QED BY <1>4, <1>5

\* The end a new hold gets.
LEMMA NewHoldTypes ==
    ASSUME WindowTypeOK, OpenWindow(clock) # NoWindow
    PROVE  LET h == [expires |-> OpenWindow(clock).expires,
                     source |-> OpenWindow(clock).source]
           IN  h \in HoldRecords /\ h \notin {NoProof, Cleared} /\ h.expires <= clock + Day
<1>. DEFINE w == OpenWindow(clock)
            h == [expires |-> w.expires, source |-> w.source]
<1>1. w \in Occurrences /\ w.expires \in (clock + 1)..(clock + Day) /\ clock \in Nat
  BY OpenWindowTypes DEF WindowTypeOK
<1>. HIDE DEF w
<1>2. /\ w.expires \in -1..(LastTick + Day) /\ w.expires > 0
      /\ w.source \in {s.source : s \in Settings} \cup {"manual"}
  BY <1>1 DEF Occurrences
<1>3. h \in HoldRecords /\ h.expires > 0 /\ h.expires <= clock + Day
  BY <1>1, <1>2, DayAssumption DEF HoldRecords
<1>4. h # NoProof /\ h # Cleared
  BY <1>3 DEF NoProof, Cleared
<1>. QED BY <1>3, <1>4 DEF w

\* The types by their parts.
LEMMA WindowTypes ==
    ASSUME WindowTypeOK
    PROVE  /\ clock \in Nat /\ Day \in Nat /\ Day > 1 /\ Needed \in Nat /\ Needed > 0
           /\ {window, restore, believed, disk, latched, NoWindow} \subseteq Occurrences
           /\ {hold, last, pending, saved, holdDisk, proven, NoProof, Cleared}
                \subseteq HoldRecords
           /\ \A h \in HoldRecords : h.expires \in Int /\ Content(h) \in HoldRecords
           /\ NoProof # Cleared /\ NoProof.expires = -1 /\ Cleared.expires = 0
<1>1. NoProof # Cleared /\ NoProof.expires = -1 /\ Cleared.expires = 0
  BY DEF NoProof, Cleared
<1>2. NoProof \in HoldRecords /\ Cleared \in HoldRecords
  BY DayAssumption DEF NoProof, Cleared, HoldRecords
<1>3. \A h \in HoldRecords : h.expires \in Int /\ Content(h) \in HoldRecords
  BY <1>2, DayAssumption DEF HoldRecords, Content
<1>. QED
  BY <1>1, <1>2, <1>3, OpenWindowTypes, DayAssumption, NeededAssumption DEF WindowTypeOK
-----------------------------------------------------------------------------
(* The stores                                                               *)

LEMMA PersistMoves ==
    ASSUME NEW wanted, Persist(wanted)
    PROVE  /\ disk' \in {disk, wanted} /\ believed' \in {believed, wanted}
           /\ "fails" \notin Readback /\ believed \in {disk, NoWindow}
                => believed' \in {disk', NoWindow}
  BY DEF Persist

LEMMA FlushMoves ==
    ASSUME NEW wanted, Flush(wanted)
    PROVE  /\ pending' \in {NoProof, wanted}
           /\ saved' \in {saved, wanted} /\ holdDisk' \in {holdDisk, wanted}
           /\ "fails" \notin Readback /\ saved \in {holdDisk, NoProof}
                => saved' \in {holdDisk', NoProof}
  BY DEF Flush

\* What a request for a hold, or for none, does to hold and store.
HoldMoves(h, end) ==
    /\ hold' = h /\ last' = end
    /\ pending' \in {NoProof, Content(end)}
    /\ saved' \in {saved, Content(end)} /\ holdDisk' \in {holdDisk, Content(end)}
    /\ "fails" \notin Readback /\ saved \in {holdDisk, NoProof}
         => saved' \in {holdDisk', NoProof}

LEMMA SetHoldMoves ==
    ASSUME HoldFlow, NEW h, NEW retain \in BOOLEAN, SetHold(h, retain)
    PROVE  HoldMoves(h, IF h # NoProof THEN h ELSE IF retain THEN last ELSE NoProof)
<1>. DEFINE end == IF h # NoProof THEN h ELSE IF retain THEN last ELSE NoProof
<1>. SUFFICES HoldMoves(h, end)
  OBVIOUS
<1>1. CASE hold = h /\ (h # NoProof \/ retain \/ last = NoProof) /\ pending = NoProof
  <2>1. UNCHANGED <<hold, last, pending, saved, holdDisk>>
    BY <1>1 DEF SetHold
  <2>2. last = end
    BY <1>1 DEF HoldFlow
  <2>. QED BY <1>1, <2>1, <2>2 DEF HoldMoves
<1>2. CASE ~(hold = h /\ (h # NoProof \/ retain \/ last = NoProof) /\ pending = NoProof)
  <2>1. /\ hold' = h /\ last' = end
        /\ IF pending = NoProof /\ Content(end) = saved
           THEN UNCHANGED <<pending, saved, holdDisk>>
           ELSE Flush(Content(end))
    BY <1>2 DEF SetHold
  <2>. HIDE DEF end
  <2>2. CASE pending = NoProof /\ Content(end) = saved
    BY <2>1, <2>2 DEF HoldMoves
  <2>3. CASE ~(pending = NoProof /\ Content(end) = saved)
    BY <2>1, <2>3, FlushMoves DEF HoldMoves
  <2>. QED BY <2>2, <2>3
<1>. QED BY <1>1, <1>2

LEMMA KeepHoldMoves ==
    ASSUME HoldFlow, KeepHold
    PROVE  HoldMoves(hold, last)
  BY DEF HoldFlow, KeepHold, HoldMoves

\* Hold and store keep their types and their order, whatever is asked for.
LEMMA HoldMovesKeeps ==
    ASSUME WindowTypeOK, HoldFlow, NEW h \in HoldRecords, NEW end \in HoldRecords,
           HoldMoves(h, end), h # NoProof => end = h,
           h.expires <= clock + Day, end.expires <= clock + Day,
           Cleared \notin {h, end}, clock' = clock,
           proven' \in {proven, hold', NoProof}
    PROVE  /\ HoldFlow'
           /\ {hold, last, pending, saved, holdDisk, proven}' \subseteq HoldRecords
<1>. USE WindowTypes
<1>1. Content(end) \in HoldRecords /\ Content(end).expires <= clock + Day
  BY DEF Content
<1>2. {hold', last', pending', saved', holdDisk', proven'} \subseteq HoldRecords
  BY <1>1 DEF HoldMoves, WindowTypeOK
<1>3. \A g \in {hold', last', pending', saved', holdDisk', proven'} : g.expires <= clock + Day
  BY <1>1 DEF HoldMoves, HoldFlow
<1>4. /\ pending' # NoProof => pending' = Content(last')
      /\ hold' # NoProof => last' = hold'
      /\ Cleared \notin {hold', last', proven'}
  BY DEF HoldMoves, HoldFlow
<1>5. HoldFlow'
  BY <1>3, <1>4 DEF HoldFlow
<1>. QED BY <1>2, <1>5
-----------------------------------------------------------------------------
(* Types, releases and counts                                               *)

LEMMA WindowInitHolds == WindowInit => WindowInv /\ KeptInv
<1>. SUFFICES ASSUME WindowInit PROVE WindowInv /\ KeptInv
  OBVIOUS
<1>0. NoWindow \in Occurrences /\ NoProof \in HoldRecords /\ NoProof # Cleared
      /\ NoProof.expires = -1 /\ Day \in Nat /\ LastTick \in Nat /\ Needed \in Nat
  BY DayAssumption, NeededAssumption DEF NoWindow, NoProof, Cleared, Occurrences, HoldRecords
<1>1. WindowTypeOK
  <2>1. armed \in BOOLEAN /\ active \in BOOLEAN
    BY DEF WindowInit
  <2>2. clock \in 0..LastTick /\ confirmations \in 0..Needed /\ shownRow \in 0..Needed
    BY <1>0 DEF WindowInit
  <2>3. {window, restore, believed, disk, latched} = {NoWindow} /\ lows = {}
        /\ {hold, last, pending, saved, holdDisk, proven} = {NoProof} /\ settings \in Settings
    BY DEF WindowInit
  <2>. QED BY <1>0, <2>1, <2>2, <2>3 DEF WindowTypeOK
<1>2. Earned /\ RowCounts
  BY DEF WindowInit, Earned, RowCounts
<1>3. HoldFlow
  BY <1>0 DEF WindowInit, HoldFlow
<1>4. KeptInv
  BY DEF WindowInit, KeptInv, StoresAreTrue, LatchIsKept, ProvenIsKept
<1>. QED BY <1>1, <1>2, <1>3, <1>4 DEF WindowInv

\* What evaluations do to the counts of proofs and of blocks.
LEMMA Counts ==
    ASSUME WindowTypeOK, RowCounts, NEW block \in Blocks, SeesRow(block)
    PROVE  /\ shownRow' \in 0..Needed /\ ConfirmedBy(block) \in 0..Needed
           /\ StillConfirmed \in 0..Needed
           /\ StillActive => ConfirmedBy(block) <= shownRow'
           /\ block = "charging" /\ ConfirmedBy(block) = Needed => shownRow' = Needed
<1>. USE WindowTypes
<1>1. StillConfirmed \in 0..confirmations /\ confirmations \in 0..Needed
      /\ shownRow \in 0..Needed
  BY DEF StillConfirmed, WindowTypeOK
<1>2. StillActive => active /\ confirmations <= shownRow
  BY DEF StillActive, RowCounts
<1>3. CASE block = "again"
  <2>1. shownRow' = shownRow
    BY <1>3 DEF SeesRow
  <2>2. ConfirmedBy(block) \in {0, StillConfirmed}
    BY <1>3 DEF ConfirmedBy
  <2>. QED BY <1>1, <1>2, <1>3, <2>1, <2>2
<1>4. CASE block = "charging"
  <2>1. CASE StillActive
    <3>1. shownRow' = IF shownRow < Needed THEN shownRow + 1 ELSE Needed
      BY <1>2, <1>4, <2>1 DEF SeesRow
    <3>2. ConfirmedBy(block)
            \in {0, IF StillConfirmed < Needed THEN StillConfirmed + 1 ELSE Needed}
      BY <1>4, <2>1 DEF ConfirmedBy, ShowsCharge
    <3>3. PICK row, count, still :
                 row = shownRow /\ count = ConfirmedBy(block) /\ still = StillConfirmed
      OBVIOUS
    <3>4. /\ still \in Nat /\ still <= row /\ row \in 0..Needed
          /\ shownRow' = IF row < Needed THEN row + 1 ELSE Needed
          /\ count \in {0, IF still < Needed THEN still + 1 ELSE Needed}
      BY <1>1, <1>2, <2>1, <3>1, <3>2, <3>3
    <3>5. /\ shownRow' \in 0..Needed /\ count \in 0..Needed /\ count <= shownRow'
          /\ count = Needed => shownRow' = Needed
      BY <3>4
    <3>. QED BY <1>1, <3>3, <3>5
  <2>2. CASE ~StillActive
    <3>1. shownRow' \in {0, IF shownRow < Needed THEN shownRow + 1 ELSE Needed}
      BY <1>4 DEF SeesRow
    <3>2. ConfirmedBy(block) = 0
      BY <1>4, <2>2 DEF ConfirmedBy, ShowsCharge
    <3>. QED BY <1>1, <2>2, <3>1, <3>2
  <2>. QED BY <2>1, <2>2
<1>5. CASE block = "idle"
  <2>1. shownRow' = 0 /\ ConfirmedBy(block) = 0
    BY <1>5 DEF SeesRow, ConfirmedBy, ShowsCharge
  <2>. QED BY <1>1, <1>5, <2>1
<1>. QED BY <1>3, <1>4, <1>5 DEF Blocks

\* What the hold becomes in an evaluation: what it is, nothing, or a new one
\* for the open window; its end is kept unless the function is off.
LEMMA ProvesMoves ==
    ASSUME WindowTypeOK, HoldFlow, NEW block \in Blocks, Proves(block)
    PROVE  \E h, end \in HoldRecords :
             /\ HoldMoves(h, end) /\ (h # NoProof => end = h)
             /\ h.expires <= clock + Day /\ end.expires <= clock + Day
             /\ Cleared \notin {h, end}
             /\ h \notin {hold, NoProof} => block = "charging" /\ ConfirmedBy(block) = Needed
             /\ settings.on => (HoldIsActive(clock) => h = hold)
                              /\ (h = NoProof => end = last)
<1>. USE WindowTypes
<1>0. /\ hold \in HoldRecords /\ hold.expires <= clock + Day /\ hold # Cleared
      /\ last \in HoldRecords /\ last.expires <= clock + Day /\ last # Cleared
      /\ NoProof \in HoldRecords /\ NoProof.expires <= clock + Day /\ NoProof # Cleared
      /\ HoldIsActive(clock) => hold # NoProof
  BY DEF HoldFlow, HoldIsActive
<1>1. CASE ~settings.on
  <2>1. SetHold(NoProof, FALSE)
    BY <1>1 DEF Proves
  <2>2. HoldMoves(NoProof, NoProof)
    BY <2>1, SetHoldMoves
  <2>. QED BY <1>0, <1>1, <2>2
<1>2. CASE settings.on /\ HoldIsActive(clock)
  <2>1. SetHold(hold, FALSE)
    BY <1>2 DEF Proves
  <2>2. HoldMoves(hold, hold)
    BY <1>0, <1>2, <2>1, SetHoldMoves
  <2>. QED BY <1>0, <1>2, <2>2
<1>3. CASE settings.on /\ ~HoldIsActive(clock) /\ NewProof(block)
  <2>. DEFINE g == [expires |-> OpenWindow(clock).expires, source |-> OpenWindow(clock).source]
  <2>1. SetHold(g, FALSE)
    BY <1>3 DEF Proves
  <2>2. g \in HoldRecords /\ g \notin {NoProof, Cleared} /\ g.expires <= clock + Day
    BY <1>3, NewHoldTypes DEF NewProof
  <2>. HIDE DEF g
  <2>3. HoldMoves(g, g)
    BY <2>1, <2>2, SetHoldMoves
  <2>4. block = "charging" /\ ConfirmedBy(block) = Needed
    BY <1>3 DEF NewProof
  <2>. QED BY <1>3, <2>2, <2>3, <2>4
<1>4. CASE settings.on /\ ~HoldIsActive(clock) /\ ~NewProof(block)
  <2>1. SetHold(NoProof, TRUE)
    BY <1>4 DEF Proves
  <2>2. HoldMoves(NoProof, last)
    BY <2>1, SetHoldMoves
  <2>. QED BY <1>0, <1>4, <2>2
<1>. QED BY <1>1, <1>2, <1>3, <1>4

\* What is remembered of stored releases and holds.
LEMMA RemembersMoves ==
    ASSUME NEW soc, Remembers(soc)
    PROVE  /\ latched' \in {window', latched, NoWindow}
           /\ latched' # NoWindow =>
                \/ armed' /\ believed' = window' /\ latched' = window'
                \/ latched' = latched /\ latched = Window(clock) /\ soc # "full"
           /\ proven' \in {proven, hold', NoProof}
           /\ proven' # NoProof =>
                /\ settings.on /\ ~(clock < proven.expires /\ ~Allows(proven, clock))
                /\ IF hold' = NoProof THEN proven' = proven
                   ELSE saved' = hold' /\ proven' = hold'
  BY DEF Remembers

LEMMA RemembersEarned ==
    ASSUME NEW soc, Remembers(soc), WindowTypeOK,
           window' # NoWindow => window' \in Occurrences,
           armed' => window' # NoWindow /\ (window' \in lows \/ soc = "low"),
           restore' # NoWindow => restore' \in lows,
           disk' # NoWindow =>
             disk' \in lows \/ (disk' = window' /\ (window' \in lows \/ soc = "low"))
    PROVE  Earned' /\ lows' \subseteq Occurrences
<1>1. lows' = {w \in lows \cup (IF soc = "low" THEN {window'} ELSE {}) :
                  w # NoWindow /\ w \in {window', restore', disk'}}
  BY DEF Remembers
<1>. QED BY <1>1 DEF Earned, WindowTypeOK

LEMMA WindowDecidesKeeps ==
    ASSUME WindowInv, NEW soc \in SocLevels, NEW block \in Blocks, WindowDecides(soc, block)
    PROVE  /\ {window, restore, believed, disk, latched}' \subseteq Occurrences
           /\ armed' \in BOOLEAN /\ shownRow' \in 0..Needed /\ lows' \subseteq Occurrences
           /\ {hold, last, pending, saved, holdDisk, proven}' \subseteq HoldRecords
           /\ Earned' /\ HoldFlow'
           /\ clock' = clock /\ settings' = settings
<1>. USE WindowTypes DEF WindowInv
<1>1. /\ window' = Window(clock) /\ restore' = NoWindow /\ armed' = Released(soc)
      /\ Persist(IF armed' THEN window' ELSE NoWindow)
      /\ SeesRow(block) /\ Proves(block) /\ Remembers(soc)
      /\ clock' = clock /\ settings' = settings
  BY DEF WindowDecides
<1>2. window' \in Occurrences /\ armed' \in BOOLEAN
  BY <1>1, OpenWindowTypes DEF Released
<1>3. disk' \in {disk, window', NoWindow} /\ believed' \in {believed, window', NoWindow}
      /\ (disk' = window' => disk' = disk \/ armed' \/ window' = NoWindow)
  BY <1>1, PersistMoves
<1>4. armed' => window' # NoWindow /\ (window' \in lows \/ soc = "low")
  BY <1>1 DEF Released, StillArmed, StillRestorable, Earned
<1>5. Earned' /\ lows' \subseteq Occurrences
  BY <1>1, <1>2, <1>3, <1>4, RemembersEarned DEF Earned
<1>6. PICK h, end \in HoldRecords :
             /\ HoldMoves(h, end) /\ (h # NoProof => end = h)
             /\ h.expires <= clock + Day /\ end.expires <= clock + Day
             /\ Cleared \notin {h, end}
  BY <1>1, ProvesMoves
<1>7. HoldFlow' /\ {hold, last, pending, saved, holdDisk, proven}' \subseteq HoldRecords
  BY <1>1, <1>6, RemembersMoves, HoldMovesKeeps
<1>8. {window, restore, believed, disk, latched}' \subseteq Occurrences
  BY <1>1, <1>2, <1>3, RemembersMoves
<1>. QED BY <1>1, <1>2, <1>5, <1>7, <1>8, Counts

LEMMA EvaluatesKeeps ==
    ASSUME WindowInv, NEW soc \in SocLevels, NEW block \in Blocks,
           WindowEvaluates(soc, block)
    PROVE  WindowInv'
<1>1. /\ WindowDecides(soc, block) /\ SeesRow(block)
      /\ active' \in (IF armed' THEN BOOLEAN ELSE {FALSE, StillActive})
      /\ confirmations' = IF active' /\ ~StillActive THEN 0 ELSE ConfirmedBy(block)
  BY DEF WindowEvaluates, WindowDecides
<1>2. StillActive \in BOOLEAN
  BY DEF StillActive, WindowInv, WindowTypeOK
<1>3. active' \in BOOLEAN
  BY <1>1, <1>2
<1>4. confirmations' \in 0..Needed /\ RowCounts'
  BY <1>1, Counts, WindowTypes DEF WindowInv, RowCounts
<1>5. WindowTypeOK'
  BY <1>1, <1>3, <1>4, WindowDecidesKeeps DEF WindowInv, WindowTypeOK
<1>. QED BY <1>1, <1>4, <1>5, WindowDecidesKeeps DEF WindowInv

LEMMA OptionsMoveKeeps ==
    ASSUME WindowInv, NEW block \in Blocks, OptionsMove(block)
    PROVE  WindowInv'
<1>. USE WindowTypes DEF WindowInv
<1>1. /\ settings' \in Settings
      /\ armed' = FALSE /\ window' = NoWindow /\ restore' = NoWindow /\ active' = FALSE
      /\ SetHold(NoProof, FALSE) /\ Persist(NoWindow)
      /\ confirmations' = ConfirmedBy(block) /\ SeesRow(block)
      /\ latched' = NoWindow /\ proven' = NoProof
      /\ clock' = clock /\ lows' = lows
  BY DEF OptionsMove
<1>2. disk' \in {disk, NoWindow} /\ believed' \in {believed, NoWindow}
  BY <1>1, PersistMoves
<1>3. HoldMoves(NoProof, NoProof)
  BY <1>1, SetHoldMoves
<1>4. HoldFlow' /\ {hold, last, pending, saved, holdDisk, proven}' \subseteq HoldRecords
  BY <1>1, <1>3, HoldMovesKeeps
<1>5. confirmations' \in 0..Needed /\ shownRow' \in 0..Needed
  BY <1>1, Counts
<1>6. WindowTypeOK'
  BY <1>1, <1>2, <1>4, <1>5 DEF WindowTypeOK
<1>7. Earned' /\ RowCounts'
  BY <1>1, <1>2 DEF Earned, RowCounts
<1>. QED BY <1>4, <1>6, <1>7

\* What a suspension does to the hold: nothing, or it ends, its end remembered
\* unless the function is off.
LEMMA SuspendsMoves ==
    ASSUME HoldFlow, WindowTypeOK, WindowSuspends
    PROVE  \/ HoldMoves(hold, last)
           \/ HoldMoves(NoProof, IF settings.on THEN last ELSE NoProof) /\ ~HoldIsActive(clock)
<1>1. settings.on \in BOOLEAN
  BY SettingsAssumption DEF WindowTypeOK
<1>2. CASE KeepHold
  BY <1>2, KeepHoldMoves
<1>3. CASE ~KeepHold
  <2>1. SetHold(NoProof, settings.on) /\ ~HoldIsActive(clock)
    BY <1>3 DEF WindowSuspends
  <2>2. HoldMoves(NoProof, IF NoProof # NoProof THEN NoProof
                           ELSE IF settings.on THEN last ELSE NoProof)
    BY <1>1, <2>1, SetHoldMoves
  <2>. QED BY <2>1, <2>2
<1>. QED BY <1>2, <1>3

LEMMA SuspendsKeeps ==
    ASSUME WindowInv, WindowSuspends
    PROVE  WindowInv'
<1>. USE WindowTypes DEF WindowInv
<1>1. /\ window' = Window(clock) /\ armed' = StillArmed /\ restore' = StillRestorable
      /\ active' = FALSE /\ confirmations' \in {0, StillConfirmed} /\ shownRow' = 0
      /\ Persist(IF Stored THEN window' ELSE NoWindow) /\ Remembers("none")
      /\ clock' = clock /\ settings' = settings
  BY DEF WindowSuspends
<1>2. /\ armed' \in BOOLEAN /\ window' \in Occurrences
      /\ restore' \in {restore, NoWindow}
      /\ armed' => window' # NoWindow /\ window' \in lows
      /\ restore' # NoWindow => restore' = window' /\ window' \in lows
  BY <1>1, OpenWindowTypes DEF StillArmed, StillRestorable, Earned, WindowTypeOK
<1>3. /\ disk' \in {disk, window', NoWindow} /\ believed' \in {believed, window', NoWindow}
      /\ disk' \in {disk, NoWindow} \/ (disk' = window' /\ window' \in lows)
  BY <1>1, <1>2, PersistMoves DEF Stored
<1>4. Earned' /\ lows' \subseteq Occurrences
  BY <1>1, <1>2, <1>3, RemembersEarned DEF Earned
<1>5. /\ hold \in HoldRecords /\ hold.expires <= clock + Day /\ hold # Cleared
      /\ last \in HoldRecords /\ last.expires <= clock + Day /\ last # Cleared
      /\ NoProof \in HoldRecords /\ NoProof.expires <= clock + Day
  BY DEF HoldFlow
<1>6. HoldFlow' /\ {hold, last, pending, saved, holdDisk, proven}' \subseteq HoldRecords
  <2>1. proven' \in {proven, hold', NoProof}
    BY <1>1, RemembersMoves
  <2>2. CASE HoldMoves(hold, last)
    BY <1>1, <1>5, <2>1, <2>2, HoldMovesKeeps DEF HoldFlow
  <2>3. CASE HoldMoves(NoProof, IF settings.on THEN last ELSE NoProof)
    BY <1>1, <1>5, <2>1, <2>3, HoldMovesKeeps
  <2>. QED BY <2>2, <2>3, SuspendsMoves
<1>7. confirmations' \in 0..Needed /\ shownRow' \in 0..Needed
  BY <1>1 DEF StillConfirmed, WindowTypeOK
<1>8. {window, restore, believed, disk, latched}' \subseteq Occurrences
  BY <1>1, <1>2, <1>3, RemembersMoves
<1>9. WindowTypeOK'
  BY <1>1, <1>2, <1>4, <1>6, <1>7, <1>8 DEF WindowTypeOK
<1>10. RowCounts'
  BY <1>1 DEF RowCounts
<1>. QED BY <1>4, <1>6, <1>9, <1>10

LEMMA WorldKeeps ==
    ASSUME WindowInv, Ticks \/ Configures
    PROVE  WindowInv'
<1>. USE WindowTypes DEF WindowInv
<1>1. /\ clock' \in 0..LastTick /\ clock <= clock' /\ settings' \in Settings
      /\ UNCHANGED <<latch, active, proof, history>>
  BY DayAssumption DEF Ticks, Configures, WindowTypeOK
<1>2. WindowTypeOK'
  BY <1>1 DEF WindowTypeOK, latch, proof, history
<1>3. Earned' /\ RowCounts'
  BY <1>1 DEF Earned, RowCounts, latch, proof, history
<1>4. HoldFlow'
  <2>1. UNCHANGED <<hold, last, pending, saved, holdDisk, proven>>
    BY <1>1 DEF proof, history
  <2>2. SUFFICES ASSUME NEW h \in {hold, last, pending, saved, holdDisk, proven}
                 PROVE  h.expires <= clock' + Day
    BY <2>1 DEF HoldFlow
  <2>3. PICK e \in Int, t \in Nat : e = h.expires /\ t = clock' /\ e <= clock + Day
    BY <1>1 DEF HoldFlow
  <2>. QED BY <1>1, <2>3
<1>. QED BY <1>2, <1>3, <1>4

LEMMA FinalWriteKeeps ==
    ASSUME WindowInv, FinalWrite
    PROVE  WindowInv'
<1>. USE WindowTypes DEF WindowInv
<1>1. /\ pending # NoProof /\ Flush(pending)
      /\ UNCHANGED <<clock, settings, latch, active, confirmations, hold, last, history>>
  BY DEF FinalWrite
<1>2. /\ pending' \in {NoProof, pending} /\ saved' \in {saved, pending}
      /\ holdDisk' \in {holdDisk, pending}
  BY <1>1, FlushMoves
<1>3. WindowTypeOK'
  BY <1>1, <1>2 DEF WindowTypeOK, latch, history
<1>4. Earned' /\ RowCounts'
  BY <1>1 DEF Earned, RowCounts, latch, history
<1>5. HoldFlow'
  BY <1>1, <1>2 DEF HoldFlow, history
<1>. QED BY <1>3, <1>4, <1>5

\* What a restart finds of the hold: what is on disk, or nothing.
LEMMA LoadedTypes ==
    ASSUME WindowTypeOK
    PROVE  Loaded \in {holdDisk, NoProof} /\ Loaded # Cleared /\ Loaded \in HoldRecords
  BY WindowTypes DEF Loaded

LEMMA RestartsKeeps ==
    ASSUME WindowInv, Restarts
    PROVE  WindowInv'
<1>. USE WindowTypes DEF WindowInv
<1>1. /\ armed' = FALSE /\ window' = NoWindow /\ active' = FALSE
      /\ confirmations' = 0 /\ pending' = NoProof /\ shownRow' = 0
      /\ restore' \in {disk, NoWindow} /\ believed' \in {disk, NoWindow}
      /\ latched' \in {latched, NoWindow}
      /\ UNCHANGED <<clock, settings, disk, holdDisk, lows>>
  BY DEF Restarts
<1>2. PICK found : found = Loaded
  OBVIOUS
<1>3. /\ last' \in {found, NoProof} /\ hold' \in {last', NoProof}
      /\ saved' \in {holdDisk, NoProof} /\ proven' \in {proven, NoProof}
  BY <1>2 DEF Restarts
<1>4. found \in {holdDisk, NoProof} /\ found # Cleared
  BY <1>2, LoadedTypes
<1>5. {hold', last', pending', saved', holdDisk', proven'} \subseteq {holdDisk, proven, NoProof}
  BY <1>1, <1>3, <1>4
<1>6. WindowTypeOK'
  <2>1. armed' \in BOOLEAN /\ active' \in BOOLEAN
    BY <1>1
  <2>2. confirmations' \in 0..Needed /\ shownRow' \in 0..Needed
    BY <1>1
  <2>3. {window', restore', believed', disk', latched'} \subseteq Occurrences
    BY <1>1
  <2>4. {hold', last', pending', saved', holdDisk', proven'} \subseteq HoldRecords
    BY <1>5
  <2>. QED BY <1>1, <2>1, <2>2, <2>3, <2>4 DEF WindowTypeOK
<1>7. Earned' /\ RowCounts'
  BY <1>1 DEF Earned, RowCounts
<1>8. HoldFlow'
  <2>1. \A h \in {holdDisk, proven, NoProof} : h.expires <= clock + Day
    BY DEF HoldFlow
  <2>2. \A h \in {hold', last', pending', saved', holdDisk', proven'} : h.expires <= clock + Day
    BY <1>5, <2>1
  <2>3. pending' = NoProof /\ (hold' # NoProof => last' = hold')
        /\ Cleared \notin {hold', last', proven'}
    BY <1>1, <1>3, <1>4 DEF HoldFlow
  <2>. QED BY <1>1, <2>2, <2>3 DEF HoldFlow
<1>. QED BY <1>6, <1>7, <1>8

LEMMA WindowStep ==
    ASSUME WindowInv, [WindowNext]_windowVars
    PROVE  WindowInv'
<1>1. CASE \E soc \in SocLevels, block \in Blocks : WindowEvaluates(soc, block)
  BY <1>1, EvaluatesKeeps
<1>2. CASE \E block \in Blocks : OptionsMove(block)
  BY <1>2, OptionsMoveKeeps
<1>3. CASE WindowSuspends
  BY <1>3, SuspendsKeeps
<1>4. CASE Ticks \/ Configures
  BY <1>4, WorldKeeps
<1>5. CASE FinalWrite
  BY <1>5, FinalWriteKeeps
<1>6. CASE Restarts
  BY <1>6, RestartsKeeps
<1>7. CASE UNCHANGED windowVars
  BY <1>7 DEF windowVars, latch, proof, history, WindowInv, WindowTypeOK, Earned, RowCounts,
    HoldFlow
<1>. QED BY <1>1, <1>2, <1>3, <1>4, <1>5, <1>6, <1>7 DEF WindowNext
-----------------------------------------------------------------------------
(* What is kept, where every write that reaches a file can be read back     *)

\* A step of an evaluation keeps a stored hold: it ends no earlier than its
\* window, and its end is remembered.
LEMMA ProvenStep ==
    ASSUME WindowInv, StoresAreTrue, ProvenIsKept, "fails" \notin Readback,
           NEW soc, Remembers(soc), clock' = clock,
           NEW h \in HoldRecords, NEW end \in HoldRecords, HoldMoves(h, end),
           h # NoProof => end = h,
           settings.on => (HoldIsActive(clock) => h = hold) /\ (h = NoProof => end = last)
    PROVE  ProvenIsKept'
<1>. USE WindowTypes DEF WindowInv
<1>1. /\ hold' = h /\ last' = end /\ holdDisk' \in {holdDisk, Content(end)}
      /\ saved' \in {holdDisk', NoProof}
  BY DEF HoldMoves, StoresAreTrue
<1>2. SUFFICES ASSUME proven' # NoProof
               PROVE  \/ /\ last' = proven' /\ holdDisk' = proven'
                         /\ hold' = proven' \/ clock >= proven'.expires
                      \/ clock - proven'.expires > Day
  BY DEF ProvenIsKept
<1>3. /\ settings.on /\ ~(clock < proven.expires /\ ~Allows(proven, clock))
      /\ IF hold' = NoProof THEN proven' = proven ELSE saved' = hold' /\ proven' = hold'
  BY <1>2, RemembersMoves
<1>4. CASE h # NoProof
  BY <1>1, <1>3, <1>4
<1>5. CASE h = NoProof
  <2>1. proven' = proven /\ proven # NoProof /\ end = last
    BY <1>1, <1>2, <1>3, <1>5
  <2>2. ~(hold = proven /\ clock < proven.expires)
    BY <1>3, <1>5, <2>1 DEF HoldIsActive
  <2>3. proven.expires \in Int
    BY DEF WindowTypeOK
  <2>4. CASE clock - proven.expires > Day
    BY <2>1, <2>4
  <2>5. CASE ~(clock - proven.expires > Day)
    <3>1. last = proven /\ holdDisk = proven /\ (hold = proven \/ clock >= proven.expires)
      BY <2>1, <2>5 DEF ProvenIsKept
    <3>2. holdDisk' = proven /\ clock >= proven.expires
      BY <1>1, <2>1, <2>2, <2>3, <3>1 DEF Content
    <3>. QED BY <1>1, <2>1, <3>1, <3>2
  <2>. QED BY <2>4, <2>5
<1>. QED BY <1>4, <1>5

\* So it does with a stored release.
LEMMA LatchStep ==
    ASSUME StoresAreTrue', LatchIsKept, NEW soc, Remembers(soc),
           armed' => window' # NoWindow,
           latched # NoWindow /\ latched = Window(clock) /\ soc # "full" =>
               (armed' /\ window' = latched) \/ restore' = latched,
           latched # NoWindow /\ latched = Window(clock) /\ soc # "full"
               /\ disk = latched => disk' = latched
    PROVE  LatchIsKept'
<1>1. SUFFICES ASSUME latched' # NoWindow
               PROVE  /\ disk' = latched'
                      /\ (armed' /\ window' = latched') \/ restore' = latched'
  BY DEF LatchIsKept
<1>2. CASE armed' /\ believed' = window' /\ latched' = window'
  BY <1>2 DEF StoresAreTrue
<1>3. CASE latched' = latched /\ latched = Window(clock) /\ soc # "full"
  BY <1>1, <1>3 DEF LatchIsKept
<1>. QED BY <1>1, <1>2, <1>3, RemembersMoves

LEMMA EvaluatesKept ==
    ASSUME WindowInv, KeptInv, "fails" \notin Readback, NEW soc \in SocLevels,
           NEW block \in Blocks, WindowDecides(soc, block)
    PROVE  KeptInv'
<1>. USE WindowTypes DEF WindowInv, KeptInv
<1>1. /\ window' = Window(clock) /\ restore' = NoWindow /\ armed' = Released(soc)
      /\ Persist(IF armed' THEN window' ELSE NoWindow)
      /\ Proves(block) /\ Remembers(soc) /\ clock' = clock
  BY DEF WindowDecides
<1>2. PICK h, end \in HoldRecords :
        /\ HoldMoves(h, end) /\ (h # NoProof => end = h)
        /\ settings.on => (HoldIsActive(clock) => h = hold) /\ (h = NoProof => end = last)
  BY <1>1, ProvesMoves
<1>3. StoresAreTrue'
  <2>1. believed' \in {disk', NoWindow}
    BY <1>1, PersistMoves DEF StoresAreTrue
  <2>2. saved' \in {holdDisk', NoProof}
    BY <1>2 DEF HoldMoves, StoresAreTrue
  <2>. QED BY <2>1, <2>2 DEF StoresAreTrue
<1>4. ProvenIsKept'
  BY <1>1, <1>2, ProvenStep
<1>5. armed' => window' # NoWindow
  BY <1>1 DEF Released
<1>6. ASSUME latched # NoWindow, latched = Window(clock), soc # "full"
      PROVE  armed' /\ window' = latched
  BY <1>1, <1>6 DEF LatchIsKept, Released, StillArmed, StillRestorable
<1>7. ASSUME latched # NoWindow, latched = Window(clock), soc # "full", disk = latched
      PROVE  disk' = latched
  BY <1>1, <1>6, <1>7, PersistMoves
<1>8. LatchIsKept'
  BY <1>1, <1>3, <1>5, <1>6, <1>7, LatchStep
<1>. QED BY <1>3, <1>4, <1>8

LEMMA SuspendsKept ==
    ASSUME WindowInv, KeptInv, "fails" \notin Readback, WindowSuspends
    PROVE  KeptInv'
<1>. USE WindowTypes DEF WindowInv, KeptInv
<1>1. /\ window' = Window(clock) /\ armed' = StillArmed /\ restore' = StillRestorable
      /\ Persist(IF Stored THEN window' ELSE NoWindow) /\ Remembers("none")
      /\ clock' = clock
  BY DEF WindowSuspends
<1>2. PICK h, end \in HoldRecords :
        /\ HoldMoves(h, end) /\ (h # NoProof => end = h)
        /\ settings.on => (HoldIsActive(clock) => h = hold) /\ (h = NoProof => end = last)
  <2>1. CASE HoldMoves(hold, last)
    BY <2>1 DEF HoldFlow
  <2>2. CASE HoldMoves(NoProof, IF settings.on THEN last ELSE NoProof) /\ ~HoldIsActive(clock)
    BY <2>2
  <2>. QED BY <2>1, <2>2, SuspendsMoves
<1>3. StoresAreTrue'
  <2>1. believed' \in {disk', NoWindow}
    BY <1>1, PersistMoves DEF StoresAreTrue
  <2>2. saved' \in {holdDisk', NoProof}
    BY <1>2 DEF HoldMoves, StoresAreTrue
  <2>. QED BY <2>1, <2>2 DEF StoresAreTrue
<1>4. ProvenIsKept'
  BY <1>1, <1>2, ProvenStep
<1>5. armed' => window' # NoWindow
  BY <1>1 DEF StillArmed
<1>6. ASSUME latched # NoWindow, latched = Window(clock)
      PROVE  ((armed' /\ window' = latched) \/ restore' = latched) /\ window' = latched
  BY <1>1, <1>6 DEF LatchIsKept, StillArmed, StillRestorable
<1>7. ASSUME latched # NoWindow, latched = Window(clock), disk = latched
      PROVE  disk' = latched
  <2>1. Stored
    BY <1>6, <1>7 DEF Stored
  <2>. QED BY <1>1, <1>6, <1>7, <2>1, PersistMoves
<1>8. LatchIsKept'
  BY <1>1, <1>3, <1>5, <1>6, <1>7, LatchStep
<1>. QED BY <1>3, <1>4, <1>8

LEMMA OptionsMoveKept ==
    ASSUME WindowInv, KeptInv, "fails" \notin Readback, NEW block \in Blocks,
           OptionsMove(block)
    PROVE  KeptInv'
<1>. USE DEF WindowInv, KeptInv
<1>1. /\ SetHold(NoProof, FALSE) /\ Persist(NoWindow)
      /\ latched' = NoWindow /\ proven' = NoProof
  BY DEF OptionsMove
<1>2. HoldMoves(NoProof, NoProof)
  BY <1>1, SetHoldMoves
<1>3. believed' \in {disk', NoWindow} /\ saved' \in {holdDisk', NoProof}
  BY <1>1, <1>2, PersistMoves DEF StoresAreTrue, HoldMoves
<1>. QED BY <1>1, <1>3 DEF StoresAreTrue, LatchIsKept, ProvenIsKept

LEMMA FinalWriteKept ==
    ASSUME WindowInv, KeptInv, "fails" \notin Readback, FinalWrite
    PROVE  KeptInv'
<1>. USE WindowTypes DEF WindowInv, KeptInv
<1>1. /\ pending # NoProof /\ Flush(pending)
      /\ UNCHANGED <<clock, settings, latch, active, confirmations, hold, last, history>>
  BY DEF FinalWrite
<1>2. holdDisk' \in {holdDisk, Content(last)} /\ saved' \in {holdDisk', NoProof}
  BY <1>1, FlushMoves DEF HoldFlow, StoresAreTrue
<1>3. StoresAreTrue' /\ LatchIsKept'
  BY <1>1, <1>2 DEF StoresAreTrue, LatchIsKept, latch, history
<1>4. ProvenIsKept'
  BY <1>1, <1>2 DEF ProvenIsKept, Content, history
<1>. QED BY <1>3, <1>4

LEMMA WorldKept ==
    ASSUME WindowInv, KeptInv, Ticks \/ Configures
    PROVE  KeptInv'
<1>. USE WindowTypes DEF WindowInv, KeptInv
<1>1. /\ clock' \in Nat /\ clock <= clock'
      /\ UNCHANGED <<latch, active, proof, history>>
  BY DEF Ticks, Configures
<1>2. StoresAreTrue' /\ LatchIsKept'
  BY <1>1 DEF StoresAreTrue, LatchIsKept, latch, proof, history
<1>3. ProvenIsKept'
  <2>1. PICK e \in Int, t \in Nat : e = proven.expires /\ t = clock'
    BY <1>1 DEF WindowTypeOK
  <2>2. (clock >= e => t >= e) /\ (clock - e > Day => t - e > Day)
    BY <1>1, <2>1
  <2>3. UNCHANGED <<hold, last, holdDisk, proven>>
    BY <1>1 DEF proof, history
  <2>. QED BY <2>1, <2>2, <2>3 DEF ProvenIsKept
<1>. QED BY <1>2, <1>3

LEMMA RestartsKept ==
    ASSUME WindowInv, KeptInv, Restarts
    PROVE  KeptInv'
<1>. USE WindowTypes DEF WindowInv, KeptInv
<1>1. /\ (restore' = disk /\ latched' = latched) \/ latched' = NoWindow
      /\ believed' \in {disk, NoWindow}
      /\ UNCHANGED <<clock, settings, disk, holdDisk, lows>>
  BY DEF Restarts
<1>2. PICK found : found = Loaded
  OBVIOUS
<1>3. /\ saved' \in {holdDisk, NoProof}
      /\ \/ proven' = NoProof
         \/ /\ last' = found /\ proven' = proven
            /\ hold' = IF found # NoProof /\ clock < found.expires THEN found ELSE NoProof
  BY <1>2 DEF Restarts
<1>4. StoresAreTrue' /\ LatchIsKept'
  BY <1>1, <1>3 DEF StoresAreTrue, LatchIsKept
<1>5. ProvenIsKept'
  <2>1. SUFFICES ASSUME proven' # NoProof, ~(clock - proven.expires > Day)
                 PROVE  /\ last' = proven /\ holdDisk = proven
                        /\ hold' = proven \/ clock >= proven.expires
    BY <1>1, <1>3 DEF ProvenIsKept
  <2>2. proven # NoProof /\ holdDisk = proven /\ proven # Cleared
        /\ proven.expires \in Int /\ proven.expires <= clock + Day
    BY <1>3, <2>1 DEF ProvenIsKept, HoldFlow, WindowTypeOK
  <2>3. clock - proven.expires \in (-Day)..Day
    BY <2>1, <2>2
  <2>4. found = proven
    BY <1>2, <2>2, <2>3 DEF Loaded
  <2>. QED BY <1>3, <2>1, <2>2, <2>4
<1>. QED BY <1>4, <1>5

LEMMA KeptStep ==
    ASSUME WindowInv, KeptInv, "fails" \notin Readback, [WindowNext]_windowVars
    PROVE  KeptInv'
<1>1. CASE \E soc \in SocLevels, block \in Blocks : WindowEvaluates(soc, block)
  BY <1>1, EvaluatesKept DEF WindowEvaluates
<1>2. CASE \E block \in Blocks : OptionsMove(block)
  BY <1>2, OptionsMoveKept
<1>3. CASE WindowSuspends
  BY <1>3, SuspendsKept
<1>4. CASE Ticks \/ Configures
  BY <1>4, WorldKept
<1>5. CASE FinalWrite
  BY <1>5, FinalWriteKept
<1>6. CASE Restarts
  BY <1>6, RestartsKept
<1>7. CASE UNCHANGED windowVars
  BY <1>7 DEF windowVars, latch, proof, history, KeptInv, StoresAreTrue, LatchIsKept,
    ProvenIsKept
<1>. QED BY <1>1, <1>2, <1>3, <1>4, <1>5, <1>6, <1>7 DEF WindowNext
-----------------------------------------------------------------------------
\* A new hold was shown by as many blocks as are needed.
LEMMA EarnedStep ==
    ASSUME WindowInv, [WindowNext]_windowVars, hold' \notin {hold, NoProof, holdDisk}
    PROVE  shownRow' >= Needed
<1>. USE WindowTypes DEF WindowInv
<1>1. ASSUME NEW soc \in SocLevels, NEW block \in Blocks, WindowEvaluates(soc, block)
      PROVE  shownRow' >= Needed
  <2>1. Proves(block) /\ SeesRow(block)
    BY <1>1 DEF WindowEvaluates, WindowDecides
  <2>2. block = "charging" /\ ConfirmedBy(block) = Needed
    BY <2>1, ProvesMoves DEF HoldMoves
  <2>3. shownRow' = Needed
    BY <2>1, <2>2, Counts
  <2>. QED BY <2>3
<1>2. ASSUME NEW block \in Blocks, OptionsMove(block) PROVE FALSE
  BY <1>2, SetHoldMoves DEF OptionsMove, HoldMoves
<1>3. CASE WindowSuspends
  BY <1>3, SuspendsMoves DEF HoldMoves
<1>4. CASE Restarts
  BY <1>4, LoadedTypes DEF Restarts
<1>5. CASE Ticks \/ Configures \/ FinalWrite \/ UNCHANGED windowVars
  BY <1>5 DEF Ticks, Configures, FinalWrite, windowVars, proof
<1>. QED BY <1>1, <1>2, <1>3, <1>4, <1>5 DEF WindowNext

\* A charge that begins does so in a window that is not the rest of one whose
\* hold is over.
LEMMA SecondLifeStep ==
    ASSUME WindowInv, ProvenIsKept, [WindowNext]_windowVars,
           ~active, active', ~UsesTariff, proven # NoProof, proven.source = "manual"
    PROVE  clock < proven.expires \/ BeganAt(clock, settings) >= proven.expires
<1>. USE WindowTypes DEF WindowInv
<1>1. PICK soc \in SocLevels, block \in Blocks : WindowEvaluates(soc, block)
  BY DEF WindowNext, OptionsMove, WindowSuspends, Ticks, Configures, FinalWrite, Restarts,
    windowVars
<1>2. armed' /\ armed' = Released(soc)
  <2>1. /\ active' \in (IF armed' THEN BOOLEAN ELSE {FALSE, StillActive})
        /\ armed' = Released(soc)
    BY <1>1 DEF WindowEvaluates, WindowDecides
  <2>2. ~StillActive
    BY DEF StillActive
  <2>. QED BY <2>1, <2>2
<1>3. settings.on /\ Inside(clock, settings) /\ ~Completed(clock)
  BY <1>2, OpenWindowTypes DEF Released
<1>4. /\ proven.expires \in Int
      /\ BeganAt(clock, settings) \in Int /\ BeganAt(clock, settings) > clock - Day
  <2>1. settings.start \in Int
    BY SettingsAssumption DEF WindowTypeOK
  <2>2. PICK r \in 0..(Day - 1) : r = (clock - settings.start) % Day
    BY <2>1, Remainder
  <2>3. BeganAt(clock, settings) = clock - r
    BY <2>2 DEF BeganAt
  <2>. QED BY <2>2, <2>3 DEF WindowTypeOK
<1>5. CASE last = proven
  BY <1>3, <1>4, <1>5 DEF Completed
<1>6. CASE clock - proven.expires > Day
  BY <1>4, <1>6
<1>. QED BY <1>5, <1>6 DEF ProvenIsKept

-----------------------------------------------------------------------------
\* The invariant of the window's latches, for any day, any settings, any number
\* of proofs and any outcome of the readback.
THEOREM WindowInvariant == WindowSpec => []WindowInv
<1>1. WindowInit => WindowInv
  BY WindowInitHolds
<1>2. WindowInv /\ [WindowNext]_windowVars => WindowInv'
  BY WindowStep
<1>. QED BY <1>1, <1>2, PTL DEF WindowSpec

\* Every variable of the window, its latches and its stores keeps its type.
THEOREM WindowTypeCorrect == WindowSpec => []WindowTypeOK
<1>1. WindowInv => WindowTypeOK
  BY DEF WindowInv
<1>. QED BY <1>1, WindowInvariant, PTL

\* A release in force belongs to a window in which the SOC was at its minimum.
THEOREM ReleasesAreEarned == WindowSpec => []ReleaseIsEarned
<1>1. WindowInv => ReleaseIsEarned
  BY DEF WindowInv, Earned, ReleaseIsEarned
<1>. QED BY <1>1, WindowInvariant, PTL

\* A hold is new only after as many blocks as needed showed the charge.
THEOREM HoldsAreEarned == WindowSpec => HoldIsEarned
<1>1. WindowInv /\ [WindowNext]_windowVars
        => [hold' \notin {hold, NoProof, holdDisk} => shownRow' >= Needed]_windowVars
  BY EarnedStep
<1>. QED BY <1>1, WindowInvariant, PTL DEF WindowSpec, HoldIsEarned

\* Where every write that reaches a file can be read back, stored latches are
\* kept: the second invariant.
THEOREM LatchesAreKept == "fails" \notin Readback /\ WindowSpec => []KeptInv
<1>. SUFFICES ASSUME "fails" \notin Readback PROVE WindowSpec => []KeptInv
  OBVIOUS
<1>1. WindowInit => KeptInv
  BY WindowInitHolds
<1>2. WindowInv /\ KeptInv /\ [WindowNext]_windowVars => KeptInv'
  BY KeptStep
<1>. QED BY <1>1, <1>2, WindowInvariant, PTL DEF WindowSpec

\* What a window has earned it keeps, and nothing else: release and hold are its
\* own, measured, and survive restarts; and a longer window is no new one.
THEOREM WindowKeepsAll ==
    "fails" \notin Readback /\ WindowSpec => WindowKeepsItsOwn
<1>. SUFFICES ASSUME "fails" \notin Readback PROVE WindowSpec => WindowKeepsItsOwn
  OBVIOUS
<1>1. KeptInv => ReleaseLastsWindow
  BY DEF KeptInv, LatchIsKept, ReleaseLastsWindow
<1>2. WindowInv /\ KeptInv => HoldSurvives
  <2>1. SUFFICES ASSUME WindowInv, KeptInv, proven # NoProof, Allows(proven, clock)
                 PROVE  hold = proven
    BY DEF HoldSurvives
  <2>2. clock < proven.expires /\ proven.expires \in Int /\ clock \in Nat /\ Day \in Nat
    BY <2>1, WindowTypes DEF Allows, WindowInv, WindowTypeOK
  <2>. QED BY <2>1, <2>2 DEF KeptInv, ProvenIsKept
<1>3. WindowInv /\ KeptInv /\ [WindowNext]_windowVars
        => [~active /\ active' /\ ~UsesTariff /\ proven # NoProof /\ proven.source = "manual"
              => (clock < proven.expires \/ BeganAt(clock, settings) >= proven.expires)]_windowVars
  BY SecondLifeStep DEF KeptInv
<1>. QED BY <1>1, <1>2, <1>3, WindowInvariant, LatchesAreKept, ReleasesAreEarned,
    HoldsAreEarned, PTL DEF WindowSpec, WindowKeepsItsOwn, NoSecondLife

-----------------------------------------------------------------------------
(* FixedTimeCharge: what a mark says of the day                             *)

\* The time of every mark has come, of the stored one too.
TimesCame == markFile.day * DayLength + markFile.start <= instant

\* What a load finds is what the last save confirmed, or nothing.
SavedIsFound == savedMark \in {markFile, NoMark}

\* A target that was reached is remembered, until the setting or the day is
\* another one: a mark of its occurrence is a completed one.
ReachedIsMarked ==
    reached # NoOccurrence =>
        /\ permittedBy
        /\ \/ mark = [start |-> reached[1], day |-> reached[2], completed |-> TRUE]
           \/ reached[1] # startTime
           \/ mark.start = startTime /\ mark.day > reached[2]

\* Marks are made only of times that came.
MarksAreProof == \A m \in {mark, markFile} : m # NoMark => Occurrence(m) \in begun

\* The storage is only told to charge for the mark of a charge under way.
ChargedIsMarked ==
    charged # NoOccurrence => writing /\ mark # NoMark /\ charged = Occurrence(mark)

FixedInv == FixedTypeOK /\ TimesCame /\ MarksAreProof /\ ChargedIsMarked

-----------------------------------------------------------------------------
LEMMA Division ==
    ASSUME NEW i \in Nat
    PROVE  /\ i \div DayLength \in Nat /\ i % DayLength \in 0..(DayLength - 1)
           /\ i = DayLength * (i \div DayLength) + (i % DayLength)
  BY FixedAssumption

LEMMA DivisionBounds ==
    ASSUME NEW i \in Nat, NEW d \in Int, NEW s \in Nat, d * DayLength + s <= i
    PROVE  d <= i \div DayLength
<1>. DEFINE q == i \div DayLength
            r == i % DayLength
<1>1. q \in Nat /\ r \in Nat /\ r < DayLength /\ i = DayLength * q + r /\ DayLength \in Nat
  BY Division, FixedAssumption
<1>. HIDE DEF q, r
<1>2. SUFFICES ASSUME d >= q + 1 PROVE FALSE
  BY <1>1 DEF q
<1>3. PICK e \in Nat : d = q + 1 + e
  <2>1. d - q - 1 \in Nat /\ d = q + 1 + (d - q - 1)
    BY <1>1, <1>2
  <2>. QED BY <2>1
<1>4. d * DayLength = q * DayLength + DayLength + e * DayLength /\ e * DayLength \in Nat
      /\ DayLength * q = q * DayLength
  BY <1>1, <1>3
<1>. QED BY <1>1, <1>4

LEMMA DivisionGrows ==
    ASSUME NEW i \in Nat, NEW j \in Nat, i <= j
    PROVE  i \div DayLength <= j \div DayLength
<1>1. /\ i \div DayLength \in Nat /\ i % DayLength \in Nat
      /\ (i \div DayLength) * DayLength + (i % DayLength) <= j
  BY Division, FixedAssumption
<1>. QED BY <1>1, DivisionBounds

\* The mark of an instant's day is one, and its time has come.
LEMMA TodaysMark ==
    ASSUME FixedTypeOK
    PROVE  /\ OfToday \in Marks /\ OfToday # NoMark
           /\ Today \in MarkDays /\ <<startTime, Today>> \in DailyOccurrences
           /\ TimeOfDay >= startTime => OfToday.day * DayLength + OfToday.start <= instant
<1>1. /\ instant \in Nat /\ instant <= LastInstant /\ LastInstant \in Nat
      /\ startTime \in DailyStarts /\ startTime \in Nat /\ DayLength \in Nat \ {0}
  BY FixedAssumption DEF FixedTypeOK
<1>2. Today \in MarkDays
  <2>1. instant \div DayLength \in Nat /\ LastInstant \div DayLength \in Nat
    BY <1>1, Division
  <2>2. instant \div DayLength <= LastInstant \div DayLength
    BY <1>1, DivisionGrows
  <2>. QED BY <2>1, <2>2 DEF Today, MarkDays
<1>3. TimeOfDay >= startTime => Today * DayLength + startTime <= instant
  BY <1>1, Division DEF Today, TimeOfDay
<1>4. Today \in Nat
  BY <1>1, Division DEF Today
<1>. QED BY <1>1, <1>2, <1>3, <1>4 DEF OfToday, NoMark, Marks, DailyOccurrences

\* Which marks there are, and what they say.
LEMMA MarkTypes ==
    ASSUME NEW m \in Marks
    PROVE  /\ m.start \in Nat /\ m.day \in Int /\ m.completed \in BOOLEAN
           /\ Occurrence(m) \in DailyOccurrences
           /\ m # NoMark => m.start \in DailyStarts /\ m.day \in MarkDays
           /\ m # NoMark => [m EXCEPT !.completed = TRUE] \in Marks
           /\ m = NoMark => ~m.completed
<1>0. DailyStarts \subseteq Nat /\ MarkDays \subseteq Int
  BY FixedAssumption DEF MarkDays
<1>1. CASE m = NoMark
  BY <1>0, <1>1 DEF NoMark, NoOccurrence, Occurrence, DailyOccurrences
<1>2. CASE m \in [start : DailyStarts, day : MarkDays, completed : BOOLEAN]
  <2>1. /\ m.start \in DailyStarts /\ m.day \in MarkDays /\ m.completed \in BOOLEAN
        /\ [m EXCEPT !.completed = TRUE]
             \in [start : DailyStarts, day : MarkDays, completed : BOOLEAN]
    BY <1>2
  <2>. QED BY <1>0, <2>1 DEF NoMark, Occurrence, DailyOccurrences, Marks
<1>. QED BY <1>1, <1>2 DEF Marks

\* What an evaluation makes of the mark: none, the same, or one for a time that
\* came, completed or not.
LEMMA MarkedKinds ==
    ASSUME FixedTypeOK, NEW soc \in {"none", "low", "full"}
    PROVE  LET m == Marked(soc) IN
           /\ m \in Marks
           /\ \/ m = NoMark /\ (permittedBy => mark = NoMark \/ mark.start # startTime)
              \/ m = mark /\ permittedBy
              \/ /\ permittedBy /\ soc # "none" /\ m # NoMark /\ m.start = startTime
                 /\ \/ m.day = mark.day /\ mark.start = startTime /\ mark # NoMark
                       /\ (mark.completed => m.completed)
                    \/ m.day = Today /\ TimeOfDay >= startTime
                       /\ (mark.start = startTime => mark.day # Today)
<1>. DEFINE fit == Fitting(mark)
            due == DueMark(fit)
<1>0. mark \in Marks /\ NoMark \in Marks /\ OfToday \in Marks /\ OfToday # NoMark
      /\ OfToday.start = startTime /\ OfToday.day = Today
  BY TodaysMark DEF FixedTypeOK, Marks, OfToday
<1>1. CASE ~permittedBy
  BY <1>0, <1>1 DEF Marked
<1>2. CASE permittedBy /\ soc = "none"
  BY <1>0, <1>2 DEF Marked
<1>3. CASE permittedBy /\ soc # "none"
  <2>1. Marked(soc) = IF due # NoMark /\ soc = "full"
                      THEN [due EXCEPT !.completed = TRUE] ELSE due
    BY <1>3 DEF Marked
  <2>2. IF mark.start = startTime THEN fit = mark ELSE fit = NoMark
    BY DEF Fitting
  <2>3. due = fit \/ (due = OfToday /\ TimeOfDay >= startTime /\ fit.day # Today)
    BY DEF DueMark
  <2>4. due \in Marks
    BY <1>0, <2>2, <2>3
  <2>. HIDE DEF fit, due
  <2>5. CASE due = NoMark
    BY <1>0, <1>3, <2>1, <2>2, <2>3, <2>5
  <2>6. CASE due # NoMark
    <3>. DEFINE full == [due EXCEPT !.completed = TRUE]
    <3>1. /\ full \in Marks /\ full.completed /\ full # NoMark
          /\ full.start = due.start /\ full.day = due.day
      BY <2>4, <2>6, MarkTypes DEF Marks, NoMark
    <3>2. Marked(soc) \in {full, due}
      BY <2>1
    <3>. HIDE DEF full
    <3>3. CASE due = mark /\ mark.start = startTime
      BY <1>3, <2>4, <2>6, <3>1, <3>2, <3>3
    <3>4. CASE due = OfToday /\ TimeOfDay >= startTime /\ fit.day # Today
      BY <1>0, <1>3, <2>2, <2>4, <2>6, <3>1, <3>2, <3>4
    <3>. QED BY <2>2, <2>3, <2>6, <3>3, <3>4
  <2>. QED BY <2>5, <2>6
<1>. QED BY <1>1, <1>2, <1>3

-----------------------------------------------------------------------------
LEMMA FixedInitHolds == FixedInit => FixedInv /\ SavedIsFound /\ ReachedIsMarked
<1>. SUFFICES ASSUME FixedInit PROVE FixedInv /\ SavedIsFound /\ ReachedIsMarked
  OBVIOUS
<1>1. /\ DayLength \in Nat /\ DayLength > 0 /\ LastInstant \in Nat /\ 0 \in 0..LastInstant
      /\ (0 - 1) * DayLength + 0 <= 0
  BY FixedAssumption
<1>2. NoMark.day * DayLength + NoMark.start <= 0
  BY <1>1 DEF NoMark
<1>3. /\ instant = 0 /\ permittedBy = FALSE /\ startTime \in DailyStarts
      /\ mark = NoMark /\ savedMark = NoMark /\ markFile = NoMark
      /\ dailyStage = "idle" /\ writing = FALSE /\ charged = NoOccurrence
      /\ reached = NoOccurrence /\ begun = {}
  BY DEF FixedInit
<1>4. FixedTypeOK
  BY <1>1, <1>2, <1>3 DEF FixedInit, FixedTypeOK, Marks, DailyOccurrences
<1>5. TimesCame
  BY <1>1 DEF FixedInit, TimesCame, NoMark
<1>. QED
  BY <1>4, <1>5 DEF FixedInit, FixedInv, MarksAreProof, ChargedIsMarked, SavedIsFound,
    ReachedIsMarked

\* The types by their parts.
LEMMA FixedTypes ==
    ASSUME FixedTypeOK
    PROVE  /\ mark \in Marks /\ savedMark \in Marks /\ markFile \in Marks
           /\ charged \in DailyOccurrences /\ reached \in DailyOccurrences
           /\ begun \subseteq DailyOccurrences /\ instant \in Nat
           /\ NoMark \in Marks /\ NoOccurrence \in DailyOccurrences
           /\ startTime \in Nat /\ DayLength \in Nat
  BY FixedAssumption DEF FixedTypeOK, Marks, DailyOccurrences

LEMMA PreparesKeeps ==
    ASSUME FixedInv, NEW soc \in {"none", "low", "full"}, Prepares(soc)
    PROVE  FixedInv'
<1>1. PICK m : m = mark' /\ m = Marked(soc)
  BY DEF Prepares
<1>2. /\ charged' = StillCharged(m) /\ dailyStage' = "saving"
      /\ reached' = (IF m # NoMark /\ m.completed THEN Occurrence(m) ELSE reached)
      /\ begun' = (IF permittedBy /\ soc # "none" /\ TimeOfDay >= startTime
                   THEN begun \cup {<<startTime, Today>>} ELSE begun)
      /\ UNCHANGED <<instant, permittedBy, startTime, savedMark, markFile, writing>>
  BY <1>1 DEF Prepares
<1>3. /\ m \in Marks
      /\ \/ m = NoMark
         \/ m = mark
         \/ /\ permittedBy /\ soc # "none" /\ m # NoMark /\ m.start = startTime
            /\ \/ m.day = mark.day /\ mark.start = startTime /\ mark # NoMark
               \/ m.day = Today /\ TimeOfDay >= startTime
  BY <1>1, MarkedKinds DEF FixedInv
<1>. USE FixedTypes DEF FixedInv
<1>4. charged' = NoOccurrence \/ (charged # NoOccurrence /\ charged' = Occurrence(m)
                                  /\ writing /\ Permitted(m))
  BY <1>2 DEF StillCharged, ChargedIsMarked
<1>5. m.day * DayLength + m.start <= instant
  <2>1. CASE m = NoMark
    <3>1. instant \in Nat /\ DayLength \in Nat /\ (0 - 1) * DayLength + 0 <= instant
      OBVIOUS
    <3>. QED BY <2>1, <3>1 DEF NoMark
  <2>2. CASE m = mark
    BY <2>2 DEF FixedTypeOK
  <2>3. CASE m.start = startTime /\ m.day = mark.day /\ mark.start = startTime
    BY <2>3 DEF FixedTypeOK
  <2>4. CASE m.start = startTime /\ m.day = Today /\ TimeOfDay >= startTime
    BY <2>4, TodaysMark DEF OfToday
  <2>. QED BY <1>3, <2>1, <2>2, <2>3, <2>4
<1>6. FixedTypeOK'
  <2>1. Occurrence(m) \in DailyOccurrences
    BY <1>3, MarkTypes
  <2>2. charged' \in DailyOccurrences /\ reached' \in DailyOccurrences
    BY <1>2, <1>4, <2>1
  <2>3. begun' \subseteq DailyOccurrences
    BY <1>2, TodaysMark
  <2>. QED BY <1>1, <1>2, <1>3, <1>5, <2>2, <2>3 DEF FixedTypeOK
<1>7. TimesCame'
  BY <1>2 DEF TimesCame
<1>8. MarksAreProof'
  <2>1. begun \subseteq begun'
    BY <1>2
  <2>2. m # NoMark => Occurrence(m) \in begun'
    BY <1>2, <1>3, <2>1 DEF MarksAreProof, Occurrence
  <2>. QED BY <1>1, <1>2, <2>1, <2>2 DEF MarksAreProof
<1>9. ChargedIsMarked'
  BY <1>1, <1>2, <1>4 DEF ChargedIsMarked, Permitted
<1>. QED BY <1>6, <1>7, <1>8, <1>9

LEMMA SavesMarkKeeps ==
    ASSUME FixedInv, SavesMark
    PROVE  FixedInv'
<1>. USE FixedTypes DEF FixedInv
<1>1. /\ dailyStage' = "deciding" /\ begun' = Withdrawn
      /\ markFile' \in {mark, markFile} /\ savedMark' \in {mark, savedMark}
      /\ UNCHANGED <<instant, permittedBy, startTime, mark, writing, charged, reached>>
  BY DEF SavesMark, Saves
<1>2. FixedTypeOK' /\ TimesCame'
  BY <1>1 DEF FixedTypeOK, TimesCame, Withdrawn
<1>3. MarksAreProof'
  BY <1>1 DEF MarksAreProof, Withdrawn
<1>4. ChargedIsMarked'
  BY <1>1 DEF ChargedIsMarked
<1>. QED BY <1>2, <1>3, <1>4

LEMMA DecidesKeeps ==
    ASSUME FixedInv, Decides
    PROVE  FixedInv'
<1>. USE FixedTypes DEF FixedInv
<1>1. /\ dailyStage' = "idle" /\ writing' \in BOOLEAN
      /\ charged' = NoOccurrence \/ (writing' /\ charged' = charged)
      /\ UNCHANGED <<instant, permittedBy, startTime, mark, savedMark, markFile,
                     reached, begun>>
  BY DEF Decides
<1>2. FixedTypeOK' /\ TimesCame'
  BY <1>1 DEF FixedTypeOK, TimesCame
<1>3. MarksAreProof'
  BY <1>1 DEF MarksAreProof
<1>4. ChargedIsMarked'
  BY <1>1 DEF ChargedIsMarked
<1>. QED BY <1>2, <1>3, <1>4

LEMMA WriterChargesKeeps ==
    ASSUME FixedInv, WriterCharges
    PROVE  FixedInv'
<1>. USE FixedTypes DEF FixedInv
<1>1. /\ writing /\ mark # NoMark /\ charged' = Occurrence(mark)
      /\ UNCHANGED <<instant, permittedBy, startTime, mark, savedMark, markFile,
                     dailyStage, writing, reached, begun>>
  BY DEF WriterCharges, MayWrite, Permitted
<1>2. charged' \in DailyOccurrences
  BY <1>1, MarkTypes
<1>3. FixedTypeOK' /\ TimesCame'
  BY <1>1, <1>2 DEF FixedTypeOK, TimesCame
<1>4. MarksAreProof'
  BY <1>1 DEF MarksAreProof
<1>5. ChargedIsMarked'
  BY <1>1 DEF ChargedIsMarked
<1>. QED BY <1>3, <1>4, <1>5

LEMMA InstantPassesKeeps ==
    ASSUME FixedInv, InstantPasses
    PROVE  FixedInv'
<1>. USE FixedTypes DEF FixedInv
<1>1. /\ instant' \in 0..LastInstant /\ instant <= instant'
      /\ UNCHANGED <<permittedBy, startTime, mark, savedMark, markFile, dailyStage,
                     writing, charged, reached, begun>>
  BY FixedAssumption DEF InstantPasses
<1>2. \A m \in Marks : m.day * DayLength \in Int /\ m.start \in Int
  <2>1. SUFFICES ASSUME NEW m \in Marks PROVE m.day * DayLength \in Int /\ m.start \in Int
    OBVIOUS
  <2>2. PICK d \in Int : d = m.day
    BY MarkTypes
  <2>3. d * DayLength \in Int
    OBVIOUS
  <2>4. m.start \in Nat
    BY MarkTypes
  <2>. QED BY <2>2, <2>3, <2>4
<1>3. FixedTypeOK' /\ TimesCame'
  <2>. DEFINE a == mark.day * DayLength + mark.start
              b == markFile.day * DayLength + markFile.start
  <2>1. a \in Int /\ b \in Int
    BY <1>2
  <2>2. a <= instant /\ b <= instant
    BY DEF FixedTypeOK, TimesCame
  <2>. HIDE DEF a, b
  <2>3. a <= instant' /\ b <= instant'
    BY <1>1, <2>1, <2>2
  <2>. QED BY <1>1, <2>3 DEF FixedTypeOK, TimesCame, a, b
<1>4. MarksAreProof'
  BY <1>1 DEF MarksAreProof
<1>5. ChargedIsMarked'
  BY <1>1 DEF ChargedIsMarked
<1>. QED BY <1>3, <1>4, <1>5

LEMMA ChangesDailyKeeps ==
    ASSUME FixedInv, ChangesDaily
    PROVE  FixedInv'
<1>. USE FixedTypes DEF FixedInv
<1>1. /\ permittedBy' \in BOOLEAN /\ startTime' \in DailyStarts /\ reached' = NoOccurrence
      /\ UNCHANGED <<instant, mark, savedMark, markFile, dailyStage, writing, charged, begun>>
  BY DEF ChangesDaily, FixedTypeOK
<1>2. FixedTypeOK' /\ TimesCame'
  BY <1>1 DEF FixedTypeOK, TimesCame
<1>3. MarksAreProof'
  BY <1>1 DEF MarksAreProof
<1>4. ChargedIsMarked'
  BY <1>1 DEF ChargedIsMarked
<1>. QED BY <1>2, <1>3, <1>4

LEMMA LoadsMarkKeeps ==
    ASSUME FixedInv, LoadsMark
    PROVE  FixedInv'
<1>. USE FixedTypes DEF FixedInv
<1>1. /\ mark' \in {markFile, NoMark} /\ savedMark' = mark'
      /\ reached' \in {reached, NoOccurrence}
      /\ dailyStage' = "idle" /\ writing' = FALSE /\ charged' = NoOccurrence
      /\ UNCHANGED <<instant, permittedBy, startTime, markFile, begun>>
  BY DEF LoadsMark
<1>2. FixedTypeOK' /\ TimesCame'
  <2>1. instant \in Nat /\ DayLength \in Nat /\ (0 - 1) * DayLength + 0 <= instant
    OBVIOUS
  <2>2. NoMark.day * DayLength + NoMark.start <= instant
    BY <2>1 DEF NoMark
  <2>. QED BY <1>1, <2>2 DEF FixedTypeOK, TimesCame
<1>3. MarksAreProof'
  BY <1>1 DEF MarksAreProof
<1>4. ChargedIsMarked'
  BY <1>1 DEF ChargedIsMarked
<1>. QED BY <1>2, <1>3, <1>4

LEMMA FixedStep ==
    ASSUME FixedInv, [FixedNext]_fixedVars
    PROVE  FixedInv'
<1>1. CASE \E soc \in {"none", "low", "full"} : Prepares(soc)
  BY <1>1, PreparesKeeps
<1>2. CASE SavesMark
  BY <1>2, SavesMarkKeeps
<1>3. CASE Decides
  BY <1>3, DecidesKeeps
<1>4. CASE WriterCharges
  BY <1>4, WriterChargesKeeps
<1>5. CASE InstantPasses
  BY <1>5, InstantPassesKeeps
<1>6. CASE ChangesDaily
  BY <1>6, ChangesDailyKeeps
<1>7. CASE LoadsMark
  BY <1>7, LoadsMarkKeeps
<1>8. CASE UNCHANGED fixedVars
  BY <1>8 DEF fixedVars, FixedInv, FixedTypeOK, TimesCame, MarksAreProof, ChargedIsMarked
<1>. QED BY <1>1, <1>2, <1>3, <1>4, <1>5, <1>6, <1>7, <1>8 DEF FixedNext

\* The completion that stands for a reached target.
Completion(occurrence) ==
    [start |-> occurrence[1], day |-> occurrence[2], completed |-> TRUE]

LEMMA ReachedStep ==
    ASSUME "fails" \notin MarkReadback,
           FixedInv, SavedIsFound, ReachedIsMarked, [FixedNext]_fixedVars
    PROVE  SavedIsFound' /\ ReachedIsMarked'
<1>. USE FixedTypes DEF FixedInv
<1>1. ASSUME NEW soc \in {"none", "low", "full"}, Prepares(soc)
      PROVE  SavedIsFound' /\ ReachedIsMarked'
  <2>1. PICK m : m = mark' /\ m = Marked(soc)
    BY <1>1 DEF Prepares
  <2>2. /\ reached' = (IF m # NoMark /\ m.completed THEN Occurrence(m) ELSE reached)
        /\ UNCHANGED <<permittedBy, startTime, savedMark, markFile>>
    BY <1>1, <2>1 DEF Prepares
  <2>3. /\ m \in Marks
        /\ \/ m = NoMark /\ (permittedBy => mark = NoMark \/ mark.start # startTime)
           \/ m = mark /\ permittedBy
           \/ /\ permittedBy /\ m.start = startTime
              /\ \/ m.day = mark.day /\ (mark.completed => m.completed)
                 \/ m.day = Today /\ (mark.start = startTime => mark.day # Today)
    BY <2>1, MarkedKinds
  <2>4. reached # NoOccurrence =>
          /\ permittedBy
          /\ \/ m = Completion(reached)
             \/ reached[1] # startTime
             \/ m.start = startTime /\ m.day > reached[2]
    <3>1. SUFFICES ASSUME reached # NoOccurrence, reached[1] = startTime
                   PROVE  \/ m = Completion(reached)
                          \/ m.start = startTime /\ m.day > reached[2]
      BY DEF ReachedIsMarked
    <3>2. reached[2] \in Nat
      BY <3>1, Division, FixedAssumption DEF DailyOccurrences, MarkDays
    <3>3. /\ permittedBy
          /\ mark = Completion(reached) \/ (mark.start = startTime /\ mark.day > reached[2])
      BY <3>1 DEF ReachedIsMarked, Completion
    <3>4. mark.start = startTime /\ mark.day \in Int /\ mark.day >= reached[2]
          /\ mark # NoMark /\ (mark.day = reached[2] => mark = Completion(reached))
      <4>1. mark.day \in Int
        BY MarkTypes
      <4>2. Completion(reached).start = reached[1] /\ Completion(reached).day = reached[2]
            /\ NoMark.day = -1
        BY DEF Completion, NoMark
      <4>. QED BY <3>1, <3>2, <3>3, <4>1, <4>2
    <3>5. mark.day <= Today /\ Today \in Nat
      BY <3>4, Division, DivisionBounds DEF Today, FixedTypeOK
    <3>6. CASE m = mark
      BY <3>2, <3>4, <3>6
    <3>7. CASE m.start = startTime /\ m.day = mark.day /\ (mark.completed => m.completed)
      <4>1. CASE mark.day = reached[2]
        BY <2>3, <3>1, <3>4, <3>7, <4>1 DEF Completion, Marks, NoMark
      <4>2. CASE mark.day > reached[2]
        BY <3>7, <4>2
      <4>. QED BY <3>2, <3>4, <4>1, <4>2
    <3>8. CASE m.start = startTime /\ m.day = Today /\ mark.day # Today
      BY <3>2, <3>4, <3>5, <3>8
    <3>. QED BY <2>3, <3>3, <3>4, <3>6, <3>7, <3>8
  <2>5. CASE m # NoMark /\ m.completed
    <3>1. m = Completion(Occurrence(m))
      BY <2>3, <2>5 DEF Marks, Occurrence, Completion
    <3>. QED BY <2>1, <2>2, <2>3, <2>5, <3>1 DEF ReachedIsMarked, SavedIsFound, Completion
  <2>6. CASE ~(m # NoMark /\ m.completed)
    BY <2>1, <2>2, <2>4, <2>6 DEF ReachedIsMarked, SavedIsFound, Completion
  <2>. QED BY <2>5, <2>6
<1>2. CASE SavesMark
  BY <1>2 DEF SavesMark, Saves, SavedIsFound, ReachedIsMarked
<1>3. CASE Decides \/ WriterCharges \/ InstantPasses \/ UNCHANGED fixedVars
  BY <1>3 DEF Decides, WriterCharges, InstantPasses, fixedVars, SavedIsFound, ReachedIsMarked
<1>4. CASE ChangesDaily
  BY <1>4 DEF ChangesDaily, SavedIsFound, ReachedIsMarked
<1>5. CASE LoadsMark
  <2>1. SavedIsFound'
    BY <1>5 DEF LoadsMark, SavedIsFound
  <2>2. CASE reached' = NoOccurrence
    BY <2>1, <2>2 DEF ReachedIsMarked
  <2>3. CASE reached' # NoOccurrence
    <3>1. /\ mark' = markFile /\ reached' = reached
          /\ Completion(reached) \in {savedMark, markFile}
          /\ UNCHANGED <<permittedBy, startTime>>
      BY <1>5, <2>3 DEF LoadsMark, Completion
    <3>2. Completion(reached) # NoMark
      BY DEF Completion, NoMark
    <3>3. mark' = Completion(reached)
      BY <3>1, <3>2 DEF SavedIsFound
    <3>. QED BY <2>1, <2>3, <3>1, <3>3 DEF ReachedIsMarked, Completion
  <2>. QED BY <2>1, <2>2, <2>3
<1>. QED BY <1>1, <1>2, <1>3, <1>4, <1>5 DEF FixedNext

\* A mark that permits a charge is not the mark of a target that was reached.
LEMMA OnceStep ==
    ASSUME FixedInv, ReachedIsMarked, OncePerDay, [FixedNext]_fixedVars,
           FixedInv', ReachedIsMarked'
    PROVE  OncePerDay'
<1>. USE FixedTypes DEF FixedInv
<1>0. ASSUME charged' = Occurrence(mark'), ~mark'.completed, mark'.start = startTime',
             charged' # NoOccurrence, mark' \in Marks
      PROVE  charged' # reached'
  <2>1. PICK m \in Marks : m = mark'
    BY <1>0
  <2>2. m.day \in Int
    BY MarkTypes
  <2>3. SUFFICES ASSUME charged' = reached' PROVE FALSE
    OBVIOUS
  <2>4. reached'[1] = m.start /\ reached'[2] = m.day
    BY <1>0, <2>1, <2>3 DEF Occurrence
  <2>5. m # Completion(reached')
    BY <1>0, <2>1 DEF Completion
  <2>. QED BY <1>0, <2>1, <2>2, <2>3, <2>4, <2>5 DEF ReachedIsMarked, Completion
<1>1. ASSUME NEW soc \in {"none", "low", "full"}, Prepares(soc)
      PROVE  OncePerDay'
  <2>1. PICK m : m = mark' /\ m = Marked(soc)
    BY <1>1 DEF Prepares
  <2>2. charged' = StillCharged(m) /\ UNCHANGED startTime
    BY <1>1, <2>1 DEF Prepares
  <2>3. charged' # NoOccurrence =>
          charged' = Occurrence(m) /\ ~m.completed /\ m.start = startTime
    BY <2>2 DEF StillCharged, Permitted, ChargedIsMarked
  <2>4. m \in Marks
    BY <2>1, MarkedKinds
  <2>. QED BY <1>0, <2>1, <2>2, <2>3, <2>4 DEF OncePerDay
<1>2. CASE WriterCharges
  BY <1>0, <1>2 DEF WriterCharges, MayWrite, Permitted, OncePerDay
<1>3. CASE SavesMark \/ InstantPasses \/ UNCHANGED fixedVars
  BY <1>3 DEF SavesMark, InstantPasses, fixedVars, OncePerDay
<1>4. CASE Decides
  <2>1. charged' \in {charged, NoOccurrence} /\ reached' = reached
    BY <1>4 DEF Decides
  <2>. QED BY <2>1 DEF OncePerDay
<1>5. CASE ChangesDaily
  BY <1>5 DEF ChangesDaily, OncePerDay
<1>6. CASE LoadsMark
  BY <1>6 DEF LoadsMark, OncePerDay
<1>. QED BY <1>1, <1>2, <1>3, <1>4, <1>5, <1>6 DEF FixedNext

\* A new setpoint follows an evaluation or a writer that asked for permission.
LEMMA PermittedStep ==
    ASSUME FixedInv, [FixedNext]_fixedVars
    PROVE  charged' \notin {charged, NoOccurrence}
             => permittedBy /\ charged'[1] = startTime
<1>. USE DEF FixedInv
<1>1. ASSUME NEW soc \in {"none", "low", "full"}, Prepares(soc),
             charged' \notin {charged, NoOccurrence}
      PROVE  permittedBy /\ charged'[1] = startTime
  <2>1. PICK m : m = mark' /\ charged' = StillCharged(m)
    BY <1>1 DEF Prepares
  <2>. QED BY <1>1, <2>1 DEF StillCharged, Permitted, ChargedIsMarked, Occurrence
<1>2. CASE WriterCharges
  BY <1>2 DEF WriterCharges, MayWrite, Permitted, Occurrence
<1>3. CASE SavesMark \/ Decides \/ InstantPasses \/ ChangesDaily \/ LoadsMark
             \/ UNCHANGED fixedVars
  BY <1>3 DEF SavesMark, Decides, InstantPasses, ChangesDaily, LoadsMark, fixedVars
<1>. QED BY <1>1, <1>2, <1>3 DEF FixedNext

-----------------------------------------------------------------------------
\* The marks' invariant, for any day, any start times and any readback.
THEOREM FixedInvariant == FixedSpec => []FixedInv
<1>1. FixedInit => FixedInv
  BY FixedInitHolds
<1>2. FixedInv /\ [FixedNext]_fixedVars => FixedInv'
  BY FixedStep
<1>. QED BY <1>1, <1>2, PTL DEF FixedSpec

\* Every variable of the daily charge keeps its type, and the time of the mark
\* in memory has come.
THEOREM FixedTypeCorrect == FixedSpec => []FixedTypeOK
<1>1. FixedInv => FixedTypeOK
  BY DEF FixedInv
<1>. QED BY <1>1, FixedInvariant, PTL

\* Nobody charges for a time that came while the function was not permitted.
\* This needs no luck with the store.
THEOREM DailyProof == FixedSpec => []ResumesWithProof
<1>1. FixedInv => ResumesWithProof
  BY DEF FixedInv, ChargedIsMarked, MarksAreProof, ResumesWithProof
<1>. QED BY <1>1, FixedInvariant, PTL

\* A setpoint is given only while the daily charge is permitted.
THEOREM DailyPermission == FixedSpec => OrderIsStillPermitted
<1>1. FixedInv /\ [FixedNext]_fixedVars
        => [charged' \notin {charged, NoOccurrence}
              => permittedBy /\ charged'[1] = startTime]_fixedVars
  BY PermittedStep
<1>. QED BY <1>1, FixedInvariant, PTL DEF FixedSpec, OrderIsStillPermitted

\* Where every write that reaches the file can be read back, a target that was
\* reached is not charged for again.
THEOREM DailyOnce == "fails" \notin MarkReadback /\ FixedSpec => []OncePerDay
<1>. SUFFICES ASSUME "fails" \notin MarkReadback PROVE FixedSpec => []OncePerDay
  OBVIOUS
<1>. DEFINE Once == SavedIsFound /\ ReachedIsMarked /\ OncePerDay
<1>1. FixedInit => Once
  BY FixedInitHolds DEF FixedInit, OncePerDay
<1>2. FixedInv /\ FixedInv' /\ Once /\ [FixedNext]_fixedVars => Once'
  BY ReachedStep, OnceStep
<1>3. Once => OncePerDay
  OBVIOUS
<1>. HIDE DEF Once
<1>. QED BY <1>1, <1>2, <1>3, FixedInvariant, PTL DEF FixedSpec

\* Once a day, at a time that came while it was permitted, and not after that
\* permission or that time is gone.
THEOREM DailyChargeStaysOwed ==
    "fails" \notin MarkReadback /\ FixedSpec => DailyChargeIsOwed
BY DailyOnce, DailyProof, DailyPermission, PTL DEF DailyChargeIsOwed

-----------------------------------------------------------------------------
(* BridgeSession: how a session develops                                   *)

TimedPlans == [begin : 0..LastMinute, end : 1..(LastMinute + 1), target : ChargeLevels \ {0}]
Sessions == [plan : TimedPlans \cup {NoPlan}, started : BOOLEAN,
             completed : (0..LastMinute) \cup {NoTime}, pending : BOOLEAN]

Coherent(s) ==
    /\ s \in Sessions
    /\ s.started \/ s.completed # NoTime => s.plan # NoPlan
    /\ s.started => s.completed = NoTime
    /\ s.pending => s.completed # NoTime
    /\ s.completed # NoTime => s.completed <= now

RemembersTheEnd == ended # NoTime => ended <= now /\ (session.completed = ended \/ now > ended)

BridgeInv ==
    /\ now \in 0..LastMinute /\ level \in ChargeLevels /\ device \in Devices
    /\ configured \in Configurations \cup {"off"}
    /\ deadline \in Moments /\ ended \in (0..LastMinute) \cup {NoTime}
    /\ Coherent(session)
    /\ DeadlineIsThePlans
    /\ RemembersTheEnd

Develops(s, t) ==
    /\ Coherent(t) /\ t.plan = s.plan
    /\ t.started => s.started
    /\ s.started /\ ~t.started =>
           /\ now >= s.plan.end \/ level >= s.plan.target
           /\ t.completed = now
    /\ s.started \/ t.completed = s.completed
    /\ s.completed # NoTime /\ t.pending => s.pending
-----------------------------------------------------------------------------
LEMMA FreshIsCoherent == Coherent(FreshSession) /\ NoPlan \notin TimedPlans
  BY BridgeAssumption DEF Coherent, Sessions, FreshSession, NoPlan, TimedPlans

LEMMA FinishDevelops ==
    ASSUME now \in 0..LastMinute, level \in ChargeLevels,
           NEW s, Coherent(s), NEW usable \in BOOLEAN
    PROVE  Develops(s, FinishIfDue(s, usable))
  <1> DEFINE t == FinishIfDue(s, usable)
  <1>1. s.started => s.plan \in TimedPlans /\ s.completed = NoTime
    BY DEF Coherent, Sessions
  <1>2. CASE IsDue(s, usable)
    <2>1. t = [[s EXCEPT !.started = FALSE, !.completed = now, !.pending = TRUE]
                  EXCEPT !.pending = TRUE /\ ~usable]
      BY <1>2 DEF FinishIfDue, Coherent, Sessions
    <2>2. /\ t \in Sessions /\ t.plan = s.plan /\ ~t.started
          /\ t.completed = now /\ s.started
      BY <1>2, <2>1 DEF IsDue, Coherent, Sessions
    <2>3. now # NoTime
      BY BridgeAssumption
    <2> QED BY <1>1, <1>2, <2>2, <2>3, BridgeAssumption DEF Develops, Coherent, IsDue
  <1>3. CASE ~IsDue(s, usable)
    <2>1. t = [s EXCEPT !.pending = s.pending /\ ~usable]
      BY <1>3 DEF FinishIfDue
    <2>2. /\ t \in Sessions /\ t.plan = s.plan /\ t.started = s.started
          /\ t.completed = s.completed /\ (t.pending => s.pending)
      BY <2>1 DEF Coherent, Sessions
    <2> QED BY <2>2 DEF Develops, Coherent
  <1> QED BY <1>2, <1>3

LEMMA WaitDevelops ==
    ASSUME now \in 0..LastMinute, level \in ChargeLevels,
           NEW s, Coherent(s), NEW usable \in BOOLEAN
    PROVE  \/ Develops(s, WaitForData(s, usable))
           \/ /\ WaitForData(s, usable) = FreshSession
              /\ ~s.started /\ s.completed = NoTime
  <1>1. Develops(s, FinishIfDue(s, usable))
    BY FinishDevelops
  <1>2. s.completed # NoTime => Develops(s, s)
    BY DEF Develops, Coherent
  <1> QED BY <1>1, <1>2 DEF WaitForData, Coherent

\* A new evaluation keeps what began or has just ended; whatever else it makes
\* has not begun.
LEMMA PreparedDevelops ==
    ASSUME now \in 0..LastMinute, level \in ChargeLevels,
           NEW r, Coherent(r), NEW observed \in BOOLEAN,
           NEW s \in Prepared(r, observed)
    PROVE  LET known == IF fingerprint = Fingerprint THEN r ELSE FreshSession
           IN  \/ Develops(known, s)
               \/ /\ Coherent(s) /\ ~s.started /\ s.completed = NoTime
                  /\ ~known.started
                  /\ known.completed # NoTime => now >= known.completed + 1
  <1> DEFINE known == IF fingerprint = Fingerprint THEN r ELSE FreshSession
             done == FinishIfDue(known, TRUE)
  <1>1. Coherent(known) /\ Develops(known, done)
    BY FreshIsCoherent, FinishDevelops
  <1>2. CASE Busy(done)
    BY <1>1, <1>2 DEF Prepared
  <1>3. CASE ~Busy(done) /\ s = done
    BY <1>1, <1>3
  <1>4. CASE ~Busy(done) /\ s # done
    <2>1. \/ s = FreshSession
          \/ \E p \in Plans \cup {NoPlan} : s = Replanned(done, p)
      BY <1>4 DEF Prepared
    <2>2. Plans \subseteq TimedPlans
      BY BridgeAssumption DEF Plans, TimedPlans
    <2>3. Coherent(s) /\ ~s.started /\ s.completed = NoTime
      <3>1. CASE s = FreshSession
        BY <3>1, FreshIsCoherent DEF FreshSession
      <3>2. CASE \E p \in Plans \cup {NoPlan} : s = Replanned(done, p)
        <4>1. PICK p \in TimedPlans \cup {NoPlan} : s = [FreshSession EXCEPT !.plan = p]
          BY <3>2, <2>2 DEF Replanned
        <4>2. /\ s \in Sessions /\ ~s.started /\ s.completed = NoTime /\ ~s.pending
          BY <4>1 DEF FreshSession, Sessions
        <4> QED BY <4>2 DEF Coherent
      <3> QED BY <2>1, <3>1, <3>2
    <2>4. ~done.started /\ (done.completed # NoTime => ~(now < done.completed + 1))
      BY <1>4 DEF Busy
    <2> HIDE DEF known, done
    <2>5. now \in Int /\ now # NoTime
      BY BridgeAssumption
    <2>6. ~known.started
      BY <1>1, <2>4, <2>5 DEF Develops
    <2>7. known.completed # NoTime => now >= known.completed + 1
      <3>1. done.completed = known.completed
        BY <1>1, <2>6 DEF Develops
      <3>2. known.completed # NoTime => known.completed \in Int
        BY <1>1 DEF Coherent, Sessions
      <3> QED BY <2>4, <2>5, <3>1, <3>2
    <2> QED BY <2>3, <2>6, <2>7 DEF known
  <1> QED BY <1>2, <1>3, <1>4
-----------------------------------------------------------------------------
LEMMA SyncedIsCoherent ==
    ASSUME BridgeInv
    PROVE  /\ Coherent(Synced)
           /\ Synced = session \/ Synced = FreshSession
           /\ configured # "off" /\ configuration = configured => Synced = session
  BY FreshIsCoherent DEF Synced, BridgeInv

\* The two ways in which the remembered end stays right.
LEMMA EndIsRemembered ==
    ASSUME BridgeInv, NEW s, Coherent(s), s = session \/ ended' = NoTime,
           NEW t, Coherent(t), RemembersEnd(s, t), now' = now,
           session'.completed = t.completed,
           \/ Develops(s, t)
           \/ s.started = FALSE /\ t.completed = NoTime
              /\ (s.completed # NoTime => now >= s.completed + 1)
    PROVE  RemembersTheEnd' /\ ended' \in (0..LastMinute) \cup {NoTime}
  <1>1. now \in Int /\ now # NoTime /\ (ended # NoTime => ended \in Int)
    BY BridgeAssumption DEF BridgeInv
  <1>2. CASE ended' = NoTime
    BY <1>2 DEF RemembersTheEnd
  <1>3. CASE ended' # NoTime /\ s.started /\ t.completed # NoTime
    <2>1. ended' = now
      BY <1>3 DEF RemembersEnd
    <2>2. Develops(s, t) /\ ~t.started
      BY <1>3 DEF Coherent, Sessions
    <2>3. t.completed = now
      BY <1>3, <2>2 DEF Develops
    <2> QED BY <1>1, <2>1, <2>3 DEF RemembersTheEnd, BridgeInv
  <1>4. CASE ended' # NoTime /\ ~(s.started /\ t.completed # NoTime)
    <2>1. ended' = ended /\ s = session
      BY <1>4 DEF RemembersEnd
    <2>2. ended <= now /\ (session.completed = ended \/ now > ended)
      BY <1>4, <2>1 DEF BridgeInv, RemembersTheEnd
    <2>3. CASE now > ended
      BY <2>1, <2>2, <2>3 DEF RemembersTheEnd, BridgeInv
    <2>4. CASE session.completed = ended /\ ~(now > ended)
      <3>1. ~s.started /\ s.completed = ended /\ ended # NoTime
        BY <1>4, <2>1, <2>4 DEF Coherent
      <3>2. Develops(s, t)
        BY <1>1, <2>4, <3>1
      <3>3. t.completed = ended
        BY <3>1, <3>2 DEF Develops
      <3> QED BY <2>1, <2>2, <3>3 DEF RemembersTheEnd, BridgeInv
    <2> QED BY <2>2, <2>3, <2>4
  <1> QED BY <1>2, <1>3, <1>4

LEMMA WaitingKeepsInv ==
    ASSUME BridgeInv, NEW s, Coherent(s),
           s = session \/ (s = FreshSession /\ ended' = NoTime),
           NEW usable \in BOOLEAN, session' = WaitForData(s, usable),
           RemembersEnd(s, session'),
           UNCHANGED <<now, level, device, configured>>, deadline' \in {NoTime, deadline}
    PROVE  BridgeInv'
  <1>1. \/ Develops(s, session')
        \/ session' = FreshSession /\ ~s.started /\ s.completed = NoTime
    BY WaitDevelops DEF BridgeInv
  <1>2. Coherent(session') /\ FreshSession.completed = NoTime
    BY <1>1, FreshIsCoherent DEF Develops, FreshSession
  <1>3. RemembersTheEnd' /\ ended' \in (0..LastMinute) \cup {NoTime}
    BY <1>1, <1>2, EndIsRemembered DEF Coherent, Sessions
  <1>4. DeadlineIsThePlans'
    <2>1. session'.plan = s.plan \/ session'.plan = NoPlan
      BY <1>1 DEF Develops, FreshSession
    <2>2. s.plan = session.plan \/ s.plan = NoPlan
      BY DEF FreshSession
    <2> QED BY <2>1, <2>2 DEF DeadlineIsThePlans, BridgeInv
  <1>5. Coherent(session)'
    BY <1>2 DEF Coherent, Sessions, TimedPlans, NoPlan
  <1> QED BY <1>3, <1>4, <1>5 DEF BridgeInv, Moments

LEMMA GapKeepsInv ==
    ASSUME BridgeInv, NEW usable \in BOOLEAN, EvaluatesGap(usable)
    PROVE  BridgeInv'
  <1>1. CASE configured = "off"
    <2>1. session' = FreshSession /\ ended' = NoTime /\ deadline' = NoTime
      BY <1>1 DEF EvaluatesGap, RemembersEnd
    <2>2. Coherent(session)'
      BY <2>1, BridgeAssumption
         DEF Coherent, Sessions, FreshSession, TimedPlans, NoPlan, BridgeInv
    <2> QED BY <2>1, <2>2 DEF BridgeInv, EvaluatesGap, DeadlineIsThePlans, RemembersTheEnd, Moments
  <1>2. CASE configured # "off"
    <2>1. configuration # configured => ended' = NoTime
      BY <1>2 DEF EvaluatesGap, Syncs, RemembersEnd
    <2>2. Synced = session \/ (Synced = FreshSession /\ ended' = NoTime)
      BY <1>2, <2>1, SyncedIsCoherent
    <2> QED BY <1>2, <2>2, SyncedIsCoherent, WaitingKeepsInv DEF EvaluatesGap
  <1> QED BY <1>1, <1>2

LEMMA EvaluationKeepsInv ==
    ASSUME BridgeInv, NEW observed \in BOOLEAN, NEW ordered \in BOOLEAN,
           NEW begins \in BOOLEAN, EvaluatesBridge(observed, ordered, begins)
    PROVE  BridgeInv'
  <1> DEFINE known == IF fingerprint = Fingerprint THEN Synced ELSE FreshSession
  <1>1. PICK s \in Prepared(Synced, observed) :
            /\ (begins => ordered) /\ (ordered => ChargesNow(s))
            /\ session' = [s EXCEPT !.started = s.started \/ begins]
            /\ deadline' = Deadline(s, ordered)
            /\ RemembersEnd(known, s)
    BY DEF EvaluatesBridge
  <1>2. /\ configured # "off" /\ configuration' = configured /\ fingerprint' = Fingerprint
        /\ UNCHANGED <<now, level, device, configured>>
    BY DEF EvaluatesBridge, Syncs
  <1>3. Coherent(known) /\ (known = session \/ ended' = NoTime)
    <2>1. known # Synced \/ Synced # session => ended' = NoTime
      BY <1>1, <1>2 DEF RemembersEnd, Synced
    <2> QED BY <2>1, SyncedIsCoherent, FreshIsCoherent
  <1>4. \/ Develops(known, s)
        \/ /\ Coherent(s) /\ ~s.started /\ s.completed = NoTime
           /\ ~known.started
           /\ known.completed # NoTime => now >= known.completed + 1
    BY PreparedDevelops, SyncedIsCoherent DEF BridgeInv
  <1> HIDE DEF known
  <1>5. Coherent(s)
    BY <1>4 DEF Develops
  <1>6. /\ session' \in Sessions /\ session'.plan = s.plan
        /\ session'.completed = s.completed /\ session'.pending = s.pending
        /\ session'.started = (s.started \/ begins)
    BY <1>1, <1>5 DEF Coherent, Sessions
  <1>7. begins => s.plan # NoPlan /\ s.completed = NoTime
    BY <1>1, <1>5 DEF ChargesNow, IsOpen, Coherent
  <1>8. Coherent(session)'
    BY <1>2, <1>5, <1>6, <1>7 DEF Coherent, Sessions, TimedPlans, NoPlan
  <1>9. RemembersTheEnd' /\ ended' \in (0..LastMinute) \cup {NoTime}
    <2>1. known.started \in BOOLEAN
      BY <1>3 DEF Coherent, Sessions
    <2> QED BY <1>1, <1>2, <1>3, <1>4, <1>5, <1>6, <2>1, EndIsRemembered
  <1>10. deadline' \in Moments /\ DeadlineIsThePlans'
    <2>1. s.plan.end \in Moments
      BY <1>5, BridgeAssumption DEF Coherent, Sessions, TimedPlans, NoPlan, Moments
    <2> QED BY <1>1, <1>6, <2>1 DEF Deadline, DeadlineIsThePlans, Moments
  <1> QED BY <1>2, <1>8, <1>9, <1>10 DEF BridgeInv, Moments

LEMMA OthersKeepInv ==
    ASSUME BridgeInv,
           \/ ChangesBridge \/ MinutePasses \/ BatteryMoves \/ UNCHANGED bridgeVars
    PROVE  BridgeInv'
  <1> USE DEF BridgeInv
  <1>1. CASE ChangesBridge
    <2>1. \/ session' = FreshSession /\ ended' = NoTime
          \/ UNCHANGED <<session, ended>>
      BY <1>1 DEF ChangesBridge
    <2>2. Coherent(session)'
      BY <1>1, <2>1, FreshIsCoherent
         DEF ChangesBridge, Coherent, Sessions, TimedPlans, NoPlan, FreshSession
    <2>3. FreshSession.plan = NoPlan
      BY DEF FreshSession
    <2> QED BY <1>1, <2>1, <2>2, <2>3
        DEF ChangesBridge, DeadlineIsThePlans, RemembersTheEnd, Moments
  <1>2. CASE MinutePasses
    <2>1. Coherent(session)'
      BY <1>2, BridgeAssumption
         DEF MinutePasses, Coherent, Sessions, TimedPlans, NoPlan
    <2>2. ended # NoTime => ended \in Int
      OBVIOUS
    <2> QED BY <1>2, <2>1, <2>2, BridgeAssumption
        DEF MinutePasses, DeadlineIsThePlans, RemembersTheEnd, Moments
  <1>3. CASE BatteryMoves
    BY <1>3 DEF BatteryMoves, Coherent, Sessions, TimedPlans, NoPlan,
            DeadlineIsThePlans, RemembersTheEnd, Moments
  <1>4. CASE UNCHANGED bridgeVars
    BY <1>4 DEF bridgeVars, Coherent, Sessions, TimedPlans, NoPlan,
            DeadlineIsThePlans, RemembersTheEnd, Moments
  <1> QED BY <1>1, <1>2, <1>3, <1>4

LEMMA BridgeStep == BridgeInv /\ [BridgeNext]_bridgeVars => BridgeInv'
  <1> SUFFICES ASSUME BridgeInv, [BridgeNext]_bridgeVars PROVE BridgeInv'
    OBVIOUS
  <1>1. CASE \E usable \in BOOLEAN : EvaluatesGap(usable)
    BY <1>1, GapKeepsInv
  <1>2. CASE \E usable \in BOOLEAN : WriterEnds(usable)
    <2>1. Coherent(session) /\ BridgeInv
      BY DEF BridgeInv
    <2>2. PICK usable \in BOOLEAN : WriterEnds(usable)
      BY <1>2
    <2> QED BY <2>1, <2>2, WaitingKeepsInv DEF WriterEnds
  <1>3. CASE \E observed, ordered, begins \in BOOLEAN :
                EvaluatesBridge(observed, ordered, begins)
    BY <1>3, EvaluationKeepsInv
  <1>4. CASE PollFails
    <2>1. Coherent(session)
      BY DEF BridgeInv
    <2> QED BY <1>4, <2>1, WaitingKeepsInv DEF PollFails
  <1>5. CASE ChangesBridge \/ MinutePasses \/ BatteryMoves \/ UNCHANGED bridgeVars
    BY <1>5, OthersKeepInv
  <1> QED BY <1>1, <1>2, <1>3, <1>4, <1>5 DEF BridgeNext

\* What the coordinator knows of the plan, its charge and its end fits together,
\* whatever gaps, setters, options and failed polls do in any order.
THEOREM BridgeInvariant == BridgeSpec => []BridgeInv
  <1>1. BridgeInit => BridgeInv
    BY BridgeAssumption, FreshIsCoherent
       DEF BridgeInit, BridgeInv, DeadlineIsThePlans, RemembersTheEnd, Moments, Coherent,
           FreshSession
  <1> QED BY <1>1, BridgeStep, PTL DEF BridgeSpec

\* The types; only a plan with a time is begun or ended, one after the other.
THEOREM BridgeTypeCorrect == BridgeSpec => []BridgeTypeOK
  <1>1. BridgeInv => BridgeTypeOK
    <2> SUFFICES ASSUME BridgeInv PROVE BridgeTypeOK
      OBVIOUS
    <2>1. /\ session \in Sessions /\ session.plan \in TimedPlans \cup {NoPlan}
          /\ session.completed \in (0..LastMinute) \cup {NoTime}
          /\ session.started \in BOOLEAN /\ session.pending \in BOOLEAN
      BY DEF BridgeInv, Coherent, Sessions
    <2>2. session.plan.begin \in Moments /\ session.plan.end \in Moments
      BY <2>1, BridgeAssumption DEF TimedPlans, NoPlan, Moments
    <2>3. /\ 0..LastMinute \subseteq Moments /\ NoTime \in Moments
      BY BridgeAssumption DEF Moments
    <2>4. session.completed \in Moments /\ deadline \in Moments /\ ended \in Moments
      BY <2>1, <2>3 DEF BridgeInv
    <2> QED BY <2>1, <2>2, <2>4 DEF BridgeInv, BridgeTypeOK, Coherent
  <1> QED BY <1>1, BridgeInvariant, PTL

\* The writer never charges for another plan than the session's.
THEOREM DeadlineNeverStale == BridgeSpec => []DeadlineIsThePlans
  <1>1. BridgeInv => DeadlineIsThePlans
    BY DEF BridgeInv
  <1> QED BY <1>1, BridgeInvariant, PTL
-----------------------------------------------------------------------------
\* What a step makes of a session whose configuration stays: it waits or is
\* prepared, and may begin, but not beside an end that is remembered.
Carried ==
    \E s \in Sessions :
        /\ \/ Develops(session, s)
           \/ /\ ~session.started /\ s.completed = NoTime
              /\ session.completed # NoTime => now >= session.completed + 1
        /\ session'.plan = s.plan /\ session'.completed = s.completed
        /\ session'.pending = s.pending
        /\ s.started => session'.started
        /\ session'.started => s.completed = NoTime

LEMMA WaitingCarries ==
    ASSUME BridgeInv, NEW usable \in BOOLEAN, session' = WaitForData(session, usable)
    PROVE  Carried
  <1>1. Coherent(session)
    BY DEF BridgeInv
  <1>2. \/ Develops(session, session')
        \/ session' = FreshSession /\ ~session.started /\ session.completed = NoTime
    BY <1>1, WaitDevelops DEF BridgeInv
  <1>3. Coherent(session') /\ FreshSession.completed = NoTime
    BY <1>2, FreshIsCoherent DEF Develops, FreshSession
  <1> QED BY <1>2, <1>3 DEF Carried, Coherent

LEMMA StepCarries ==
    ASSUME BridgeInv, [BridgeNext]_bridgeVars, ~Revoked
    PROVE  Carried
  <1>1. /\ configured # "off" /\ configured' = configured
        /\ configuration' = configuration /\ fingerprint' = fingerprint
    BY DEF Revoked
  <1>2. CASE session' = session
    <2>1. Coherent(session)
      BY DEF BridgeInv
    <2>2. Develops(session, session)
      BY <2>1 DEF Develops
    <2> QED BY <1>2, <2>1, <2>2 DEF Carried, Coherent
  <1>3. CASE \E usable \in BOOLEAN : EvaluatesGap(usable)
    <2>1. PICK usable \in BOOLEAN : EvaluatesGap(usable)
      BY <1>3
    <2>2. session' = WaitForData(session, usable)
      BY <1>1, <2>1 DEF EvaluatesGap, Syncs, Synced
    <2> QED BY <2>2, WaitingCarries
  <1>4. CASE PollFails \/ \E usable \in BOOLEAN : WriterEnds(usable)
    BY <1>4, WaitingCarries DEF PollFails, WriterEnds
  <1>5. CASE \E observed, ordered, begins \in BOOLEAN :
                EvaluatesBridge(observed, ordered, begins)
    <2>1. PICK observed \in BOOLEAN, ordered \in BOOLEAN, begins \in BOOLEAN :
              EvaluatesBridge(observed, ordered, begins)
      BY <1>5
    <2>2. Synced = session /\ fingerprint = Fingerprint
      BY <1>1, <2>1 DEF EvaluatesBridge, Syncs, Synced
    <2>3. PICK s \in Prepared(session, observed) :
              /\ (begins => ordered) /\ (ordered => ChargesNow(s))
              /\ session' = [s EXCEPT !.started = s.started \/ begins]
      BY <2>1, <2>2 DEF EvaluatesBridge
    <2>4. Coherent(session)
      BY DEF BridgeInv
    <2>5. \/ Develops(session, s)
          \/ /\ Coherent(s) /\ ~session.started /\ s.completed = NoTime
             /\ session.completed # NoTime => now >= session.completed + 1
      BY <2>2, <2>4, PreparedDevelops DEF BridgeInv
    <2>6. Coherent(s)
      BY <2>5 DEF Develops
    <2>7. /\ s \in Sessions /\ session'.plan = s.plan
          /\ session'.completed = s.completed /\ session'.pending = s.pending
          /\ session'.started = (s.started \/ begins)
      BY <2>3, <2>6 DEF Coherent, Sessions
    <2>8. session'.started => s.completed = NoTime
      BY <2>3, <2>6, <2>7 DEF ChargesNow, Coherent
    <2> QED BY <2>5, <2>7, <2>8 DEF Carried
  <1> QED BY <1>1, <1>2, <1>3, <1>4, <1>5
      DEF BridgeNext, ChangesBridge, MinutePasses, BatteryMoves, bridgeVars

\* A plan is not made anew while its charge is under way.
THEOREM ChargesAsPlanned == BridgeSpec => FrozenWhileCharging
  <1>1. ASSUME BridgeInv, [BridgeNext]_bridgeVars,
               session.started, session'.started, ~Revoked
        PROVE  session'.plan = session.plan
    BY <1>1, StepCarries DEF Carried, Develops, BridgeInv, Coherent
  <1> QED BY <1>1, BridgeInvariant, PTL DEF BridgeSpec, FrozenWhileCharging

\* Gaps in the data neither end a charge nor make it longer.
THEOREM GapsEndNothing == BridgeSpec => EndsForAReason
  <1>1. ASSUME BridgeInv, [BridgeNext]_bridgeVars,
               session.started, ~session'.started, ~Revoked
        PROVE  now >= session.plan.end \/ level >= session.plan.target
    BY <1>1, StepCarries DEF Carried, Develops
  <1> QED BY <1>1, BridgeInvariant, PTL DEF BridgeSpec, EndsForAReason

\* The measurements of the charge itself are no reason for another one.
THEOREM NoChargeUponACharge == BridgeSpec => RestsAMinute
  <1>1. ASSUME BridgeInv, [BridgeNext]_bridgeVars,
               ~session.started, session'.started, ended # NoTime, ~Revoked
        PROVE  now > ended
    <2>1. ended <= now /\ (session.completed = ended \/ now > ended)
      BY <1>1 DEF BridgeInv, RemembersTheEnd
    <2>2. SUFFICES ASSUME ~(now > ended), session.completed = ended PROVE FALSE
      BY <2>1
    <2>3. now >= session.completed + 1
      BY <1>1, <2>2, StepCarries DEF Carried, Develops
    <2>4. now \in Int /\ ended \in Int
      BY <1>1 DEF BridgeInv
    <2> QED BY <2>2, <2>3, <2>4
  <1> QED BY <1>1, BridgeInvariant, PTL DEF BridgeSpec, RestsAMinute

\* What a charge achieved, or that it is still to be judged, stays known until a
\* new plan may be made, and a verdict is not taken back.
THEOREM VerdictsArePermanent == BridgeSpec => ResultStays
  <1>1. ASSUME BridgeInv, [BridgeNext]_bridgeVars, session.completed # NoTime, ~Revoked
        PROVE  \/ now > session.completed
               \/ /\ session'.completed = session.completed
                  /\ session'.pending => session.pending
    <2>1. /\ ~session.started /\ now \in Int /\ session.completed \in Int
      BY <1>1 DEF BridgeInv, Coherent, Sessions
    <2>2. PICK s \in Sessions :
              /\ \/ Develops(session, s)
                 \/ now >= session.completed + 1
              /\ session'.completed = s.completed /\ session'.pending = s.pending
      BY <1>1, StepCarries DEF Carried
    <2> QED BY <1>1, <2>1, <2>2 DEF Develops
  <1> QED BY <1>1, BridgeInvariant, PTL DEF BridgeSpec, ResultStays

\* A bridge charge keeps to its plan, over gaps, new plans and restarts of its
\* writer, and its verdict stays.
THEOREM BridgeKeepsItsPlan == BridgeSpec => BridgeIsKept
  BY DeadlineNeverStale, ChargesAsPlanned, GapsEndNothing, NoChargeUponACharge,
     VerdictsArePermanent, PTL DEF BridgeIsKept
-----------------------------------------------------------------------------
(* BridgePlan: there is no better charge than the planned one              *)

LEMMA LeastNatural ==
    ASSUME NEW S \in SUBSET Nat, S # {}
    PROVE  \E n \in S : \A k \in S : n <= k
<1>1. PICK n \in S : \A k \in S : ~(<<k, n>> \in OpToRel(<, Nat))
  BY NatLessThanWellFounded, WFMin
<1>2. \A k \in S : n <= k
  <2> TAKE k \in S
  <2>1. k \in Nat /\ n \in Nat
    OBVIOUS
  <2>2. ~(k < n)
    BY <1>1, <2>1 DEF OpToRel
  <2> QED BY <2>1, <2>2
<1> QED BY <1>2

\* Finitely many windows have a first one, by any measure.
LEMMA FiniteLeast ==
    ASSUME NEW S, IsFiniteSet(S), S # {}, NEW f, \A x \in S : f[x] \in Int
    PROVE  \E x \in S : \A y \in S : f[x] <= f[y]
<1> DEFINE Has(T) == \E x \in T : \A y \in T : f[x] <= f[y]
           Bad == {n \in Nat : \E T \in SUBSET S : T # {} /\ Cardinality(T) = n /\ ~Has(T)}
<1>1. Bad = {}
  <2> SUFFICES ASSUME Bad # {} PROVE FALSE
    OBVIOUS
  <2>1. PICK n \in Bad : \A k \in Bad : n <= k
    BY LeastNatural
  <2>2. PICK T \in SUBSET S : T # {} /\ Cardinality(T) = n /\ ~Has(T)
    OBVIOUS
  <2>3. PICK x \in T : TRUE
    BY <2>2
  <2>4. /\ IsFiniteSet(T) /\ IsFiniteSet(T \ {x}) /\ Cardinality(T \ {x}) = n - 1 /\ n - 1 \in Nat
    <3>1. IsFiniteSet(T)
      BY FS_Subset
    <3>2. Cardinality(T) \in Nat
      BY <3>1, FS_CardinalityType
    <3>3. Cardinality(T \ {x}) = Cardinality(T) - 1 /\ IsFiniteSet(T \ {x})
      BY <2>3, <3>1, FS_RemoveElement
    <3>4. Cardinality(T \ {x}) \in Nat
      BY <3>3, FS_CardinalityType
    <3> QED BY <2>2, <3>1, <3>2, <3>3, <3>4
  <2>5. CASE T \ {x} = {}
    <3>1. \A y \in T : y = x
      BY <2>5
    <3>2. f[x] \in Int
      BY <2>3
    <3>3. ASSUME NEW y \in T PROVE f[x] <= f[y]
      <4>1. f[y] = f[x]
        BY <3>1
      <4> QED BY <3>2, <4>1
    <3> QED BY <2>2, <2>3, <3>3
  <2>6. CASE T \ {x} # {}
    <3>1. n - 1 \notin Bad
      BY <2>1, <2>4
    <3>2. Has(T \ {x})
      BY <2>4, <2>6, <3>1
    <3>3. PICK z \in T \ {x} : \A y \in T \ {x} : f[z] <= f[y]
      BY <3>2
    <3>4. f[x] \in Int /\ f[z] \in Int /\ \A y \in T : f[y] \in Int
      BY <2>3
    <3>5. CASE f[x] <= f[z]
      <4>1. \A y \in T : f[x] <= f[y]
        BY <3>3, <3>4, <3>5
      <4> QED BY <2>2, <2>3, <4>1
    <3>6. CASE ~(f[x] <= f[z])
      <4>1. \A y \in T : f[z] <= f[y]
        BY <3>3, <3>4, <3>6
      <4> QED BY <2>2, <4>1
    <3> QED BY <3>5, <3>6
  <2> QED BY <2>5, <2>6
<1>2. Cardinality(S) \in Nat /\ S \in SUBSET S
  BY FS_CardinalityType
<1>3. Cardinality(S) \notin Bad
  BY <1>1
<1> QED BY <1>2, <1>3

-----------------------------------------------------------------------------
\* A factor keeps the order, and gives it back.
LEMMA Scaled ==
    ASSUME NEW k \in Nat \ {0}, NEW x \in Int, NEW y \in Int
    PROVE  /\ k * x \in Int /\ k * y \in Int
           /\ x <= y <=> k * x <= k * y
           /\ x = y <=> k * x = k * y
           /\ x < y <=> k * x < k * y
<1>1. ASSUME NEW a \in Int, NEW b \in Int, a < b
      PROVE  k * a < k * b
  <2>1. b - a - 1 \in Nat /\ k * (b - a - 1) \in Nat
    BY <1>1
  <2>2. k * b = k * a + k + k * (b - a - 1)
    OBVIOUS
  <2>3. k * a \in Int /\ k * b \in Int
    OBVIOUS
  <2> DEFINE p == k * a
             q == k * b
             r == k * (b - a - 1)
  <2>4. p \in Int /\ q \in Int /\ r \in Nat /\ q = p + k + r
    BY <2>1, <2>2, <2>3
  <2> HIDE DEF p, q, r
  <2>5. p < q
    BY <2>4
  <2> QED BY <2>5 DEF p, q
<1>2. x < y \/ x = y \/ y < x
  OBVIOUS
<1>3. k * x \in Int /\ k * y \in Int
  OBVIOUS
<1>4. x < y => k * x < k * y
  BY <1>1
<1>5. y < x => k * y < k * x
  BY <1>1
<1> DEFINE p == k * x
           q == k * y
<1>6. /\ p \in Int /\ q \in Int /\ (x < y => p < q) /\ (y < x => q < p) /\ (x = y => p = q)
  BY <1>3, <1>4, <1>5
<1> HIDE DEF p, q
<1>7. (x <= y <=> p <= q) /\ (x = y <=> p = q) /\ (x < y <=> p < q)
  BY <1>2, <1>6
<1> QED BY <1>6, <1>7 DEF p, q

\* What a multiple is divided into.
LEMMA Quotients ==
    ASSUME NEW k \in Nat \ {0}, NEW n \in Int
    PROVE  /\ n \div k \in Int
           /\ k * (n \div k) <= n /\ n < k * (n \div k) + k
           /\ n % k = 0 => n = k * (n \div k)
<1>1. /\ n \div k \in Int /\ n % k \in 0..(k - 1) /\ n = k * (n \div k) + (n % k)
  OBVIOUS
<1> DEFINE q == n \div k
           r == n % k
           p == k * q
<1>2. q \in Int /\ r \in Int /\ 0 <= r /\ r < k /\ p \in Int /\ n = p + r
  BY <1>1
<1> HIDE DEF q, r, p
<1>3. p <= n /\ n < p + k /\ (r = 0 => n = p)
  BY <1>2
<1> QED BY <1>2, <1>3 DEF q, r, p

LEMMA MultipleOver ==
    ASSUME NEW k \in Nat \ {0}, NEW q \in Int, NEW n \in Int, n = k * q
    PROVE  n \div k = q
<1> DEFINE t == n \div k
<1>1. t \in Int /\ k * t <= n /\ n < k * t + k
  BY Quotients
<1>2. k * (t + 1) = k * t + k
  BY <1>1
<1> HIDE DEF t
<1>3. k * t <= k * q /\ k * q < k * (t + 1)
  BY <1>1, <1>2
<1>4. t <= q /\ q < t + 1
  BY <1>1, <1>3, Scaled
<1>5. t = q
  BY <1>1, <1>4
<1> QED BY <1>5 DEF t

-----------------------------------------------------------------------------
(* Everything a plan divides is whole                                       *)

IsHours(n) == \E k \in Int : n = k * Hour

\* A demand is made of whole hours.
LEMMA DemandIsWhole ==
    ASSUME NEW d \in Demands
    PROVE  /\ d.power \in Nat \ {0} /\ d.discharge \in Nat \ {0}
           /\ d.horizon \in Nat \ {0} /\ IsHours(d.horizon)
           /\ d.available \in Nat /\ IsHours(d.available)
           /\ d.maximum \in Nat /\ IsHours(d.maximum)
           /\ d.offers \subseteq Offers /\ IsFiniteSet(d.offers)
           /\ Hour % (d.power * d.discharge) = 0 /\ Hour % (d.power + d.discharge) = 0
<1>1. /\ d.horizon \in {n * Hour : n \in Horizons} /\ d.power \in Powers
      /\ d.discharge \in Discharges /\ d.available \in {n * Hour : n \in Amounts}
      /\ d.maximum \in {n * Hour : n \in Amounts} /\ d.offers \subseteq Offers
  BY DEF Demands
<1>2. /\ Hour \in Nat \ {0} /\ Horizons \subseteq Nat \ {0} /\ Powers \subseteq Nat \ {0}
      /\ Discharges \subseteq Nat \ {0} /\ Amounts \subseteq Nat /\ IsFiniteSet(Offers)
      /\ \A p \in Powers, e \in Discharges : Hour % (p * e) = 0 /\ Hour % (p + e) = 0
  BY PlanAssumption
<1>3. d.power \in Nat \ {0} /\ d.discharge \in Nat \ {0}
  BY <1>1, <1>2
<1>4. PICK h \in Nat \ {0} : d.horizon = h * Hour
  BY <1>1, <1>2
<1>5. PICK a \in Nat : d.available = a * Hour
  BY <1>1, <1>2
<1>6. PICK m \in Nat : d.maximum = m * Hour
  BY <1>1, <1>2
<1>7. h * Hour \in Nat \ {0} /\ a * Hour \in Nat /\ m * Hour \in Nat
  BY <1>2
<1>8. IsFiniteSet(d.offers)
  BY <1>1, <1>2, FS_Subset
<1>9. IsHours(d.horizon) /\ IsHours(d.available) /\ IsHours(d.maximum)
  BY <1>4, <1>5, <1>6 DEF IsHours
<1>10. d.horizon \in Nat \ {0} /\ d.available \in Nat /\ d.maximum \in Nat
  BY <1>4, <1>5, <1>6, <1>7
<1>11. Hour % (d.power * d.discharge) = 0 /\ Hour % (d.power + d.discharge) = 0
  BY <1>1, <1>2
<1> QED BY <1>1, <1>3, <1>8, <1>9, <1>10, <1>11

LEMMA HoursAdd ==
    ASSUME NEW n \in Int, NEW m \in Int, IsHours(n), IsHours(m)
    PROVE  IsHours(n + m) /\ IsHours(n - m)
<1>1. PICK i \in Int : n = i * Hour
  BY DEF IsHours
<1>2. PICK j \in Int : m = j * Hour
  BY DEF IsHours
<1>3. Hour \in Nat
  BY PlanAssumption
<1>4. n + m = (i + j) * Hour /\ n - m = (i - j) * Hour
  BY <1>1, <1>2, <1>3
<1>5. i + j \in Int /\ i - j \in Int
  OBVIOUS
<1> QED BY <1>4, <1>5 DEF IsHours

LEMMA HoursTimes ==
    ASSUME NEW k \in Int, NEW n \in Int, IsHours(n)
    PROVE  k * n \in Int /\ IsHours(k * n)
<1>1. PICK i \in Int : n = i * Hour
  BY DEF IsHours
<1>2. Hour \in Nat
  BY PlanAssumption
<1>3. k * n = (k * i) * Hour /\ k * i \in Int /\ k * n \in Int
  BY <1>1, <1>2
<1> QED BY <1>3 DEF IsHours

\* Whole hours divide by the powers; their charge takes a whole time to use.
LEMMA HoursDivide ==
    ASSUME NEW d \in Demands, NEW n \in Int, IsHours(n)
    PROVE  /\ n \div d.power \in Int /\ n = d.power * (n \div d.power)
           /\ n \div (d.power + d.discharge) \in Int
           /\ n = (d.power + d.discharge) * (n \div (d.power + d.discharge))
           /\ \E q \in Int : n = d.discharge * q
           /\ \E q \in Int : (d.power + d.discharge) * (n \div d.power) = d.discharge * q
<1> DEFINE P == d.power
           D == d.discharge
<1>1. /\ P \in Nat \ {0} /\ D \in Nat \ {0} /\ Hour % (P * D) = 0 /\ Hour % (P + D) = 0
  BY DemandIsWhole
<1>2. Hour \in Nat \ {0}
  BY PlanAssumption
<1>3. PICK k \in Int : n = k * Hour
  BY DEF IsHours
<1> HIDE DEF P, D
<1>4. P * D \in Nat \ {0} /\ P + D \in Nat \ {0}
  BY <1>1
<1>5. PICK u \in Int : Hour = (P * D) * u
  <2> DEFINE e == P * D
  <2>1. e \in Nat \ {0} /\ Hour % e = 0
    BY <1>1, <1>4
  <2> HIDE DEF e
  <2>2. Hour \div e \in Int /\ Hour = e * (Hour \div e)
    BY <1>2, <2>1, Quotients
  <2> QED BY <2>2 DEF e
<1>6. PICK v \in Int : Hour = (P + D) * v
  <2> DEFINE e == P + D
  <2>1. e \in Nat \ {0} /\ Hour % e = 0
    BY <1>1, <1>4
  <2> HIDE DEF e
  <2>2. Hour \div e \in Int /\ Hour = e * (Hour \div e)
    BY <1>2, <2>1, Quotients
  <2> QED BY <2>2 DEF e
<1>7. n \div P = k * D * u /\ n = P * (k * D * u)
  <2>1. k * D * u \in Int /\ n = P * (k * D * u)
    BY <1>1, <1>3, <1>5
  <2> DEFINE q == k * D * u
  <2>2. q \in Int /\ n = P * q
    BY <2>1
  <2> HIDE DEF q
  <2>3. n \div P = q
    BY <1>1, <2>2, MultipleOver
  <2> QED BY <2>2, <2>3 DEF q
<1>8. n \div (P + D) = k * v /\ n = (P + D) * (k * v)
  <2> DEFINE q == k * v
             e == P + D
  <2>1. q \in Int /\ n = e * q /\ e \in Nat \ {0}
    BY <1>3, <1>4, <1>6
  <2> HIDE DEF q, e
  <2>2. n \div e = q
    BY <2>1, MultipleOver
  <2> QED BY <2>1, <2>2 DEF q, e
<1>9. k * P * u \in Int /\ n = D * (k * P * u)
  BY <1>1, <1>3, <1>5
<1>10. (P + D) * k * u \in Int /\ (P + D) * (k * D * u) = D * ((P + D) * k * u)
  BY <1>1
<1>11. k * D * u \in Int /\ k * v \in Int
  BY <1>1
<1>12. \E q \in Int : (P + D) * (n \div P) = D * q
  BY <1>7, <1>10
<1> QED BY <1>7, <1>8, <1>9, <1>11, <1>12 DEF P, D

-----------------------------------------------------------------------------
(* What a charge leaves uncovered                                           *)

\* The sums of a demand and a charge, one by one.
LEMMA Products ==
    ASSUME NEW d \in Demands, NEW begin \in Int, NEW length \in Int
    PROVE  /\ d.discharge * begin \in Int /\ d.power * length \in Int
           /\ d.discharge * length \in Int /\ d.discharge * d.horizon \in Int
           /\ (d.power + d.discharge) * length = d.power * length + d.discharge * length
           /\ d.discharge * (d.horizon - begin - length)
                = d.discharge * d.horizon - d.discharge * begin - d.discharge * length
           /\ d.available \in Nat /\ d.maximum \in Nat
<1>1. /\ d.power \in Nat \ {0} /\ d.discharge \in Nat \ {0} /\ d.horizon \in Nat \ {0}
      /\ d.available \in Nat /\ d.maximum \in Nat
  BY DemandIsWhole
<1> DEFINE P == d.power
           D == d.discharge
           H == d.horizon
<1>2. P \in Nat /\ D \in Nat /\ H \in Nat
  BY <1>1
<1> HIDE DEF P, D, H
<1>3. /\ D * begin \in Int /\ P * length \in Int /\ D * length \in Int /\ D * H \in Int
      /\ (P + D) * length = P * length + D * length
      /\ D * (H - begin - length) = D * H - D * begin - D * length
  BY <1>2
<1> QED BY <1>1, <1>3 DEF P, D, H

\* A charge leaves what is used before it, or what is used after it, or nothing.
LEMMA UncoveredIs ==
    ASSUME NEW d \in Demands, NEW begin \in Int, NEW length \in Int
    PROVE  LET u == Uncovered(d, begin, length)
               before == d.discharge * begin - d.available
               after == d.discharge * d.horizon - d.available
                        - (d.power + d.discharge) * length
           IN /\ u \in Nat /\ u >= before /\ u >= after
              /\ u \in {0, before, after}
<1> DEFINE used == d.discharge * begin
           got == d.power * length
           spent == d.discharge * length
           all == d.discharge * d.horizon
           s == (d.power + d.discharge) * length
           rest == d.discharge * (d.horizon - begin - length)
           a == d.available
<1>1. /\ used \in Int /\ got \in Int /\ spent \in Int /\ all \in Int /\ s = got + spent
      /\ rest = all - used - spent /\ a \in Nat
  BY Products
<1>2. Uncovered(d, begin, length)
        = AtLeast0(used - a) + AtLeast0(rest - (AtLeast0(a - used) + got))
  BY DEF Uncovered, StoredAt
<1> HIDE DEF used, got, spent, all, s, rest, a
<1> DEFINE u == Uncovered(d, begin, length)
<1>3. CASE used <= a
  <2>1. AtLeast0(used - a) = 0 /\ AtLeast0(a - used) = a - used
    BY <1>1, <1>3 DEF AtLeast0
  <2>2. u = AtLeast0(rest - ((a - used) + got))
    BY <1>1, <1>2, <2>1 DEF AtLeast0
  <2>3. rest - ((a - used) + got) = all - a - s /\ all - a - s \in Int
    BY <1>1
  <2>4. u = AtLeast0(all - a - s)
    BY <2>2, <2>3
  <2>5. u \in Nat /\ u >= all - a - s /\ u \in {0, all - a - s} /\ u >= used - a
    BY <1>1, <1>3, <2>3, <2>4 DEF AtLeast0
  <2> QED BY <2>5 DEF used, all, s, a
<1>4. CASE used > a
  <2>1. AtLeast0(used - a) = used - a /\ AtLeast0(a - used) = 0
    BY <1>1, <1>4 DEF AtLeast0
  <2>2. u = (used - a) + AtLeast0(rest - got)
    BY <1>1, <1>2, <2>1
  <2>3. rest - got = (all - a - s) - (used - a)
    BY <1>1
  <2>4. u \in Nat /\ u >= all - a - s /\ u \in {used - a, all - a - s} /\ u >= used - a
    BY <1>1, <1>4, <2>2, <2>3 DEF AtLeast0
  <2> QED BY <2>4 DEF used, all, s, a
<1> QED BY <1>1, <1>3, <1>4

-----------------------------------------------------------------------------
(* The length of a charge                                                   *)

\* What a length must be to fill a window, one bound at a time.
FillsWindow(d, from, to, length, q) ==
    LET s == (d.power + d.discharge) * length
    IN /\ length \in Int /\ q \in Int /\ d.discharge * q = s
       /\ s <= d.discharge * d.horizon - d.available
       /\ length <= to - from
       /\ d.power * length <= d.maximum
       /\ s <= d.discharge * to + d.maximum - d.available
       /\ s <= d.discharge * (d.horizon - from)
       /\ \/ s = d.discharge * d.horizon - d.available
          \/ length = to - from
          \/ d.power * length = d.maximum
          \/ s = d.discharge * to + d.maximum - d.available
          \/ s = d.discharge * (d.horizon - from)

LEMMA SmallestOfFive ==
    ASSUME NEW a \in Int, NEW b \in Int, NEW c \in Int, NEW e \in Int, NEW g \in Int
    PROVE  LET n == Smallest({a, b, c, e, g})
           IN n \in {a, b, c, e, g} /\ n <= a /\ n <= b /\ n <= c /\ n <= e /\ n <= g
<1> DEFINE S == {a, b, c, e, g}
           Min2(x, y) == IF x <= y THEN x ELSE y
           m == Min2(a, Min2(b, Min2(c, Min2(e, g))))
<1>1. m \in S /\ m <= a /\ m <= b /\ m <= c /\ m <= e /\ m <= g
  <2> DEFINE h == Min2(e, g)
             i == Min2(c, h)
             j == Min2(b, i)
  <2>1. h \in Int /\ h \in {e, g} /\ h <= e /\ h <= g
    OBVIOUS
  <2>2. i \in Int /\ i \in {c, h} /\ i <= c /\ i <= h
    BY <2>1
  <2>3. j \in Int /\ j \in {b, i} /\ j <= b /\ j <= i
    BY <2>2
  <2>4. m \in Int /\ m \in {a, j} /\ m <= a /\ m <= j
    BY <2>3
  <2> HIDE DEF h, i, j, m
  <2> QED BY <2>1, <2>2, <2>3, <2>4
<1>2. \E n \in S : \A k \in S : n <= k
  BY <1>1
<1>3. Smallest(S) \in S /\ \A k \in S : Smallest(S) <= k
  BY <1>2 DEF Smallest
<1> QED BY <1>3

LEMMA SmallestOfTwo ==
    ASSUME NEW a \in Int, NEW b \in Int
    PROVE  LET n == Smallest({a, b})
           IN n \in {a, b} /\ n <= a /\ n <= b
<1>1. \E n \in {a, b} : \A k \in {a, b} : n <= k
  BY a <= b \/ b <= a
<1> QED BY <1>1 DEF Smallest

LEMMA LengthFills ==
    ASSUME NEW d \in Demands, Required(d) > 0, NEW from \in Int, NEW to \in Int,
           IsHours(from), IsHours(to)
    PROVE  \E q \in Int : FillsWindow(d, from, to, Smallest(LengthBounds(d, from, to)), q)
<1> DEFINE P == d.power
           D == d.discharge
           S == P + D
           need == d.discharge * d.horizon - d.available
           room == d.discharge * to + d.maximum - d.available
           use == d.discharge * (d.horizon - from)
<1>1. /\ P \in Nat \ {0} /\ D \in Nat \ {0} /\ S \in Nat \ {0}
      /\ d.horizon \in Nat /\ IsHours(d.horizon) /\ d.available \in Nat /\ IsHours(d.available)
      /\ d.maximum \in Nat /\ IsHours(d.maximum)
  BY DemandIsWhole
<1>2. need \in Int /\ IsHours(need)
  <2> DEFINE t == d.discharge * d.horizon
             a == d.available
  <2>1. D \in Int /\ d.horizon \in Int /\ a \in Int /\ IsHours(a)
    BY <1>1
  <2>2. t \in Int /\ IsHours(t)
    BY <1>1, <2>1, HoursTimes
  <2> HIDE DEF t, a
  <2>3. t - a \in Int /\ IsHours(t - a)
    BY <2>1, <2>2, HoursAdd
  <2> QED BY <2>3 DEF t, a
<1>3. room \in Int /\ IsHours(room)
  <2> DEFINE t == d.discharge * to
             a == d.available
             m == d.maximum
  <2>1. D \in Int /\ a \in Int /\ IsHours(a) /\ m \in Int /\ IsHours(m)
    BY <1>1
  <2>2. t \in Int /\ IsHours(t)
    BY <2>1, HoursTimes
  <2> HIDE DEF t, a, m
  <2> DEFINE u == m - a
  <2>3. u \in Int /\ IsHours(u)
    BY <2>1, HoursAdd
  <2> HIDE DEF u
  <2>4. t + u \in Int /\ IsHours(t + u)
    BY <2>2, <2>3, HoursAdd
  <2> QED BY <2>4 DEF u, t, a, m
<1>4. use \in Int /\ IsHours(use)
  <2> DEFINE h == d.horizon
             t == h - from
  <2>1. h \in Int /\ IsHours(h) /\ D \in Int
    BY <1>1
  <2> HIDE DEF h
  <2>2. t \in Int /\ IsHours(t)
    BY <2>1, HoursAdd
  <2> HIDE DEF t
  <2>3. D * t \in Int /\ IsHours(D * t)
    BY <2>1, <2>2, HoursTimes
  <2> QED BY <2>3 DEF t, h
<1>5. to - from \in Int /\ IsHours(to - from)
  BY HoursAdd
<1>6. Required(d) = need
  BY <1>2 DEF Required, AtLeast0
<1> DEFINE x1 == need \div S
           x2 == to - from
           x3 == d.maximum \div P
           x4 == room \div S
           x5 == use \div S
           n == Smallest(LengthBounds(d, from, to))
<1>7. LengthBounds(d, from, to) = {x1, x2, x3, x4, x5}
  BY <1>6 DEF LengthBounds
<1>8. /\ x1 \in Int /\ S * x1 = need
      /\ x4 \in Int /\ S * x4 = room
      /\ x5 \in Int /\ S * x5 = use
  BY <1>2, <1>3, <1>4, HoursDivide
<1>9. x3 \in Int /\ P * x3 = d.maximum
  BY <1>1, HoursDivide
<1>10. \A k \in {need, room, use} : \E q \in Int : k = D * q
  BY <1>2, <1>3, <1>4, HoursDivide
<1>11. \E q \in Int : S * x3 = D * q
  BY <1>1, HoursDivide
<1>12. \E q \in Int : S * x2 = D * q
  <2>1. S * (to - from) \in Int /\ IsHours(S * (to - from))
    BY <1>1, <1>5, HoursTimes
  <2> QED BY <2>1, HoursDivide
<1> HIDE DEF x1, x2, x3, x4, x5, n, S, need, room, use
<1>13. n \in {x1, x2, x3, x4, x5} /\ n <= x1 /\ n <= x2 /\ n <= x3 /\ n <= x4 /\ n <= x5
  <2>1. x2 \in Int
    BY <1>5 DEF x2
  <2>2. Smallest({x1, x2, x3, x4, x5}) = n
    BY <1>7 DEF n
  <2> QED BY <1>8, <1>9, <2>1, <2>2, SmallestOfFive
<1>14. n \in Int /\ x2 \in Int
  BY <1>5, <1>8, <1>9, <1>13 DEF x2
<1>15. S * n <= S * x1 /\ S * n <= S * x4 /\ S * n <= S * x5 /\ P * n <= P * x3
  BY <1>1, <1>8, <1>9, <1>13, <1>14, Scaled
<1>16. \E q \in Int : D * q = S * n
  BY <1>8, <1>10, <1>11, <1>12, <1>13
<1>17. \/ S * n = need \/ n = x2 \/ P * n = d.maximum \/ S * n = room \/ S * n = use
  BY <1>8, <1>9, <1>13
<1>18. PICK q \in Int : D * q = S * n
  BY <1>16
<1>19. /\ S * n <= need /\ n <= x2 /\ P * n <= d.maximum /\ S * n <= room /\ S * n <= use
  BY <1>8, <1>9, <1>13, <1>15
<1>20. FillsWindow(d, from, to, n, q)
  BY <1>14, <1>17, <1>18, <1>19 DEF FillsWindow, S, need, room, use, x2
<1> QED BY <1>20 DEF n

-----------------------------------------------------------------------------
(* A window's charge                                                        *)

\* As late as the window and the use before PV allow.
LEMMA BeginsLate ==
    ASSUME NEW d \in Demands, NEW from \in Int, NEW to \in Int, NEW length \in Int,
           NEW q \in Int, FillsWindow(d, from, to, length, q)
    PROVE  LET b == Begins(d, to, length)
           IN /\ b \in Int /\ b \in {to - length, d.horizon - q}
              /\ b <= to - length /\ b <= d.horizon - q /\ from <= b
<1>1. d.discharge \in Nat \ {0} /\ d.horizon \in Nat
  BY DemandIsWhole
<1> DEFINE s == (d.power + d.discharge) * length
<1>2. /\ d.discharge * q = s /\ length <= to - from
      /\ s <= d.discharge * (d.horizon - from)
  BY DEF FillsWindow
<1>3. s \div d.discharge = q
  BY <1>1, <1>2, MultipleOver
<1>4. Begins(d, to, length) = Smallest({to - length, d.horizon - q})
  BY <1>3 DEF Begins
<1>5. q <= d.horizon - from
  <2>1. d.horizon - from \in Int /\ d.discharge * q <= d.discharge * (d.horizon - from)
    BY <1>1, <1>2
  <2> QED BY <1>1, <2>1, Scaled
<1>6. to - length \in Int /\ d.horizon - q \in Int
  BY <1>1
<1>7. /\ Begins(d, to, length) \in {to - length, d.horizon - q}
      /\ Begins(d, to, length) <= to - length /\ Begins(d, to, length) <= d.horizon - q
  BY <1>4, <1>6, SmallestOfTwo
<1>8. from <= to - length /\ from <= d.horizon - q
  BY <1>1, <1>2, <1>5
<1> QED BY <1>6, <1>7, <1>8

\* A charge of that length and begin leaves what the plan says, within the
\* capacity, and nothing of it unused.
LEMMA ChargeFits ==
    ASSUME NEW d \in Demands, NEW from \in Int, NEW to \in Int, NEW length \in Nat,
           NEW q \in Int, FillsWindow(d, from, to, length, q)
    PROVE  LET b == Begins(d, to, length)
               s == (d.power + d.discharge) * length
           IN /\ StoredAt(d, b) + d.power * length <= d.maximum
              /\ Uncovered(d, b, length) = d.discharge * d.horizon - d.available - s
              /\ LeftAtPv(d, b, length) = 0
<1> DEFINE b == Begins(d, to, length)
           used == d.discharge * b
           got == d.power * length
           spent == d.discharge * length
           all == d.discharge * d.horizon
           s == (d.power + d.discharge) * length
           rest == d.discharge * (d.horizon - b - length)
           a == d.available
           top == d.maximum
           upTo == d.discharge * to
<1>1. /\ b \in Int /\ b \in {to - length, d.horizon - q}
      /\ b <= to - length /\ b <= d.horizon - q
  BY BeginsLate
<1>2. /\ used \in Int /\ got \in Int /\ spent \in Int /\ all \in Int /\ s = got + spent
      /\ rest = all - used - spent /\ a \in Nat /\ top \in Nat
  <2>1. b \in Int /\ length \in Int
    BY <1>1
  <2> HIDE DEF b
  <2> QED BY <2>1, Products
<1>3. d.discharge \in Nat \ {0} /\ d.horizon \in Nat
  BY DemandIsWhole
<1>4. /\ d.discharge * q = s /\ s <= all - a /\ got <= top /\ s <= upTo + top - a
  BY DEF FillsWindow
<1>5. d.discharge * (to - length) = upTo - spent /\ upTo \in Int
  BY <1>3
<1>6. d.discharge * (d.horizon - q) = all - s
  BY <1>3, <1>4
<1>7. used <= upTo - spent /\ used <= all - s
  BY <1>1, <1>3, <1>5, <1>6, Scaled
<1>8. b = to - length => used = upTo - spent
  BY <1>5
<1>9. b = d.horizon - q => used = all - s
  BY <1>6
<1>10. /\ LET u == Uncovered(d, b, length)
          IN u \in Nat /\ u >= used - a /\ u >= all - a - s /\ u \in {0, used - a, all - a - s}
  BY <1>1, UncoveredIs
<1> DEFINE u == Uncovered(d, b, length)
<1>11. used = upTo - spent \/ used = all - s
  BY <1>1, <1>8, <1>9
<1>12. /\ StoredAt(d, b) = AtLeast0(a - used)
       /\ LeftAtPv(d, b, length) = AtLeast0(AtLeast0(a - used) + got - rest)
  BY DEF StoredAt, LeftAtPv
<1> HIDE DEF b, used, got, spent, all, s, rest, a, top, upTo, u
<1>13. u = all - a - s
  BY <1>2, <1>4, <1>7, <1>10 DEF u
<1>14. got + spent <= all - used
  BY <1>2, <1>7
<1>15. AtLeast0(AtLeast0(a - used) + got - rest) = 0
  <2>1. got <= rest
    BY <1>2, <1>14
  <2>2. (a - used) + got <= rest
    BY <1>2, <1>4
  <2> QED BY <1>2, <2>1, <2>2 DEF AtLeast0
<1>16. AtLeast0(a - used) + got <= top
  <2>1. CASE used >= a
    BY <1>2, <1>4, <2>1 DEF AtLeast0
  <2>2. CASE used < a
    <3>1. used = upTo - spent
      BY <1>2, <1>4, <1>11, <2>2
    <3> QED BY <1>2, <1>4, <1>5, <2>2, <3>1 DEF AtLeast0
  <2> QED BY <1>2, <2>1, <2>2
<1> QED BY <1>12, <1>13, <1>15, <1>16 DEF b, used, got, s, all, a, top, u

\* A charge within the window that is possible covers no more, and if it covers
\* as much it does not begin later.
LEMMA NoneBetter ==
    ASSUME NEW d \in Demands, Required(d) > 0, NEW from \in Int, NEW to \in Int,
           NEW n \in Int, NEW q \in Int, FillsWindow(d, from, to, n, q),
           NEW begin \in Int, NEW length \in Nat \ {0}, from <= begin, begin + length <= to,
           begin < d.horizon, StoredAt(d, begin) + d.power * length <= d.maximum
    PROVE  LET missing == d.discharge * d.horizon - d.available - (d.power + d.discharge) * n
           IN /\ n > 0
              /\ Uncovered(d, begin, length) >= missing
              /\ Uncovered(d, begin, length) = missing => begin <= Begins(d, to, n)
<1> DEFINE P == d.power
           D == d.discharge
           S == d.power + d.discharge
           used == d.discharge * begin
           got == d.power * length
           spent == d.discharge * length
           all == d.discharge * d.horizon
           a == d.available
           top == d.maximum
           upTo == d.discharge * to
           first == d.discharge * from
           s == S * length
           sn == S * n
           u == Uncovered(d, begin, length)
           late == Begins(d, to, n)
<1>1. /\ D \in Nat \ {0} /\ P \in Nat \ {0} /\ S \in Nat \ {0} /\ d.horizon \in Nat
  BY DemandIsWhole
<1>2. /\ used \in Int /\ got \in Int /\ spent \in Int /\ all \in Int /\ s = got + spent
      /\ a \in Nat /\ top \in Nat
  <2>1. length \in Int
    OBVIOUS
  <2> QED BY <2>1, Products
<1>3. /\ D * q = sn /\ sn <= all - a /\ n <= to - from /\ P * n <= top /\ sn <= upTo + top - a
      /\ sn <= D * (d.horizon - from)
      /\ \/ sn = all - a \/ n = to - from \/ P * n = top \/ sn = upTo + top - a
         \/ sn = D * (d.horizon - from)
  BY DEF FillsWindow
<1>4. D * (d.horizon - from) = all - first /\ first \in Int /\ upTo \in Int /\ sn \in Int
  BY <1>1
<1>5. first <= used /\ (first = used <=> begin = from) /\ used < all
  <2>1. first <= used /\ (from = begin <=> first = used)
    BY <1>1, Scaled
  <2>2. used < all
    BY <1>1, Scaled
  <2> QED BY <2>1, <2>2
<1>6. D * (begin + length) = used + spent
  BY <1>1
<1>7. used + spent <= upTo
  <2>1. begin + length \in Int
    OBVIOUS
  <2>2. D * (begin + length) <= D * to
    BY <1>1, <2>1, Scaled
  <2> QED BY <1>6, <2>2
<1>8. u \in Nat /\ u >= used - a /\ u >= all - a - s
  BY UncoveredIs
<1>9. all - a > 0
  <2>1. Required(d) = AtLeast0(all - a)
    BY DEF Required
  <2> QED BY <1>2, <2>1 DEF AtLeast0
<1>10. /\ late \in {to - n, d.horizon - q} /\ late \in Int /\ from <= late
       /\ late <= to - n /\ late <= d.horizon - q
  BY BeginsLate
<1>11. StoredAt(d, begin) = AtLeast0(a - used)
  BY DEF StoredAt
<1>12. AtLeast0(a - used) + got <= top
  BY <1>11
<1>13. spent > 0 /\ got > 0
  <2>1. D * 0 < D * length /\ P * 0 < P * length
    BY <1>1, Scaled
  <2> QED BY <1>1, <2>1
<1>14. s <= upTo + top - a
  <2>1. (a - used) + got <= top
    BY <1>2, <1>12 DEF AtLeast0
  <2> HIDE DEF used, got, spent, all, a, top, upTo, s
  <2> QED BY <1>2, <1>4, <1>7, <2>1
<1>15. P * n = top => length <= n
  <2>1. got <= top
    BY <1>2, <1>12 DEF AtLeast0
  <2> QED BY <1>1, <2>1, Scaled
<1>16. (length <= n <=> s <= sn) /\ (length = n <=> s = sn) /\ (0 < n <=> 0 < sn)
  <2> HIDE DEF S
  <2>1. length \in Int /\ S * 0 = 0 /\ S \in Nat \ {0}
    BY <1>1
  <2>2. (length <= n <=> s <= sn) /\ (length = n <=> s = sn)
    BY <2>1, Scaled
  <2>3. 0 < n <=> S * 0 < sn
    BY <2>1, Scaled
  <2> QED BY <2>1, <2>2, <2>3
<1>17. d.horizon - q >= begin <=> all - sn >= used
  <2>1. D * (d.horizon - q) = all - sn
    BY <1>1, <1>3
  <2> QED BY <1>1, <2>1, Scaled
<1> HIDE DEF P, D, S, used, got, spent, all, a, top, upTo, first, s, sn, u, late
\* As late as the charge itself, if nothing is longer.
<1>18. ASSUME length <= n
       PROVE  n > 0 /\ u >= all - a - sn /\ (u = all - a - sn => begin <= late)
  <2>1. n > 0
    BY <1>18
  <2>2. s <= sn
    BY <1>16, <1>18
  <2>3. u >= all - a - sn
    BY <1>2, <1>4, <1>8, <2>2
  <2>4. ASSUME u = all - a - sn PROVE begin <= late
    <3>1. s = sn
      BY <1>2, <1>4, <1>8, <2>2, <2>4
    <3>2. length = n
      BY <1>16, <3>1
    <3>3. begin <= to - n
      BY <3>2
    <3>4. all - sn >= used
      BY <1>2, <1>4, <1>8, <2>4
    <3>5. d.horizon - q >= begin
      BY <1>17, <3>4
    <3> QED BY <1>10, <3>3, <3>5
  <2> QED BY <2>1, <2>3, <2>4
<1>19. CASE length <= n
  BY <1>18, <1>19 DEF u, all, a, sn, S, late
<1>20. CASE ~(length <= n)
  <2>1. sn < s
    BY <1>2, <1>4, <1>16, <1>20
  <2>2. sn = all - a \/ sn = all - first
    <3>1. n # to - from
      BY <1>20
    <3>2. P * n # top
      BY <1>15, <1>20
    <3>3. sn # upTo + top - a
      BY <1>2, <1>4, <1>14, <2>1
    <3> QED BY <1>3, <1>4, <3>1, <3>2, <3>3
  <2>3. CASE sn = all - a
    <3>1. n > 0
      BY <1>2, <1>9, <1>16, <2>3
    <3>2. u >= all - a - sn
      BY <1>2, <1>8, <2>3
    <3>3. ASSUME u = all - a - sn PROVE begin <= late
      <4>1. used <= a
        BY <1>2, <1>8, <2>3, <3>3
      <4>2. d.horizon - q >= begin
        BY <1>2, <1>17, <2>3, <4>1
      <4>3. begin <= to - n
        BY <1>20
      <4> QED BY <1>10, <4>2, <4>3
    <3> QED BY <3>1, <3>2, <3>3 DEF u, all, a, sn, S, late
  <2>4. CASE sn = all - first
    <3>1. n > 0
      BY <1>2, <1>4, <1>5, <1>16, <2>4
    <3>2. u >= all - a - sn
      BY <1>2, <1>4, <1>5, <1>8, <2>4
    <3>3. ASSUME u = all - a - sn PROVE begin <= late
      <4>1. used = first
        BY <1>2, <1>4, <1>5, <1>8, <2>4, <3>3
      <4> QED BY <1>5, <1>10, <4>1
    <3> QED BY <3>1, <3>2, <3>3 DEF u, all, a, sn, S, late
  <2> QED BY <2>2, <2>3, <2>4
<1> QED BY <1>19, <1>20

-----------------------------------------------------------------------------
(* What is permitted is one merged window                                   *)

From(w) == AtLeast0(w[1] * Hour)
To(d, w) == Smallest({d.horizon, w[2] * Hour})

\* A tick is in its hour.
LEMMA HourOf ==
    ASSUME NEW n \in Int
    PROVE  /\ n \div Hour \in Int
           /\ \A k \in Int : k <= n \div Hour <=> k * Hour <= n
           /\ \A k \in Int : n \div Hour < k <=> n < k * Hour
<1>1. Hour \in Nat \ {0}
  BY PlanAssumption
<1> DEFINE t == n \div Hour
<1>2. t \in Int /\ Hour * t <= n /\ n < Hour * t + Hour
  BY <1>1, Quotients
<1> HIDE DEF t
<1>3. Hour * (t + 1) = Hour * t + Hour /\ Hour * t \in Int
  BY <1>1, <1>2
<1>4. ASSUME NEW k \in Int PROVE (k <= t <=> k * Hour <= n) /\ (t < k <=> n < k * Hour)
  <2> DEFINE p == Hour * k
             r == Hour * t
             s == Hour * (t + 1)
  <2>1. /\ (k <= t <=> p <= r) /\ p \in Int /\ r \in Int
    BY <1>1, <1>2, Scaled
  <2>2. t + 1 \in Int
    BY <1>2
  <2>3. (t + 1 <= k <=> s <= p) /\ s \in Int
    BY <1>1, <2>2, Scaled
  <2>4. k * Hour = p
    BY <1>1
  <2>5. r <= n /\ n < s
    BY <1>2, <1>3
  <2> HIDE DEF p, r, s
  <2>6. (k <= t <=> p <= n) /\ (t < k <=> n < p)
    BY <1>2, <2>1, <2>3, <2>5
  <2> QED BY <2>4, <2>6
<1> QED BY <1>2, <1>4 DEF t

\* What a merged window is made of.
LEMMA MergedOf ==
    ASSUME NEW d \in Demands, NEW w \in MergedOffers(d.offers)
    PROVE  /\ w[1] \in Int /\ w[2] \in Int /\ w[3] \in Nat
           /\ \A n \in Int : w[1] <= n /\ n < w[2] => IsOpenAt(d.offers, w[3], n)
<1>1. PICK r \in d.offers \X d.offers :
          AreMerged(d.offers, r[1], r[2]) /\ w = <<r[1].begin, r[2].end, r[1].price>>
  BY DEF MergedOffers
<1>2. r[1] \in Offers /\ r[2] \in Offers
  BY DemandIsWhole
<1>3. r[1].begin \in Int /\ r[2].end \in Int /\ r[1].price \in Nat
  BY <1>2, PlanAssumption
<1>4. w[1] = r[1].begin /\ w[2] = r[2].end /\ w[3] = r[1].price
  BY <1>1
<1>5. \A n \in r[1].begin..(r[2].end - 1) : IsOpenAt(d.offers, r[1].price, n)
  BY <1>1 DEF AreMerged
<1>6. ASSUME NEW n \in Int, w[1] <= n, n < w[2]
      PROVE  IsOpenAt(d.offers, w[3], n)
  <2>1. n \in r[1].begin..(r[2].end - 1)
    BY <1>3, <1>4, <1>6
  <2> QED BY <1>4, <1>5, <2>1
<1> QED BY <1>3, <1>4, <1>6

\* From its first tick to its last a window is permitted, from now until PV.
LEMMA WindowIsPermitted ==
    ASSUME NEW d \in Demands, NEW w \in MergedOffers(d.offers)
    PROVE  /\ From(w) \in Nat /\ IsHours(From(w)) /\ To(d, w) \in Int /\ IsHours(To(d, w))
           /\ To(d, w) <= d.horizon
           /\ \A n \in Int : From(w) <= n /\ n < To(d, w) =>
                \E o \in d.offers : o.price = w[3] /\ o.begin * Hour <= n /\ n < o.end * Hour
<1>1. Hour \in Nat \ {0} /\ d.horizon \in Nat /\ IsHours(d.horizon)
  BY DemandIsWhole, PlanAssumption
<1>2. w[1] \in Int /\ w[2] \in Int
  BY MergedOf
<1> DEFINE f == w[1] * Hour
           t == w[2] * Hour
<1>3. f \in Int /\ t \in Int /\ IsHours(f) /\ IsHours(t) /\ IsHours(0)
  <2>1. f \in Int /\ t \in Int
    BY <1>1, <1>2
  <2>2. IsHours(f) /\ IsHours(t)
    BY <1>2 DEF IsHours
  <2>3. 0 = 0 * Hour
    BY <1>1
  <2> QED BY <2>1, <2>2, <2>3 DEF IsHours
<1>4. From(w) = AtLeast0(f) /\ To(d, w) = Smallest({d.horizon, t})
  BY DEF From, To
<1> HIDE DEF f, t
<1>5. From(w) \in Nat /\ From(w) >= f /\ From(w) \in {0, f}
  BY <1>3, <1>4 DEF AtLeast0
<1>6. To(d, w) \in {d.horizon, t} /\ To(d, w) <= d.horizon /\ To(d, w) <= t
  <2> DEFINE h == d.horizon
  <2>1. h \in Int
    BY <1>1
  <2> HIDE DEF h
  <2>2. LET n == Smallest({h, t}) IN n \in {h, t} /\ n <= h /\ n <= t
    BY <1>3, <2>1, SmallestOfTwo
  <2> QED BY <1>4, <2>2 DEF h
<1>7. IsHours(From(w)) /\ IsHours(To(d, w)) /\ To(d, w) \in Int
  BY <1>1, <1>3, <1>5, <1>6
<1>8. ASSUME NEW n \in Int, From(w) <= n, n < To(d, w)
      PROVE  \E o \in d.offers : o.price = w[3] /\ o.begin * Hour <= n /\ n < o.end * Hour
  <2> DEFINE k == n \div Hour
  <2>1. f <= n /\ n < t
    BY <1>3, <1>5, <1>6, <1>7, <1>8
  <2>2. k \in Int /\ w[1] <= k /\ k < w[2]
    BY <1>2, <2>1, HourOf DEF f, t
  <2>3. IsOpenAt(d.offers, w[3], k)
    BY <2>2, MergedOf
  <2>4. PICK o \in d.offers : o.price = w[3] /\ o.begin <= k /\ k < o.end
    BY <2>3 DEF IsOpenAt
  <2>5. o.begin \in Int /\ o.end \in Int
    BY DemandIsWhole, PlanAssumption
  <2>6. o.begin * Hour <= n /\ n < o.end * Hour
    BY <2>4, <2>5, HourOf
  <2> QED BY <2>4, <2>6
<1> QED BY <1>5, <1>6, <1>7, <1>8

\* The hours of one price that are open in a row up to one of them begin with a
\* window before which it is closed, and those from it on end with one.
LEMMA OpenSince ==
    ASSUME NEW S, IsFiniteSet(S), \A o \in S : o.begin \in Int /\ o.end \in Int,
           NEW price, NEW i \in Int, IsOpenAt(S, price, i)
    PROVE  \E a \in S : /\ a.price = price /\ a.begin <= i
                        /\ \A n \in a.begin..i : IsOpenAt(S, price, n)
                        /\ ~IsOpenAt(S, price, a.begin - 1)
<1> DEFINE Since == {o \in S : /\ o.price = price /\ o.begin <= i
                               /\ \A n \in o.begin..i : IsOpenAt(S, price, n)}
           f == [o \in S |-> o.begin]
<1>1. PICK first \in S : first.price = price /\ first.begin <= i /\ i < first.end
  BY DEF IsOpenAt
<1>2. first \in Since
  <2>1. ASSUME NEW n \in first.begin..i PROVE IsOpenAt(S, price, n)
    <3>1. first.begin <= n /\ n < first.end
      BY <1>1
    <3> QED BY <1>1, <3>1 DEF IsOpenAt
  <2> QED BY <1>1, <2>1
<1>3. IsFiniteSet(Since)
  BY FS_Subset
<1>4. \A o \in Since : f[o] \in Int
  OBVIOUS
<1>5. \E a \in Since : \A o \in Since : f[a] <= f[o]
  <2> HIDE DEF Since, f
  <2> QED BY <1>2, <1>3, <1>4, FiniteLeast
<1>6. PICK a \in Since : \A o \in Since : a.begin <= o.begin
  BY <1>5
<1>7. ASSUME IsOpenAt(S, price, a.begin - 1) PROVE FALSE
  <2>1. PICK o \in S : o.price = price /\ o.begin <= a.begin - 1 /\ a.begin - 1 < o.end
    BY <1>7 DEF IsOpenAt
  <2>2. a.begin \in Int /\ o.begin \in Int /\ o.end \in Int
    OBVIOUS
  <2>3. ASSUME NEW n \in o.begin..i PROVE IsOpenAt(S, price, n)
    <3>1. CASE n >= a.begin
      <4>1. n \in a.begin..i
        BY <2>2, <3>1
      <4> QED BY <4>1
    <3>2. CASE n < a.begin
      <4>1. o.begin <= n /\ n < o.end
        BY <2>1, <2>2, <3>2
      <4> QED BY <2>1, <4>1 DEF IsOpenAt
    <3> QED BY <2>2, <3>1, <3>2
  <2>4. o.begin <= i
    BY <2>1, <2>2
  <2>5. o \in Since
    BY <2>1, <2>3, <2>4
  <2>6. a.begin <= o.begin
    BY <1>6, <2>5
  <2> QED BY <2>1, <2>2, <2>6
<1> QED BY <1>7

LEMMA OpenUntil ==
    ASSUME NEW S, IsFiniteSet(S), \A o \in S : o.begin \in Int /\ o.end \in Int,
           NEW price, NEW j \in Int, IsOpenAt(S, price, j)
    PROVE  \E z \in S : /\ z.price = price /\ j < z.end
                        /\ \A n \in j..(z.end - 1) : IsOpenAt(S, price, n)
                        /\ ~IsOpenAt(S, price, z.end)
<1> DEFINE Until == {o \in S : /\ o.price = price /\ j < o.end
                               /\ \A n \in j..(o.end - 1) : IsOpenAt(S, price, n)}
           f == [o \in S |-> -o.end]
<1>1. PICK upTo \in S : upTo.price = price /\ upTo.begin <= j /\ j < upTo.end
  BY DEF IsOpenAt
<1>2. upTo \in Until
  <2>1. ASSUME NEW n \in j..(upTo.end - 1) PROVE IsOpenAt(S, price, n)
    <3>1. upTo.begin <= n /\ n < upTo.end
      BY <1>1
    <3> QED BY <1>1, <3>1 DEF IsOpenAt
  <2> QED BY <1>1, <2>1
<1>3. IsFiniteSet(Until)
  BY FS_Subset
<1>4. \A o \in Until : f[o] \in Int
  OBVIOUS
<1>5. \E z \in Until : \A o \in Until : f[z] <= f[o]
  <2> HIDE DEF Until, f
  <2> QED BY <1>2, <1>3, <1>4, FiniteLeast
<1>6. PICK z \in Until : \A o \in Until : f[z] <= f[o]
  BY <1>5
<1>7. ASSUME IsOpenAt(S, price, z.end) PROVE FALSE
  <2>1. PICK o \in S : o.price = price /\ o.begin <= z.end /\ z.end < o.end
    BY <1>7 DEF IsOpenAt
  <2>2. z.end \in Int /\ o.begin \in Int /\ o.end \in Int /\ z.end > j
    OBVIOUS
  <2>3. ASSUME NEW n \in j..(o.end - 1) PROVE IsOpenAt(S, price, n)
    <3>1. CASE n < z.end
      <4>1. n \in j..(z.end - 1)
        BY <2>2, <3>1
      <4> QED BY <4>1
    <3>2. CASE n >= z.end
      <4>1. o.begin <= n /\ n < o.end
        BY <2>1, <2>2, <3>2
      <4> QED BY <2>1, <4>1 DEF IsOpenAt
    <3> QED BY <2>2, <3>1, <3>2
  <2>4. j < o.end
    BY <2>1, <2>2
  <2>5. o \in Until
    BY <2>1, <2>3, <2>4
  <2>6. f[z] <= f[o] /\ f[z] = -z.end /\ f[o] = -o.end
    BY <1>6, <2>5
  <2> HIDE DEF f
  <2> QED BY <2>1, <2>2, <2>6
<1> QED BY <1>7

\* What is permitted without a gap lies in one window.
LEMMA PermittedIsMerged ==
    ASSUME NEW d \in Demands, NEW begin \in Nat, NEW length \in Nat \ {0}, NEW price,
           begin + length <= d.horizon, IsPermitted(d, begin, length, price)
    PROVE  \E w \in MergedOffers(d.offers) :
              w[3] = price /\ From(w) <= begin /\ begin + length <= To(d, w)
<1> DEFINE final == begin + length - 1
           i == begin \div Hour
           j == final \div Hour
<1>1. begin \in Int /\ final \in Int /\ begin <= final
  OBVIOUS
<1>2. /\ i \in Int /\ \A k \in Int : k <= i <=> k * Hour <= begin
      /\ \A k \in Int : i < k <=> begin < k * Hour
  BY <1>1, HourOf
<1>3. /\ j \in Int /\ \A k \in Int : k <= j <=> k * Hour <= final
      /\ \A k \in Int : j < k <=> final < k * Hour
  <2> HIDE DEF final
  <2> QED BY <1>1, HourOf
<1>4. Hour \in Nat \ {0}
  BY PlanAssumption
<1>5. \A o \in d.offers : o.begin \in Int /\ o.end \in Int
  BY DemandIsWhole, PlanAssumption
<1>6. IsFiniteSet(d.offers) /\ d.horizon \in Int
  BY DemandIsWhole
<1>7. \A n \in begin..final :
          \E o \in d.offers : o.price = price /\ o.begin * Hour <= n /\ n < o.end * Hour
  BY DEF IsPermitted
<1> HIDE DEF i, j, final
<1>8. i <= j
  <2>1. i * Hour <= begin
    BY <1>2
  <2>2. i * Hour \in Int
    BY <1>2, <1>4
  <2>3. i * Hour <= final
    BY <1>1, <2>1, <2>2
  <2> QED BY <1>2, <1>3, <2>3
<1>9. ASSUME NEW k \in i..j PROVE IsOpenAt(d.offers, price, k)
  <2>1. \E n \in begin..final : n \div Hour = k
    <3>1. CASE k = i
      <4>1. begin \in begin..final
        BY <1>1
      <4> QED BY <3>1, <4>1 DEF i
    <3>2. CASE k # i
      <4>1. i < k /\ k \in Int /\ k <= j
        BY <1>2, <1>3, <3>2
      <4>2. begin < k * Hour /\ k * Hour <= final
        BY <1>2, <1>3, <4>1
      <4> DEFINE n == k * Hour
      <4>3. n \in Int /\ n = Hour * k
        BY <1>4, <4>1
      <4> HIDE DEF n
      <4>4. n \div Hour = k
        BY <1>4, <4>1, <4>3, MultipleOver
      <4>5. n \in begin..final
        BY <1>1, <4>2, <4>3 DEF n
      <4> QED BY <4>4, <4>5
    <3> QED BY <3>1, <3>2
  <2>2. PICK n \in begin..final : n \div Hour = k
    BY <2>1
  <2>3. n \in Int
    BY <1>1
  <2>4. PICK o \in d.offers : o.price = price /\ o.begin * Hour <= n /\ n < o.end * Hour
    BY <1>7
  <2>5. o.begin <= k /\ k < o.end
    BY <1>5, <2>2, <2>3, <2>4, HourOf
  <2> QED BY <2>4, <2>5 DEF IsOpenAt
<1>10. PICK a \in d.offers : /\ a.price = price /\ a.begin <= i
                             /\ \A n \in a.begin..i : IsOpenAt(d.offers, price, n)
                             /\ ~IsOpenAt(d.offers, price, a.begin - 1)
  <2>1. IsOpenAt(d.offers, price, i)
    BY <1>2, <1>3, <1>8, <1>9
  <2> QED BY <1>2, <1>5, <1>6, <2>1, OpenSince
<1>11. PICK z \in d.offers : /\ z.price = price /\ j < z.end
                             /\ \A n \in j..(z.end - 1) : IsOpenAt(d.offers, price, n)
                             /\ ~IsOpenAt(d.offers, price, z.end)
  <2>1. IsOpenAt(d.offers, price, j)
    BY <1>2, <1>3, <1>8, <1>9
  <2> QED BY <1>3, <1>5, <1>6, <2>1, OpenUntil
<1>12. a.begin \in Int /\ z.end \in Int
  BY <1>5
<1>13. ASSUME NEW n \in a.begin..(z.end - 1) PROVE IsOpenAt(d.offers, price, n)
  <2>1. n \in Int /\ (n <= i \/ (i <= n /\ n <= j) \/ j <= n)
    BY <1>2, <1>3, <1>12
  <2>2. n <= i => n \in a.begin..i
    BY <1>2, <1>12
  <2>3. i <= n /\ n <= j => n \in i..j
    BY <2>1
  <2>4. j <= n => n \in j..(z.end - 1)
    BY <1>3, <1>12
  <2> QED BY <1>9, <1>10, <1>11, <2>1, <2>2, <2>3, <2>4
<1>14. AreMerged(d.offers, a, z)
  <2>1. a.begin < z.end
    BY <1>2, <1>3, <1>8, <1>10, <1>11, <1>12
  <2> QED BY <1>10, <1>11, <1>13, <2>1 DEF AreMerged
<1> DEFINE w == <<a.begin, z.end, price>>
<1>15. w \in MergedOffers(d.offers)
  <2> DEFINE r == <<a, z>>
  <2>1. r \in d.offers \X d.offers /\ r[1] = a /\ r[2] = z
    OBVIOUS
  <2>2. w = <<r[1].begin, r[2].end, r[1].price>>
    BY <1>10, <2>1
  <2>3. AreMerged(d.offers, r[1], r[2])
    BY <1>14, <2>1
  <2> HIDE DEF w, r
  <2> QED BY <2>1, <2>2, <2>3 DEF MergedOffers
<1>16. From(w) <= begin
  <2>1. a.begin * Hour <= begin
    BY <1>2, <1>10, <1>12
  <2>2. From(w) = AtLeast0(a.begin * Hour)
    BY DEF From
  <2>3. a.begin * Hour \in Int
    BY <1>4, <1>12
  <2> QED BY <2>1, <2>2, <2>3 DEF AtLeast0
<1>17. begin + length <= To(d, w)
  <2> DEFINE t == z.end * Hour
  <2>1. final < t /\ t \in Int
    BY <1>3, <1>4, <1>11, <1>12
  <2>2. To(d, w) = Smallest({d.horizon, t})
    BY DEF To
  <2> HIDE DEF t
  <2>3. To(d, w) \in {d.horizon, t}
    BY <1>6, <2>1, <2>2, SmallestOfTwo
  <2> QED BY <1>6, <2>1, <2>3 DEF final
<1>18. w[3] = price
  OBVIOUS
<1> QED BY <1>15, <1>16, <1>17, <1>18

-----------------------------------------------------------------------------
(* The candidate of a window, and the best of them                          *)

LengthIn(d, w) ==
    IF From(w) < To(d, w) THEN Smallest(LengthBounds(d, From(w), To(d, w))) ELSE 0
CandidateOf(d, w) ==
    [begin |-> Begins(d, To(d, w), LengthIn(d, w)), length |-> LengthIn(d, w), price |-> w[3],
     missing |-> AtLeast0(Required(d) - (d.power + d.discharge) * LengthIn(d, w))]

LEMMA CandidatesAre ==
    ASSUME NEW d
    PROVE  BridgeCandidates(d)
             = {c \in {CandidateOf(d, w) : w \in MergedOffers(d.offers)} : c.length > 0}
BY DEF BridgeCandidates, CandidateOf, LengthIn, From, To

LEMMA RequiredIs ==
    ASSUME NEW d \in Demands
    PROVE  /\ Required(d) \in Nat
           /\ Required(d) > 0 => Required(d) = d.discharge * d.horizon - d.available
<1> DEFINE r == d.discharge * d.horizon
           a == d.available
<1>1. r \in Int /\ a \in Int
  BY DemandIsWhole
<1>2. Required(d) = AtLeast0(r - a)
  BY DEF Required
<1> HIDE DEF r, a
<1>3. Required(d) \in Nat /\ (Required(d) > 0 => Required(d) = r - a)
  BY <1>1, <1>2 DEF AtLeast0
<1> QED BY <1>3 DEF r, a

\* What a window's charge leaves.
LEMMA MissingIs ==
    ASSUME NEW d \in Demands, Required(d) > 0, NEW w \in MergedOffers(d.offers),
           From(w) < To(d, w)
    PROVE  /\ CandidateOf(d, w).missing \in Nat
           /\ CandidateOf(d, w).missing
                = d.discharge * d.horizon - d.available
                  - (d.power + d.discharge) * LengthIn(d, w)
           /\ LengthIn(d, w) = Smallest(LengthBounds(d, From(w), To(d, w)))
           /\ LengthIn(d, w) \in Int
           /\ \E q \in Int : FillsWindow(d, From(w), To(d, w), LengthIn(d, w), q)
<1> DEFINE n == LengthIn(d, w)
           s == (d.power + d.discharge) * n
           r == d.discharge * d.horizon
           a == d.available
<1>1. From(w) \in Int /\ To(d, w) \in Int /\ IsHours(From(w)) /\ IsHours(To(d, w))
  BY WindowIsPermitted
<1>2. n = Smallest(LengthBounds(d, From(w), To(d, w)))
  BY DEF LengthIn
<1>3. PICK q \in Int : FillsWindow(d, From(w), To(d, w), n, q)
  BY <1>1, <1>2, LengthFills
<1>4. n \in Int /\ s <= r - a
  BY <1>3 DEF FillsWindow
<1>5. s \in Int /\ r \in Int /\ a \in Int
  BY <1>4, DemandIsWhole
<1>6. Required(d) = r - a
  BY RequiredIs
<1>7. CandidateOf(d, w).missing = AtLeast0(Required(d) - s)
  BY DEF CandidateOf
<1> HIDE DEF s, r, a
<1>8. CandidateOf(d, w).missing \in Nat /\ CandidateOf(d, w).missing = r - a - s
  <2> DEFINE m == CandidateOf(d, w).missing
  <2>1. m = AtLeast0((r - a) - s)
    BY <1>6, <1>7
  <2> HIDE DEF m
  <2>2. m \in Nat /\ m = r - a - s
    BY <1>4, <1>5, <2>1 DEF AtLeast0
  <2> QED BY <2>2 DEF m
<1> QED BY <1>2, <1>3, <1>4, <1>8 DEF s, r, a

\* The charge of a window is possible and leaves what it says.
LEMMA CandidateFits ==
    ASSUME NEW d \in Demands, Required(d) > 0, NEW w \in MergedOffers(d.offers),
           LengthIn(d, w) > 0
    PROVE  LET c == CandidateOf(d, w)
           IN /\ c.begin \in Nat /\ c.length \in Nat \ {0} /\ c.price \in Nat /\ c.missing \in Nat
              /\ c.begin < d.horizon
              /\ IsFeasible(d, c.begin, c.length, c.price)
              /\ Uncovered(d, c.begin, c.length) = c.missing
              /\ LeftAtPv(d, c.begin, c.length) = 0
<1> DEFINE f == From(w)
           t == To(d, w)
           n == LengthIn(d, w)
           b == Begins(d, t, n)
           c == CandidateOf(d, w)
<1>1. f < t
  BY DEF LengthIn
<1>2. f \in Nat /\ t \in Int /\ t <= d.horizon /\ d.horizon \in Nat
  BY WindowIsPermitted, DemandIsWhole
<1>3. /\ c.missing \in Nat /\ n \in Int /\ n > 0
      /\ c.missing = d.discharge * d.horizon - d.available - (d.power + d.discharge) * n
  BY <1>1, MissingIs
<1>4. PICK q \in Int : FillsWindow(d, f, t, n, q)
  BY <1>1, MissingIs
<1>5. c.begin = b /\ c.length = n /\ c.price = w[3]
  BY DEF CandidateOf
<1>6. n \in Nat \ {0} /\ n \in Nat /\ f \in Int
  BY <1>2, <1>3
<1>7. b \in Int /\ b <= t - n /\ f <= b
  <2> HIDE DEF f, t, n
  <2>1. LET x == Begins(d, t, n) IN x \in Int /\ x <= t - n /\ f <= x
    BY <1>2, <1>4, <1>6, BeginsLate
  <2> QED BY <2>1
<1>8. /\ StoredAt(d, b) + d.power * n <= d.maximum
      /\ Uncovered(d, b, n)
           = d.discharge * d.horizon - d.available - (d.power + d.discharge) * n
      /\ LeftAtPv(d, b, n) = 0
  <2> HIDE DEF f, t, n
  <2> QED BY <1>2, <1>4, <1>6, ChargeFits
<1>9. w[3] \in Nat
  BY MergedOf
<1>10. IsPermitted(d, b, n, w[3])
  <2> SUFFICES ASSUME NEW k \in b..(b + n - 1)
               PROVE  \E o \in d.offers : o.price = w[3] /\ o.begin * Hour <= k /\ k < o.end * Hour
    BY DEF IsPermitted
  <2> HIDE DEF f, t, n, b
  <2>1. k \in Int /\ f <= k /\ k < t
    BY <1>2, <1>6, <1>7
  <2> QED BY <2>1, WindowIsPermitted DEF f, t
<1> HIDE DEF f, t, n, b, c
<1>11. b \in Nat /\ b + n <= d.horizon /\ b < d.horizon
  BY <1>2, <1>6, <1>7
<1>12. IsFeasible(d, b, n, w[3])
  BY <1>8, <1>10, <1>11 DEF IsFeasible
<1>13. Uncovered(d, b, n) = c.missing
  BY <1>3, <1>8
<1>14. /\ c.begin \in Nat /\ c.length \in Nat \ {0} /\ c.price \in Nat /\ c.begin < d.horizon
  BY <1>5, <1>6, <1>9, <1>11
<1> QED BY <1>3, <1>5, <1>8, <1>12, <1>13, <1>14 DEF c

\* For every charge there could be, its window has one at least as good.
LEMMA CandidateAsGood ==
    ASSUME NEW d \in Demands, Required(d) > 0, NEW begin \in Nat, NEW length \in Nat \ {0},
           NEW price, IsFeasible(d, begin, length, price)
    PROVE  \E e \in BridgeCandidates(d) :
              /\ e.price = price
              /\ Uncovered(d, begin, length) >= e.missing
              /\ Uncovered(d, begin, length) = e.missing => begin <= e.begin
<1>1. /\ begin + length <= d.horizon /\ IsPermitted(d, begin, length, price)
      /\ StoredAt(d, begin) + d.power * length <= d.maximum
  BY DEF IsFeasible
<1>2. PICK w \in MergedOffers(d.offers) :
          w[3] = price /\ From(w) <= begin /\ begin + length <= To(d, w)
  BY <1>1, PermittedIsMerged
<1> DEFINE f == From(w)
           t == To(d, w)
           n == LengthIn(d, w)
           e == CandidateOf(d, w)
<1>3. f \in Int /\ t \in Int /\ d.horizon \in Nat
  BY WindowIsPermitted, DemandIsWhole
<1>4. f < t /\ begin < d.horizon
  <2> HIDE DEF f, t
  <2>1. f <= begin /\ begin + length <= t
    BY <1>2 DEF f, t
  <2> QED BY <1>1, <1>3, <2>1
<1>5. /\ n \in Int
      /\ e.missing = d.discharge * d.horizon - d.available - (d.power + d.discharge) * n
  BY <1>4, MissingIs
<1>6. PICK q \in Int : FillsWindow(d, f, t, n, q)
  BY <1>4, MissingIs
<1>7. LET missing == d.discharge * d.horizon - d.available - (d.power + d.discharge) * n
      IN /\ n > 0
         /\ Uncovered(d, begin, length) >= missing
         /\ Uncovered(d, begin, length) = missing => begin <= Begins(d, t, n)
  <2>1. f <= begin /\ begin + length <= t /\ begin \in Int
    BY <1>2
  <2> HIDE DEF f, t, n
  <2> QED BY <1>1, <1>3, <1>4, <1>5, <1>6, <2>1, NoneBetter
<1>8. e.begin = Begins(d, t, n) /\ e.length = n /\ e.price = price
  BY <1>2 DEF CandidateOf
<1>9. e \in BridgeCandidates(d)
  <2>1. e \in {CandidateOf(d, x) : x \in MergedOffers(d.offers)}
    OBVIOUS
  <2>2. e.length > 0
    BY <1>7, <1>8
  <2> HIDE DEF e
  <2> QED BY <2>1, <2>2, CandidatesAre
<1> HIDE DEF e, n, t, f
<1> QED BY <1>5, <1>7, <1>8, <1>9

LEMMA CandidatesFit ==
    ASSUME NEW d \in Demands, Required(d) > 0, NEW c \in BridgeCandidates(d)
    PROVE  /\ c.begin \in Nat /\ c.length \in Nat \ {0} /\ c.price \in Nat /\ c.missing \in Nat
           /\ c.begin < d.horizon
           /\ IsFeasible(d, c.begin, c.length, c.price)
           /\ Uncovered(d, c.begin, c.length) = c.missing
           /\ LeftAtPv(d, c.begin, c.length) = 0
<1>1. PICK w \in MergedOffers(d.offers) : c = CandidateOf(d, w)
  BY CandidatesAre
<1>2. c.length > 0
  BY CandidatesAre
<1>3. LengthIn(d, w) > 0
  BY <1>1, <1>2 DEF CandidateOf
<1> QED BY <1>1, <1>3, CandidateFits

\* Of the candidates, one is preferred.
LEMMA OneIsPreferred ==
    ASSUME NEW d \in Demands, Required(d) > 0, BridgeCandidates(d) # {}
    PROVE  \E c \in BridgeCandidates(d) : \A e \in BridgeCandidates(d) : IsPreferred(c, e)
<1> DEFINE C == BridgeCandidates(d)
<1>1. \A c \in C : c.missing \in Nat /\ c.price \in Nat /\ d.horizon - c.begin \in Nat
                   /\ c.begin \in Int
  <2> TAKE c \in C
  <2>1. /\ c.begin \in Nat /\ c.price \in Nat /\ c.missing \in Nat /\ c.begin < d.horizon
    BY CandidatesFit
  <2>2. d.horizon \in Nat
    BY DemandIsWhole
  <2> QED BY <2>1, <2>2
<1>2. d.horizon \in Int /\ C # {}
  BY DemandIsWhole
<1> HIDE DEF C
<1>3. PICK m \in {c.missing : c \in C} : \A k \in {c.missing : c \in C} : m <= k
  <2>1. {c.missing : c \in C} \in SUBSET Nat /\ {c.missing : c \in C} # {}
    BY <1>1, <1>2
  <2> QED BY <2>1, LeastNatural
<1> DEFINE Least == {c \in C : c.missing = m}
<1>4. PICK p \in {c.price : c \in Least} : \A k \in {c.price : c \in Least} : p <= k
  <2>1. {c.price : c \in Least} \in SUBSET Nat /\ {c.price : c \in Least} # {}
    BY <1>1, <1>3
  <2> QED BY <2>1, LeastNatural
<1> DEFINE Cheap == {c \in Least : c.price = p}
<1>5. PICK r \in {d.horizon - c.begin : c \in Cheap} :
          \A k \in {d.horizon - c.begin : c \in Cheap} : r <= k
  <2>1. {d.horizon - c.begin : c \in Cheap} \in SUBSET Nat
    BY <1>1
  <2>2. {d.horizon - c.begin : c \in Cheap} # {}
    BY <1>4
  <2> QED BY <2>1, <2>2, LeastNatural
<1>6. PICK c \in Cheap : r = d.horizon - c.begin
  BY <1>5
<1>7. ASSUME NEW e \in C PROVE IsPreferred(c, e)
  <2>1. /\ c.missing \in Nat /\ e.missing \in Nat /\ c.price \in Nat /\ e.price \in Nat
        /\ c.begin \in Int /\ e.begin \in Int /\ c.missing = m /\ c.price = p
    BY <1>1, <1>6
  <2>2. m <= e.missing
    BY <1>3
  <2>3. CASE e.missing # m
    BY <2>1, <2>2, <2>3 DEF IsPreferred
  <2>4. CASE e.missing = m
    <3>1. p <= e.price
      BY <1>4, <2>4
    <3>2. CASE e.price # p
      BY <2>1, <2>4, <3>1, <3>2 DEF IsPreferred
    <3>3. CASE e.price = p
      <4>1. d.horizon - e.begin \in {d.horizon - x.begin : x \in Cheap}
        BY <2>4, <3>3
      <4>2. r <= d.horizon - e.begin
        BY <1>5, <4>1
      <4>3. c.begin >= e.begin
        BY <1>2, <1>6, <2>1, <4>2
      <4> QED BY <2>1, <2>4, <3>3, <4>3 DEF IsPreferred
    <3> QED BY <3>2, <3>3
  <2> QED BY <2>3, <2>4
<1>8. c \in C
  BY <1>6
<1> QED BY <1>7, <1>8 DEF C

\* Whatever is demanded, what is planned for it is the best there is.
LEMMA PlanOf ==
    ASSUME demand \in Demands, charge \in {NoCharge, PlanBridgeCharge(demand)}
    PROVE  PlanIsBest
<1>1. CASE charge = NoCharge
  <2>1. charge.length = 0
    BY <1>1 DEF NoCharge
  <2> QED BY <1>1, <2>1 DEF PlanIsBest, PlanIsFeasible, BestCharge, Planned
<1>2. CASE charge # NoCharge
  <2> DEFINE C == BridgeCandidates(demand)
  <2>1. charge = PlanBridgeCharge(demand) /\ Required(demand) # 0
    BY <1>2 DEF PlanBridgeCharge
  <2>2. Required(demand) > 0
    BY <2>1, RequiredIs
  <2>3. demand.horizon \in Nat
    BY DemandIsWhole
  <2> DEFINE Alternative(begin, length, price, e) ==
                 /\ e \in C /\ e.price = price /\ Uncovered(demand, begin, length) >= e.missing
                 /\ Uncovered(demand, begin, length) = e.missing => begin <= e.begin
  <2>4. ASSUME NEW begin \in 0..(demand.horizon - 1), NEW length \in 1..(demand.horizon - begin),
               NEW price, IsFeasible(demand, begin, length, price)
        PROVE  \E e : Alternative(begin, length, price, e)
    <3>1. begin \in Nat /\ length \in Nat \ {0}
      BY <2>3
    <3> QED BY <2>2, <2>4, <3>1, CandidateAsGood
  <2>5. CASE C = {}
    <3>1. charge = [NoCharge EXCEPT !.missing = Required(demand)]
      BY <2>1, <2>5 DEF PlanBridgeCharge
    <3>2. charge.length = 0
      BY <3>1 DEF NoCharge
    <3>3. PlanIsFeasible
      BY <3>2 DEF PlanIsFeasible, Planned
    <3>4. BestCharge
      BY <2>4, <2>5, Zenon DEF BestCharge
    <3> QED BY <3>3, <3>4 DEF PlanIsBest
  <2>6. CASE C # {}
    <3>1. charge = CHOOSE c \in C : \A e \in C : IsPreferred(c, e)
      BY <2>1, <2>6 DEF PlanBridgeCharge
    <3>2. charge \in C /\ \A e \in C : IsPreferred(charge, e)
      <4>1. \E c \in C : \A e \in C : IsPreferred(c, e)
        BY <2>2, <2>6, OneIsPreferred
      <4> HIDE DEF C
      <4> QED BY <3>1, <4>1
    <3>3. \A c \in C : /\ c.begin \in Nat /\ c.length \in Nat \ {0} /\ c.price \in Nat
                       /\ c.missing \in Nat
                       /\ IsFeasible(demand, c.begin, c.length, c.price)
                       /\ Uncovered(demand, c.begin, c.length) = c.missing
                       /\ LeftAtPv(demand, c.begin, c.length) = 0
      BY <2>2, CandidatesFit
    <3>4. Planned
      BY <3>2, <3>3 DEF Planned
    <3>5. PlanIsFeasible
      BY <3>2, <3>3 DEF PlanIsFeasible
    <3>6. ASSUME NEW begin \in 0..(demand.horizon - 1),
                 NEW length \in 1..(demand.horizon - begin), NEW price \in Prices,
                 IsFeasible(demand, begin, length, price)
          PROVE  LET missing == Uncovered(demand, begin, length)
                 IN  /\ missing >= charge.missing
                     /\ missing = charge.missing => Planned /\ price >= charge.price
                     /\ missing = charge.missing /\ price = charge.price => begin <= charge.begin
      <4>1. PICK e : Alternative(begin, length, price, e)
        BY <2>4, <3>6
      <4> DEFINE u == Uncovered(demand, begin, length)
      <4>2. e \in C /\ e.price = price /\ u >= e.missing /\ (u = e.missing => begin <= e.begin)
        BY <4>1
      <4>3. /\ e.missing \in Nat /\ e.price \in Nat /\ e.begin \in Nat
            /\ charge.missing \in Nat /\ charge.price \in Nat /\ charge.begin \in Nat
        BY <3>2, <3>3, <4>2
      <4>4. IsPreferred(charge, e)
        BY <3>2, <4>2
      <4>5. begin \in Int /\ u \in Int
        <5>1. begin \in Int /\ length \in Int
          BY <2>3
        <5> QED BY <5>1, UncoveredIs
      <4> HIDE DEF u
      <4>6. /\ u >= charge.missing
            /\ u = charge.missing => price >= charge.price
            /\ u = charge.missing /\ price = charge.price => begin <= charge.begin
        BY <4>2, <4>3, <4>4, <4>5 DEF IsPreferred
      <4> QED BY <3>4, <4>6 DEF u
    <3>7. BestCharge
      BY <3>6 DEF BestCharge
    <3> QED BY <3>5, <3>7 DEF PlanIsBest
  <2> QED BY <2>5, <2>6
<1> QED BY <1>1, <1>2

\* The plan is a function of the demand, which nothing changes.
PlanInv == demand \in Demands /\ charge \in {NoCharge, PlanBridgeCharge(demand)}

\* What is planned is possible, and no other charge covers more, or as much for
\* less, or as much as late: for every demand in whole hours
\* (plan_bridge_charge's closed forms for length and begin).
THEOREM PlanBest == PlanSpec => []PlanIsBest
<1>1. PlanInit => PlanInv
  BY DEF PlanInit, PlanInv
<1>2. PlanInv /\ [PlansBridge]_planVars => PlanInv'
  BY DEF PlanInv, PlansBridge, planVars
<1>3. PlanInv => PlanIsBest
  BY PlanOf DEF PlanInv
<1> QED BY <1>1, <1>2, <1>3, PTL DEF PlanSpec
=============================================================================
