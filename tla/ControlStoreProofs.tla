------------------------- MODULE ControlStoreProofs -------------------------
(***************************************************************************)
(* Proofs about ControlStore, up to the promise of DurableSetting.  The    *)
(* inductive invariant has these parts: who may still write, and when      *)
(* nobody may (QuietPart, FlushPart); what the store's bookkeeping says of *)
(* file, settings and writer (BooksPart); that settings it still owes are  *)
(* scheduled with somebody (OwedPart); how the history of accepted settings*)
(* fits the file and the settings (HistoryPart); and where the mark of an  *)
(* unconfirmed setting is kept (GuessPart).                                *)
(***************************************************************************)
EXTENDS ControlStore, SequenceTheorems, WellFoundedInduction, TLAPS

SettingTypes ==
    /\ setFile \in SettingContents /\ config \in Configs /\ config.value # "odd"
    /\ confirmed \in Configs \cup {NoSetting} /\ wanted \in Configs \cup {NoSetting}
    /\ accepted \in Seq(SettingContents)

StateTypes ==
    /\ shownLast \in {"none", "on", "off", "unusable"}
    /\ hassState \in {"running", "stopping", "final"}
    /\ setPhase \in {"new", "off", "boot", "up", "closing", "flushing"}
    /\ source \in {"loaded", "missing", "failed"}
    /\ worker \in {"none", "due", "evaluates"} /\ ioFaults \in 0..MaxIoFaults

FlagTypes ==
    /\ replaced \in BOOLEAN /\ moved \in BOOLEAN /\ finalLost \in BOOLEAN
    /\ guessed \in BOOLEAN
    /\ scheduled \in BOOLEAN /\ timerRuns \in BOOLEAN /\ listener \in BOOLEAN

\* A delayed write that is noted has its timer, or has asked for the lock.
WriterTypes ==
    /\ writer \in {NoWriter} \cup [by : Jobs, config : Configs, written : BOOLEAN]
    /\ queue \in Seq(Jobs)
    /\ timerRuns => scheduled
    /\ scheduled => timerRuns \/ \E i \in 1..Len(queue) : queue[i] = "timer"

TypePart == SettingTypes /\ StateTypes /\ FlagTypes /\ WriterTypes

Silent == ~timerRuns /\ ~listener /\ writer = NoWriter /\ queue = <<>>

QuietPart ==
    /\ setPhase \in {"new", "boot"} => Silent
    /\ InUse /\ Blocked => Silent
    /\ setPhase = "off" /\ hassState = "running" => Silent
    /\ hassState # "final" /\ timerRuns => listener

\* The unload's save is the last, and is its own proof that nothing follows.
FlushIsLast ==
    IF writer.by = "flush" THEN queue = <<>> /\ ~timerRuns /\ ~listener
    ELSE /\ queue # <<>> /\ queue[Len(queue)] = "flush"
         /\ \A i \in 1..(Len(queue) - 1) : queue[i] # "flush"
         /\ timerRuns => writer = NoWriter
NoFlush == writer.by # "flush" /\ \A i \in 1..Len(queue) : queue[i] # "flush"
FlushPart ==
    hassState = "running" => IF setPhase = "flushing" THEN FlushIsLast ELSE NoFlush

BooksPart ==
    /\ writer # NoWriter => wanted # NoSetting /\ (replaced \/ wanted = writer.config)
    /\ wanted # NoSetting => wanted = config
    /\ setPhase = "boot" \/ (InUse /\ Blocked) => wanted = NoSetting
    /\ InUse /\ ~Blocked /\ wanted = NoSetting => setFile = confirmed
    /\ setPhase \in {"up", "closing", "flushing"} /\ ~Blocked /\ wanted = NoSetting
           => config = confirmed

OwedPart ==
    setPhase = "up" /\ ~Blocked /\ wanted # NoSetting /\ (writer = NoWriter \/ replaced)
    => \/ timerRuns /\ hassState # "final"
       \/ listener /\ hassState = "stopping"
       \/ queue # <<>>
       \/ finalLost

HistoryPart ==
    /\ (InUse /\ ~Blocked) \/ ~Silent =>
           /\ accepted # <<>> /\ accepted[1] = setFile
           /\ accepted[Len(accepted)] = config
    /\ writer # NoWriter /\ ~writer.written =>
           \E i \in 1..Len(accepted) : accepted[i] = writer.config

GuessPart ==
    /\ setPhase = "new" => ~guessed
    /\ setPhase = "boot" /\ source # "loaded" => ~guessed
    /\ InUse /\ guessed => config.marked
    /\ setPhase = "off" /\ guessed => config.marked \/ (setFile.marked /\ Silent)

StoreInv ==
    /\ TypePart /\ QuietPart /\ FlushPart /\ BooksPart
    /\ OwedPart /\ HistoryPart /\ GuessPart
-----------------------------------------------------------------------------
\* A bounded set of indices has a greatest one.
LEMMA MaxIsIn ==
    ASSUME NEW n \in Nat, NEW S, S \subseteq 1..n, S # {}
    PROVE  Max(S) \in S
  <1> DEFINE T == {n - x : x \in S}
  <1>1. \A x \in S : x \in Int /\ n - x \in Nat
    OBVIOUS
  <1>2. T \subseteq Nat
    BY <1>1
  <1>3. T # {}
    OBVIOUS
  <1>4. PICK least \in T : \A y \in T : ~(<<y, least>> \in OpToRel(<, Nat))
    BY <1>2, <1>3, NatLessThanWellFounded, WFMin
  <1>5. \A y \in T : least <= y
    <2> TAKE y \in T
    <2>1. y \in Nat /\ least \in Nat
      BY <1>2
    <2>2. ~(y < least)
      BY <1>4, <2>1 DEF OpToRel
    <2> QED BY <2>1, <2>2
  <1>6. PICK x \in S : least = n - x
    OBVIOUS
  <1>7. \A y \in S : x >= y
    <2> TAKE y \in S
    <2>1. n - y \in T
      OBVIOUS
    <2>2. n - x <= n - y
      BY <1>5, <1>6, <2>1
    <2>3. x \in Int /\ y \in Int
      BY <1>1
    <2> QED BY <2>2, <2>3
  <1> QED BY <1>7 DEF Max

\* What is left of the accepted settings when one of them is written.
LEMMA SinceIsSuffix ==
    ASSUME NEW at \in 1..Len(accepted), accepted \in Seq(SettingContents)
    PROVE  LET s == SubSeq(accepted, at, Len(accepted))
           IN  /\ s \in Seq(SettingContents) /\ s # <<>>
               /\ s[1] = accepted[at] /\ s[Len(s)] = accepted[Len(accepted)]
  <1>1. \A i \in at..Len(accepted) : accepted[i] \in SettingContents
    OBVIOUS
  <1>2. Len(accepted) \in Int /\ at \in Int
    OBVIOUS
  <1> QED BY <1>1, <1>2, SubSeqProperties
-----------------------------------------------------------------------------
LEMMA TypesAreRight == TypePart => StoreTypeOK
  BY DEF TypePart, SettingTypes, StateTypes, FlagTypes, WriterTypes, StoreTypeOK, Contains

LEMMA SettingFacts ==
    /\ Factory \in Configs /\ ~Factory.marked /\ Factory.value = "off"
    /\ NoSetting \notin Configs /\ Rubbish \notin Configs /\ Rubbish # NoSetting
    /\ ~NoSetting.marked /\ ~Rubbish.marked
    /\ SettingContents = Configs \cup {NoSetting, Rubbish}
    /\ \A c \in Configs : /\ Sanitized(c) \in Configs /\ Sanitized(c).value # "odd"
                         /\ Sanitized(c).marked = c.marked
    /\ \A c \in SettingContents : c.marked \in BOOLEAN
    /\ Repaired \in Configs /\ ~Repaired.marked
  <1>1. Factory \in Configs /\ ~Factory.marked /\ Factory.value = "off"
    BY DEF Factory, Configs
  <1>2. /\ NoSetting \notin Configs /\ Rubbish \notin Configs /\ Rubbish # NoSetting
        /\ ~NoSetting.marked /\ ~Rubbish.marked
    BY DEF NoSetting, Rubbish, Configs
  <1>3. \A c \in Configs : /\ Sanitized(c) \in Configs /\ Sanitized(c).value # "odd"
                           /\ Sanitized(c).marked = c.marked
    BY DEF Configs, Sanitized
  <1>4. \A c \in SettingContents : c.marked \in BOOLEAN
    <2>1. \A c \in Configs : c.marked \in BOOLEAN
      BY ZenonT(20) DEF Configs
    <2>2. NoSetting.marked = FALSE /\ Rubbish.marked = FALSE
      BY DEF NoSetting, Rubbish
    <2> QED BY <2>1, <2>2, Zenon DEF SettingContents
  <1>5. Repaired \in Configs /\ ~Repaired.marked
    BY DEF Repaired, Configs
  <1> QED BY <1>1, <1>2, <1>3, <1>4, <1>5 DEF SettingContents

LEMMA NoWriterFacts == NoWriter.by = "nobody" /\ ~NoWriter.written
  BY DEF NoWriter

LEMMA WriterFacts ==
    ASSUME WriterTypes, writer # NoWriter
    PROVE  /\ writer \in [by : Jobs, config : Configs, written : BOOLEAN]
           /\ [writer EXCEPT !.written = TRUE] \in [by : Jobs, config : Configs, written : BOOLEAN]
  BY DEF WriterTypes

LEMMA DumpedFacts == TypePart => Dumped \in {"none", "on", "off", "unusable"}
  BY DEF TypePart, SettingTypes, StateTypes, Dumped, Configs

LEMMA FlawFacts ==
    ASSUME ioFaults \in 0..MaxIoFaults, NEW ok, Flaw(ok)
    PROVE  ioFaults' \in 0..MaxIoFaults
  BY SettingBounds DEF Flaw

LEMMA MigratedFacts ==
    TypePart => /\ Migrated \in Configs /\ Migrated.value # "odd"
                /\ source # "missing" => Migrated = config
  BY DEF TypePart, SettingTypes, StateTypes, Migrated, Configs

LEMMA ChangedFacts ==
    ASSUME NEW value \in {"on", "off"}
    PROVE  LET c == [value |-> value, marked |-> FALSE]
           IN  c \in Configs /\ c.value # "odd" /\ ~c.marked
  BY DEF Configs

LEMMA Appended ==
    ASSUME queue \in Seq(Jobs), NEW by \in Jobs
    PROVE  LET q == Append(queue, by)
           IN  /\ q \in Seq(Jobs) /\ q # <<>> /\ Len(q) = Len(queue) + 1 /\ q[Len(q)] = by
               /\ \A i \in 1..Len(queue) : q[i] = queue[i]
  BY AppendProperties

LEMMA Served ==
    ASSUME queue \in Seq(Jobs), queue # <<>>
    PROVE  /\ Head(queue) \in Jobs /\ Head(queue) = queue[1]
           /\ Tail(queue) \in Seq(Jobs) /\ Len(Tail(queue)) = Len(queue) - 1
           /\ \A i \in 1..(Len(queue) - 1) : Tail(queue)[i] = queue[i + 1]
           /\ Len(queue) \in Nat \ {0}
           /\ Len(queue) = 1 => Tail(queue) = <<>>
  <1>1. /\ Head(queue) \in Jobs /\ Tail(queue) \in Seq(Jobs) /\ Len(Tail(queue)) = Len(queue) - 1
        /\ \A i \in 1..Len(Tail(queue)) : Tail(queue)[i] = queue[i + 1]
    BY HeadTailProperties
  <1>2. Len(queue) \in Nat \ {0} /\ (Tail(queue) # <<>> => Len(Tail(queue)) \in Nat \ {0})
    BY <1>1, EmptySeq
  <1>3. Head(queue) = queue[1]
    OBVIOUS
  <1> QED BY <1>1, <1>2, <1>3

LEMMA Accepted ==
    ASSUME accepted \in Seq(SettingContents), NEW c \in SettingContents
    PROVE  LET a == Append(accepted, c)
           IN  /\ a \in Seq(SettingContents) /\ a # <<>> /\ a[Len(a)] = c
               /\ Len(a) = Len(accepted) + 1
               /\ accepted # <<>> => a[1] = accepted[1]
               /\ \A i \in 1..Len(accepted) : a[i] = accepted[i]
  BY AppendProperties

\* A write keeps the history from the last acceptance of what it writes.
LEMMA Written ==
    ASSUME SettingTypes, WriterTypes, HistoryPart, writer # NoWriter, ~writer.written
    PROVE  LET a == SinceAccepted(writer.config)
           IN  /\ a \in Seq(SettingContents) /\ a # <<>>
               /\ a[1] = writer.config /\ a[Len(a)] = config
               /\ \/ a = accepted /\ writer.config = setFile
                  \/ \E i \in 2..Len(accepted) :
                        a = SubSeq(accepted, i, Len(accepted)) /\ accepted[i] = writer.config
  <1> DEFINE c == writer.config
             at == {i \in DOMAIN accepted : accepted[i] = c}
  <1>1. /\ accepted \in Seq(SettingContents) /\ accepted # <<>> /\ accepted[1] = setFile
        /\ accepted[Len(accepted)] = config
    BY DEF HistoryPart, Silent, SettingTypes
  <1>2. CASE c = setFile
    BY <1>1, <1>2 DEF SinceAccepted
  <1>3. CASE c # setFile
    <2>1. at \subseteq 1..Len(accepted) /\ at # {} /\ Len(accepted) \in Nat
      BY <1>1 DEF HistoryPart
    <2>2. Max(at) \in at
      <3> HIDE DEF at
      <3> QED BY <2>1, MaxIsIn
    <2>3. PICK i \in 1..Len(accepted) : i = Max(at) /\ accepted[i] = c
      BY <2>1, <2>2
    <2>4. SinceAccepted(c) = SubSeq(accepted, i, Len(accepted))
      BY <1>3, <2>1, <2>3 DEF SinceAccepted
    <2>5. i \in 2..Len(accepted)
      BY <1>1, <1>3, <2>3
    <2> HIDE DEF c
    <2> QED BY <1>1, <2>3, <2>4, <2>5, SinceIsSuffix DEF c
  <1> QED BY <1>2, <1>3

\* What asking for a delayed save comes to.
LEMMA Delayed ==
    ASSUME NEW c, NEW busy, DelaySave(c, busy), FlagTypes
    PROVE  \/ /\ c = IF wanted # NoSetting THEN wanted ELSE confirmed
              /\ UNCHANGED <<wanted, replaced, scheduled, timerRuns, listener>>
           \/ /\ wanted' = c /\ replaced' /\ scheduled' /\ listener'
              /\ timerRuns' <=> (timerRuns \/ ~scheduled)
  BY Zenon DEF DelaySave, OnItsWay, SchedulesWrite
LEMMA FoundKeeps ==
    ASSUME StoreInv, Found
    PROVE  StoreInv'
  <1> /\ SettingTypes /\ StateTypes /\ FlagTypes /\ WriterTypes /\ QuietPart /\ FlushPart
      /\ BooksPart /\ OwedPart /\ HistoryPart /\ GuessPart
    BY DEF StoreInv, TypePart
  <1>1. SettingTypes'
    BY SettingFacts DEF SettingTypes, outsideVars, writeVars, workVars, Found
  <1>2. StateTypes'
    BY SettingFacts DEF StateTypes, outsideVars, writeVars, workVars, Found
  <1>3. FlagTypes'
    BY SettingFacts, ZenonT(30) DEF FlagTypes, outsideVars, writeVars, workVars, Found
  <1>4. WriterTypes'
    BY SettingFacts DEF WriterTypes, outsideVars, writeVars, workVars, Found
  <1>5. QuietPart'
    BY SettingFacts DEF QuietPart, InUse, Blocked, Silent, outsideVars, writeVars, workVars,
       Found
  <1>6. FlushPart'
    BY SettingFacts DEF QuietPart, FlushPart, FlushIsLast, NoFlush, InUse, Blocked, Silent,
       outsideVars, writeVars, workVars, Found
  <1>7. BooksPart'
    BY SettingFacts DEF QuietPart, BooksPart, InUse, Blocked, Silent, outsideVars, writeVars,
       workVars, Found
  <1>8. OwedPart'
    BY SettingFacts DEF StateTypes, WriterTypes, OwedPart, InUse, Blocked, Silent, outsideVars,
       writeVars, workVars, Found
  <1>9. HistoryPart'
    BY SettingFacts DEF QuietPart, BooksPart, HistoryPart, InUse, Blocked, Silent, outsideVars,
       writeVars, workVars, Found
  <1>10. GuessPart'
    BY SettingFacts DEF StateTypes, QuietPart, GuessPart, InUse, Blocked, Silent, outsideVars,
       writeVars, workVars, Found
  <1> QED BY <1>1, <1>2, <1>3, <1>4, <1>5, <1>6, <1>7, <1>8, <1>9, <1>10 DEF StoreInv, TypePart

LEMMA SetupFailsKeeps ==
    ASSUME StoreInv, SetupFails
    PROVE  StoreInv'
  <1> /\ SettingTypes /\ StateTypes /\ FlagTypes /\ WriterTypes /\ QuietPart /\ FlushPart
      /\ BooksPart /\ OwedPart /\ HistoryPart /\ GuessPart
    BY DEF StoreInv, TypePart
  <1>1. SettingTypes'
    BY DEF SettingTypes, outsideVars, writeVars, workVars, SetupFails
  <1>2. StateTypes'
    BY DEF StateTypes, outsideVars, writeVars, workVars, SetupFails
  <1>3. FlagTypes'
    BY ZenonT(30) DEF FlagTypes, outsideVars, writeVars, workVars, SetupFails
  <1>4. WriterTypes'
    BY DEF WriterTypes, outsideVars, writeVars, workVars, SetupFails
  <1>5. QuietPart'
    BY DEF QuietPart, InUse, Blocked, Silent, outsideVars, writeVars, workVars, SetupFails
  <1>6. FlushPart'
    BY DEF QuietPart, FlushPart, FlushIsLast, NoFlush, InUse, Blocked, Silent, outsideVars,
       writeVars, workVars, SetupFails
  <1>7. BooksPart'
    BY DEF QuietPart, BooksPart, InUse, Blocked, Silent, outsideVars, writeVars, workVars,
       SetupFails
  <1>8. OwedPart'
    BY DEF StateTypes, WriterTypes, OwedPart, InUse, Blocked, Silent, outsideVars, writeVars,
       workVars, SetupFails
  <1>9. HistoryPart'
    BY DEF QuietPart, BooksPart, HistoryPart, InUse, Blocked, Silent, outsideVars, writeVars,
       workVars, SetupFails
  <1>10. GuessPart'
    BY DEF StateTypes, QuietPart, GuessPart, InUse, Blocked, Silent, outsideVars, writeVars,
       workVars, SetupFails
  <1> QED BY <1>1, <1>2, <1>3, <1>4, <1>5, <1>6, <1>7, <1>8, <1>9, <1>10 DEF StoreInv, TypePart

LEMMA UnloadsKeeps ==
    ASSUME StoreInv, Unloads
    PROVE  StoreInv'
  <1> /\ SettingTypes /\ StateTypes /\ FlagTypes /\ WriterTypes /\ QuietPart /\ FlushPart
      /\ BooksPart /\ OwedPart /\ HistoryPart /\ GuessPart
    BY DEF StoreInv, TypePart
  <1>1. SettingTypes'
    BY DEF SettingTypes, outsideVars, writeVars, workVars, Unloads
  <1>2. StateTypes'
    BY DEF StateTypes, outsideVars, writeVars, workVars, Unloads
  <1>3. FlagTypes'
    BY ZenonT(30) DEF FlagTypes, outsideVars, writeVars, workVars, Unloads
  <1>4. WriterTypes'
    BY DEF WriterTypes, outsideVars, writeVars, workVars, Unloads
  <1>5. QuietPart'
    BY DEF QuietPart, InUse, Blocked, Silent, outsideVars, writeVars, workVars, Unloads
  <1>6. FlushPart'
    BY DEF QuietPart, FlushPart, FlushIsLast, NoFlush, InUse, Blocked, Silent, outsideVars,
       writeVars, workVars, Unloads
  <1>7. BooksPart'
    BY DEF QuietPart, BooksPart, InUse, Blocked, Silent, outsideVars, writeVars, workVars,
       Unloads
  <1>8. OwedPart'
    BY DEF StateTypes, WriterTypes, OwedPart, InUse, Blocked, Silent, outsideVars, writeVars,
       workVars, Unloads
  <1>9. HistoryPart'
    BY DEF QuietPart, BooksPart, HistoryPart, InUse, Blocked, Silent, outsideVars, writeVars,
       workVars, Unloads
  <1>10. GuessPart'
    BY DEF StateTypes, QuietPart, GuessPart, InUse, Blocked, Silent, outsideVars, writeVars,
       workVars, Unloads
  <1> QED BY <1>1, <1>2, <1>3, <1>4, <1>5, <1>6, <1>7, <1>8, <1>9, <1>10 DEF StoreInv, TypePart

LEMMA HassStopsKeeps ==
    ASSUME StoreInv, HassStops
    PROVE  StoreInv'
  <1> /\ SettingTypes /\ StateTypes /\ FlagTypes /\ WriterTypes /\ QuietPart /\ FlushPart
      /\ BooksPart /\ OwedPart /\ HistoryPart /\ GuessPart
    BY DEF StoreInv, TypePart
  <1>1. SettingTypes'
    BY DEF SettingTypes, outsideVars, writeVars, workVars, HassStops
  <1>2. StateTypes'
    BY DEF StateTypes, outsideVars, writeVars, workVars, HassStops
  <1>3. FlagTypes'
    BY ZenonT(30) DEF FlagTypes, outsideVars, writeVars, workVars, HassStops
  <1>4. WriterTypes'
    BY DEF WriterTypes, outsideVars, writeVars, workVars, HassStops
  <1>5. QuietPart'
    BY DEF QuietPart, InUse, Blocked, Silent, outsideVars, writeVars, workVars, HassStops
  <1>6. FlushPart'
    BY DEF QuietPart, FlushPart, FlushIsLast, NoFlush, InUse, Blocked, Silent, outsideVars,
       writeVars, workVars, HassStops
  <1>7. BooksPart'
    BY DEF QuietPart, BooksPart, InUse, Blocked, Silent, outsideVars, writeVars, workVars,
       HassStops
  <1>8. OwedPart'
    BY DEF StateTypes, WriterTypes, OwedPart, InUse, Blocked, Silent, outsideVars, writeVars,
       workVars, HassStops
  <1>9. HistoryPart'
    BY DEF QuietPart, BooksPart, HistoryPart, InUse, Blocked, Silent, outsideVars, writeVars,
       workVars, HassStops
  <1>10. GuessPart'
    BY DEF StateTypes, QuietPart, GuessPart, InUse, Blocked, Silent, outsideVars, writeVars,
       workVars, HassStops
  <1> QED BY <1>1, <1>2, <1>3, <1>4, <1>5, <1>6, <1>7, <1>8, <1>9, <1>10 DEF StoreInv, TypePart

LEMMA RepairsKeeps ==
    ASSUME StoreInv, Repairs
    PROVE  StoreInv'
  <1> /\ SettingTypes /\ StateTypes /\ FlagTypes /\ WriterTypes /\ QuietPart /\ FlushPart
      /\ BooksPart /\ OwedPart /\ HistoryPart /\ GuessPart
    BY DEF StoreInv, TypePart
  <1>1. SettingTypes'
    BY SettingFacts DEF SettingTypes, outsideVars, writeVars, workVars, Repairs
  <1>2. StateTypes'
    BY SettingFacts DEF StateTypes, outsideVars, writeVars, workVars, Repairs
  <1>3. FlagTypes'
    BY SettingFacts, ZenonT(30) DEF FlagTypes, outsideVars, writeVars, workVars, Repairs
  <1>4. WriterTypes'
    BY SettingFacts DEF WriterTypes, outsideVars, writeVars, workVars, Repairs
  <1>5. QuietPart'
    BY SettingFacts DEF QuietPart, InUse, Blocked, Silent, outsideVars, writeVars, workVars,
       Repairs
  <1>6. FlushPart'
    BY SettingFacts DEF QuietPart, FlushPart, FlushIsLast, NoFlush, InUse, Blocked, Silent,
       outsideVars, writeVars, workVars, Repairs
  <1>7. BooksPart'
    BY SettingFacts DEF QuietPart, BooksPart, InUse, Blocked, Silent, outsideVars, writeVars,
       workVars, Repairs
  <1>8. OwedPart'
    BY SettingFacts DEF StateTypes, WriterTypes, OwedPart, InUse, Blocked, Silent, outsideVars,
       writeVars, workVars, Repairs
  <1>9. HistoryPart'
    BY SettingFacts DEF QuietPart, BooksPart, HistoryPart, InUse, Blocked, Silent, outsideVars,
       writeVars, workVars, Repairs
  <1>10. GuessPart'
    BY SettingFacts DEF StateTypes, QuietPart, GuessPart, InUse, Blocked, Silent, outsideVars,
       writeVars, workVars, Repairs
  <1> QED BY <1>1, <1>2, <1>3, <1>4, <1>5, <1>6, <1>7, <1>8, <1>9, <1>10 DEF StoreInv, TypePart

LEMMA FlushesKeeps ==
    ASSUME StoreInv, Flushes
    PROVE  StoreInv'
  <1> /\ SettingTypes /\ StateTypes /\ FlagTypes /\ WriterTypes /\ QuietPart /\ FlushPart
      /\ BooksPart /\ OwedPart /\ HistoryPart /\ GuessPart
    BY DEF StoreInv, TypePart
  <1>1. SettingTypes'
    BY NoWriterFacts DEF SettingTypes, outsideVars, writeVars, workVars, Flushes, SavesNow,
       Cancels
  <1>2. StateTypes'
    BY NoWriterFacts DEF StateTypes, outsideVars, writeVars, workVars, Flushes, SavesNow,
       Cancels
  <1>3. FlagTypes'
    BY NoWriterFacts, ZenonT(30) DEF FlagTypes, outsideVars, writeVars, workVars, Flushes,
       SavesNow, Cancels
  <1>4. WriterTypes'
    <2>1. CASE Blocked
      BY <2>1 DEF Flushes, WriterTypes
    <2>2. CASE ~Blocked
      <3>1. "flush" \in Jobs
        BY DEF Jobs
      <3> QED BY <2>2, <3>1, Appended, SMTT(30) DEF Flushes, SavesNow, Cancels, WriterTypes
    <2> QED BY <2>1, <2>2
  <1>5. QuietPart'
    BY NoWriterFacts DEF QuietPart, InUse, Blocked, Silent, outsideVars, writeVars, workVars,
       Flushes, SavesNow, Cancels
  <1>6. FlushPart'
    BY NoWriterFacts DEF QuietPart, FlushPart, FlushIsLast, NoFlush, InUse, Blocked, Silent,
       outsideVars, writeVars, workVars, Flushes, SavesNow, Cancels
  <1>7. BooksPart'
    BY NoWriterFacts DEF QuietPart, BooksPart, InUse, Blocked, Silent, outsideVars, writeVars,
       workVars, Flushes, SavesNow, Cancels
  <1>8. OwedPart'
    BY NoWriterFacts DEF StateTypes, WriterTypes, OwedPart, InUse, Blocked, Silent, outsideVars,
       writeVars, workVars, Flushes, SavesNow, Cancels
  <1>9. HistoryPart'
    BY NoWriterFacts DEF QuietPart, BooksPart, HistoryPart, InUse, Blocked, Silent, outsideVars,
       writeVars, workVars, Flushes, SavesNow, Cancels
  <1>10. GuessPart'
    BY NoWriterFacts DEF StateTypes, QuietPart, GuessPart, InUse, Blocked, Silent, outsideVars,
       writeVars, workVars, Flushes, SavesNow, Cancels
  <1> QED BY <1>1, <1>2, <1>3, <1>4, <1>5, <1>6, <1>7, <1>8, <1>9, <1>10 DEF StoreInv, TypePart

LEMMA TimerFiresKeeps ==
    ASSUME StoreInv, TimerFires
    PROVE  StoreInv'
  <1> /\ SettingTypes /\ StateTypes /\ FlagTypes /\ WriterTypes /\ QuietPart /\ FlushPart
      /\ BooksPart /\ OwedPart /\ HistoryPart /\ GuessPart
    BY DEF StoreInv, TypePart
  <1>1. SettingTypes'
    BY NoWriterFacts DEF SettingTypes, outsideVars, writeVars, workVars, TimerFires
  <1>2. StateTypes'
    BY NoWriterFacts DEF StateTypes, outsideVars, writeVars, workVars, TimerFires
  <1>3. FlagTypes'
    BY NoWriterFacts, ZenonT(30) DEF FlagTypes, outsideVars, writeVars, workVars, TimerFires
  <1>4. WriterTypes'
    <2>1. "timer" \in Jobs
      BY DEF Jobs
    <2>2. Len(queue) \in Nat
      BY DEF WriterTypes
    <2>3. /\ queue' \in Seq(Jobs) /\ Len(queue') = Len(queue) + 1
          /\ queue'[Len(queue')] = "timer"
      BY <2>1, Appended DEF TimerFires, WriterTypes
    <2>4. Len(queue') \in 1..Len(queue')
      BY <2>2, <2>3
    <2> QED BY <2>3, <2>4 DEF TimerFires, WriterTypes
  <1>5. QuietPart'
    BY NoWriterFacts DEF QuietPart, InUse, Blocked, Silent, outsideVars, writeVars, workVars,
       TimerFires
  <1>6. FlushPart'
    BY NoWriterFacts DEF QuietPart, FlushPart, FlushIsLast, NoFlush, InUse, Blocked, Silent,
       outsideVars, writeVars, workVars, TimerFires
  <1>7. BooksPart'
    BY NoWriterFacts DEF QuietPart, BooksPart, InUse, Blocked, Silent, outsideVars, writeVars,
       workVars, TimerFires
  <1>8. OwedPart'
    BY NoWriterFacts DEF StateTypes, WriterTypes, OwedPart, InUse, Blocked, Silent, outsideVars,
       writeVars, workVars, TimerFires
  <1>9. HistoryPart'
    BY NoWriterFacts DEF QuietPart, BooksPart, HistoryPart, InUse, Blocked, Silent, outsideVars,
       writeVars, workVars, TimerFires
  <1>10. GuessPart'
    BY NoWriterFacts DEF StateTypes, QuietPart, GuessPart, InUse, Blocked, Silent, outsideVars,
       writeVars, workVars, TimerFires
  <1> QED BY <1>1, <1>2, <1>3, <1>4, <1>5, <1>6, <1>7, <1>8, <1>9, <1>10 DEF StoreInv, TypePart

LEMMA FinalEventKeeps ==
    ASSUME StoreInv, FinalEvent
    PROVE  StoreInv'
  <1> TypePart BY DEF StoreInv
  <1> /\ SettingTypes /\ StateTypes /\ FlagTypes /\ WriterTypes /\ QuietPart /\ FlushPart
      /\ BooksPart /\ OwedPart /\ HistoryPart /\ GuessPart
    BY DEF StoreInv, TypePart
  <1>1. SettingTypes'
    BY NoWriterFacts, DumpedFacts DEF SettingTypes, outsideVars, writeVars, workVars, FinalEvent
  <1>2. StateTypes'
    BY NoWriterFacts, DumpedFacts DEF StateTypes, outsideVars, writeVars, workVars, FinalEvent
  <1>3. FlagTypes'
    BY NoWriterFacts, DumpedFacts, ZenonT(30) DEF FlagTypes, outsideVars, writeVars, workVars,
       FinalEvent
  <1>4. WriterTypes'
    <2>1. CASE listener
      <3>1. "final" \in Jobs
        BY DEF Jobs
      <3>2. Len(queue) \in Nat
        BY DEF WriterTypes
      <3> QED BY <2>1, <3>1, <3>2, Appended, SMTT(30) DEF FinalEvent, WriterTypes
    <2>2. CASE ~listener
      BY <2>2 DEF FinalEvent, WriterTypes
    <2> QED BY <2>1, <2>2
  <1>5. QuietPart'
    BY NoWriterFacts, DumpedFacts DEF QuietPart, InUse, Blocked, Silent, outsideVars, writeVars,
       workVars, FinalEvent
  <1>6. FlushPart'
    BY NoWriterFacts, DumpedFacts DEF QuietPart, FlushPart, FlushIsLast, NoFlush, InUse,
       Blocked, Silent, outsideVars, writeVars, workVars, FinalEvent
  <1>7. BooksPart'
    BY NoWriterFacts, DumpedFacts DEF QuietPart, BooksPart, InUse, Blocked, Silent, outsideVars,
       writeVars, workVars, FinalEvent
  <1>8. OwedPart'
    <2>1. "final" \in Jobs
      BY DEF Jobs
    <2>2. listener => queue' # <<>>
      BY <2>1, Appended DEF FinalEvent, WriterTypes
    <2> QED BY <2>2, SMTT(30) DEF FinalEvent, OwedPart, QuietPart, Blocked
  <1>9. HistoryPart'
    BY NoWriterFacts, DumpedFacts DEF QuietPart, BooksPart, HistoryPart, InUse, Blocked, Silent,
       outsideVars, writeVars, workVars, FinalEvent
  <1>10. GuessPart'
    BY NoWriterFacts, DumpedFacts DEF StateTypes, QuietPart, GuessPart, InUse, Blocked, Silent,
       outsideVars, writeVars, workVars, FinalEvent
  <1> QED BY <1>1, <1>2, <1>3, <1>4, <1>5, <1>6, <1>7, <1>8, <1>9, <1>10 DEF StoreInv, TypePart

LEMMA TakesLockKeeps ==
    ASSUME StoreInv, TakesLock
    PROVE  StoreInv'
  <1> /\ SettingTypes /\ StateTypes /\ FlagTypes /\ WriterTypes /\ QuietPart /\ FlushPart
      /\ BooksPart /\ OwedPart /\ HistoryPart /\ GuessPart
    BY DEF StoreInv, TypePart
  <1>a. /\ writer = NoWriter /\ queue # <<>> /\ queue' = Tail(queue) /\ ~timerRuns' /\ ~scheduled'
        /\ setPhase \notin {"new", "boot"} /\ ~(InUse /\ Blocked)
        /\ ~(setPhase = "off" /\ hassState = "running")
    BY Zenon DEF TakesLock, QuietPart, Silent
  <1>b. /\ Head(queue) \in Jobs /\ Head(queue) = queue[1] /\ Tail(queue) \in Seq(Jobs)
        /\ Len(queue) \in Nat \ {0} /\ Len(Tail(queue)) = Len(queue) - 1
        /\ Len(queue) = 1 => Tail(queue) = <<>>
        /\ \A i \in 1..(Len(queue) - 1) : Tail(queue)[i] = queue[i + 1]
    BY <1>a, Served DEF WriterTypes
  <1>c. \/ writer' = NoWriter /\ (wanted = NoSetting \/ hassState = "stopping")
        \/ /\ writer' = [by |-> Head(queue), config |-> wanted, written |-> FALSE]
           /\ wanted \in Configs /\ ~replaced'
    BY <1>a, ZenonT(20) DEF TakesLock, Deferred, SettingTypes
  <1>d. /\ setPhase' = (IF writer' = NoWriter /\ Head(queue) = "flush" THEN "off" ELSE setPhase)
        /\ UNCHANGED <<hassState, source, wanted, finalLost>>
        /\ listener' = (wanted # NoSetting /\ hassState = "stopping")
    BY DEF TakesLock, Listens, Deferred, outsideVars
  \* Where the unload's save is the next, it is the last.
  <1>e. ASSUME hassState = "running", Head(queue) = "flush"
        PROVE  setPhase = "flushing" /\ queue' = <<>>
    <2>1. Len(queue) >= 1 /\ queue[1] = "flush"
      BY <1>b, <1>e
    <2>2. setPhase = "flushing"
      BY <1>b, <1>e, <2>1 DEF FlushPart, NoFlush
    <2>3. \A i \in 1..(Len(queue) - 1) : queue[i] # "flush"
      BY <1>a, <1>e, <2>2, NoWriterFacts DEF FlushPart, FlushIsLast
    <2>4. Len(queue) = 1
      BY <1>b, <2>1, <2>3
    <2> QED BY <1>a, <1>b, <2>2, <2>4
  <1>1. SettingTypes'
    BY NoWriterFacts DEF SettingTypes, outsideVars, writeVars, workVars, TakesLock, Deferred,
       Listens
  <1>2. StateTypes'
    BY NoWriterFacts DEF StateTypes, outsideVars, writeVars, workVars, TakesLock, Deferred,
       Listens
  <1>3. FlagTypes'
    BY NoWriterFacts, ZenonT(30) DEF FlagTypes, outsideVars, writeVars, workVars, TakesLock,
       Deferred, Listens
  <1>4. WriterTypes'
    <2>1. writer' \in {NoWriter} \cup [by : Jobs, config : Configs, written : BOOLEAN]
      <3>1. ASSUME wanted \in Configs
            PROVE  [by |-> Head(queue), config |-> wanted, written |-> FALSE]
                       \in [by : Jobs, config : Configs, written : BOOLEAN]
        BY <1>b, <3>1
      <3> QED BY <1>c, <3>1
    <2> QED BY <1>a, <1>b, <2>1 DEF WriterTypes
  <1>5. QuietPart'
    <2>1. hassState = "running" /\ setPhase' = "off" => Silent'
      BY <1>a, <1>d, <1>e DEF Silent
    <2> QED BY <1>a, <1>d, <2>1 DEF QuietPart, InUse, Blocked
  <1>6. FlushPart'
    <2> SUFFICES ASSUME hassState = "running"
                 PROVE  IF setPhase' = "flushing" THEN FlushIsLast' ELSE NoFlush'
      BY <1>d DEF FlushPart
    <2>1. CASE Head(queue) = "flush"
      <3>1. queue' = <<>> /\ ~listener' /\ setPhase = "flushing"
        BY <1>d, <1>e, <2>1
      <3>2. CASE writer' = NoWriter
        BY <1>d, <2>1, <3>1, <3>2, NoWriterFacts DEF NoFlush
      <3>3. CASE writer' # NoWriter
        <4>1. writer'.by = "flush"
          BY <1>c, <2>1, <3>3
        <4> QED BY <1>a, <1>d, <3>1, <3>3, <4>1 DEF FlushIsLast
      <3> QED BY <3>2, <3>3
    <2>2. CASE Head(queue) # "flush"
      <3>1. writer'.by # "flush" /\ setPhase' = setPhase
        BY <1>c, <1>d, <2>2, NoWriterFacts
      <3>2. CASE setPhase = "flushing"
        <4>1. /\ queue[Len(queue)] = "flush"
              /\ \A i \in 1..(Len(queue) - 1) : queue[i] # "flush"
          BY <1>a, <3>2, NoWriterFacts DEF FlushPart, FlushIsLast
        <4>2. Len(queue) # 1
          BY <1>b, <2>2, <4>1
        <4>3. queue' # <<>> /\ queue'[Len(queue')] = "flush"
          <5>1. Len(queue') \in 1..(Len(queue) - 1) /\ Len(queue') + 1 = Len(queue)
            BY <1>a, <1>b, <4>2
          <5>2. queue'[Len(queue')] = queue[Len(queue') + 1]
            BY <1>a, <1>b, <5>1
          <5>3. queue' # <<>>
            <6>1. Len(queue') # 0
              BY <1>b, <5>1
            <6> QED BY <6>1
          <5> QED BY <4>1, <5>1, <5>2, <5>3
        <4>4. \A i \in 1..(Len(queue') - 1) : queue'[i] # "flush"
          BY <1>a, <1>b, <4>1
        <4> QED BY <1>a, <3>1, <3>2, <4>3, <4>4 DEF FlushIsLast
      <3>3. CASE setPhase # "flushing"
        <4>1. \A i \in 1..Len(queue) : queue[i] # "flush"
          BY <3>3 DEF FlushPart, NoFlush
        <4>2. \A i \in 1..Len(queue') : queue'[i] # "flush"
          BY <1>a, <1>b, <4>1
        <4> QED BY <3>1, <3>3, <4>2 DEF NoFlush
      <3> QED BY <3>2, <3>3
    <2> QED BY <2>1, <2>2
  <1>7. BooksPart'
    BY NoWriterFacts DEF QuietPart, BooksPart, InUse, Blocked, Silent, outsideVars, writeVars,
       workVars, TakesLock, Deferred, Listens
  <1>8. OwedPart'
    <2>1. writer' # NoWriter => ~replaced'
      BY <1>c
    <2>2. writer' = NoWriter /\ wanted # NoSetting => hassState = "stopping"
      <3> SUFFICES ASSUME writer' = NoWriter, wanted # NoSetting, hassState # "stopping"
                   PROVE  FALSE
        OBVIOUS
      <3>1. writer'.by = Head(queue)
        BY <1>c
      <3> QED BY <1>b, <3>1, NoWriterFacts DEF Jobs
    <2> QED BY <1>d, <2>1, <2>2 DEF OwedPart
  <1>9. HistoryPart'
    BY NoWriterFacts DEF QuietPart, BooksPart, HistoryPart, InUse, Blocked, Silent, outsideVars,
       writeVars, workVars, TakesLock, Deferred, Listens
  <1>10. GuessPart'
    BY NoWriterFacts DEF StateTypes, QuietPart, GuessPart, InUse, Blocked, Silent, outsideVars,
       writeVars, workVars, TakesLock, Deferred, Listens
  <1> QED BY <1>1, <1>2, <1>3, <1>4, <1>5, <1>6, <1>7, <1>8, <1>9, <1>10 DEF StoreInv, TypePart

LEMMA WritesFileKeeps ==
    ASSUME StoreInv, WritesFile
    PROVE  StoreInv'
  <1> /\ SettingTypes /\ StateTypes /\ FlagTypes /\ WriterTypes /\ QuietPart /\ FlushPart
      /\ BooksPart /\ OwedPart /\ HistoryPart /\ GuessPart
    BY DEF StoreInv, TypePart
  <1>a. /\ writer # NoWriter /\ ~writer.written
        /\ writer \in [by : Jobs, config : Configs, written : BOOLEAN]
    BY WriterFacts DEF WritesFile
  <1>b. \/ setFile' = setFile /\ accepted' = accepted
        \/ setFile' = writer.config /\ accepted' = SinceAccepted(writer.config)
    BY DEF WritesFile
  <1>1. SettingTypes'
    <2>1. accepted' \in Seq(SettingContents)
      BY <1>a, <1>b, Written DEF SettingTypes
    <2>2. setFile' \in SettingContents
      BY <1>a, <1>b, SettingFacts DEF SettingTypes
    <2> QED BY <2>1, <2>2 DEF SettingTypes, WritesFile
  <1>2. StateTypes'
    BY NoWriterFacts, WriterFacts, FlawFacts DEF StateTypes, outsideVars, writeVars, workVars,
       WritesFile
  <1>3. FlagTypes'
    BY NoWriterFacts, WriterFacts, FlawFacts, ZenonT(30) DEF FlagTypes, outsideVars, writeVars,
       workVars, WritesFile
  <1>4. WriterTypes'
    BY NoWriterFacts, WriterFacts, FlawFacts DEF WriterTypes, outsideVars, writeVars, workVars,
       WritesFile
  <1>5. QuietPart'
    BY NoWriterFacts, WriterFacts, FlawFacts DEF QuietPart, InUse, Blocked, Silent, outsideVars,
       writeVars, workVars, WritesFile
  <1>6. FlushPart'
    BY NoWriterFacts, WriterFacts, FlawFacts DEF QuietPart, FlushPart, FlushIsLast, NoFlush,
       InUse, Blocked, Silent, outsideVars, writeVars, workVars, WritesFile
  <1>7. BooksPart'
    BY NoWriterFacts, WriterFacts, FlawFacts DEF QuietPart, BooksPart, InUse, Blocked, Silent,
       outsideVars, writeVars, workVars, WritesFile
  <1>8. OwedPart'
    BY NoWriterFacts, WriterFacts, FlawFacts DEF StateTypes, WriterTypes, OwedPart, InUse,
       Blocked, Silent, outsideVars, writeVars, workVars, WritesFile
  <1>9. HistoryPart'
    <2>1. writer'.written
      BY <1>a DEF WritesFile
    <2>2. /\ accepted # <<>> /\ accepted[1] = setFile
          /\ accepted[Len(accepted)] = config
      BY <1>a DEF HistoryPart, Silent
    <2>3. accepted' # <<>> /\ accepted'[1] = setFile' /\ accepted'[Len(accepted')] = config
      BY <1>a, <1>b, <2>2, Written
    <2> QED BY <2>1, <2>3 DEF HistoryPart, WritesFile
  <1>10. GuessPart'
    BY NoWriterFacts, WriterFacts, FlawFacts DEF StateTypes, QuietPart, GuessPart, InUse,
       Blocked, Silent, outsideVars, writeVars, workVars, WritesFile
  <1> QED BY <1>1, <1>2, <1>3, <1>4, <1>5, <1>6, <1>7, <1>8, <1>9, <1>10 DEF StoreInv, TypePart

LEMMA ReadsBackKeeps ==
    ASSUME StoreInv, ReadsBack
    PROVE  StoreInv'
  <1> /\ SettingTypes /\ StateTypes /\ FlagTypes /\ WriterTypes /\ QuietPart /\ FlushPart
      /\ BooksPart /\ OwedPart /\ HistoryPart /\ GuessPart
    BY DEF StoreInv, TypePart
  \* The unload's save leaves nobody behind who could write.
  <1>a. writer.by = "flush" /\ hassState = "running" => queue = <<>> /\ ~timerRuns /\ ~listener
    BY DEF FlushPart, FlushIsLast, NoFlush
  <1>b. writer # NoWriter
    BY NoWriterFacts DEF ReadsBack, Confirms
  <1>1. SettingTypes'
    BY NoWriterFacts, WriterFacts DEF SettingTypes, outsideVars, writeVars, workVars, ReadsBack,
       Confirms, Releases
  <1>2. StateTypes'
    BY NoWriterFacts, WriterFacts DEF StateTypes, outsideVars, writeVars, workVars, ReadsBack,
       Confirms, Releases
  <1>3. FlagTypes'
    BY NoWriterFacts, WriterFacts, ZenonT(30) DEF FlagTypes, outsideVars, writeVars, workVars,
       ReadsBack, Confirms, Releases
  <1>4. WriterTypes'
    BY NoWriterFacts, WriterFacts DEF WriterTypes, outsideVars, writeVars, workVars, ReadsBack,
       Confirms, Releases
  <1>5. QuietPart'
    BY <1>a, <1>b, SMTT(30) DEF QuietPart, InUse, Blocked, Silent, outsideVars, workVars,
       ReadsBack, Confirms, Releases
  <1>6. FlushPart'
    BY NoWriterFacts, WriterFacts DEF QuietPart, FlushPart, FlushIsLast, NoFlush, InUse,
       Blocked, Silent, outsideVars, writeVars, workVars, ReadsBack, Confirms, Releases
  <1>7. BooksPart'
    BY NoWriterFacts, WriterFacts DEF QuietPart, BooksPart, InUse, Blocked, Silent, outsideVars,
       writeVars, workVars, ReadsBack, Confirms, Releases
  <1>8. OwedPart'
    BY NoWriterFacts, WriterFacts DEF StateTypes, WriterTypes, OwedPart, InUse, Blocked, Silent,
       outsideVars, writeVars, workVars, ReadsBack, Confirms, Releases
  <1>9. HistoryPart'
    BY NoWriterFacts, WriterFacts DEF QuietPart, BooksPart, HistoryPart, InUse, Blocked, Silent,
       outsideVars, writeVars, workVars, ReadsBack, Confirms, Releases
  <1>10. GuessPart'
    BY NoWriterFacts, WriterFacts DEF StateTypes, QuietPart, GuessPart, InUse, Blocked, Silent,
       outsideVars, writeVars, workVars, ReadsBack, Confirms, Releases
  <1> QED BY <1>1, <1>2, <1>3, <1>4, <1>5, <1>6, <1>7, <1>8, <1>9, <1>10 DEF StoreInv, TypePart

LEMMA ReadbackFailsKeeps ==
    ASSUME StoreInv, ReadbackFails
    PROVE  StoreInv'
  <1> /\ SettingTypes /\ StateTypes /\ FlagTypes /\ WriterTypes /\ QuietPart /\ FlushPart
      /\ BooksPart /\ OwedPart /\ HistoryPart /\ GuessPart
    BY DEF StoreInv, TypePart
  \* The unload's save leaves nobody behind who could write.
  <1>a. writer.by = "flush" /\ hassState = "running" => queue = <<>> /\ ~timerRuns /\ ~listener
    BY DEF FlushPart, FlushIsLast, NoFlush
  <1>b. writer # NoWriter
    BY NoWriterFacts DEF ReadbackFails
  <1>1. SettingTypes'
    BY NoWriterFacts, WriterFacts, FlawFacts DEF SettingTypes, outsideVars, writeVars, workVars,
       ReadbackFails, Releases, AfterFailure, SchedulesWrite, DelaySave, OnItsWay
  <1>2. StateTypes'
    BY NoWriterFacts, WriterFacts, FlawFacts DEF StateTypes, outsideVars, writeVars, workVars,
       ReadbackFails, Releases, AfterFailure, SchedulesWrite, DelaySave, OnItsWay
  <1>3. FlagTypes'
    BY NoWriterFacts, WriterFacts, FlawFacts, ZenonT(30) DEF FlagTypes, outsideVars, writeVars,
       workVars, ReadbackFails, Releases, AfterFailure, SchedulesWrite, DelaySave, OnItsWay
  <1>4. WriterTypes'
    BY NoWriterFacts, WriterFacts, FlawFacts DEF WriterTypes, outsideVars, writeVars, workVars,
       ReadbackFails, Releases, AfterFailure, SchedulesWrite, DelaySave, OnItsWay
  <1>5. QuietPart'
    BY <1>a, <1>b, SMTT(30) DEF QuietPart, InUse, Blocked, Silent, outsideVars, workVars,
       ReadbackFails, Releases, AfterFailure, DelaySave, OnItsWay, SchedulesWrite
  <1>6. FlushPart'
    BY NoWriterFacts, WriterFacts, FlawFacts DEF QuietPart, FlushPart, FlushIsLast, NoFlush,
       InUse, Blocked, Silent, outsideVars, writeVars, workVars, ReadbackFails, Releases,
       AfterFailure, SchedulesWrite, DelaySave, OnItsWay
  <1>7. BooksPart'
    BY NoWriterFacts, WriterFacts, FlawFacts DEF QuietPart, BooksPart, InUse, Blocked, Silent,
       outsideVars, writeVars, workVars, ReadbackFails, Releases, AfterFailure, SchedulesWrite,
       DelaySave, OnItsWay
  <1>8. OwedPart'
    BY NoWriterFacts, WriterFacts, FlawFacts DEF StateTypes, WriterTypes, OwedPart, InUse,
       Blocked, Silent, outsideVars, writeVars, workVars, ReadbackFails, Releases, AfterFailure,
       SchedulesWrite, DelaySave, OnItsWay
  <1>9. HistoryPart'
    BY NoWriterFacts, WriterFacts, FlawFacts DEF QuietPart, BooksPart, HistoryPart, InUse,
       Blocked, Silent, outsideVars, writeVars, workVars, ReadbackFails, Releases, AfterFailure,
       SchedulesWrite, DelaySave, OnItsWay
  <1>10. GuessPart'
    BY NoWriterFacts, WriterFacts, FlawFacts DEF StateTypes, QuietPart, GuessPart, InUse,
       Blocked, Silent, outsideVars, writeVars, workVars, ReadbackFails, Releases, AfterFailure,
       SchedulesWrite, DelaySave, OnItsWay
  <1> QED BY <1>1, <1>2, <1>3, <1>4, <1>5, <1>6, <1>7, <1>8, <1>9, <1>10 DEF StoreInv, TypePart

LEMMA FinishesKeeps ==
    ASSUME StoreInv, Finishes
    PROVE  StoreInv'
  <1> /\ SettingTypes /\ StateTypes /\ FlagTypes /\ WriterTypes /\ QuietPart /\ FlushPart
      /\ BooksPart /\ OwedPart /\ HistoryPart /\ GuessPart
    BY DEF StoreInv, TypePart
  <1>a. /\ setPhase = "boot" /\ setPhase' = "up" /\ wanted = NoSetting /\ hassState # "final"
        /\ ~timerRuns /\ ~listener /\ ~scheduled /\ writer = NoWriter /\ queue = <<>>
        /\ UNCHANGED <<setFile, hassState, source, confirmed, writer>>
    <2>1. setPhase = "boot" /\ Silent
      BY DEF Finishes, QuietPart
    <2>2. ~scheduled
      BY <2>1 DEF Silent, WriterTypes
    <2> QED BY <2>1, <2>2 DEF Finishes, BooksPart, Silent, outsideVars
  <1>b. /\ config' = Migrated /\ Migrated \in Configs /\ Migrated.value # "odd"
        /\ source # "missing" => Migrated = config
    BY MigratedFacts DEF Finishes, TypePart
  <1>c. accepted' = IF config' = config THEN accepted ELSE Append(accepted, config')
    BY DEF Finishes
  <1>d. \/ /\ source = "missing" /\ wanted' = config' /\ replaced'
           /\ ~scheduled' /\ ~timerRuns' /\ ~listener' /\ queue' = <<"save">>
        \/ Blocked /\ UNCHANGED <<wanted, replaced, scheduled, timerRuns, listener, queue>>
        \/ /\ source # "missing" /\ ~Blocked /\ config' = confirmed
           /\ UNCHANGED <<wanted, replaced, scheduled, timerRuns, listener, queue>>
        \/ /\ source # "missing" /\ ~Blocked /\ wanted' = config' /\ replaced' /\ scheduled'
           /\ listener' /\ timerRuns' /\ queue' = queue
    <2>1. CASE source = "missing"
      <3>1. SavesNow("save", config')
        BY <2>1 DEF Finishes
      <3>2. wanted' = config' /\ replaced' /\ ~scheduled' /\ ~timerRuns' /\ ~listener'
        BY <3>1, Zenon DEF SavesNow, Cancels
      <3>3. queue' = <<"save">>
        BY <1>a, <3>1 DEF SavesNow
      <3> QED BY <2>1, <3>2, <3>3
    <2>2. CASE Blocked
      BY <2>2, Zenon DEF Finishes, SchedulesSave, Blocked
    <2>3. CASE source # "missing" /\ ~Blocked
      <3>1. DelaySave(config', writer # NoWriter) /\ queue' = queue
        BY <2>3 DEF Finishes, SchedulesSave
      <3> QED BY <1>a, <2>3, <3>1, Delayed
    <2> QED BY <2>1, <2>2, <2>3
  <1>1. SettingTypes'
    <2>1. accepted' \in Seq(SettingContents)
      BY <1>b, <1>c, Accepted, SettingFacts DEF SettingTypes
    <2>2. wanted' \in Configs \cup {NoSetting}
      BY <1>a, <1>b, <1>d
    <2> QED BY <1>a, <1>b, <2>1, <2>2 DEF SettingTypes
  <1>2. StateTypes'
    BY SettingFacts, MigratedFacts, NoWriterFacts DEF StateTypes, outsideVars, writeVars,
       workVars, Finishes, SavesNow, Cancels, SchedulesSave, DelaySave, OnItsWay,
       SchedulesWrite, Migrated
  <1>3. FlagTypes'
    BY SettingFacts, MigratedFacts, NoWriterFacts, ZenonT(30) DEF FlagTypes, outsideVars,
       writeVars, workVars, Finishes, SavesNow, Cancels, SchedulesSave, DelaySave, OnItsWay,
       SchedulesWrite, Migrated
  <1>4. WriterTypes'
    <2>1. queue' \in Seq(Jobs)
      <3>1. <<>> \in Seq(Jobs) /\ <<"save">> \in Seq(Jobs)
        BY DEF Jobs
      <3> QED BY <1>a, <1>d, <3>1
    <2>2. scheduled' <=> timerRuns'
      BY <1>a, <1>d
    <2> QED BY <1>a, <2>1, <2>2 DEF WriterTypes
  <1>5. QuietPart'
    BY SettingFacts, MigratedFacts, NoWriterFacts DEF QuietPart, InUse, Blocked, Silent,
       outsideVars, writeVars, workVars, Finishes, SavesNow, Cancels, SchedulesSave, DelaySave,
       OnItsWay, SchedulesWrite, Migrated
  <1>6. FlushPart'
    BY SettingFacts, MigratedFacts, NoWriterFacts DEF QuietPart, FlushPart, FlushIsLast,
       NoFlush, InUse, Blocked, Silent, outsideVars, writeVars, workVars, Finishes, SavesNow,
       Cancels, SchedulesSave, DelaySave, OnItsWay, SchedulesWrite, Migrated
  <1>7. BooksPart'
    BY <1>a, <1>b, <1>d, SettingFacts, SMTT(30) DEF BooksPart, InUse, Blocked
  <1>8. OwedPart'
    BY <1>a, <1>b, <1>d, SettingFacts, SMTT(30) DEF OwedPart, Blocked
  <1>9. HistoryPart'
    BY SettingFacts, MigratedFacts, NoWriterFacts DEF QuietPart, BooksPart, HistoryPart, InUse,
       Blocked, Silent, outsideVars, writeVars, workVars, Finishes, SavesNow, Cancels,
       SchedulesSave, DelaySave, OnItsWay, SchedulesWrite, Migrated
  <1>10. GuessPart'
    BY SettingFacts, MigratedFacts, NoWriterFacts DEF StateTypes, QuietPart, GuessPart, InUse,
       Blocked, Silent, outsideVars, writeVars, workVars, Finishes, SavesNow, Cancels,
       SchedulesSave, DelaySave, OnItsWay, SchedulesWrite, Migrated
  <1> QED BY <1>1, <1>2, <1>3, <1>4, <1>5, <1>6, <1>7, <1>8, <1>9, <1>10 DEF StoreInv, TypePart

LEMMA ChangesKeeps ==
    ASSUME StoreInv, NEW value \in {"on", "off"}, Changes(value)
    PROVE  StoreInv'
  <1> /\ SettingTypes /\ StateTypes /\ FlagTypes /\ WriterTypes /\ QuietPart /\ FlushPart
      /\ BooksPart /\ OwedPart /\ HistoryPart /\ GuessPart
    BY DEF StoreInv, TypePart
  <1>a. /\ setPhase = "up" /\ hassState # "final" /\ config' \in Configs
        /\ config'.value # "odd" /\ ~config'.marked
        /\ UNCHANGED <<setFile, outsideVars, setPhase, source, confirmed, writer, queue, finalLost>>
    BY ChangedFacts DEF Changes
  <1>b. /\ accepted' = IF Blocked \/ config' = config THEN accepted ELSE Append(accepted, config')
        /\ accepted' \in Seq(SettingContents)
    BY <1>a, Accepted, SettingFacts DEF Changes, SettingTypes
  <1>c. \/ Blocked /\ UNCHANGED <<wanted, replaced, scheduled, timerRuns, listener>>
        \/ /\ ~Blocked /\ config' = IF wanted # NoSetting THEN wanted ELSE confirmed
           /\ UNCHANGED <<wanted, replaced, scheduled, timerRuns, listener>>
        \/ /\ ~Blocked /\ wanted' = config' /\ replaced' /\ scheduled' /\ listener'
           /\ timerRuns' <=> (timerRuns \/ ~scheduled)
    BY Delayed, Zenon DEF Changes, SchedulesSave
  <1>1. SettingTypes'
    BY <1>a, <1>b, <1>c, SMTT(30) DEF SettingTypes
  <1>2. StateTypes'
    BY ChangedFacts, NoWriterFacts DEF StateTypes, outsideVars, writeVars, workVars, Changes,
       SchedulesSave, DelaySave, OnItsWay, SchedulesWrite
  <1>3. FlagTypes'
    BY ChangedFacts, NoWriterFacts, ZenonT(30) DEF FlagTypes, outsideVars, writeVars, workVars,
       Changes, SchedulesSave, DelaySave, OnItsWay, SchedulesWrite
  <1>4. WriterTypes'
    <2>1. timerRuns' => scheduled'
      BY <1>c, Zenon DEF WriterTypes
    <2>2. scheduled' => timerRuns' \/ (scheduled /\ ~timerRuns)
      BY <1>c, Zenon
    <2> QED BY <1>a, <2>1, <2>2 DEF WriterTypes
  <1>5. QuietPart'
    BY ChangedFacts, NoWriterFacts DEF QuietPart, InUse, Blocked, Silent, outsideVars,
       writeVars, workVars, Changes, SchedulesSave, DelaySave, OnItsWay, SchedulesWrite
  <1>6. FlushPart'
    BY ChangedFacts, NoWriterFacts DEF QuietPart, FlushPart, FlushIsLast, NoFlush, InUse,
       Blocked, Silent, outsideVars, writeVars, workVars, Changes, SchedulesSave, DelaySave,
       OnItsWay, SchedulesWrite
  <1>7. BooksPart'
    BY <1>a, <1>c, SettingFacts, SMTT(30) DEF BooksPart, InUse, Blocked
  <1>8. OwedPart'
    <2>1. scheduled /\ ~timerRuns => queue # <<>>
      BY DEF WriterTypes
    <2>2. CASE UNCHANGED <<wanted, replaced, timerRuns, listener>>
      BY <1>a, <2>2 DEF OwedPart, Blocked, outsideVars
    <2>3. CASE timerRuns' \/ queue # <<>>
      BY <1>a, <2>3 DEF OwedPart, outsideVars
    <2>4. UNCHANGED <<wanted, replaced, timerRuns, listener>> \/ timerRuns' \/ queue # <<>>
      BY <1>c, <2>1, Zenon
    <2> QED BY <2>2, <2>3, <2>4
  <1>9. HistoryPart'
    <2>1. CASE Blocked
      <3>1. Silent' /\ InUse' /\ Blocked'
        BY <1>a, <1>c, <2>1 DEF QuietPart, Silent, InUse, Blocked
      <3> QED BY <3>1 DEF HistoryPart, Silent
    <2>2. CASE ~Blocked
      <3>1. accepted # <<>> /\ accepted[1] = setFile /\ accepted[Len(accepted)] = config
        BY <1>a, <2>2 DEF HistoryPart, InUse
      <3>2. accepted' # <<>> /\ accepted'[1] = setFile /\ accepted'[Len(accepted')] = config'
        BY <1>a, <1>b, <2>2, <3>1, Accepted, SettingFacts DEF SettingTypes
      <3>3. /\ Len(accepted) \in Nat /\ Len(accepted') \in Nat /\ Len(accepted') >= Len(accepted)
            /\ \A i \in 1..Len(accepted) : accepted'[i] = accepted[i]
        BY <1>a, <1>b, <2>2, Accepted, SettingFacts DEF SettingTypes
      <3> QED BY <1>a, <3>2, <3>3, SMTT(30) DEF HistoryPart
    <2> QED BY <2>1, <2>2
  <1>10. GuessPart'
    BY ChangedFacts, NoWriterFacts DEF StateTypes, QuietPart, GuessPart, InUse, Blocked, Silent,
       outsideVars, writeVars, workVars, Changes, SchedulesSave, DelaySave, OnItsWay,
       SchedulesWrite
  <1> QED BY <1>1, <1>2, <1>3, <1>4, <1>5, <1>6, <1>7, <1>8, <1>9, <1>10 DEF StoreInv, TypePart

LEMMA EndsProcessKeeps ==
    ASSUME StoreInv, EndsProcess, ioFaults' \in 0..MaxIoFaults
    PROVE  StoreInv'
  <1> /\ SettingTypes /\ StateTypes /\ FlagTypes /\ WriterTypes /\ QuietPart /\ FlushPart
      /\ BooksPart /\ OwedPart /\ HistoryPart /\ GuessPart
    BY DEF StoreInv, TypePart
  <1>1. SettingTypes'
    BY SettingFacts, NoWriterFacts DEF SettingTypes, outsideVars, writeVars, workVars,
       EndsProcess, Cancels
  <1>2. StateTypes'
    BY SettingFacts, NoWriterFacts DEF StateTypes, outsideVars, writeVars, workVars,
       EndsProcess, Cancels
  <1>3. FlagTypes'
    BY SettingFacts, NoWriterFacts, ZenonT(30) DEF FlagTypes, outsideVars, writeVars, workVars,
       EndsProcess, Cancels
  <1>4. WriterTypes'
    BY SettingFacts, NoWriterFacts DEF WriterTypes, outsideVars, writeVars, workVars,
       EndsProcess, Cancels
  <1>5. QuietPart'
    BY SettingFacts, NoWriterFacts DEF QuietPart, InUse, Blocked, Silent, outsideVars,
       writeVars, workVars, EndsProcess, Cancels
  <1>6. FlushPart'
    BY SettingFacts, NoWriterFacts DEF QuietPart, FlushPart, FlushIsLast, NoFlush, InUse,
       Blocked, Silent, outsideVars, writeVars, workVars, EndsProcess, Cancels
  <1>7. BooksPart'
    BY SettingFacts, NoWriterFacts DEF QuietPart, BooksPart, InUse, Blocked, Silent,
       outsideVars, writeVars, workVars, EndsProcess, Cancels
  <1>8. OwedPart'
    BY SettingFacts, NoWriterFacts DEF StateTypes, WriterTypes, OwedPart, InUse, Blocked,
       Silent, outsideVars, writeVars, workVars, EndsProcess, Cancels
  <1>9. HistoryPart'
    BY SettingFacts, NoWriterFacts DEF QuietPart, BooksPart, HistoryPart, InUse, Blocked,
       Silent, outsideVars, writeVars, workVars, EndsProcess, Cancels
  <1>10. GuessPart'
    BY SettingFacts, NoWriterFacts DEF StateTypes, QuietPart, GuessPart, InUse, Blocked, Silent,
       outsideVars, writeVars, workVars, EndsProcess, Cancels
  <1> QED BY <1>1, <1>2, <1>3, <1>4, <1>5, <1>6, <1>7, <1>8, <1>9, <1>10 DEF StoreInv, TypePart

\* The worker, the dumps and everything outside touch the worker's variables only.
LEMMA WorkerStepsKeep ==
    ASSUME StoreInv, WorkerLocks \/ WorkerEvaluated \/ Dumps \/ UNCHANGED storeVars
    PROVE  StoreInv'
  <1> TypePart
    BY DEF StoreInv
  <1> /\ SettingTypes /\ StateTypes /\ FlagTypes /\ WriterTypes /\ QuietPart /\ FlushPart
      /\ BooksPart /\ OwedPart /\ HistoryPart /\ GuessPart
    BY DEF StoreInv, TypePart
  <1>1. UNCHANGED <<setFile, hassState, setPhase, source, config, writeVars, accepted, guessed,
                    finalLost, ioFaults>>
    BY DEF WorkerLocks, WorkerEvaluated, Dumps, storeVars, outsideVars, writeVars
  <1>2. SettingTypes' /\ WriterTypes'
    BY <1>1 DEF SettingTypes, WriterTypes, writeVars
  <1>3. StateTypes'
    BY <1>1, DumpedFacts DEF WorkerLocks, WorkerEvaluated, Dumps, storeVars, outsideVars,
       workVars,
       StateTypes
  <1>4. FlagTypes'
    BY <1>1, Zenon DEF WorkerLocks, WorkerEvaluated, Dumps, storeVars, workVars, writeVars,
       FlagTypes
  <1>5. QuietPart' /\ FlushPart' /\ BooksPart' /\ OwedPart' /\ HistoryPart' /\ GuessPart'
    <2>1. QuietPart' /\ FlushPart'
      BY <1>1 DEF QuietPart, FlushPart, FlushIsLast, NoFlush, Silent, InUse, Blocked, writeVars
    <2>2. BooksPart' /\ OwedPart'
      BY <1>1 DEF BooksPart, OwedPart, InUse, Blocked, writeVars
    <2>3. HistoryPart' /\ GuessPart'
      BY <1>1 DEF HistoryPart, GuessPart, Silent, InUse, Blocked, writeVars
    <2> QED BY <2>1, <2>2, <2>3
  <1> QED BY <1>2, <1>3, <1>4, <1>5 DEF StoreInv, TypePart

LEMMA LoadsKeeps ==
    ASSUME StoreInv, Loads
    PROVE  StoreInv'
  <1> /\ SettingTypes /\ StateTypes /\ FlagTypes /\ WriterTypes /\ QuietPart /\ FlushPart
      /\ BooksPart /\ OwedPart /\ HistoryPart /\ GuessPart
    BY DEF StoreInv, TypePart
  <1>1. /\ setPhase = "off" /\ hassState = "running" /\ setPhase' = "boot" /\ Silent
        /\ source' \in {"missing", "loaded", "failed"} /\ setFile' = setFile
        /\ wanted' = NoSetting
        /\ UNCHANGED <<hassState, shownLast, timerRuns, listener, writer, queue, finalLost, worker>>
    BY DEF Loads, QuietPart, outsideVars
  <1>2. source' = "loaded" => /\ setFile \in Configs /\ config' = Sanitized(setFile)
                              /\ confirmed' = setFile
    BY SMTT(30) DEF Loads, SettingTypes, SettingContents, LoadedConfig
  <1>3. /\ source' # "loaded" => config' = Factory /\ confirmed' = NoSetting /\ ~guessed'
        /\ source' = "missing" => setFile = NoSetting
    <2>1. source' # "loaded" => ~guessed'
      BY Zenon DEF Loads
    <2> QED BY <2>1, SMTT(30) DEF Loads
  <1>4. SettingTypes'
    <2>1. accepted' \in Seq(SettingContents)
      <3>1. config' \in SettingContents /\ setFile \in SettingContents
        BY <1>2, <1>3, SettingFacts DEF SettingTypes
      <3>2. accepted' \in {<<setFile>>, <<setFile, config'>>}
        BY DEF Loads, Began
      <3>3. <<setFile>> \in Seq(SettingContents) /\ <<setFile, config'>> \in Seq(SettingContents)
        BY <3>1
      <3> QED BY <3>2, <3>3
    <2> QED BY <1>1, <1>2, <1>3, <2>1, SettingFacts DEF SettingTypes
  <1>5. StateTypes'
    BY <1>1, FlawFacts DEF Loads, StateTypes
  <1>6. FlagTypes'
    <2>1. replaced' \in BOOLEAN /\ scheduled' \in BOOLEAN /\ moved' \in BOOLEAN
      BY ZenonT(20) DEF Loads
    <2>2. setFile.marked \in BOOLEAN
      BY SettingFacts DEF SettingTypes
    <2>3. guessed' \in BOOLEAN
      BY <2>2, ZenonT(20) DEF Loads, FlagTypes
    <2> QED BY <1>1, <2>1, <2>3, Zenon DEF FlagTypes
  <1>7. WriterTypes'
    BY <1>1 DEF Loads, WriterTypes, Silent
  <1>8. QuietPart' /\ FlushPart' /\ BooksPart' /\ OwedPart'
    <2>1. QuietPart'
      BY <1>1 DEF QuietPart, Silent
    <2>2. FlushPart'
      BY <1>1, NoWriterFacts DEF FlushPart, NoFlush, Silent
    <2>3. BooksPart' /\ OwedPart'
      BY <1>1, <1>2, <1>3 DEF BooksPart, OwedPart, InUse, Blocked, Silent
    <2> QED BY <2>1, <2>2, <2>3
  <1>9. HistoryPart'
    <2>1. Blocked' => accepted' = <<setFile>>
      BY DEF Loads, Blocked
    <2>2. ~Blocked' => accepted' = Began(config')
      BY DEF Loads, Blocked
    <2> QED BY <1>1, <2>1, <2>2 DEF HistoryPart, Began, InUse, Blocked, Silent
  <1>10. GuessPart'
    <2>1. source' = "loaded" /\ guessed' => config'.marked
      <3> SUFFICES ASSUME source' = "loaded", guessed'
                   PROVE  setFile.marked
        BY <1>2, SettingFacts
      <3>1. CASE setFile # config
        BY <3>1, Zenon DEF Loads
      <3>2. CASE setFile = config
        <4>1. guessed
          BY <3>2, Zenon DEF Loads
        <4> QED BY <1>1, <3>2, <4>1 DEF GuessPart
      <3> QED BY <3>1, <3>2
    <2> QED BY <1>1, <1>3, <2>1 DEF GuessPart, InUse
  <1> QED BY <1>4, <1>5, <1>6, <1>7, <1>8, <1>9, <1>10 DEF StoreInv, TypePart

LEMMA StoreInitially == StoreInit => StoreInv
  <1> SUFFICES ASSUME StoreInit PROVE StoreInv
    OBVIOUS
  <1> USE DEF StoreInit
  <1>1. SettingTypes /\ StateTypes /\ WriterTypes
    <2>1. <<NoSetting>> \in Seq(SettingContents) /\ <<>> \in Seq(Jobs)
      BY SettingFacts
    <2> QED BY <2>1, SettingFacts, SettingBounds DEF SettingTypes, StateTypes, WriterTypes
  <1>2. FlagTypes
    BY Zenon DEF FlagTypes
  <1>3. QuietPart /\ FlushPart
    BY NoWriterFacts DEF QuietPart, FlushPart, NoFlush, Silent, InUse
  <1>4. BooksPart /\ OwedPart /\ HistoryPart /\ GuessPart
    BY DEF BooksPart, OwedPart, HistoryPart, GuessPart, InUse, Silent
  <1> QED BY <1>1, <1>2, <1>3, <1>4 DEF StoreInv, TypePart

LEMMA StoreSteps == StoreInv /\ [StoreNext]_storeVars => StoreInv'
  <1> SUFFICES ASSUME StoreInv, [StoreNext]_storeVars PROVE StoreInv'
    OBVIOUS
  <1>1. CASE Found \/ Loads \/ Finishes \/ SetupFails \/ Unloads \/ Flushes
    BY <1>1, FoundKeeps, LoadsKeeps, FinishesKeeps, SetupFailsKeeps, UnloadsKeeps, FlushesKeeps
  <1>2. CASE HassStops \/ FinalEvent \/ Repairs
    BY <1>2, HassStopsKeeps, FinalEventKeeps, RepairsKeeps
  <1>3. CASE HassExits \/ Dies
    <2>1. StateTypes
      BY DEF StoreInv, TypePart
    <2>2. EndsProcess /\ ioFaults' \in 0..MaxIoFaults
      BY <1>3, <2>1, FlawFacts DEF HassExits, Dies, StateTypes
    <2> QED BY <2>2, EndsProcessKeeps
  <1>4. CASE \E value \in {"on", "off"} : Changes(value)
    BY <1>4, ChangesKeeps
  <1>5. CASE WorkerLocks \/ WorkerEvaluated \/ Dumps
    BY <1>5, WorkerStepsKeep
  <1>6. CASE TimerFires \/ Writes
    BY <1>6, TimerFiresKeeps, TakesLockKeeps, WritesFileKeeps, ReadsBackKeeps,
       ReadbackFailsKeeps DEF Writes
  <1>7. CASE UNCHANGED storeVars
    BY <1>7, WorkerStepsKeep
  <1> QED BY <1>1, <1>2, <1>3, <1>4, <1>5, <1>6, <1>7 DEF StoreNext

\* The inductive invariant of the store holds in every reachable state.
THEOREM StoreInvariant == StoreSpec => []StoreInv
  BY StoreInitially, StoreSteps, PTL DEF StoreSpec

\* Every variable keeps its type, and a delayed write that is noted has its
\* timer or has asked for the lock (control_store.py, _schedule_write).
THEOREM StoreTypeCorrect == StoreSpec => []StoreTypeOK
  <1>1. StoreInv => StoreTypeOK
    BY TypesAreRight DEF StoreInv
  <1> QED BY <1>1, StoreInvariant, PTL

\* No setting is lost on its way: what the store believes saved is in the file,
\* what is not saved is on its way unless the last save failed, nobody writes for
\* an unloaded entry, and a guess stays marked; for any number of changes, faults
\* and deaths.
THEOREM SettingsStaySafe == StoreSpec => []SettingsAreSafe
  <1>1. ASSUME StoreInv
        PROVE  SettingsAreSafe
    <2> SettingTypes /\ QuietPart /\ BooksPart /\ OwedPart /\ GuessPart
      BY <1>1 DEF StoreInv, TypePart
    <2>1. NothingOwedIsSaved /\ NothingLeftBehind
      BY DEF NothingOwedIsSaved, NothingLeftBehind, BooksPart, QuietPart, Silent, InUse
    <2>2. QuietSettingsAreSaved
      BY SettingFacts DEF QuietSettingsAreSaved, BooksPart, OwedPart, InUse
    <2>3. GuessIsMarked
      BY DEF GuessIsMarked, GuessPart, InUse
    <2> QED BY <2>1, <2>2, <2>3 DEF SettingsAreSafe
  <1> QED BY <1>1, StoreInvariant, PTL

-----------------------------------------------------------------------------
(* The promise of DurableSetting, step by step.                             *)

PromisedStep == Durable!DurableNext \/ UNCHANGED Durable!durableVars

Unmoved == setFile' = setFile /\ Use' = Use /\ accepted' = accepted

LEMMA UnmovedIsNoStep == Unmoved => PromisedStep
  BY DEF Unmoved, PromisedStep, Durable!durableVars

\* What was read is closed, or used on.
LEMMA EndsUse ==
    ASSUME setFile' = setFile, accepted' = accepted,
           Use' = Use \/ (Use # "none" /\ Use' = "none")
    PROVE  PromisedStep
  <1>1. CASE Use' = Use
    BY <1>1, UnmovedIsNoStep DEF Unmoved
  <1>2. CASE Use # "none" /\ Use' = "none"
    BY <1>2 DEF PromisedStep, Durable!DurableNext, Durable!Closes
  <1> QED BY <1>1, <1>2

\* Who may still write has read the file.
LEMMA WritersHaveRead ==
    ASSUME StoreInv, ~Silent
    PROVE  Use = "read"
  BY DEF StoreInv, QuietPart, Silent, Use, StillWrites, InUse

\* Files that others bring, and starts.
LEMMA StartsArePromised ==
    ASSUME StoreInv, StoreInv', Found \/ Repairs \/ Loads
    PROVE  PromisedStep
  <1> QuietPart /\ QuietPart' /\ SettingTypes'
    BY DEF StoreInv, TypePart
  <1>1. CASE Found \/ Repairs
    <2>1. Use = "none" /\ Use' = "none"
      BY <1>1 DEF Found, Repairs, QuietPart, Silent, Use, StillWrites, InUse, outsideVars,
         writeVars
    <2>2. setFile' \in SettingContents
      BY DEF SettingTypes
    <2> QED BY <2>1, <2>2 DEF PromisedStep, Durable!DurableNext, Durable!Replaced
  <1>2. CASE Loads
    <2>1. Use = "none" /\ setFile' = setFile /\ InUse'
      BY <1>2 DEF Loads, QuietPart, Silent, Use, StillWrites, InUse
    <2>2. CASE Blocked'
      <3>1. Use' = "refused"
        BY <2>1, <2>2 DEF Use
      <3> QED BY <2>1, <3>1 DEF PromisedStep, Durable!DurableNext, Durable!Refused
    <2>3. CASE ~Blocked'
      <3>1. Use' = "read"
        BY <2>1, <2>3 DEF Use
      <3>2. accepted' = Began(config') /\ config' \in SettingContents
        BY <1>2, <2>3, SettingFacts DEF Loads, Blocked, SettingTypes
      <3>3. Durable!Opens(config')
        BY <2>1, <3>1, <3>2 DEF Durable!Opens, Began
      <3> QED BY <3>2, <3>3 DEF PromisedStep, Durable!DurableNext
    <2> QED BY <2>2, <2>3
  <1> QED BY <1>1, <1>2

\* What the coordinator settles, and what is changed later.
LEMMA AcceptancesArePromised ==
    ASSUME StoreInv, StoreInv', Finishes \/ \E value \in {"on", "off"} : Changes(value)
    PROVE  PromisedStep
  <1>1. /\ setPhase \in {"boot", "up"} /\ setPhase' = "up"
        /\ UNCHANGED <<setFile, source>>
        /\ \/ accepted' = accepted
           \/ ~Blocked /\ accepted' = Append(accepted, config')
    <2>1. CASE Finishes
      <3>1. Blocked => config' = config
        BY <2>1, MigratedFacts DEF Finishes, Blocked, StoreInv
      <3> QED BY <2>1, <3>1 DEF Finishes
    <2>2. CASE \E value \in {"on", "off"} : Changes(value)
      BY <2>2 DEF Changes
    <2> QED BY <2>1, <2>2
  <1>2. Use' = Use /\ (~Blocked => Use = "read")
    BY <1>1 DEF Use, InUse, Blocked
  <1>3. CASE accepted' = accepted
    BY <1>1, <1>2, <1>3, UnmovedIsNoStep DEF Unmoved
  <1>4. CASE ~Blocked /\ accepted' = Append(accepted, config')
    <2>1. config' \in SettingContents
      BY SettingFacts DEF StoreInv, TypePart, SettingTypes
    <2>2. Durable!Accepts(config')
      BY <1>1, <1>2, <1>4 DEF Durable!Accepts
    <2> QED BY <2>1, <2>2 DEF PromisedStep, Durable!DurableNext
  <1> QED BY <1>1, <1>3, <1>4

\* The write is the only step that changes the file while somebody uses it.
LEMMA WritesArePromised ==
    ASSUME StoreInv, StoreInv', WritesFile
    PROVE  PromisedStep
  <1> SettingTypes /\ WriterTypes /\ HistoryPart
    BY DEF StoreInv, TypePart
  <1>1. writer # NoWriter /\ ~writer.written /\ writer' # NoWriter
    <2>1. writer # NoWriter /\ ~writer.written
      BY DEF WritesFile
    <2>2. writer'.written
      BY <2>1, WriterFacts DEF WritesFile
    <2> QED BY <2>1, <2>2, NoWriterFacts
  <1>2. Use = "read" /\ Use' = "read"
    BY <1>1, WritersHaveRead DEF Silent, WritesFile, Use, StillWrites, InUse, Blocked
  <1>3. CASE setFile' = setFile /\ accepted' = accepted
    BY <1>2, <1>3, UnmovedIsNoStep DEF Unmoved
  <1>4. CASE setFile' = writer.config /\ accepted' = SinceAccepted(writer.config)
    <2>1. CASE accepted' = accepted /\ writer.config = setFile
      BY <1>3, <1>4, <2>1
    <2>2. CASE \E i \in 2..Len(accepted) : /\ accepted' = SubSeq(accepted, i, Len(accepted))
                                           /\ accepted[i] = writer.config
      <3>1. PICK i \in 2..Len(accepted) : /\ accepted' = SubSeq(accepted, i, Len(accepted))
                                          /\ accepted[i] = writer.config
        BY <2>2
      <3>2. Durable!Keeps(i)
        BY <1>2, <1>4, <3>1 DEF Durable!Keeps
      <3>3. \E j \in 2..Len(IF Use = "read" THEN accepted ELSE <<setFile>>) : Durable!Keeps(j)
        BY <1>2, <3>1, <3>2
      <3> QED BY <3>3 DEF PromisedStep, Durable!DurableNext
    <2> QED BY <1>1, <1>4, <2>1, <2>2, Written
  <1> QED BY <1>3, <1>4 DEF WritesFile

\* Everything else leaves the file alone; some of it ends its use.
LEMMA RestIsPromised ==
    ASSUME StoreInv, StoreInv',
           \/ SetupFails \/ Unloads \/ Flushes \/ HassStops \/ FinalEvent
           \/ HassExits \/ Dies \/ WorkerLocks \/ WorkerEvaluated \/ Dumps
           \/ TimerFires \/ TakesLock \/ ReadsBack \/ ReadbackFails
    PROVE  PromisedStep
  <1> QuietPart /\ QuietPart' /\ StateTypes /\ WriterTypes
    BY DEF StoreInv, TypePart
  <1>1. setFile' = setFile /\ accepted' = accepted
    BY DEF SetupFails, Unloads, Flushes, HassStops, FinalEvent, HassExits, Dies, EndsProcess,
           WorkerLocks, WorkerEvaluated, Dumps, TimerFires, TakesLock, ReadsBack, ReadbackFails
  <1>2. CASE Unloads \/ HassStops \/ WorkerLocks \/ WorkerEvaluated \/ Dumps
    <2>1. Use' = Use
      BY <1>2 DEF Unloads, HassStops, WorkerLocks, WorkerEvaluated, Dumps, Use, InUse, Blocked,
                  StillWrites, outsideVars, writeVars
    <2> QED BY <1>1, <2>1, EndsUse
  <1>3. CASE SetupFails \/ HassExits \/ Dies
    <2>1. Use' = "none"
      <3>1. setPhase' = "off" /\ Silent'
        <4>1. CASE SetupFails
          BY <4>1 DEF SetupFails, QuietPart, Silent, writeVars
        <4>2. CASE EndsProcess
          BY <4>2, Zenon DEF EndsProcess, Cancels, Silent
        <4> QED BY <1>3, <4>1, <4>2 DEF HassExits, Dies
      <3> QED BY <3>1 DEF Use, InUse, StillWrites, Silent
    <2> QED BY <1>1, <2>1, EndsUse
  <1>4. CASE Flushes
    <2>1. setPhase = "closing" /\ UNCHANGED <<source, writer>>
      BY <1>4 DEF Flushes
    <2>2. CASE Blocked
      <3>1. setPhase' = "off" /\ Silent'
        BY <1>4, <2>1, <2>2 DEF Flushes, QuietPart, InUse, Silent
      <3>2. Use' = "none"
        BY <3>1 DEF Use, InUse, StillWrites, Silent
      <3> QED BY <1>1, <3>2, EndsUse
    <2>3. CASE ~Blocked
      <3>1. Use' = "read" /\ Use = "read"
        BY <1>4, <2>1, <2>3 DEF Flushes, Use, InUse, Blocked
      <3> QED BY <1>1, <3>1, EndsUse
    <2> QED BY <2>2, <2>3
  <1>5. CASE FinalEvent \/ TimerFires
    <2>1. "final" \in Jobs /\ "timer" \in Jobs
      BY DEF Jobs
    <2>2. StillWrites' <=> StillWrites
      BY <1>5, <2>1, Appended DEF FinalEvent, TimerFires, StillWrites, WriterTypes
    <2>3. UNCHANGED <<setPhase, source>>
      BY <1>5 DEF FinalEvent, TimerFires
    <2>4. Use' = Use
      BY <2>2, <2>3 DEF Use, InUse, Blocked
    <2> QED BY <1>1, <2>4, EndsUse
  <1>6. CASE TakesLock \/ ReadsBack \/ ReadbackFails
    <2>1. Use = "read"
      BY <1>6, NoWriterFacts, WritersHaveRead DEF TakesLock, ReadsBack, Confirms, ReadbackFails,
         Silent
    <2>2. ~(InUse /\ Blocked) /\ source' = source /\ setPhase' \in {setPhase, "off"}
      BY <1>6, <2>1 DEF Use, TakesLock, ReadsBack, ReadbackFails
    <2>3. Use' \in {"read", "none"}
      BY <2>2 DEF Use, InUse, Blocked
    <2> QED BY <1>1, <2>1, <2>3, EndsUse
  <1> QED BY <1>2, <1>3, <1>4, <1>5, <1>6

LEMMA EveryStepIsPromised ==
    StoreInv /\ StoreInv' /\ [StoreNext]_storeVars => PromisedStep
  <1> SUFFICES ASSUME StoreInv, StoreInv', [StoreNext]_storeVars PROVE PromisedStep
    OBVIOUS
  <1>1. CASE StoreNext
    BY <1>1, StartsArePromised, AcceptancesArePromised, WritesArePromised, RestIsPromised
       DEF StoreNext, Writes
  <1>2. CASE UNCHANGED storeVars
    <2>1. Unmoved
      BY <1>2 DEF storeVars, Unmoved, Use, InUse, Blocked, StillWrites
    <2> QED BY <2>1, UnmovedIsNoStep
  <1> QED BY <1>1, <1>2

\* The store implements the promise of DurableSetting: what is kept is never
\* older than before, touched only by who has read it, and what a start begins
\* with.
THEOREM StoreKeepsItsPromise == StoreSpec => KeepsItsPromise
  <1>1. StoreInit => Durable!DurableInit
    BY SettingFacts DEF StoreInit, Durable!DurableInit, Use, InUse, StillWrites
  <1>2. StoreInv /\ StoreInv' /\ [StoreNext]_storeVars
            => [Durable!DurableNext]_(Durable!durableVars)
    BY EveryStepIsPromised DEF PromisedStep
  <1> QED BY <1>1, <1>2, StoreInvariant, PTL DEF StoreSpec, KeepsItsPromise, Durable!DurableSpec
=============================================================================
