--------------------------- MODULE AccountsProofs ---------------------------
(***************************************************************************)
(* What the energy counters, the money balance and its status promise, for *)
(* any number of polls, loads, activations, deaths and faults.             *)
(***************************************************************************)
EXTENDS EconomicsStatus, EnergyCounters, EconomicsStore, EconomicsBalance, TLAPS,
        WellFoundedInduction

-----------------------------------------------------------------------------
(* EconomicsStatus: what a poll remembers decides what it publishes        *)

\* Counters of a day: no side has more intervals than polls were made.
DaysUpTo(n) == [Sides -> [priced : 0..n, unpriced : 0..n]]

\* The types, with the counters bounded by the clock.
StatusTypes ==
    /\ polls \in 0..LastPoll
    /\ priceUnavailable \in BOOLEAN /\ quoteAvailable \in BOOLEAN
    /\ lastQuote \in 1..polls \cup {NoAmount}
    /\ booked \in DaysUpTo(polls) \cup {NoAmount}
    /\ originKnown \in BOOLEAN /\ diskError \in BOOLEAN
    /\ status \in Statuses /\ outcome \in Outcomes

\* The period of grace begins after the last price, and no later than the
\* unbroken run of polls without one.
GraceSince ==
    /\ lastPriced \in 0..polls
    /\ unavailableSince \in 1..polls \cup {NoAmount}
    /\ unavailableSince # NoAmount => lastPriced < unavailableSince
    /\ outcome = "missing" =>
         /\ missingSince \in 1..polls /\ unavailableSince \in 1..polls
         /\ unavailableSince <= missingSince
    /\ outcome # "missing" => missingSince = NoAmount

\* What the last poll saw without a price is what it published, whatever else
\* has gone wrong since.
VerdictStands ==
    /\ quoteAvailable => unavailableSince = NoAmount /\ ~priceUnavailable
    /\ outcome = "missing" =>
         /\ priceUnavailable <=> polls - unavailableSince >= GracePolls
         /\ status = "price_unavailable" => priceUnavailable
         /\ priceUnavailable => status \in {"storage_error", "price_unavailable"}

StatusInv == StatusTypes /\ GraceSince /\ VerdictStands

\* The counters of a day stay within one more poll.
LEMMA DayTypes ==
    ASSUME NEW n \in Nat, NEW day \in DaysUpTo(n),
           NEW moved \in Sides \cup {"rest"}, NEW seen \in Outcomes
    PROVE  DayBooked(day, moved, seen) \in DaysUpTo(n + 1)
<1>0. 0..n \subseteq 0..(n + 1) /\ \A k \in 0..n : k + 1 \in 0..(n + 1)
  OBVIOUS
<1>1. day \in DaysUpTo(n + 1)
  <2>1. \A side \in Sides : day[side] \in [priced : 0..(n + 1), unpriced : 0..(n + 1)]
    BY <1>0 DEF DaysUpTo
  <2> QED BY <2>1 DEF DaysUpTo
<1>2. ASSUME NEW side \in Sides
      PROVE  /\ [day EXCEPT ![side].priced = @ + 1] \in DaysUpTo(n + 1)
             /\ [day EXCEPT ![side].unpriced = @ + 1] \in DaysUpTo(n + 1)
  <2>1. day[side] \in [priced : 0..n, unpriced : 0..n]
    BY DEF DaysUpTo
  <2>2. /\ [day[side] EXCEPT !.priced = @ + 1] \in [priced : 0..(n + 1), unpriced : 0..(n + 1)]
        /\ [day[side] EXCEPT !.unpriced = @ + 1] \in [priced : 0..(n + 1), unpriced : 0..(n + 1)]
    BY <2>1, <1>0
  <2> QED BY <2>2, <1>1 DEF DaysUpTo
<1> QED BY <1>1, <1>2 DEF DayBooked

\* What is remembered of the moment when no price could be quoted any more.
LEMMA AvailabilityKeeps ==
    ASSUME StatusInv, NEW seen \in Outcomes, NEW now \in Nat, now = polls + 1,
           now \in 1..LastPoll, Availability(seen, now)
    PROVE  /\ priceUnavailable' \in BOOLEAN /\ quoteAvailable' \in BOOLEAN
           /\ lastQuote' \in 1..now \cup {NoAmount}
           /\ unavailableSince' \in 1..now \cup {NoAmount}
           /\ quoteAvailable' => unavailableSince' = NoAmount /\ ~priceUnavailable'
           /\ seen \in {"off", "price"} => unavailableSince' = NoAmount
           /\ seen = "incomplete" => unavailableSince' = unavailableSince
           /\ seen = "missing" =>
                /\ unavailableSince' = IF unavailableSince = NoAmount THEN now
                                                                      ELSE unavailableSince
                /\ unavailableSince' # NoAmount
                /\ priceUnavailable' <=> now - unavailableSince' >= GracePolls
<1>0. /\ NoAmount \notin Int /\ polls \in Nat
      /\ seen \in {"off", "price", "incomplete", "missing"}
      /\ lastQuote \in 1..polls \cup {NoAmount}
      /\ unavailableSince \in 1..polls \cup {NoAmount}
  BY StatusBounds DEF StatusInv, StatusTypes, GraceSince, Outcomes
<1>1. (quoteAvailable' <=> seen = "price") /\ quoteAvailable' \in BOOLEAN
  BY DEF Availability
<1>2. lastQuote' \in 1..now \cup {NoAmount}
  <2>1. lastQuote' \in {now, lastQuote}
    BY DEF Availability
  <2> QED BY <2>1, <1>0
<1>3. CASE seen \in {"off", "price"}
  <2>1. unavailableSince' = NoAmount /\ priceUnavailable' = FALSE
    BY <1>3 DEF Availability
  <2> QED BY <2>1, <1>1, <1>2, <1>3
<1>4. CASE seen = "incomplete"
  <2>1. unavailableSince' = unavailableSince /\ priceUnavailable' = TRUE
    BY <1>4 DEF Availability
  <2>2. ~quoteAvailable' /\ unavailableSince' \in 1..now \cup {NoAmount}
    BY <2>1, <1>0, <1>1, <1>4
  <2>3. priceUnavailable' \in BOOLEAN
    BY <2>1, Zenon
  <2> QED BY <2>1, <2>2, <2>3, <1>1, <1>2, <1>4
<1>5. CASE seen = "missing"
  <2>1. unavailableSince' = IF unavailableSince = NoAmount THEN now ELSE unavailableSince
    BY <1>5 DEF Availability
  <2>2. ~quoteAvailable'
    BY <1>1, <1>5
  <2>5. priceUnavailable' = (now - unavailableSince' >= GracePolls)
    BY <1>5 DEF Availability
  <2>6. priceUnavailable' \in BOOLEAN
    BY <2>5, SMT
  <2>3. unavailableSince' \in 1..now
    BY <2>1, <1>0
  <2>4. unavailableSince' # NoAmount
    BY <2>3, <1>0
  <2> QED BY <2>1, <2>2, <2>3, <2>4, <2>5, <2>6, <1>1, <1>2, <1>5
<1> QED BY <1>0, <1>3, <1>4, <1>5

\* A price that is missing beyond the grace is the second worst problem.
LEMMA StatusTells ==
    ASSUME NEW seen \in Outcomes, NEW unavailable \in BOOLEAN, NEW day
    PROVE  /\ StatusOf(seen, unavailable, day) \in Statuses
           /\ StatusOf(seen, unavailable, day) = "price_unavailable" => unavailable
           /\ seen # "off" /\ unavailable =>
                StatusOf(seen, unavailable, day) \in {"storage_error", "price_unavailable"}
  BY DEF StatusOf, Statuses

LEMMA PollKeeps == StatusInv /\ StatusPoll => StatusInv'
<1> SUFFICES ASSUME StatusInv, polls < LastPoll, polls' = polls + 1,
                    NEW seen \in Outcomes, NEW moved \in Sides \cup {"rest"},
                    NEW newDay \in BOOLEAN, NEW day,
                    day = IF Started \/ seen # "off"
                          THEN DayBooked(DayBegun(newDay), moved, seen) ELSE NoAmount,
                    Availability(seen, polls'), booked' = day,
                    status' = StatusOf(seen, priceUnavailable', day),
                    outcome' = seen,
                    lastPriced' = IF seen \in {"off", "price"} THEN polls' ELSE lastPriced,
                    missingSince' = IF seen # "missing" THEN NoAmount
                                    ELSE IF missingSince = NoAmount THEN polls'
                                    ELSE missingSince,
                    UNCHANGED <<originKnown, diskError>>
             PROVE  StatusInv'
  BY DEF StatusPoll
<1>1. PICK now \in Nat : now = polls'
  BY DEF StatusInv, StatusTypes
<1>2. /\ now = polls + 1 /\ polls \in Nat /\ now \in 1..LastPoll /\ now \in 0..LastPoll
      /\ Availability(seen, now)
  BY <1>1, StatusBounds DEF StatusInv, StatusTypes
<1>3. /\ priceUnavailable' \in BOOLEAN /\ quoteAvailable' \in BOOLEAN
      /\ lastQuote' \in 1..now \cup {NoAmount}
      /\ unavailableSince' \in 1..now \cup {NoAmount}
      /\ quoteAvailable' => unavailableSince' = NoAmount /\ ~priceUnavailable'
      /\ seen \in {"off", "price"} => unavailableSince' = NoAmount
      /\ seen = "incomplete" => unavailableSince' = unavailableSince
      /\ seen = "missing" =>
           /\ unavailableSince' = IF unavailableSince = NoAmount THEN now ELSE unavailableSince
           /\ unavailableSince' # NoAmount
           /\ priceUnavailable' <=> now - unavailableSince' >= GracePolls
  BY <1>2, AvailabilityKeeps
<1>4. StatusTypes'
  <2>1. booked' \in DaysUpTo(now) \cup {NoAmount}
    <3>1. EmptyDay \in DaysUpTo(polls)
      BY <1>2 DEF EmptyDay, DaysUpTo
    <3>2. DayBegun(newDay) \in DaysUpTo(polls)
      BY <3>1 DEF DayBegun, Started, StatusInv, StatusTypes
    <3> QED BY <3>2, <1>2, DayTypes
  <2>2. status' \in Statuses
    BY <1>3, StatusTells
  <2>3. originKnown' \in BOOLEAN /\ diskError' \in BOOLEAN
    BY Zenon DEF StatusInv, StatusTypes
  <2> QED BY <1>1, <1>2, <1>3, <2>1, <2>2, <2>3 DEF StatusTypes
<1>5. GraceSince'
  <2>0. /\ NoAmount \notin Int /\ seen \in {"off", "price", "incomplete", "missing"}
        /\ lastPriced \in 0..polls
        /\ unavailableSince \in 1..polls \cup {NoAmount}
        /\ unavailableSince # NoAmount => lastPriced < unavailableSince
        /\ outcome = "missing" =>
             /\ missingSince \in 1..polls /\ unavailableSince \in 1..polls
             /\ unavailableSince <= missingSince
        /\ outcome # "missing" => missingSince = NoAmount
    BY StatusBounds DEF StatusInv, GraceSince, Outcomes
  <2>1. lastPriced' \in 0..now
    BY <1>1, <1>2, <2>0
  <2>2. unavailableSince' # NoAmount => lastPriced' < unavailableSince'
    BY <1>1, <1>2, <1>3, <2>0
  <2>3. CASE seen # "missing"
    BY <1>1, <1>3, <2>1, <2>2, <2>3 DEF GraceSince
  <2>4. CASE seen = "missing" /\ missingSince = NoAmount
    <3>1. missingSince' = now /\ unavailableSince' \in 1..now
      BY <1>1, <1>3, <2>4
    <3>2. now \in 1..now /\ unavailableSince' <= now
      BY <1>2, <3>1
    <3> QED BY <1>1, <1>3, <2>1, <2>2, <2>4, <3>1, <3>2 DEF GraceSince
  <2>5. CASE seen = "missing" /\ missingSince # NoAmount
    <3>1. missingSince' = missingSince /\ outcome = "missing"
      BY <2>0, <2>5
    <3>2. unavailableSince' = unavailableSince
      BY <1>3, <2>0, <2>5, <3>1
    <3>3. missingSince \in 1..now /\ unavailableSince \in 1..now
      BY <1>2, <2>0, <3>1
    <3> QED BY <1>1, <1>3, <2>0, <2>1, <2>2, <2>5, <3>1, <3>2, <3>3 DEF GraceSince
  <2> QED BY <2>3, <2>4, <2>5
<1>6. VerdictStands'
  <2>1. seen = "missing" =>
          /\ status' = "price_unavailable" => priceUnavailable'
          /\ priceUnavailable' => status' \in {"storage_error", "price_unavailable"}
    BY <1>3, StatusTells
  <2> QED BY <1>1, <1>3, <2>1 DEF VerdictStands
<1> QED BY <1>4, <1>5, <1>6 DEF StatusInv

LEMMA StatusStepPreserves == StatusInv /\ [StatusNext]_statusVars => StatusInv'
<1> SUFFICES ASSUME StatusInv, [StatusNext]_statusVars PROVE StatusInv'
  OBVIOUS
<1>1. CASE StatusPoll
  BY <1>1, PollKeeps
<1>2. CASE OriginAppears
  <2>1. originKnown' \in BOOLEAN
    BY <1>2 DEF OriginAppears
  <2> QED BY <1>2, <2>1 DEF OriginAppears, StatusInv, StatusTypes, GraceSince, VerdictStands
<1>3. CASE DiskVerdict
  <2>1. diskError' \in BOOLEAN
    BY <1>3, Zenon DEF DiskVerdict
  <2> QED BY <1>3, <2>1 DEF DiskVerdict, StatusInv, StatusTypes, GraceSince, VerdictStands
<1>4. CASE UNCHANGED statusVars
  BY <1>4 DEF statusVars, StatusInv, StatusTypes, GraceSince, VerdictStands
<1> QED BY <1>1, <1>2, <1>3, <1>4 DEF StatusNext, StatusEnded

\* In every reachable state the memory of the last price fits what was seen
\* and what was published.
THEOREM StatusInvariant == StatusSpec => []StatusInv
<1>1. StatusInit => StatusInv
  <2> SUFFICES ASSUME StatusInit PROVE StatusInv
    OBVIOUS
  <2>1. priceUnavailable \in BOOLEAN /\ quoteAvailable \in BOOLEAN
        /\ originKnown \in BOOLEAN /\ diskError \in BOOLEAN
    BY Zenon DEF StatusInit
  <2>2. polls \in 0..LastPoll /\ lastPriced \in 0..polls
    BY StatusBounds DEF StatusInit
  <2>3. status \in Statuses /\ outcome \in Outcomes
    BY DEF StatusInit, Statuses, Outcomes
  <2> QED
    BY <2>1, <2>2, <2>3 DEF StatusInit, StatusInv, StatusTypes, GraceSince, VerdictStands
<1> QED BY <1>1, StatusStepPreserves, PTL DEF StatusSpec

\* The types hold however long the balance runs.
THEOREM StatusTypeCorrect == StatusSpec => []StatusTypeOK
<1>1. StatusInv => StatusTypeOK
  <2> SUFFICES ASSUME StatusInv PROVE StatusTypeOK
    OBVIOUS
  <2>1. polls \in Nat /\ polls <= LastPoll /\ LastPoll \in Nat
    BY StatusBounds DEF StatusInv, StatusTypes
  <2>2. 1..polls \subseteq 1..LastPoll /\ 0..polls \subseteq 0..LastPoll
    BY <2>1
  <2>3. booked \in [Sides -> [priced : 0..LastPoll, unpriced : 0..LastPoll]] \cup {NoAmount}
    <3>1. CASE booked = NoAmount
      BY <3>1
    <3>2. CASE booked \in DaysUpTo(polls)
      <4>1. \A side \in Sides :
              booked[side] \in [priced : 0..LastPoll, unpriced : 0..LastPoll]
        BY <2>2, <3>2 DEF DaysUpTo
      <4> QED BY <3>2, <4>1 DEF DaysUpTo
    <3> QED BY <3>1, <3>2 DEF StatusInv, StatusTypes
  <2> QED BY <2>2, <2>3 DEF StatusInv, StatusTypes, GraceSince, VerdictStands, StatusTypeOK
<1> QED BY <1>1, StatusInvariant, PTL

\* The grace for a missing price is neither cut short nor extended, for every
\* length of it and every sequence of polls, prices, days and disk errors.
THEOREM GraceKept == StatusSpec => []GraceIsExact
<1>1. StatusInv => GraceIsGranted
  <2> SUFFICES ASSUME StatusInv, status = "price_unavailable", outcome = "missing"
               PROVE  polls - lastPriced > GracePolls
    BY DEF GraceIsGranted
  <2>1. /\ unavailableSince \in 1..polls /\ polls \in Nat
        /\ lastPriced \in 0..polls /\ GracePolls \in Nat
    BY StatusBounds DEF StatusInv, StatusTypes, GraceSince
  <2>2. polls - unavailableSince >= GracePolls
    BY DEF StatusInv, VerdictStands
  <2>3. lastPriced < unavailableSince
    BY <2>1, StatusBounds DEF StatusInv, GraceSince
  <2> QED BY <2>1, <2>2, <2>3
<1>2. StatusInv => GraceEnds
  <2> SUFFICES ASSUME StatusInv, outcome = "missing", polls - missingSince >= GracePolls
               PROVE  status \in {"storage_error", "price_unavailable"}
    BY DEF GraceEnds
  <2>1. /\ unavailableSince \in 1..polls /\ missingSince \in 1..polls
        /\ polls \in Nat /\ GracePolls \in Nat /\ unavailableSince <= missingSince
    BY StatusBounds DEF StatusInv, StatusTypes, GraceSince
  <2>2. polls - unavailableSince >= GracePolls
    BY <2>1
  <2> QED BY <2>2 DEF StatusInv, VerdictStands
<1> QED BY <1>1, <1>2, StatusInvariant, PTL DEF GraceIsExact

-----------------------------------------------------------------------------
(* EnergyCounters: a snapshot compares well with the one before it         *)

\* What the store compares a snapshot with, _pending or _last_persisted.
Base == IF pendingSave # Unset THEN pendingSave ELSE lastSaved

\* What may be counted: no more than was measured since the first load.
Counted(value) == value # Unset => loads # 0 /\ value <= sinceLoad[1]

\* A group counts no more than was measured since the instant it carries.
GroupMeasured(group) ==
    /\ Counted(group.kwh)
    /\ group.start # Unset =>
         /\ group.start <= loads
         /\ group.kwh # Unset => group.kwh <= sinceLoad[group.start]

StateMeasured(s) ==
    Counted(s.charged) /\ GroupMeasured(s.origin) /\ GroupMeasured(s.meter)

\* The types, and what keeps every counter within them: nothing anywhere, in
\* memory, in a file, on its way to it or in the sensor, exceeds the measurement.
AllMeasured ==
    /\ \A s \in {energyNow, lastSaved, energyFile.state} : StateMeasured(s)
    /\ pendingSave # Unset => StateMeasured(pendingSave)
    /\ \A v \in KwhValues : sensorDump = <<v>> => Counted(v)
    /\ \A n \in 1..MaxLoads : sinceLoad[n] <= sinceLoad[1]
    /\ energyPhase # "off" => loads # 0

\* The snapshot compares well with what is scheduled or saved, and with the
\* file; while a file is read nothing has been counted that it should hold.
Monotone ==
    /\ energyPhase = "up" /\ ~writeBlocked =>
         /\ AcceptMonotonic(energyNow)
         /\ energyFile.kind = "good" =>
              NotBefore(energyNow.charged, energyFile.state.charged)
    /\ energyPhase = "loading" => ~unsaved

\* A store nobody could read is blocked, and nothing is scheduled then.
EvidenceIsSafe ==
    /\ pendingSave # Unset => energyPhase = "up" /\ ~writeBlocked
    /\ energyPhase = "up" /\ ~writeBlocked /\ energyTrace => energyFile.kind = "good"

EnergyInv == EnergyTypeOK /\ AllMeasured /\ Monotone /\ SavedWhenQuiet /\ EvidenceIsSafe

-----------------------------------------------------------------------------
(* Facts about snapshots                                                   *)

LEMMA ValueTypes ==
    /\ Unset \notin Nat /\ Unset \in KwhValues
    /\ \A v \in KwhValues : v # Unset => v \in Nat
    /\ \A v \in Nat : v <= MaxCounted => v \in KwhValues
  BY EnergyBounds DEF KwhValues

LEMMA GroupTypes ==
    /\ \A g \in Groups : g.start \in 1..MaxLoads \cup {Unset} /\ g.kwh \in KwhValues
    /\ \A n \in 1..MaxLoads \cup {Unset}, v \in KwhValues : [start |-> n, kwh |-> v] \in Groups
    /\ NoGroup \in Groups
  BY EnergyBounds DEF Groups, NoGroup, KwhValues

LEMMA StateTypes ==
    /\ \A s \in EnergyStates : s.charged \in KwhValues /\ s.origin \in Groups /\ s.meter \in Groups
    /\ \A v \in KwhValues, g \in Groups, h \in Groups :
         [charged |-> v, origin |-> g, meter |-> h] \in EnergyStates
    /\ NoCounters \in EnergyStates
  BY GroupTypes, ValueTypes DEF EnergyStates, NoCounters

LEMMA FileTypes ==
    /\ \A file \in EnergyFiles :
         /\ file.kind \in {"good", "none", "bad"} /\ file.state \in EnergyStates
         /\ file.kind # "good" => file.state = NoCounters
    /\ \A s \in EnergyStates : /\ GoodFile(s) \in EnergyFiles
                               /\ GoodFile(s).kind = "good" /\ GoodFile(s).state = s
    /\ NoEnergyFile \in EnergyFiles /\ NoEnergyFile.kind = "none"
    /\ NoEnergyFile.state = NoCounters
    /\ [kind |-> "bad", state |-> NoCounters] \in EnergyFiles
  BY StateTypes DEF EnergyFiles, GoodFile, NoEnergyFile

\* What AcceptMonotonic asks, with the base named.
Follows(base, s) ==
    /\ NotBefore(s.charged, base.charged)
    /\ NotBefore(s.origin.kwh, base.origin.kwh)
    /\ NotBefore(s.meter.kwh, base.meter.kwh)
    /\ SameStart(s.origin, base.origin) /\ SameStart(s.meter, base.meter)

LEMMA AcceptIs == \A s : AcceptMonotonic(s) <=> Follows(Base, s)
  BY DEF AcceptMonotonic, Follows, Base

\* A group that went on counting.
GroupGrown(g, h) == NotBefore(h.kwh, g.kwh) /\ h.start = g.start

Grown(s, t) ==
    /\ NotBefore(t.charged, s.charged)
    /\ GroupGrown(s.origin, t.origin) /\ GroupGrown(s.meter, t.meter)

LEMMA NotBeforeTransitive ==
    ASSUME NEW a \in KwhValues, NEW b \in KwhValues, NEW c \in KwhValues,
           NotBefore(b, a), NotBefore(c, b)
    PROVE  NotBefore(c, a)
<1>1. \A v \in {a, b, c} : v # Unset => v \in Nat
  BY ValueTypes
<1> QED BY <1>1 DEF NotBefore

LEMMA FollowsSelf == ASSUME NEW s \in EnergyStates PROVE Follows(s, s) /\ Follows(NoCounters, s)
<1>1. \A v \in KwhValues : NotBefore(v, v) /\ NotBefore(v, Unset)
  BY ValueTypes DEF NotBefore
<1>2. /\ s.charged \in KwhValues /\ s.origin.kwh \in KwhValues /\ s.meter.kwh \in KwhValues
  BY StateTypes, GroupTypes
<1> QED BY <1>1, <1>2 DEF Follows, SameStart, NoCounters, NoGroup

LEMMA FollowsGrown ==
    ASSUME NEW base \in EnergyStates, NEW s \in EnergyStates, NEW t \in EnergyStates,
           Follows(base, s), Grown(s, t)
    PROVE  Follows(base, t)
<1>1. \A x \in {base, s, t} : /\ x.charged \in KwhValues
                              /\ x.origin.kwh \in KwhValues /\ x.meter.kwh \in KwhValues
  BY StateTypes, GroupTypes
<1>2. NotBefore(t.charged, base.charged)
  BY <1>1, NotBeforeTransitive DEF Follows, Grown
<1>3. NotBefore(t.origin.kwh, base.origin.kwh)
  BY <1>1, NotBeforeTransitive DEF Follows, Grown, GroupGrown
<1>4. NotBefore(t.meter.kwh, base.meter.kwh)
  BY <1>1, NotBeforeTransitive DEF Follows, Grown, GroupGrown
<1> QED BY <1>2, <1>3, <1>4 DEF Follows, Grown, GroupGrown, SameStart

LEMMA BaseTypes == EnergyTypeOK => Base \in EnergyStates
  BY ValueTypes DEF EnergyTypeOK, Base

\* What was measured stays measured while the clock of loads and the
\* measurement only grow.
LEMMA MeasuredStays ==
    ASSUME EnergyTypeOK, loads' \in 0..MaxLoads, loads <= loads',
           sinceLoad' \in [1..MaxLoads -> Nat],
           \A n \in 1..MaxLoads : sinceLoad[n] <= sinceLoad'[n]
    PROVE  /\ \A v \in KwhValues : Counted(v) => Counted(v)'
           /\ \A g \in Groups : GroupMeasured(g) => GroupMeasured(g)'
           /\ \A s \in EnergyStates : StateMeasured(s) => StateMeasured(s)'
<1>0. PICK before \in [1..MaxLoads -> Nat], after \in [1..MaxLoads -> Nat],
           l \in 0..MaxLoads, m \in 0..MaxLoads :
        before = sinceLoad /\ after = sinceLoad' /\ l = loads /\ m = loads'
  BY EnergyBounds DEF EnergyTypeOK
<1>1. /\ l <= m /\ MaxLoads \in Nat
      /\ \A n \in 1..MaxLoads : before[n] \in Nat /\ after[n] \in Nat /\ before[n] <= after[n]
  BY <1>0, EnergyBounds
<1>2. ASSUME NEW v \in KwhValues, Counted(v) PROVE Counted(v)'
  <2> SUFFICES ASSUME v # Unset PROVE m # 0 /\ v <= after[1]
    BY <1>0 DEF Counted
  <2>1. v \in Nat /\ l # 0 /\ v <= before[1]
    BY <1>0, <1>2, ValueTypes DEF Counted
  <2> QED BY <1>1, <2>1
<1>3. ASSUME NEW g \in Groups, GroupMeasured(g) PROVE GroupMeasured(g)'
  <2>0. g.kwh \in KwhValues /\ g.start \in 1..MaxLoads \cup {Unset}
    BY GroupTypes
  <2>1. Counted(g.kwh)'
    BY <1>2, <1>3, <2>0 DEF GroupMeasured
  <2>2. ASSUME g.start # Unset
        PROVE  g.start <= m /\ (g.kwh # Unset => g.kwh <= after[g.start])
    <3>1. g.start <= l /\ (g.kwh # Unset => g.kwh <= before[g.start]) /\ g.start \in 1..MaxLoads
      BY <1>0, <1>3, <2>0, <2>2 DEF GroupMeasured
    <3>2. g.kwh # Unset => g.kwh \in Nat
      BY <2>0, ValueTypes
    <3>3. before[g.start] \in Nat /\ after[g.start] \in Nat /\ before[g.start] <= after[g.start]
      BY <1>1, <3>1
    <3>4. g.start <= m
      BY <1>1, <3>1
    <3>5. g.kwh # Unset => g.kwh <= after[g.start]
      BY <3>1, <3>2, <3>3
    <3> QED BY <3>4, <3>5
  <2> QED BY <1>0, <2>1, <2>2 DEF GroupMeasured
<1>4. ASSUME NEW s \in EnergyStates, StateMeasured(s) PROVE StateMeasured(s)'
  <2>1. s.charged \in KwhValues /\ s.origin \in Groups /\ s.meter \in Groups
    BY StateTypes
  <2> QED BY <1>2, <1>3, <1>4, <2>1 DEF StateMeasured
<1> QED BY <1>2, <1>3, <1>4

\* One more unit is one more measured.
LEMMA MeteringCounts ==
    ASSUME EnergyInv, energyPhase = "up", sinceLoad[1] < MaxCounted, UNCHANGED loads,
           sinceLoad' = [n \in 1..MaxLoads |-> sinceLoad[n] + (IF n <= loads THEN 1 ELSE 0)]
    PROVE  /\ loads \in 1..MaxLoads
           /\ sinceLoad' \in [1..MaxLoads -> 0..MaxCounted]
           /\ \A n \in 1..MaxLoads : /\ sinceLoad[n] <= sinceLoad'[n]
                                     /\ sinceLoad'[n] <= sinceLoad'[1]
           /\ \A v \in KwhValues : Counted(v) =>
                /\ KwhPlus(v) \in KwhValues /\ Counted(KwhPlus(v))'
                /\ NotBefore(KwhPlus(v), v)
           /\ \A g \in Groups : GroupMeasured(g) =>
                /\ GroupPlus(g) \in Groups /\ GroupMeasured(GroupPlus(g))'
                /\ GroupGrown(g, GroupPlus(g)) /\ Complete(g) = Complete(GroupPlus(g))
<1>0. PICK before \in [1..MaxLoads -> 0..MaxCounted], l \in 1..MaxLoads :
        before = sinceLoad /\ l = loads
  BY EnergyBounds DEF EnergyInv, EnergyTypeOK, AllMeasured
<1>1. PICK after \in [1..MaxLoads -> Nat] :
        /\ after = sinceLoad'
        /\ after = [n \in 1..MaxLoads |-> before[n] + (IF n <= l THEN 1 ELSE 0)]
  BY <1>0
<1>2. /\ MaxLoads \in Nat /\ MaxCounted \in Nat /\ 1 \in 1..MaxLoads /\ l \in Nat
      /\ \A n \in 1..MaxLoads : before[n] \in Nat /\ before[n] <= before[1]
      /\ before[1] + 1 <= MaxCounted
  BY <1>0, EnergyBounds DEF EnergyInv, AllMeasured
<1>3. /\ \A n \in 1..MaxLoads : after[n] \in Nat /\ before[n] <= after[n]
      /\ \A n \in 1..MaxLoads : n <= l => after[n] = before[n] + 1
      /\ \A n \in 1..MaxLoads : after[n] <= before[n] + 1
      /\ after[1] = before[1] + 1
  BY <1>1, <1>2
<1>4. \A n \in 1..MaxLoads : after[n] <= after[1] /\ after[n] \in 0..MaxCounted
  BY <1>2, <1>3
<1>5. ASSUME NEW v \in KwhValues, Counted(v)
      PROVE  KwhPlus(v) \in KwhValues /\ Counted(KwhPlus(v))' /\ NotBefore(KwhPlus(v), v)
  <2>1. CASE v = Unset
    BY <2>1 DEF KwhPlus, Counted, NotBefore
  <2>2. CASE v # Unset
    <3>1. v \in Nat /\ v <= before[1] /\ l # 0 /\ l = loads'
      BY <1>0, <1>5, <2>2, ValueTypes DEF Counted
    <3>2. KwhPlus(v) = v + 1
      BY <2>2 DEF KwhPlus
    <3>3. v + 1 \in KwhValues /\ v + 1 \in Nat /\ v + 1 # Unset
      BY <1>2, <3>1, ValueTypes
    <3>4. v + 1 <= after[1]
      BY <1>2, <1>3, <3>1
    <3>5. Counted(v + 1)'
      BY <1>1, <3>1, <3>4 DEF Counted
    <3> QED BY <3>1, <3>2, <3>3, <3>5 DEF NotBefore
  <2> QED BY <2>1, <2>2
<1>6. ASSUME NEW g \in Groups, GroupMeasured(g)
      PROVE  /\ GroupPlus(g) \in Groups /\ GroupMeasured(GroupPlus(g))'
             /\ GroupGrown(g, GroupPlus(g)) /\ Complete(g) = Complete(GroupPlus(g))
  <2>0. g.kwh \in KwhValues /\ g.start \in 1..MaxLoads \cup {Unset} /\ Counted(g.kwh)
    BY <1>6, GroupTypes DEF GroupMeasured
  <2>1. GroupPlus(g) = [start |-> g.start, kwh |-> KwhPlus(g.kwh)]
    BY DEF GroupPlus, Groups
  <2>2. GroupPlus(g).start = g.start /\ GroupPlus(g).kwh = KwhPlus(g.kwh)
    BY <2>1
  <2>3. /\ KwhPlus(g.kwh) \in KwhValues /\ Counted(KwhPlus(g.kwh))'
        /\ NotBefore(KwhPlus(g.kwh), g.kwh)
    BY <1>5, <2>0
  <2>4. GroupPlus(g) \in Groups
    BY <2>0, <2>1, <2>3, GroupTypes
  <2>5. KwhPlus(g.kwh) = Unset <=> g.kwh = Unset
    BY <2>0, ValueTypes DEF KwhPlus
  <2>6. ASSUME g.start # Unset
        PROVE  g.start <= l /\ (KwhPlus(g.kwh) # Unset => KwhPlus(g.kwh) <= after[g.start])
    <3>1. g.start \in 1..MaxLoads /\ g.start <= l
      BY <1>0, <1>6, <2>0, <2>6 DEF GroupMeasured
    <3>2. CASE g.kwh = Unset
      BY <2>5, <3>1, <3>2
    <3>3. CASE g.kwh # Unset
      <4>1. g.kwh \in Nat /\ g.kwh <= before[g.start] /\ KwhPlus(g.kwh) = g.kwh + 1
        BY <1>0, <1>6, <2>0, <2>6, <3>3, ValueTypes DEF GroupMeasured, KwhPlus
      <4> QED BY <1>2, <1>3, <3>1, <4>1
    <3> QED BY <3>2, <3>3
  <2>7. GroupMeasured(GroupPlus(g))'
    <3>1. l = loads'
      BY <1>0
    <3> QED BY <1>1, <2>2, <2>3, <2>6, <3>1 DEF GroupMeasured
  <2> QED BY <2>2, <2>3, <2>4, <2>5, <2>7 DEF GroupGrown, Complete
<1> QED BY <1>0, <1>1, <1>3, <1>4, <1>5, <1>6
-----------------------------------------------------------------------------
(* What is measured                                                        *)

\* What is not counted now stays measured.
LEMMA GroupStays ==
    ASSUME EnergyInv, energyPhase = "up", sinceLoad[1] < MaxCounted, UNCHANGED loads,
           sinceLoad' = [n \in 1..MaxLoads |-> sinceLoad[n] + (IF n <= loads THEN 1 ELSE 0)]
    PROVE  /\ \A v \in KwhValues : NotBefore(v, v) /\ (Counted(v) => Counted(v)')
           /\ \A g \in Groups : GroupGrown(g, g) /\ (GroupMeasured(g) => GroupMeasured(g)')
           /\ \A s \in EnergyStates : StateMeasured(s) => StateMeasured(s)'
<1>1. /\ loads \in 1..MaxLoads /\ sinceLoad' \in [1..MaxLoads -> 0..MaxCounted]
      /\ \A n \in 1..MaxLoads : sinceLoad[n] <= sinceLoad'[n]
  BY MeteringCounts
<1>2. sinceLoad' \in [1..MaxLoads -> Nat] /\ loads' \in 0..MaxLoads /\ loads <= loads'
  BY <1>1, EnergyBounds
<1>3. \A v \in KwhValues : NotBefore(v, v)
  BY ValueTypes DEF NotBefore
<1>4. \A g \in Groups : GroupGrown(g, g)
  BY <1>3, GroupTypes DEF GroupGrown
<1> QED BY <1>1, <1>2, <1>3, <1>4, MeasuredStays DEF EnergyInv

\* A snapshot that compares well is what the store holds next.
LEMMA ScheduleKeeps ==
    ASSUME EnergyInv, energyPhase = "up", NEW t \in EnergyStates,
           ~writeBlocked => Follows(Base, t),
           \/ ScheduleEnergySave(t)
           \/ UNCHANGED pendingSave /\ t.charged = Unset,
           UNCHANGED <<writeBlocked, lastSaved>>
    PROVE  /\ pendingSave' \in {t, pendingSave}
           /\ ~writeBlocked => Follows(Base', t)
           /\ pendingSave' # Unset => ~writeBlocked
           /\ ~writeBlocked /\ t.charged # Unset => pendingSave' = t
<1>0. /\ t # Unset /\ Unset \notin EnergyStates /\ Follows(t, t)
      /\ pendingSave \in EnergyStates \cup {Unset}
      /\ pendingSave # Unset => ~writeBlocked
  BY UnsetIsNoState, FollowsSelf DEF EnergyInv, EnergyTypeOK, EvidenceIsSafe
<1>1. CASE writeBlocked
  <2>1. pendingSave' = pendingSave
    BY <1>1 DEF ScheduleEnergySave, MaySave
  <2> QED BY <1>0, <1>1, <2>1
<1>2. CASE ~writeBlocked /\ pendingSave' = pendingSave
  <2>1. Base' = Base
    BY <1>2 DEF Base
  <2>2. ScheduleEnergySave(t) /\ t.charged # Unset => pendingSave' = t
    BY <1>2, AcceptIs DEF ScheduleEnergySave, MaySave, Countable
  <2> QED BY <1>2, <2>1, <2>2
<1>3. CASE ~writeBlocked /\ pendingSave' # pendingSave
  <2>1. pendingSave' = t
    BY <1>3 DEF ScheduleEnergySave
  <2>2. Base' = t
    BY <1>0, <2>1 DEF Base
  <2> QED BY <1>0, <1>3, <2>1, <2>2
<1> QED BY <1>1, <1>2, <1>3

\* A snapshot that grew by what was measured keeps the invariant, whether a
\* save is scheduled for it or the battery counter is unknown.
LEMMA MeteredKeeps ==
    ASSUME EnergyInv, NEW t \in EnergyStates, Metered(t), Grown(energyNow, t),
           Complete(t.origin) = Complete(energyNow.origin),
           Complete(t.meter) = Complete(energyNow.meter), StateMeasured(t)',
           \/ ScheduleEnergySave(t) /\ unsaved' = TRUE
           \/ UNCHANGED <<pendingSave, unsaved>> /\ t.charged = Unset
    PROVE  EnergyInv'
<1>0. /\ energyPhase = "up" /\ sinceLoad[1] < MaxCounted /\ energyNow' = t
      /\ UNCHANGED <<energyFile, energyTrace, energyPhase, writeBlocked,
                     lastSaved, restoring, sensorDump, loads, energyFaults>>
      /\ sinceLoad' = [n \in 1..MaxLoads |-> sinceLoad[n] + (IF n <= loads THEN 1 ELSE 0)]
  BY DEF Metered
<1>1. /\ loads \in 1..MaxLoads /\ sinceLoad' \in [1..MaxLoads -> 0..MaxCounted]
      /\ \A n \in 1..MaxLoads : /\ sinceLoad[n] <= sinceLoad'[n]
                                /\ sinceLoad'[n] <= sinceLoad'[1]
  BY <1>0, MeteringCounts
<1>2. /\ \A v \in KwhValues : Counted(v) => Counted(v)'
      /\ \A s \in EnergyStates : StateMeasured(s) => StateMeasured(s)'
  BY <1>0, GroupStays
<1>3. ~writeBlocked => Follows(Base, t)
  <2>1. ~writeBlocked => Follows(Base, energyNow)
    BY <1>0, AcceptIs DEF EnergyInv, Monotone
  <2> QED BY <2>1, FollowsGrown, BaseTypes DEF EnergyInv, EnergyTypeOK
<1>4. /\ pendingSave' \in {t, pendingSave}
      /\ ~writeBlocked => Follows(Base', t)
      /\ pendingSave' # Unset => ~writeBlocked
      /\ ~writeBlocked /\ t.charged # Unset => pendingSave' = t
  BY <1>0, <1>3, ScheduleKeeps
<1>5. EnergyTypeOK'
  <2>1. unsaved' \in BOOLEAN
    <3>1. unsaved' \in {TRUE, unsaved}
      OBVIOUS
    <3> QED BY <3>1, Zenon DEF EnergyInv, EnergyTypeOK
  <2>2. energyNow' \in EnergyStates /\ pendingSave' \in EnergyStates \cup {Unset}
    BY <1>0, <1>4 DEF EnergyInv, EnergyTypeOK
  <2>3. energyPhase' = "up" /\ ~writeBlocked'
           => Complete(energyNow'.origin) /\ Complete(energyNow'.meter)
    BY <1>0 DEF EnergyInv, EnergyTypeOK
  <2>4. writeBlocked' \in BOOLEAN /\ energyTrace' \in BOOLEAN /\ restoring' \in BOOLEAN
    BY <1>0, Zenon DEF EnergyInv, EnergyTypeOK
  <2> QED BY <1>0, <1>1, <2>1, <2>2, <2>3, <2>4 DEF EnergyInv, EnergyTypeOK, Complete
<1>6. AllMeasured'
  <2>1. /\ energyFile.state \in EnergyStates /\ lastSaved \in EnergyStates
        /\ pendingSave \in EnergyStates \cup {Unset}
    BY FileTypes DEF EnergyInv, EnergyTypeOK
  <2>2. /\ StateMeasured(lastSaved)' /\ StateMeasured(energyFile.state)'
        /\ StateMeasured(energyNow)'
    <3>1. StateMeasured(lastSaved)
      BY DEF EnergyInv, AllMeasured
    <3>2. StateMeasured(energyFile.state)
      BY DEF EnergyInv, AllMeasured
    <3> QED BY <1>0, <1>2, <2>1, <3>1, <3>2 DEF StateMeasured, GroupMeasured, Counted
  <2>3. pendingSave' # Unset => StateMeasured(pendingSave)'
    BY <1>0, <1>2, <1>4, <2>1 DEF EnergyInv, AllMeasured, StateMeasured, GroupMeasured, Counted
  <2>4. \A v \in KwhValues : sensorDump' = <<v>> => Counted(v)'
    BY <1>0, <1>2 DEF EnergyInv, AllMeasured
  <2> QED BY <1>0, <1>1, <2>2, <2>3, <2>4 DEF EnergyInv, AllMeasured
<1>7. Monotone'
  <2>2. ~writeBlocked => AcceptMonotonic(energyNow)'
    BY <1>0, <1>4 DEF AcceptMonotonic, Follows, Base
  <2>3. ~writeBlocked /\ energyFile.kind = "good"
          => NotBefore(t.charged, energyFile.state.charged)
    <3>1. /\ energyFile.state.charged \in KwhValues /\ energyNow.charged \in KwhValues
          /\ t.charged \in KwhValues
      BY FileTypes, StateTypes DEF EnergyInv, EnergyTypeOK
    <3> QED BY <1>0, <3>1, NotBeforeTransitive DEF EnergyInv, Monotone, Grown
  <2> QED BY <1>0, <2>2, <2>3 DEF EnergyInv, Monotone
<1>8. SavedWhenQuiet'
  BY <1>0, <1>4 DEF SavedWhenQuiet
<1>9. EvidenceIsSafe'
  BY <1>0, <1>4 DEF EnergyInv, EvidenceIsSafe
<1> QED BY <1>5, <1>6, <1>7, <1>8, <1>9 DEF EnergyInv

LEMMA CountChargeKeeps == EnergyInv /\ CountCharge => EnergyInv'
<1> SUFFICES ASSUME EnergyInv, CountCharge PROVE EnergyInv'
  OBVIOUS
<1>1. PICK c \in KwhValues, o \in Groups, m \in Groups :
        energyNow = [charged |-> c, origin |-> o, meter |-> m]
  BY DEF EnergyInv, EnergyTypeOK, EnergyStates
<1>2. PICK t : t = [charged |-> KwhPlus(c), origin |-> GroupPlus(o), meter |-> m]
  OBVIOUS
<1>3. t = [energyNow EXCEPT !.charged = KwhPlus(@), !.origin = GroupPlus(@)]
  <2>1. PICK n : n = [energyNow EXCEPT !.charged = KwhPlus(@), !.origin = GroupPlus(@)]
    OBVIOUS
  <2>2. energyNow \in [charged : KwhValues, origin : Groups, meter : Groups]
    BY <1>1
  <2>3. n = [charged |-> KwhPlus(energyNow.charged), origin |-> GroupPlus(energyNow.origin),
             meter |-> energyNow.meter]
    BY <2>1, <2>2
  <2> QED BY <1>1, <1>2, <2>1, <2>3
<1>4. /\ Metered(t) /\ energyNow' = t
      /\ energyPhase = "up" /\ sinceLoad[1] < MaxCounted /\ UNCHANGED loads
      /\ sinceLoad' = [n \in 1..MaxLoads |-> sinceLoad[n] + (IF n <= loads THEN 1 ELSE 0)]
  BY <1>3 DEF CountCharge, Metered
<1>5. Counted(c) /\ GroupMeasured(o) /\ GroupMeasured(m)
  BY <1>1 DEF EnergyInv, AllMeasured, StateMeasured
<1>6. /\ KwhPlus(c) \in KwhValues /\ Counted(KwhPlus(c))' /\ NotBefore(KwhPlus(c), c)
      /\ GroupPlus(o) \in Groups /\ GroupMeasured(GroupPlus(o))'
      /\ GroupGrown(o, GroupPlus(o)) /\ Complete(o) = Complete(GroupPlus(o))
  BY <1>4, <1>5, MeteringCounts
<1>7. GroupMeasured(m)' /\ GroupGrown(m, m)
  BY <1>4, <1>5, GroupStays
<1>8. t \in EnergyStates /\ Grown(energyNow, t) /\ StateMeasured(t)'
  BY <1>1, <1>2, <1>6, <1>7, StateTypes DEF Grown, StateMeasured
<1>9. \/ ScheduleEnergySave(t) /\ unsaved' = TRUE
      \/ UNCHANGED <<pendingSave, unsaved>> /\ t.charged = Unset
  BY <1>1, <1>2, <1>4 DEF CountCharge, KwhPlus
<1> QED BY <1>1, <1>2, <1>4, <1>6, <1>8, <1>9, MeteredKeeps

LEMMA CountImportKeeps == EnergyInv /\ CountImport => EnergyInv'
<1> SUFFICES ASSUME EnergyInv, CountImport PROVE EnergyInv'
  OBVIOUS
<1>1. PICK c \in KwhValues, o \in Groups, m \in Groups :
        energyNow = [charged |-> c, origin |-> o, meter |-> m]
  BY DEF EnergyInv, EnergyTypeOK, EnergyStates
<1>2. PICK t : t = [charged |-> c, origin |-> o, meter |-> GroupPlus(m)]
  OBVIOUS
<1>3. t = [energyNow EXCEPT !.meter = GroupPlus(@)]
  BY <1>1, <1>2
<1>4. /\ Metered(t) /\ energyNow' = t /\ ScheduleEnergySave(t) /\ unsaved' = TRUE
      /\ energyPhase = "up" /\ sinceLoad[1] < MaxCounted /\ UNCHANGED loads
      /\ sinceLoad' = [n \in 1..MaxLoads |-> sinceLoad[n] + (IF n <= loads THEN 1 ELSE 0)]
  BY <1>3 DEF CountImport, Metered
<1>5. Counted(c) /\ GroupMeasured(o) /\ GroupMeasured(m)
  BY <1>1 DEF EnergyInv, AllMeasured, StateMeasured
<1>6. /\ GroupPlus(m) \in Groups /\ GroupMeasured(GroupPlus(m))'
      /\ GroupGrown(m, GroupPlus(m)) /\ Complete(m) = Complete(GroupPlus(m))
  BY <1>4, <1>5, MeteringCounts
<1>7. /\ Counted(c)' /\ NotBefore(c, c)
      /\ GroupMeasured(o)' /\ GroupGrown(o, o)
  BY <1>4, <1>5, GroupStays
<1>8. t \in EnergyStates /\ Grown(energyNow, t) /\ StateMeasured(t)'
  BY <1>1, <1>2, <1>6, <1>7, StateTypes DEF Grown, StateMeasured
<1> QED BY <1>1, <1>2, <1>4, <1>6, <1>8, MeteredKeeps
-----------------------------------------------------------------------------
(* Saving, loading and the world                                           *)

\* Nothing is measured: a later load forgets none of it.
LEMMA NothingMeasured ==
    ASSUME EnergyInv, UNCHANGED sinceLoad, loads' \in {loads, loads + 1}, loads' \in 0..MaxLoads
    PROVE  /\ \A v \in KwhValues : Counted(v) => Counted(v)'
           /\ \A s \in EnergyStates : StateMeasured(s) => StateMeasured(s)'
           /\ \A n \in 1..MaxLoads : sinceLoad'[n] <= sinceLoad'[1]
<1>1. /\ sinceLoad \in [1..MaxLoads -> Nat] /\ loads \in Nat /\ loads <= loads'
      /\ \A n \in 1..MaxLoads : sinceLoad[n] <= sinceLoad[n]
  BY EnergyBounds DEF EnergyInv, EnergyTypeOK
<1> QED BY <1>1, MeasuredStays DEF EnergyInv, AllMeasured

LEMMA PartTypes ==
    EnergyInv =>
      /\ energyFile.kind \in {"good", "none", "bad"} /\ energyFile.state \in EnergyStates
      /\ energyNow \in EnergyStates /\ lastSaved \in EnergyStates
      /\ pendingSave \in EnergyStates \cup {Unset} /\ Unset \notin EnergyStates
      /\ StateMeasured(energyFile.state) /\ StateMeasured(energyNow)
      /\ StateMeasured(lastSaved)
      /\ pendingSave # Unset => StateMeasured(pendingSave)
  BY FileTypes, UnsetIsNoState DEF EnergyInv, EnergyTypeOK, AllMeasured

LEMMA NoneIsMeasured == StateMeasured(NoCounters)
  BY DEF StateMeasured, GroupMeasured, Counted, NoCounters, NoGroup

LEMMA FaultTypes ==
    ASSUME EnergyInv, NEW ok \in BOOLEAN, Faulty(ok)
    PROVE  energyFaults' \in 0..MaxEnergyFaults /\ (~ok => energyFaults' # 0)
  BY EnergyBounds DEF EnergyInv, EnergyTypeOK, Faulty

LEMMA DelayedSaveKeeps == EnergyInv /\ DelayedSave => EnergyInv'
<1> SUFFICES ASSUME EnergyInv, pendingSave # Unset, NEW ok \in BOOLEAN, Faulty(ok),
                    ConsumePending(ok),
                    UNCHANGED <<energyTrace, energyPhase, energyNow, writeBlocked, restoring,
                                sensorDump, loads, sinceLoad>>
             PROVE  EnergyInv'
  BY DEF DelayedSave
<1>1. /\ pendingSave' = Unset /\ lastSaved' = pendingSave
      /\ energyFile' = IF ok THEN GoodFile(pendingSave) ELSE energyFile
      /\ unsaved' = (unsaved /\ ~ok)
  BY DEF ConsumePending
<1>2. /\ pendingSave \in EnergyStates /\ energyPhase = "up" /\ ~writeBlocked
      /\ Base = pendingSave /\ Base' = pendingSave
  BY <1>1, PartTypes DEF EnergyInv, EvidenceIsSafe, Base
<1>3. PICK p \in EnergyStates : p = pendingSave
  BY <1>2
<1>4. energyFile' \in EnergyFiles
  BY <1>1, <1>2, FileTypes DEF EnergyInv, EnergyTypeOK
<1>5. EnergyTypeOK'
  <2>1. energyFaults' \in 0..MaxEnergyFaults
    BY FaultTypes
  <2>2. unsaved' \in BOOLEAN
    BY <1>1
  <2> QED BY <1>1, <1>2, <1>4, <2>1, <2>2 DEF EnergyInv, EnergyTypeOK, Complete
<1>6. AllMeasured'
  <2>1. energyFile'.state \in {p, energyFile.state}
    BY <1>1, <1>3, FileTypes
  <2> QED BY <1>1, <1>3, <2>1, PartTypes DEF EnergyInv, AllMeasured, StateMeasured,
             GroupMeasured, Counted
<1>7. Monotone'
  <2>1. Follows(pendingSave, energyNow)
    BY <1>2, AcceptIs DEF EnergyInv, Monotone
  <2>2. AcceptMonotonic(energyNow)'
    BY <1>2, <2>1 DEF AcceptMonotonic, Follows, Base
  <2>3. energyFile'.kind = "good" => NotBefore(energyNow.charged, energyFile'.state.charged)
    BY <1>1, <1>2, <2>1, FileTypes DEF Follows, EnergyInv, Monotone
  <2> QED BY <1>2, <2>2, <2>3 DEF Monotone
<1>8. SavedWhenQuiet'
  <2>1. energyFaults' = 0 => ok
    BY FaultTypes
  <2> QED BY <1>1, <2>1 DEF SavedWhenQuiet
<1>9. EvidenceIsSafe'
  BY <1>1, <1>2, FileTypes DEF EnergyInv, EvidenceIsSafe
<1> QED BY <1>5, <1>6, <1>7, <1>8, <1>9 DEF EnergyInv

LEMMA FlushKeeps == EnergyInv /\ FlushEnergy => EnergyInv'
<1> SUFFICES ASSUME EnergyInv, FlushEnergy PROVE EnergyInv'
  OBVIOUS
<1>1. /\ energyPhase' = "off" /\ pendingSave' = Unset
      /\ UNCHANGED <<energyTrace, energyNow, writeBlocked, lastSaved, restoring,
                     sensorDump, loads, sinceLoad>>
  BY DEF FlushEnergy
<1>2. /\ energyFile' \in {GoodFile(energyNow), energyFile}
      /\ energyFaults' \in 0..MaxEnergyFaults /\ unsaved' \in BOOLEAN
  <2>1. CASE MaySave(energyNow) /\ AcceptMonotonic(energyNow)
    <3>1. PICK ok \in BOOLEAN :
            /\ Faulty(ok) /\ unsaved' = (unsaved /\ ~ok)
            /\ energyFile' = IF ok THEN GoodFile(energyNow) ELSE energyFile
      BY <2>1 DEF FlushEnergy
    <3>2. energyFaults' \in 0..MaxEnergyFaults
      BY <3>1, FaultTypes
    <3>3. unsaved' \in BOOLEAN
      BY <3>1
    <3> QED BY <3>1, <3>2, <3>3
  <2>2. CASE ~(MaySave(energyNow) /\ AcceptMonotonic(energyNow))
    <3>1. UNCHANGED <<energyFile, unsaved, energyFaults>>
      BY <2>2 DEF FlushEnergy
    <3>2. unsaved' \in BOOLEAN
      BY <3>1, Zenon DEF EnergyInv, EnergyTypeOK
    <3> QED BY <3>1, <3>2 DEF EnergyInv, EnergyTypeOK
  <2> QED BY <2>1, <2>2
<1>3. PICK n \in EnergyStates : n = energyNow
  BY PartTypes
<1>4. EnergyTypeOK'
  BY <1>1, <1>2, <1>3, FileTypes DEF EnergyInv, EnergyTypeOK
<1>5. AllMeasured'
  <2>1. energyFile'.state \in {n, energyFile.state}
    BY <1>2, <1>3, FileTypes
  <2> QED BY <1>1, <1>3, <2>1, PartTypes DEF EnergyInv, AllMeasured, StateMeasured,
             GroupMeasured, Counted
<1> QED BY <1>1, <1>4, <1>5 DEF EnergyInv, Monotone, SavedWhenQuiet, EvidenceIsSafe

LEMMA LoadKeeps == EnergyInv /\ LoadEnergy => EnergyInv'
<1> SUFFICES ASSUME EnergyInv, LoadEnergy PROVE EnergyInv'
  OBVIOUS
<1>1. /\ energyPhase' = "loading" /\ loads < MaxLoads /\ loads' = loads + 1
      /\ energyNow' = NoCounters /\ lastSaved' = NoCounters
      /\ pendingSave' = Unset /\ writeBlocked' = FALSE /\ unsaved' = FALSE
      /\ restoring' = TRUE
      /\ UNCHANGED <<energyFile, energyTrace, sensorDump, sinceLoad, energyFaults>>
  BY DEF LoadEnergy
<1>2. loads \in Nat /\ loads' \in 0..MaxLoads /\ loads' # 0
  BY <1>1, EnergyBounds DEF EnergyInv, EnergyTypeOK
<1>3. EnergyTypeOK'
  <2>1. writeBlocked' \in BOOLEAN /\ unsaved' \in BOOLEAN /\ restoring' \in BOOLEAN
    BY <1>1, Zenon
  <2>2. energyTrace' \in BOOLEAN
    BY <1>1, Zenon DEF EnergyInv, EnergyTypeOK
  <2> QED BY <1>1, <1>2, <2>1, <2>2, StateTypes DEF EnergyInv, EnergyTypeOK
<1>4. AllMeasured'
  <2>1. PICK file \in EnergyStates, none \in EnergyStates :
          file = energyFile.state /\ none = NoCounters
    BY PartTypes, StateTypes
  <2>2. /\ \A v \in KwhValues : Counted(v) => Counted(v)'
        /\ \A s \in EnergyStates : StateMeasured(s) => StateMeasured(s)'
        /\ \A m \in 1..MaxLoads : sinceLoad'[m] <= sinceLoad'[1]
    BY <1>1, <1>2, NothingMeasured
  <2>3. StateMeasured(file)' /\ StateMeasured(none)'
    BY <2>1, <2>2, PartTypes, NoneIsMeasured
  <2>4. StateMeasured(energyFile.state)' /\ StateMeasured(energyNow)' /\ StateMeasured(lastSaved)'
    BY <1>1, <2>1, <2>3 DEF StateMeasured, GroupMeasured, Counted
  <2>5. \A v \in KwhValues : sensorDump' = <<v>> => Counted(v)'
    BY <1>1, <2>2 DEF EnergyInv, AllMeasured
  <2> QED BY <1>1, <1>2, <2>2, <2>4, <2>5 DEF AllMeasured
<1> QED BY <1>1, <1>3, <1>4 DEF EnergyInv, Monotone, SavedWhenQuiet, EvidenceIsSafe

\* A group that comes from a file, or begins now, compares well with what is
\* left of the file.
LEMMA GroupBegins ==
    ASSUME EnergyInv, loads \in 1..MaxLoads, NEW g \in Groups, GroupMeasured(g)
    PROVE  /\ Bootstrapped(g) \in Groups /\ GroupMeasured(Bootstrapped(g))
           /\ Complete(Bootstrapped(g))
           /\ GroupBaseline(g) \in Groups /\ GroupMeasured(GroupBaseline(g))
           /\ NotBefore(Bootstrapped(g).kwh, GroupBaseline(g).kwh)
           /\ SameStart(Bootstrapped(g), GroupBaseline(g))
<1>0. g.kwh \in KwhValues /\ NoGroup \in Groups /\ 0 \in KwhValues /\ 0 # Unset
  BY GroupTypes, ValueTypes, EnergyBounds
<1>1. CASE Complete(g)
  <2>1. Bootstrapped(g) = g /\ GroupBaseline(g) = g
    BY <1>1 DEF Bootstrapped, GroupBaseline
  <2>2. NotBefore(g.kwh, g.kwh)
    BY <1>0, ValueTypes DEF NotBefore
  <2> QED BY <1>1, <2>1, <2>2 DEF SameStart
<1>2. CASE ~Complete(g)
  <2>1. PICK h : h = [start |-> loads, kwh |-> 0]
    OBVIOUS
  <2>2. h \in Groups /\ h.start = loads /\ h.kwh = 0
    BY <1>0, <2>1, GroupTypes
  <2>3. Bootstrapped(g) = h /\ GroupBaseline(g) = NoGroup
    BY <1>2, <2>1 DEF Bootstrapped, GroupBaseline
  <2>4. sinceLoad[loads] \in Nat /\ sinceLoad[1] \in Nat /\ loads # Unset
    BY EnergyBounds DEF EnergyInv, EnergyTypeOK
  <2>5. GroupMeasured(h) /\ Complete(h)
    BY <1>0, <2>2, <2>4 DEF GroupMeasured, Counted, Complete
  <2>6. GroupMeasured(NoGroup) /\ NoGroup.kwh = Unset /\ NoGroup.start = Unset
    BY DEF GroupMeasured, Counted, NoGroup
  <2> QED BY <1>0, <2>2, <2>3, <2>5, <2>6 DEF NotBefore, SameStart
<1> QED BY <1>1, <1>2

LEMMA LoadReadsKeeps == EnergyInv /\ LoadReads => EnergyInv'
<1> SUFFICES ASSUME EnergyInv, LoadReads PROVE EnergyInv'
  OBVIOUS
<1>1. PICK c \in KwhValues, o \in Groups, m \in Groups :
        energyFile.state = [charged |-> c, origin |-> o, meter |-> m]
  BY PartTypes DEF EnergyStates
<1>2. /\ energyPhase = "loading" /\ ~UnreadableStore /\ energyPhase' = "up"
      /\ energyNow' = [charged |-> c, origin |-> Bootstrapped(o), meter |-> Bootstrapped(m)]
      /\ lastSaved' = [charged |-> c, origin |-> GroupBaseline(o), meter |-> GroupBaseline(m)]
      /\ UNCHANGED <<energyFile, energyTrace, writeBlocked, pendingSave,
                     restoring, sensorDump, loads, unsaved, sinceLoad, energyFaults>>
  BY <1>1 DEF LoadReads
<1>3. loads \in 1..MaxLoads
  BY <1>2, EnergyBounds DEF EnergyInv, EnergyTypeOK, AllMeasured
<1>4. Counted(c) /\ GroupMeasured(o) /\ GroupMeasured(m)
  BY <1>1, PartTypes DEF StateMeasured
<1>5. PICK og \in Groups, ob \in Groups, mg \in Groups, mb \in Groups :
        /\ og = Bootstrapped(o) /\ ob = GroupBaseline(o)
        /\ mg = Bootstrapped(m) /\ mb = GroupBaseline(m)
  BY <1>3, <1>4, GroupBegins
<1>6. /\ GroupMeasured(og) /\ Complete(og) /\ GroupMeasured(ob)
      /\ NotBefore(og.kwh, ob.kwh) /\ SameStart(og, ob)
  BY <1>3, <1>4, <1>5, GroupBegins
<1>7. /\ GroupMeasured(mg) /\ Complete(mg) /\ GroupMeasured(mb)
      /\ NotBefore(mg.kwh, mb.kwh) /\ SameStart(mg, mb)
  BY <1>3, <1>4, <1>5, GroupBegins
<1>8. PICK now \in EnergyStates, base \in EnergyStates :
        /\ now = [charged |-> c, origin |-> og, meter |-> mg] /\ now = energyNow'
        /\ base = [charged |-> c, origin |-> ob, meter |-> mb] /\ base = lastSaved'
  BY <1>2, <1>5, StateTypes
<1>9. pendingSave = Unset
  BY <1>2 DEF EnergyInv, EvidenceIsSafe
<1>10. EnergyTypeOK'
  BY <1>2, <1>6, <1>7, <1>8 DEF EnergyInv, EnergyTypeOK, Complete
<1>11. AllMeasured'
  <2>1. StateMeasured(now) /\ StateMeasured(base)
    BY <1>4, <1>6, <1>7, <1>8 DEF StateMeasured
  <2> QED BY <1>2, <1>8, <2>1, PartTypes DEF EnergyInv, AllMeasured, StateMeasured,
             GroupMeasured, Counted
<1>12. Monotone'
  <2>1. NotBefore(c, c)
    BY ValueTypes DEF NotBefore
  <2>2. Follows(base, now)
    BY <1>6, <1>7, <1>8, <2>1 DEF Follows
  <2>3. AcceptMonotonic(energyNow)'
    BY <1>2, <1>8, <1>9, <2>2 DEF AcceptMonotonic, Follows, Base
  <2>4. energyFile'.state.charged = c /\ now.charged = c
    BY <1>1, <1>2, <1>8
  <2> QED BY <1>2, <1>8, <2>1, <2>3, <2>4 DEF Monotone
<1>13. SavedWhenQuiet'
  BY <1>2 DEF EnergyInv, Monotone, SavedWhenQuiet
<1>14. EvidenceIsSafe'
  BY <1>2, <1>9, PartTypes DEF UnreadableStore, EvidenceIsSafe
<1> QED BY <1>10, <1>11, <1>12, <1>13, <1>14 DEF EnergyInv

LEMMA LoadFailsKeeps == EnergyInv /\ LoadFails => EnergyInv'
<1> SUFFICES ASSUME EnergyInv, LoadFails PROVE EnergyInv'
  OBVIOUS
<1>1. /\ energyPhase = "loading" /\ energyPhase' = "up" /\ writeBlocked' = TRUE
      /\ UNCHANGED <<energyNow, lastSaved, pendingSave, restoring, sensorDump,
                     loads, unsaved, sinceLoad>>
      /\ energyFile' \in {NoEnergyFile, energyFile} /\ energyTrace' \in {TRUE, energyTrace}
      /\ energyFaults' \in {energyFaults, energyFaults + 1}
      /\ energyFaults' # energyFaults => energyFaults < MaxEnergyFaults
  BY DEF LoadFails
<1>2. pendingSave = Unset
  BY <1>1 DEF EnergyInv, EvidenceIsSafe
<1>3. EnergyTypeOK'
  <2>1. writeBlocked' \in BOOLEAN /\ energyTrace' \in BOOLEAN
    BY <1>1, Zenon DEF EnergyInv, EnergyTypeOK
  <2>2. energyFaults' \in 0..MaxEnergyFaults
    BY <1>1, EnergyBounds DEF EnergyInv, EnergyTypeOK
  <2> QED BY <1>1, <2>1, <2>2, FileTypes DEF EnergyInv, EnergyTypeOK
<1>4. AllMeasured'
  <2>1. energyFile'.state \in {NoCounters, energyFile.state}
    BY <1>1, FileTypes
  <2> QED BY <1>1, <1>2, <2>1, PartTypes, NoneIsMeasured DEF EnergyInv, AllMeasured,
             StateMeasured, GroupMeasured, Counted
<1> QED BY <1>1, <1>2, <1>3, <1>4 DEF EnergyInv, Monotone, SavedWhenQuiet, EvidenceIsSafe

LEMMA AddSensorKeeps == EnergyInv /\ AddSensor => EnergyInv'
<1> SUFFICES ASSUME EnergyInv, AddSensor PROVE EnergyInv'
  OBVIOUS
<1>1. /\ energyPhase = "up" /\ restoring' = FALSE
      /\ UNCHANGED <<energyFile, energyTrace, energyPhase, writeBlocked,
                     lastSaved, sensorDump, loads, sinceLoad, energyFaults>>
  BY DEF AddSensor
<1>2. PICK v \in KwhValues :
        /\ v = IF sensorDump = <<>> THEN 0 ELSE sensorDump[1]
        /\ Counted(v)
  <2>1. 0 \in KwhValues /\ Counted(0)
    BY <1>1, ValueTypes, EnergyBounds DEF Counted, EnergyInv, EnergyTypeOK, AllMeasured
  <2>2. ASSUME sensorDump # <<>>
        PROVE  sensorDump[1] \in KwhValues /\ Counted(sensorDump[1])
    <3>1. PICK w \in KwhValues : sensorDump = <<w>>
      BY <2>2 DEF EnergyInv, EnergyTypeOK
    <3> QED BY <3>1 DEF EnergyInv, AllMeasured
  <2> QED BY <2>1, <2>2
<1>3. CASE energyNow' = energyNow /\ UNCHANGED <<pendingSave, unsaved>>
  <2>1. EnergyTypeOK'
    BY <1>1, <1>3 DEF EnergyInv, EnergyTypeOK, Complete
  <2> QED BY <1>1, <1>3, <2>1 DEF EnergyInv, AllMeasured, StateMeasured, GroupMeasured, Counted,
             Monotone, AcceptMonotonic, SavedWhenQuiet, EvidenceIsSafe
<1>4. CASE /\ v # Unset /\ energyNow' = RestoreOnce(v) /\ energyNow' # energyNow
           /\ ScheduleEnergySave(energyNow') /\ unsaved' = TRUE
  <2>1. energyNow.charged = Unset /\ energyNow' = [energyNow EXCEPT !.charged = v]
    BY <1>4 DEF RestoreOnce
  <2>2. PICK o \in Groups, m \in Groups :
          energyNow = [charged |-> Unset, origin |-> o, meter |-> m]
    BY <2>1, PartTypes DEF EnergyStates
  <2>3. PICK t \in EnergyStates :
          t = [charged |-> v, origin |-> o, meter |-> m] /\ energyNow' = t
    BY <2>1, <2>2, StateTypes
  <2>4. Grown(energyNow, t)
    <3>1. \A w \in KwhValues : NotBefore(w, w) /\ NotBefore(w, Unset)
      BY ValueTypes DEF NotBefore
    <3> QED BY <2>2, <2>3, <3>1, GroupTypes DEF Grown, GroupGrown
  <2>5. StateMeasured(t) /\ GroupMeasured(o) /\ GroupMeasured(m)
    BY <1>2, <2>2, <2>3, PartTypes DEF StateMeasured
  <2>6. ~writeBlocked => Follows(Base, t)
    <3>1. ~writeBlocked => Follows(Base, energyNow)
      BY <1>1, AcceptIs DEF EnergyInv, Monotone
    <3> QED BY <2>4, <3>1, FollowsGrown, BaseTypes DEF EnergyInv, EnergyTypeOK
  <2>7. /\ pendingSave' \in {t, pendingSave}
        /\ ~writeBlocked => Follows(Base', t)
        /\ pendingSave' # Unset => ~writeBlocked
        /\ ~writeBlocked /\ t.charged # Unset => pendingSave' = t
    BY <1>1, <1>4, <2>3, <2>6, ScheduleKeeps
  <2>8. EnergyTypeOK'
    <3>1. unsaved' \in BOOLEAN /\ restoring' \in BOOLEAN
      BY <1>1, <1>4, Zenon
    <3>2. t.origin = energyNow.origin /\ t.meter = energyNow.meter
      BY <2>2, <2>3
    <3> QED BY <1>1, <2>3, <2>7, <3>1, <3>2 DEF EnergyInv, EnergyTypeOK, Complete
  <2>9. AllMeasured'
    BY <1>1, <2>3, <2>5, <2>7, PartTypes DEF EnergyInv, AllMeasured, StateMeasured,
       GroupMeasured, Counted
  <2>10. Monotone'
    <3>1. ~writeBlocked => AcceptMonotonic(energyNow)'
      BY <1>1, <2>3, <2>7 DEF AcceptMonotonic, Follows, Base
    <3>2. ~writeBlocked /\ energyFile.kind = "good"
            => NotBefore(t.charged, energyFile.state.charged)
      <4>1. energyFile.state.charged \in KwhValues /\ energyNow.charged \in KwhValues
        BY PartTypes, StateTypes
      <4> QED BY <1>1, <2>3, <2>4, <4>1, StateTypes, NotBeforeTransitive
              DEF EnergyInv, Monotone, Grown
    <3> QED BY <1>1, <2>3, <3>1, <3>2 DEF EnergyInv, Monotone
  <2>11. SavedWhenQuiet' /\ EvidenceIsSafe'
    BY <1>1, <2>3, <2>7 DEF EnergyInv, SavedWhenQuiet, EvidenceIsSafe
  <2> QED BY <2>8, <2>9, <2>10, <2>11 DEF EnergyInv
<1> QED BY <1>2, <1>3, <1>4 DEF AddSensor

\* A file that is damaged holds no more than before.
LEMMA DamageKeeps == EnergyInv /\ DamageFile => EnergyInv'
<1> SUFFICES ASSUME EnergyInv, DamageFile PROVE EnergyInv'
  OBVIOUS
<1>1. PICK c \in KwhValues, o \in Groups, m \in Groups :
        energyFile = GoodFile([charged |-> c, origin |-> o, meter |-> m])
  BY DEF EnergyInv, EnergyTypeOK, EnergyFiles, EnergyStates, DamageFile, GoodFile
<1>2. PICK os \in 1..MaxLoads \cup {Unset}, ok \in KwhValues, ms \in 1..MaxLoads \cup {Unset},
           mk \in KwhValues :
        o = [start |-> os, kwh |-> ok] /\ m = [start |-> ms, kwh |-> mk]
  BY DEF Groups
<1>3. PICK s \in EnergyStates :
        /\ s \in {[charged |-> Unset, origin |-> o, meter |-> m],
                  [charged |-> c, origin |-> [start |-> Unset, kwh |-> ok], meter |-> m],
                  [charged |-> c, origin |-> [start |-> os, kwh |-> Unset], meter |-> m],
                  [charged |-> c, origin |-> o, meter |-> [start |-> Unset, kwh |-> mk]],
                  [charged |-> c, origin |-> o, meter |-> [start |-> ms, kwh |-> Unset]],
                  NoCounters}
        /\ energyFile' \in {GoodFile(s), [kind |-> "bad", state |-> NoCounters]}
  <2>1. ASSUME NEW g \in Groups PROVE
          /\ [energyFile EXCEPT !.state.charged = Unset]
               = GoodFile([charged |-> Unset, origin |-> o, meter |-> m])
          /\ [energyFile EXCEPT !.state.origin.start = Unset]
               = GoodFile([charged |-> c, origin |-> [start |-> Unset, kwh |-> ok], meter |-> m])
          /\ [energyFile EXCEPT !.state.origin.kwh = Unset]
               = GoodFile([charged |-> c, origin |-> [start |-> os, kwh |-> Unset], meter |-> m])
          /\ [energyFile EXCEPT !.state.meter.start = Unset]
               = GoodFile([charged |-> c, origin |-> o, meter |-> [start |-> Unset, kwh |-> mk]])
          /\ [energyFile EXCEPT !.state.meter.kwh = Unset]
               = GoodFile([charged |-> c, origin |-> o, meter |-> [start |-> ms, kwh |-> Unset]])
    BY <1>1, <1>2 DEF GoodFile
  <2> QED BY <2>1, GroupTypes, StateTypes, ValueTypes DEF DamageFile
<1>4. /\ energyPhase = "off" /\ energyFaults < MaxEnergyFaults
      /\ energyFaults' = energyFaults + 1
      /\ UNCHANGED <<energyTrace, energyPhase, energyNow, writeBlocked, lastSaved,
                     pendingSave, restoring, sensorDump, loads, unsaved, sinceLoad>>
  BY DEF DamageFile
<1>5. StateMeasured(s) /\ StateMeasured(NoCounters)
  BY <1>1, <1>2, <1>3, PartTypes, NoneIsMeasured DEF StateMeasured, GroupMeasured, Counted,
     GoodFile
<1>6. energyFile' \in EnergyFiles /\ energyFile'.state \in {s, NoCounters}
  BY <1>3, FileTypes
<1>7. EnergyTypeOK'
  BY <1>4, <1>6, EnergyBounds DEF EnergyInv, EnergyTypeOK
<1>8. AllMeasured'
  BY <1>4, <1>5, <1>6, PartTypes DEF EnergyInv, AllMeasured, StateMeasured, GroupMeasured,
     Counted
<1> QED BY <1>4, <1>7, <1>8 DEF EnergyInv, Monotone, SavedWhenQuiet, EvidenceIsSafe

LEMMA EnergyStepPreserves == EnergyInv /\ [EnergyNext]_energyVars => EnergyInv'
<1> SUFFICES ASSUME EnergyInv, [EnergyNext]_energyVars PROVE EnergyInv'
  OBVIOUS
<1>1. CASE DumpSensor
  <2>1. energyNow.charged \in KwhValues /\ Counted(energyNow.charged)
    BY PartTypes, StateTypes DEF StateMeasured
  <2>2. EnergyTypeOK'
    BY <1>1, <2>1 DEF DumpSensor, EnergyInv, EnergyTypeOK, Complete
  <2>3. \A v \in KwhValues : sensorDump' = <<v>> => Counted(v)'
    BY <1>1, <2>1 DEF DumpSensor, Counted
  <2>4. AllMeasured'
    BY <1>1, <2>3 DEF DumpSensor, EnergyInv, AllMeasured, StateMeasured, GroupMeasured, Counted
  <2> QED BY <1>1, <2>2, <2>4 DEF DumpSensor, EnergyInv, Monotone, AcceptMonotonic,
             SavedWhenQuiet, EvidenceIsSafe
<1>2. CASE EnergyDies
  <2>1. EnergyTypeOK'
    BY <1>2 DEF EnergyDies, EnergyInv, EnergyTypeOK
  <2> QED BY <1>2, <2>1 DEF EnergyDies, EnergyInv, AllMeasured, StateMeasured, GroupMeasured,
             Counted, Monotone, SavedWhenQuiet, EvidenceIsSafe
<1>3. CASE ClearTrace
  <2>1. energyTrace' \in BOOLEAN
    BY <1>3, Zenon DEF ClearTrace
  <2>2. EnergyTypeOK'
    BY <1>3, <2>1 DEF ClearTrace, EnergyInv, EnergyTypeOK
  <2> QED BY <1>3, <2>2 DEF ClearTrace, EnergyInv, AllMeasured, StateMeasured, GroupMeasured,
             Counted, Monotone, SavedWhenQuiet, EvidenceIsSafe
<1>4. CASE UNCHANGED energyVars
  <2>1. EnergyTypeOK'
    BY <1>4 DEF energyVars, EnergyInv, EnergyTypeOK, Complete
  <2> QED BY <1>4, <2>1 DEF energyVars, EnergyInv, AllMeasured, StateMeasured, GroupMeasured,
             Counted, Monotone, AcceptMonotonic, SavedWhenQuiet, EvidenceIsSafe
<1> QED BY <1>1, <1>2, <1>3, <1>4, CountChargeKeeps, CountImportKeeps, DelayedSaveKeeps,
           FlushKeeps, LoadKeeps, LoadReadsKeeps, LoadFailsKeeps, AddSensorKeeps, DamageKeeps
        DEF EnergyNext, EnergyEnded

\* In every reachable state nothing holds more than was measured, and the
\* coordinator, the store and the file compare well.
THEOREM EnergyInvariant == EnergySpec => []EnergyInv
<1>1. EnergyInit => EnergyInv
  <2> SUFFICES ASSUME EnergyInit PROVE EnergyInv
    OBVIOUS
  <2>1. /\ energyTrace \in BOOLEAN /\ writeBlocked \in BOOLEAN /\ restoring \in BOOLEAN
        /\ unsaved \in BOOLEAN
    BY Zenon DEF EnergyInit
  <2>2. sinceLoad = [n \in 1..MaxLoads |-> 0] /\ loads = 0 /\ energyFaults = 0
    BY DEF EnergyInit
  <2>3. /\ sinceLoad \in [1..MaxLoads -> 0..MaxCounted] /\ loads \in 0..MaxLoads
        /\ energyFaults \in 0..MaxEnergyFaults
    BY <2>2, EnergyBounds
  <2>4. EnergyTypeOK
    BY <2>1, <2>3, StateTypes, FileTypes DEF EnergyInit, EnergyTypeOK
  <2>5. AllMeasured
    <3>1. \A n \in 1..MaxLoads : sinceLoad[n] <= sinceLoad[1]
      BY <2>2, EnergyBounds
    <3> QED BY <3>1, NoneIsMeasured, FileTypes DEF EnergyInit, AllMeasured
  <2> QED BY <2>4, <2>5 DEF EnergyInit, EnergyInv, Monotone, SavedWhenQuiet, EvidenceIsSafe
<1> QED BY <1>1, EnergyStepPreserves, PTL DEF EnergySpec

\* The counters of a run continue those of the file, for any number of units,
\* loads and faults.
THEOREM CountersKept == EnergySpec => CountersAreKept
<1>1. EnergyInv => NeverRefused
  BY DEF EnergyInv, Monotone, NeverRefused, MaySave
<1>2. EnergyInv => SinceItsStart
  BY DEF EnergyInv, AllMeasured, StateMeasured, GroupMeasured, SinceItsStart, Complete
<1>3. EnergyInv => SavedWhenQuiet
  BY DEF EnergyInv
<1>4. EnergyInv => NeverBelowDisk
  BY DEF EnergyInv, Monotone, NotBefore, NeverBelowDisk
<1>5. EnergyInv /\ [EnergyNext]_energyVars =>
        [energyTrace /\ energyFile.kind # "good" => energyFile'.kind # "good"]_energyVars
  <2> SUFFICES ASSUME EnergyInv, EnergyNext, energyTrace, energyFile.kind # "good"
               PROVE  energyFile' = energyFile \/ energyFile'.kind # "good"
    BY DEF energyVars
  <2>1. ~(energyPhase = "up" /\ ~writeBlocked) /\ pendingSave = Unset
    BY DEF EnergyInv, EvidenceIsSafe
  <2>2. CASE FlushEnergy
    BY <2>1, <2>2 DEF FlushEnergy, MaySave
  <2>3. CASE LoadFails
    BY <2>3, FileTypes DEF LoadFails
  <2>4. CASE ~FlushEnergy /\ ~LoadFails
    BY <2>1, <2>4 DEF EnergyNext, CountCharge, CountImport, Metered, DumpSensor, DelayedSave,
       LoadEnergy, LoadReads, AddSensor, EnergyDies, DamageFile, ClearTrace, EnergyEnded,
       energyVars
  <2> QED BY <2>2, <2>3, <2>4
<1> QED BY <1>1, <1>2, <1>3, <1>4, <1>5, EnergyInvariant, PTL
        DEF EnergySpec, CountersAreKept, EvidenceIsKept

-----------------------------------------------------------------------------
(* EconomicsStore: one activation at a time, and nothing ahead of the next *)

\* A balance that another one may follow: of the same activation, not behind.
Before(a, b) == Initialized(a) => a.start = b.start /\ a.booked <= b.booked

\* An activation that exists, and none that a finished restart has ended.
Live(b) == Initialized(b) => b.start \in resetDone..newest

\* What is anywhere in memory or in a file, apart from a flush that a restart
\* of the balance has made void.
NothingOlder ==
    /\ \A b \in {balance, lastPersisted, pendingState, holding.snap} : Live(b)
    /\ flushing.waits /\ flushing.seen = generation => Live(flushing.snap)
    /\ \A f \in {mainFile, backupFile} :
         f.kind = "good" => Initialized(f.bal) /\ Live(f.bal)
    /\ resetDone <= newest

\* Who holds the lock, when, and at which step.
LockSteps ==
    /\ writeLock # "free" => Initialized(holding.snap)
    /\ writeLock \in {"timer", "flush", "load"} => holding.at \in {"preserve", "write"}
    /\ writeLock = "backup" => holding.at = "copy"
    /\ writeLock = "reset" => holding.at # "idle"
    /\ holding.at = "preserve" => loadFailed
    /\ holding.at \in {"write", "copy", "recopy"} => ~loadFailed
    /\ phase \in {"off", "loading"} => writeLock = "free"
    /\ phase = "restoring" => writeLock \in {"free", "load"}
    /\ phase = "up" => writeLock \notin {"load", "flush"}
    /\ phase = "closing" => writeLock # "load"
    /\ phase = "closing" <=> flushing.waits \/ writeLock = "flush"
    /\ writeLock = "flush" => ~flushing.waits

\* A restart of the balance on its way: the newest activation, no backup to
\* come back from, and its own balance on disk before it is committed.
RestartSteps ==
    /\ writeLock = "reset" =>
         /\ holding.snap.start = newest /\ generation < newest
         /\ holding.at # "remove" => backupFile.kind # "good"
         /\ holding.at = "copy" => mainFile = Holds(holding.snap)
    /\ generation <= newest
    /\ flushing.waits => flushing.seen <= generation

\* The store file and the baseline, apart from a restart about to commit.
Committing == writeLock = "reset" /\ holding.at = "copy"

OnDisk ==
    /\ phase \in {"up", "closing"} =>
         /\ loadFailed => ~Initialized(lastPersisted)
         /\ mainFile.kind = "good" /\ ~loadFailed
              => Committing \/ mainFile = Holds(lastPersisted)
         /\ Initialized(lastPersisted) /\ ~storageError
              => Committing \/ mainFile = Holds(lastPersisted)
    /\ phase = "loading" => ~loadFailed
    /\ phase = "restoring" /\ mainFile.kind = "good" => loadFailed
    /\ phase \in {"loading", "restoring"} =>
         /\ pendingState = Nothing /\ balance = Nothing
         /\ writeLock = "free" => lastPersisted = Nothing
         /\ writeLock = "load" => lastPersisted = holding.snap
    /\ writeLock = "load" /\ holding.at = "write" => mainFile.kind = "none"

\* The baseline, what the timer writes, what is pending and the balance follow
\* one another, and only the newest of them can be missing on disk.
InOrder ==
    /\ phase = "up" =>
         /\ ~Initialized(balance) =>
              /\ ~Initialized(lastPersisted) /\ ~Initialized(pendingState)
              /\ writeLock = "free"
         /\ Initialized(pendingState) => pendingState = balance
         /\ Initialized(balance) /\ ~Initialized(pendingState) =>
              balance = IF writeLock = "timer" THEN holding.snap ELSE lastPersisted
    /\ phase \in {"up", "closing"} =>
         /\ Initialized(pendingState) => Before(lastPersisted, pendingState)
         /\ writeLock \in {"timer", "flush"} => Before(lastPersisted, holding.snap)
         /\ writeLock = "timer" /\ Initialized(pendingState)
              => Before(holding.snap, pendingState)
    /\ flushing.waits /\ flushing.seen = generation =>
         /\ Initialized(flushing.snap)
         /\ Before(lastPersisted, flushing.snap) /\ Before(pendingState, flushing.snap)
         /\ writeLock = "timer" => Before(holding.snap, flushing.snap)
    /\ writeLock = "flush" => ~Initialized(pendingState)
    /\ flushing.waits /\ flushing.seen # generation
         => ~Initialized(pendingState) /\ writeLock # "timer"

BooksInv ==
    EconTypeOK /\ NothingOlder /\ LockSteps /\ RestartSteps /\ OnDisk /\ InOrder

-----------------------------------------------------------------------------
(* Facts about balances, files and the holder of the lock                  *)

LEMMA BalanceTypes ==
    /\ Nothing \in Balances /\ ~Initialized(Nothing)
    /\ \A b \in Balances : b.start \in 0..MaxStarts /\ b.booked \in 0..MaxBooked
    /\ \A n \in 1..MaxStarts : /\ [start |-> n, booked |-> 0] \in Balances
                               /\ Initialized([start |-> n, booked |-> 0])
                               /\ [start |-> n, booked |-> 0].start = n
    /\ \A b \in Balances : b.booked < MaxBooked =>
         LET c == [b EXCEPT !.booked = @ + 1]
         IN  c \in Balances /\ c.start = b.start /\ c.booked = b.booked + 1
  BY EconomicsBounds DEF Balances, Nothing, Initialized

LEMMA StoreFiles ==
    /\ \A b \in Balances : Holds(b) \in Files /\ Holds(b).kind = "good" /\ Holds(b).bal = b
    /\ NoFile \in Files /\ NoFile.kind = "none"
    /\ \A f \in Damaged : f \in Files /\ f.kind # "good"
    /\ \A f \in Files : f.bal \in Balances /\ f.kind \in {"none", "good", "bad", "part"}
  BY BalanceTypes DEF Files, Holds, NoFile, Damaged

LEMMA HolderTypes ==
    /\ \A step \in Steps, b \in Balances :
         /\ At(step, b) \in [at : Steps, snap : Balances]
         /\ At(step, b).at = step /\ At(step, b).snap = b
         /\ step # "idle" => At(step, b) # Idle
    /\ Idle \in [at : Steps, snap : Balances] /\ Idle.at = "idle" /\ Idle.snap = Nothing
    /\ NotFlushing \in [waits : BOOLEAN, seen : 0..MaxStarts, snap : Balances]
    /\ ~NotFlushing.waits
    /\ \A n \in 0..MaxStarts, b \in Balances :
         LET w == [waits |-> TRUE, seen |-> n, snap |-> b]
         IN  /\ w \in [waits : BOOLEAN, seen : 0..MaxStarts, snap : Balances]
             /\ w.waits /\ w.seen = n /\ w.snap = b
    /\ {"idle", "remove", "preserve", "write", "copy", "recopy"} \subseteq Steps
    /\ {"free", "timer", "backup", "flush", "reset", "load"} \subseteq Holders
  BY BalanceTypes, EconomicsBounds DEF At, Idle, Steps, Holders, NotFlushing

LEMMA BeforeItself ==
    /\ \A b \in Balances : Before(b, b)
    /\ \A a \in Balances, b \in Balances, c \in Balances :
         Initialized(a) /\ Before(a, b) /\ Before(b, c) => Before(a, c)
    /\ \A a \in Balances, b \in Balances : Initialized(a) /\ Before(a, b) => Initialized(b)
    /\ \A a \in Balances, b \in Balances : ~Initialized(a) => Before(a, b)
  BY BalanceTypes, EconomicsBounds DEF Before, Initialized

LEMMA BookTypes ==
    BooksInv =>
      /\ balance \in Balances /\ lastPersisted \in Balances /\ pendingState \in Balances
      /\ holding.snap \in Balances /\ holding.at \in Steps /\ flushing.snap \in Balances
      /\ flushing.seen \in 0..MaxStarts /\ flushing.waits \in BOOLEAN
      /\ mainFile \in Files /\ backupFile \in Files
      /\ mainFile.bal \in Balances /\ backupFile.bal \in Balances
      /\ MaxStarts \in Nat /\ newest \in Nat /\ resetDone \in Nat /\ generation \in Nat
      /\ newest <= MaxStarts
  BY StoreFiles, EconomicsBounds DEF BooksInv, EconTypeOK

\* Whenever a balance is booked the store accepts it.
LEMMA AlwaysAccepted ==
    ASSUME BooksInv, phase = "up", NEW b \in Balances, Before(balance, b)
    PROVE  Accepts(b)
<1>1. CASE Initialized(pendingState)
  BY <1>1 DEF BooksInv, InOrder, Accepts, Before
<1>2. CASE ~Initialized(pendingState)
  <2> SUFFICES ASSUME Initialized(lastPersisted)
               PROVE  b.start = lastPersisted.start /\ b.booked >= lastPersisted.booked
    BY <1>2 DEF Accepts
  <2>1. Initialized(balance)
    BY DEF BooksInv, InOrder
  <2>2. Before(lastPersisted, balance)
    BY <1>2, <2>1, BookTypes, BeforeItself DEF BooksInv, InOrder
  <2>3. Before(lastPersisted, b)
    BY <2>2, BookTypes, BeforeItself
  <2> QED BY <2>3, BookTypes, BalanceTypes DEF Before
<1> QED BY <1>1, <1>2

LEMMA BootstrapKeeps == BooksInv /\ Bootstrap => BooksInv'
<1> SUFFICES ASSUME BooksInv, Bootstrap PROVE BooksInv'
  OBVIOUS
<1>1. PICK b \in Balances, n \in 1..MaxStarts :
        /\ b = [start |-> newest + 1, booked |-> 0] /\ n = newest + 1
        /\ b.start = n /\ Initialized(b) /\ balance' = b /\ newest' = n
  BY BookTypes, BalanceTypes DEF Bootstrap
<1>2. /\ phase = "up" /\ ~Initialized(balance) /\ ~Initialized(pendingState)
      /\ ~Initialized(lastPersisted) /\ writeLock = "free"
      /\ UNCHANGED <<mainFile, backupFile, keptCopies, phase, lastPersisted,
                     loadFailed, generation, writeLock, holding, flushing,
                     resetDone, crashes, faults>>
  BY DEF Bootstrap, BooksInv, InOrder
<1>3. Accepts(b)
  BY <1>2 DEF Accepts
<1>4. pendingState' = b /\ writeTimer' = TRUE /\ UNCHANGED storageError
  BY <1>1, <1>3 DEF Bootstrap, ScheduleSave
<1>5. EconTypeOK'
  BY <1>1, <1>2, <1>4, BookTypes DEF BooksInv, EconTypeOK
<1>6. NothingOlder'
  BY <1>1, <1>2, <1>4, BookTypes DEF BooksInv, NothingOlder, Live
<1>7. LockSteps'
  BY <1>2 DEF BooksInv, LockSteps
<1>8. RestartSteps'
  BY <1>1, <1>2, BookTypes DEF BooksInv, RestartSteps
<1>9. OnDisk'
  BY <1>2, <1>4 DEF BooksInv, OnDisk, Committing
<1>10. InOrder'
  BY <1>1, <1>2, <1>4, BookTypes, BeforeItself DEF BooksInv, InOrder, LockSteps
<1> QED BY <1>5, <1>6, <1>7, <1>8, <1>9, <1>10 DEF BooksInv

LEMMA BookKeeps == BooksInv /\ Book => BooksInv'
<1> SUFFICES ASSUME BooksInv, Book PROVE BooksInv'
  OBVIOUS
<1>1. PICK b \in Balances :
        balance' = b /\ b.start = balance.start /\ Before(balance, b) /\ Initialized(b)
  <2>1. Initialized(balance) /\ balance \in Balances
    BY BookTypes DEF Book
  <2>2. CASE balance' = balance
    BY <2>1, <2>2, BeforeItself
  <2>3. CASE balance.booked < MaxBooked /\ balance' = [balance EXCEPT !.booked = @ + 1]
    <3>1. /\ balance' \in Balances /\ balance'.start = balance.start
          /\ balance'.booked = balance.booked + 1 /\ balance.booked \in Nat
      BY <2>1, <2>3, BalanceTypes
    <3> QED BY <2>1, <3>1 DEF Before, Initialized
  <2> QED BY <2>2, <2>3 DEF Book
<1>2. /\ phase = "up" /\ Initialized(balance)
      /\ UNCHANGED <<mainFile, backupFile, keptCopies, phase, lastPersisted,
                     loadFailed, generation, writeLock, holding, flushing,
                     newest, resetDone, crashes, faults>>
  BY DEF Book
<1>3. pendingState' = b /\ writeTimer' = TRUE /\ UNCHANGED storageError
  BY <1>1, <1>2, AlwaysAccepted DEF Book, ScheduleSave
<1>5. EconTypeOK'
  BY <1>1, <1>2, <1>3, BookTypes DEF BooksInv, EconTypeOK
<1>6. NothingOlder'
  BY <1>1, <1>2, <1>3, BookTypes DEF BooksInv, NothingOlder, Live
<1>7. LockSteps'
  BY <1>2 DEF BooksInv, LockSteps
<1>8. RestartSteps'
  BY <1>1, <1>2, BookTypes DEF BooksInv, RestartSteps
<1>9. OnDisk'
  BY <1>2, <1>3 DEF BooksInv, OnDisk, Committing
<1>10. InOrder'
  <2>1. Before(lastPersisted, b)
    BY <1>1, <1>2, BookTypes, BeforeItself DEF BooksInv, InOrder
  <2>2. writeLock = "timer" => Before(holding.snap, b)
    BY <1>1, <1>2, BookTypes, BeforeItself DEF BooksInv, InOrder, LockSteps
  <2>3. ~flushing.waits /\ writeLock # "flush"
    BY <1>2 DEF BooksInv, LockSteps
  <2> QED BY <1>1, <1>2, <1>3, <2>1, <2>2, <2>3 DEF BooksInv, InOrder
<1> QED BY <1>5, <1>6, <1>7, <1>8, <1>9, <1>10 DEF BooksInv

LEMMA TimerTakesKeeps == BooksInv /\ TimerTakes => BooksInv'
<1> SUFFICES ASSUME BooksInv, TimerTakes PROVE BooksInv'
  OBVIOUS
<1>1. /\ writeTimer /\ writeLock = "free" /\ phase \in {"up", "closing"}
      /\ pendingState' = Nothing /\ writeTimer' = FALSE
      /\ Initialized(pendingState) /\ writeLock' = "timer"
      /\ holding' = At(WriteStep, pendingState)
      /\ UNCHANGED <<mainFile, backupFile, keptCopies, phase, balance,
                     storageError, lastPersisted, loadFailed, generation,
                     flushing, newest, resetDone, crashes, faults>>
  BY DEF TimerTakes, CancelDelayed, BooksInv, EconTypeOK
<1>2. PICK h \in [at : Steps, snap : Balances] :
        /\ h = holding' /\ h # Idle /\ h.snap = pendingState /\ h.at \in {"preserve", "write"}
        /\ h.at = "write" <=> ~loadFailed
  BY <1>1, BookTypes, HolderTypes DEF WriteStep
<1>5. EconTypeOK'
  BY <1>1, <1>2, BookTypes, BalanceTypes, HolderTypes DEF BooksInv, EconTypeOK
<1>6. NothingOlder'
  BY <1>1, <1>2, BalanceTypes DEF BooksInv, NothingOlder, Live
<1>7. LockSteps'
  BY <1>1, <1>2 DEF BooksInv, LockSteps
<1>8. RestartSteps'
  BY <1>1 DEF BooksInv, RestartSteps
<1>9. OnDisk'
  BY <1>1, <1>2 DEF BooksInv, OnDisk, Committing
<1>10. InOrder'
  BY <1>1, <1>2, BookTypes, BalanceTypes, BeforeItself DEF BooksInv, InOrder, LockSteps
<1> QED BY <1>5, <1>6, <1>7, <1>8, <1>9, <1>10 DEF BooksInv

LEMMA BackupTakesKeeps == BooksInv /\ BackupTakes => BooksInv'
<1> SUFFICES ASSUME BooksInv, BackupTakes PROVE BooksInv'
  OBVIOUS
<1>1. /\ phase = "up" /\ writeLock = "free" /\ Initialized(lastPersisted)
      /\ writeLock' = "backup" /\ holding' = At("copy", lastPersisted)
      /\ UNCHANGED <<mainFile, backupFile, keptCopies, phase, balance,
                     storageError, lastPersisted, pendingState, writeTimer,
                     loadFailed, generation, flushing, newest, resetDone,
                     crashes, faults>>
  BY DEF BackupTakes
<1>2. PICK h \in [at : Steps, snap : Balances] :
        h = holding' /\ h # Idle /\ h.snap = lastPersisted /\ h.at = "copy"
  BY <1>1, BookTypes, HolderTypes
<1>5. EconTypeOK'
  BY <1>1, <1>2, HolderTypes DEF BooksInv, EconTypeOK
<1>6. NothingOlder'
  BY <1>1, <1>2 DEF BooksInv, NothingOlder, Live
<1>7. LockSteps'
  BY <1>1, <1>2 DEF BooksInv, LockSteps, OnDisk
<1>8. RestartSteps'
  BY <1>1 DEF BooksInv, RestartSteps
<1>9. OnDisk'
  BY <1>1, <1>2 DEF BooksInv, OnDisk, Committing
<1>10. InOrder'
  BY <1>1, <1>2 DEF BooksInv, InOrder, LockSteps
<1> QED BY <1>5, <1>6, <1>7, <1>8, <1>9, <1>10 DEF BooksInv

LEMMA BackupWritesKeeps == BooksInv /\ BackupWrites => BooksInv'
<1> SUFFICES ASSUME BooksInv, BackupWrites PROVE BooksInv'
  OBVIOUS
<1>1. /\ writeLock = "backup" /\ writeLock' = "free" /\ holding' = Idle
      /\ backupFile' \in {Holds(holding.snap), backupFile}
      /\ UNCHANGED <<mainFile, keptCopies, phase, balance, storageError,
                     lastPersisted, pendingState, writeTimer, loadFailed,
                     generation, flushing, newest, resetDone, crashes>>
  BY DEF BackupWrites, Release
<1>2. faults' \in 0..MaxFaults
  BY EconomicsBounds DEF BackupWrites, Works, BooksInv, EconTypeOK
<1>3. PICK f \in Files : f = backupFile' /\ (f.kind = "good" => Initialized(f.bal) /\ Live(f.bal))
  BY <1>1, BookTypes, StoreFiles DEF BooksInv, NothingOlder, LockSteps
<1>5. EconTypeOK'
  BY <1>1, <1>2, <1>3, HolderTypes DEF BooksInv, EconTypeOK
<1>6. NothingOlder'
  BY <1>1, <1>3, HolderTypes, BalanceTypes DEF BooksInv, NothingOlder, Live
<1>7. LockSteps'
  BY <1>1, HolderTypes DEF BooksInv, LockSteps
<1>8. RestartSteps'
  BY <1>1 DEF BooksInv, RestartSteps
<1>9. OnDisk'
  BY <1>1, HolderTypes DEF BooksInv, OnDisk, Committing, LockSteps
<1>10. InOrder'
  BY <1>1 DEF BooksInv, InOrder, LockSteps
<1> QED BY <1>5, <1>6, <1>7, <1>8, <1>9, <1>10 DEF BooksInv

LEMMA PreserveKeeps == BooksInv /\ Preserve => BooksInv'
<1> SUFFICES ASSUME BooksInv, Preserve PROVE BooksInv'
  OBVIOUS
<1>1. /\ holding.at = "preserve" /\ keptCopies' \subseteq keptCopies \cup {mainFile}
      /\ mainFile' = NoFile /\ loadFailed' = FALSE
      /\ UNCHANGED <<backupFile, phase, balance, storageError, lastPersisted,
                     pendingState, writeTimer, generation, writeLock, flushing,
                     newest, resetDone, crashes, faults>>
  BY DEF Preserve, Keeps
<1>2. PICK h \in [at : Steps, snap : Balances] :
        h = holding' /\ h # Idle /\ h.snap = holding.snap /\ h.at = "write"
  BY <1>1, BookTypes, HolderTypes DEF Preserve
<1>3. writeLock # "free" /\ loadFailed
  BY <1>1, HolderTypes DEF BooksInv, EconTypeOK, LockSteps
<1>5. EconTypeOK'
  BY <1>1, <1>2, <1>3, BookTypes, StoreFiles DEF BooksInv, EconTypeOK
<1>6. NothingOlder'
  BY <1>1, <1>2, StoreFiles DEF BooksInv, NothingOlder, Live
<1>7. LockSteps'
  BY <1>1, <1>2 DEF BooksInv, LockSteps
<1>8. RestartSteps'
  BY <1>1, <1>2 DEF BooksInv, RestartSteps
<1>9. OnDisk'
  BY <1>1, <1>2, <1>3, StoreFiles DEF BooksInv, OnDisk, Committing
<1>10. InOrder'
  BY <1>1, <1>2 DEF BooksInv, InOrder, LockSteps
<1> QED BY <1>5, <1>6, <1>7, <1>8, <1>9, <1>10 DEF BooksInv

\* What every write has in common: the file holds the snapshot or what it held.
LEMMA WriteMainSteps ==
    ASSUME BooksInv, WriteMain
    PROVE  \E ok \in BOOLEAN :
             /\ holding.at = "write" /\ faults' \in 0..MaxFaults
             /\ mainFile' = IF ok THEN Holds(holding.snap) ELSE mainFile
             /\ mainFile' \in Files
             /\ \/ TimerEnds(ok) \/ FlushEnds(ok) \/ LoadEnds(ok) \/ ResetGoesOn(ok)
             /\ UNCHANGED <<backupFile, keptCopies, loadFailed, generation, flushing,
                            newest, resetDone, crashes>>
             /\ Initialized(holding.snap) /\ ~loadFailed
             /\ mainFile'.kind = "good" => Initialized(mainFile'.bal) /\ Live(mainFile'.bal)
<1>1. PICK ok \in BOOLEAN :
        /\ holding.at = "write" /\ Works(ok)
        /\ mainFile' = IF ok THEN Holds(holding.snap) ELSE mainFile
        /\ \/ TimerEnds(ok) \/ FlushEnds(ok) \/ LoadEnds(ok) \/ ResetGoesOn(ok)
        /\ UNCHANGED <<backupFile, keptCopies, loadFailed, generation, flushing,
                       newest, resetDone, crashes>>
  BY DEF WriteMain
<1>2. faults' \in 0..MaxFaults
  BY <1>1, EconomicsBounds DEF Works, BooksInv, EconTypeOK
<1>3. Initialized(holding.snap) /\ ~loadFailed
  BY <1>1, HolderTypes DEF BooksInv, LockSteps, EconTypeOK
<1>4. mainFile' \in Files
  BY <1>1, BookTypes, StoreFiles
<1>5. mainFile'.kind = "good" => Initialized(mainFile'.bal) /\ Live(mainFile'.bal)
  BY <1>1, <1>3, BookTypes, StoreFiles DEF BooksInv, NothingOlder
<1> QED BY <1>1, <1>2, <1>3, <1>4, <1>5

LEMMA TimerEndsKeeps ==
    ASSUME BooksInv, NEW ok \in BOOLEAN, holding.at = "write", faults' \in 0..MaxFaults,
           mainFile' = IF ok THEN Holds(holding.snap) ELSE mainFile, mainFile' \in Files,
           mainFile'.kind = "good" => Initialized(mainFile'.bal) /\ Live(mainFile'.bal),
           Initialized(holding.snap), ~loadFailed, TimerEnds(ok),
           UNCHANGED <<backupFile, keptCopies, loadFailed, generation, flushing,
                       newest, resetDone, crashes>>
    PROVE  BooksInv'
<1>1. /\ writeLock = "timer" /\ writeLock' = "free" /\ holding' = Idle
      /\ UNCHANGED <<phase, balance>> /\ phase \in {"up", "closing"}
      /\ lastPersisted' = IF ok THEN holding.snap ELSE lastPersisted
  BY DEF TimerEnds, Release, BooksInv, LockSteps, EconTypeOK
<1>2. CASE ok
  <2>1. /\ mainFile' = Holds(holding.snap) /\ lastPersisted' = holding.snap
        /\ storageError' = FALSE /\ UNCHANGED <<pendingState, writeTimer>>
    BY <1>1, <1>2 DEF TimerEnds
  <2>2. storageError' \in BOOLEAN
    BY <2>1, Zenon
  <2>5. EconTypeOK'
    BY <1>1, <2>1, <2>2, BookTypes, HolderTypes DEF BooksInv, EconTypeOK
  <2>6. NothingOlder'
    BY <1>1, <2>1, HolderTypes, BalanceTypes DEF BooksInv, NothingOlder, Live
  <2>7. LockSteps'
    BY <1>1, HolderTypes DEF BooksInv, LockSteps
  <2>8. RestartSteps'
    BY <1>1 DEF BooksInv, RestartSteps
  <2>9. OnDisk'
    BY <1>1, <2>1, HolderTypes DEF BooksInv, OnDisk, Committing
  <2>10. InOrder'
    BY <1>1, <2>1 DEF BooksInv, InOrder, LockSteps
  <2> QED BY <2>5, <2>6, <2>7, <2>8, <2>9, <2>10 DEF BooksInv
<1>3. CASE ~ok
  <2>0. UNCHANGED <<mainFile, lastPersisted>> /\ RetryFailed(holding.snap)
    BY <1>1, <1>3 DEF TimerEnds
  <2>1. storageError' = TRUE /\ (writeTimer' <=> Initialized(pendingState'))
    BY <2>0 DEF RetryFailed, BooksInv, EconTypeOK
  <2>2. IF Initialized(pendingState) THEN pendingState' = pendingState
                                     ELSE pendingState' = holding.snap
    <3>1. ~Initialized(pendingState) => Accepts(holding.snap)
      BY <1>1, BookTypes, BalanceTypes DEF Accepts, BooksInv, InOrder, Before
    <3> QED BY <2>0, <3>1 DEF RetryFailed
  <2>3. writeTimer' \in BOOLEAN
    <3>1. writeTimer' \in {writeTimer, TRUE}
      BY <2>0 DEF RetryFailed
    <3> QED BY <3>1, Zenon DEF BooksInv, EconTypeOK
  <2>5. EconTypeOK'
    BY <1>1, <2>0, <2>1, <2>2, <2>3, BookTypes, HolderTypes DEF BooksInv, EconTypeOK
  <2>6. NothingOlder'
    BY <1>1, <2>0, <2>2, HolderTypes, BalanceTypes DEF BooksInv, NothingOlder, Live
  <2>7. LockSteps'
    BY <1>1, HolderTypes DEF BooksInv, LockSteps
  <2>8. RestartSteps'
    BY <1>1 DEF BooksInv, RestartSteps
  <2>9. OnDisk'
    BY <1>1, <2>0, <2>1, HolderTypes DEF BooksInv, OnDisk, Committing
  <2>10. InOrder'
    BY <1>1, <2>0, <2>2 DEF BooksInv, InOrder, LockSteps
  <2> QED BY <2>5, <2>6, <2>7, <2>8, <2>9, <2>10 DEF BooksInv
<1> QED BY <1>2, <1>3

LEMMA FlushEndsKeeps ==
    ASSUME BooksInv, NEW ok \in BOOLEAN, holding.at = "write", faults' \in 0..MaxFaults,
           mainFile' = IF ok THEN Holds(holding.snap) ELSE mainFile, mainFile' \in Files,
           mainFile'.kind = "good" => Initialized(mainFile'.bal) /\ Live(mainFile'.bal),
           Initialized(holding.snap), ~loadFailed, FlushEnds(ok),
           UNCHANGED <<backupFile, keptCopies, loadFailed, generation, flushing,
                       newest, resetDone, crashes>>
    PROVE  BooksInv'
<1>1. /\ writeLock = "flush" /\ writeLock' = "free" /\ holding' = Idle
      /\ UNCHANGED <<balance, pendingState, writeTimer>> /\ phase' = "off"
      /\ lastPersisted' = IF ok THEN holding.snap ELSE lastPersisted
      /\ storageError' \in BOOLEAN
  BY DEF FlushEnds, Release
<1>2. phase = "closing" /\ ~flushing.waits
  BY <1>1 DEF BooksInv, LockSteps
<1>5. EconTypeOK'
  BY <1>1, BookTypes, HolderTypes DEF BooksInv, EconTypeOK
<1>6. NothingOlder'
  BY <1>1, HolderTypes, BalanceTypes DEF BooksInv, NothingOlder, Live
<1>7. LockSteps'
  BY <1>1, <1>2, HolderTypes DEF BooksInv, LockSteps
<1>8. RestartSteps'
  BY <1>1 DEF BooksInv, RestartSteps
<1>9. OnDisk'
  BY <1>1, HolderTypes DEF BooksInv, OnDisk, Committing
<1>10. InOrder'
  BY <1>1, <1>2 DEF BooksInv, InOrder, LockSteps
<1> QED BY <1>5, <1>6, <1>7, <1>8, <1>9, <1>10 DEF BooksInv

LEMMA LoadEndsKeeps ==
    ASSUME BooksInv, NEW ok \in BOOLEAN, holding.at = "write", faults' \in 0..MaxFaults,
           mainFile' = IF ok THEN Holds(holding.snap) ELSE mainFile, mainFile' \in Files,
           mainFile'.kind = "good" => Initialized(mainFile'.bal) /\ Live(mainFile'.bal),
           Initialized(holding.snap), ~loadFailed, LoadEnds(ok),
           UNCHANGED <<backupFile, keptCopies, loadFailed, generation, flushing,
                       newest, resetDone, crashes>>
    PROVE  BooksInv'
<1>1. /\ writeLock = "load" /\ writeLock' = "free" /\ holding' = Idle
      /\ UNCHANGED <<lastPersisted, pendingState, writeTimer>> /\ phase' = "up"
      /\ balance' = holding.snap /\ storageError' = ~ok /\ storageError' \in BOOLEAN
  BY DEF LoadEnds, Release
<1>2. phase = "restoring" /\ ~flushing.waits
  BY <1>1 DEF BooksInv, LockSteps, EconTypeOK
<1>3. lastPersisted = holding.snap /\ pendingState = Nothing /\ mainFile.kind # "good"
  BY <1>1, <1>2 DEF BooksInv, OnDisk
<1>5. EconTypeOK'
  BY <1>1, BookTypes, HolderTypes DEF BooksInv, EconTypeOK
<1>6. NothingOlder'
  BY <1>1, HolderTypes, BalanceTypes DEF BooksInv, NothingOlder, Live
<1>7. LockSteps'
  BY <1>1, <1>2, HolderTypes DEF BooksInv, LockSteps
<1>8. RestartSteps'
  BY <1>1 DEF BooksInv, RestartSteps
<1>9. OnDisk'
  BY <1>1, <1>3, HolderTypes DEF BooksInv, OnDisk, Committing
<1>10. InOrder'
  BY <1>1, <1>2, <1>3, BalanceTypes DEF BooksInv, InOrder, LockSteps
<1> QED BY <1>5, <1>6, <1>7, <1>8, <1>9, <1>10 DEF BooksInv

LEMMA ResetGoesOnKeeps ==
    ASSUME BooksInv, NEW ok \in BOOLEAN, holding.at = "write", faults' \in 0..MaxFaults,
           mainFile' = IF ok THEN Holds(holding.snap) ELSE mainFile, mainFile' \in Files,
           mainFile'.kind = "good" => Initialized(mainFile'.bal) /\ Live(mainFile'.bal),
           Initialized(holding.snap), ~loadFailed, ResetGoesOn(ok),
           UNCHANGED <<backupFile, keptCopies, loadFailed, generation, flushing,
                       newest, resetDone, crashes>>
    PROVE  BooksInv'
<1>1. /\ writeLock = "reset" /\ storageError' = IF ok THEN FALSE ELSE storageError
      /\ UNCHANGED <<lastPersisted, pendingState, writeTimer, phase, balance, writeLock>>
  BY DEF ResetGoesOn
<1>2. PICK h \in [at : Steps, snap : Balances] :
        /\ h = holding' /\ h # Idle /\ h.snap = holding.snap
        /\ h.at = IF ok THEN "copy" ELSE "recopy"
  BY BookTypes, HolderTypes DEF ResetGoesOn
<1>3. storageError' \in BOOLEAN
  BY <1>1, Zenon DEF BooksInv, EconTypeOK
<1>5. EconTypeOK'
  BY <1>1, <1>2, <1>3, BookTypes, HolderTypes DEF BooksInv, EconTypeOK
<1>6. NothingOlder'
  BY <1>1, <1>2 DEF BooksInv, NothingOlder, Live
<1>7. LockSteps'
  BY <1>1, <1>2, HolderTypes DEF BooksInv, LockSteps
<1>8. RestartSteps'
  BY <1>1, <1>2 DEF BooksInv, RestartSteps
<1>9. OnDisk'
  BY <1>1, <1>2, HolderTypes DEF BooksInv, OnDisk, Committing, LockSteps
<1>10. InOrder'
  BY <1>1, <1>2 DEF BooksInv, InOrder, LockSteps
<1> QED BY <1>5, <1>6, <1>7, <1>8, <1>9, <1>10 DEF BooksInv

LEMMA WriteMainKeeps == BooksInv /\ WriteMain => BooksInv'
<1> SUFFICES ASSUME BooksInv, WriteMain PROVE BooksInv'
  OBVIOUS
<1>1. PICK ok \in BOOLEAN :
        /\ holding.at = "write" /\ faults' \in 0..MaxFaults
        /\ mainFile' = IF ok THEN Holds(holding.snap) ELSE mainFile
        /\ mainFile' \in Files
        /\ \/ TimerEnds(ok) \/ FlushEnds(ok) \/ LoadEnds(ok) \/ ResetGoesOn(ok)
        /\ UNCHANGED <<backupFile, keptCopies, loadFailed, generation, flushing,
                       newest, resetDone, crashes>>
        /\ Initialized(holding.snap) /\ ~loadFailed
        /\ mainFile'.kind = "good" => Initialized(mainFile'.bal) /\ Live(mainFile'.bal)
  BY WriteMainSteps
<1>2. CASE TimerEnds(ok)
  BY <1>1, <1>2, TimerEndsKeeps
<1>3. CASE FlushEnds(ok)
  BY <1>1, <1>3, FlushEndsKeeps
<1>4. CASE LoadEnds(ok)
  BY <1>1, <1>4, LoadEndsKeeps
<1>5. CASE ResetGoesOn(ok)
  BY <1>1, <1>5, ResetGoesOnKeeps
<1> QED BY <1>1, <1>2, <1>3, <1>4, <1>5

LEMMA ResetTakesKeeps == BooksInv /\ ResetTakes => BooksInv'
<1> SUFFICES ASSUME BooksInv, ResetTakes PROVE BooksInv'
  OBVIOUS
<1>1. /\ phase = "up" /\ Initialized(balance) /\ newest < MaxStarts /\ writeLock = "free"
      /\ writeLock' = "reset" /\ newest' = newest + 1
      /\ UNCHANGED <<mainFile, backupFile, keptCopies, phase, balance,
                     storageError, lastPersisted, pendingState, writeTimer,
                     loadFailed, generation, flushing, resetDone, crashes, faults>>
  BY DEF ResetTakes
<1>2. PICK n \in 1..MaxStarts : n = newest' /\ n = newest + 1 /\ n \in 0..MaxStarts
  BY <1>1, BookTypes
<1>3. PICK h \in [at : Steps, snap : Balances] :
        /\ h = holding' /\ h # Idle /\ h.at = "remove" /\ Initialized(h.snap) /\ h.snap.start = n
  BY <1>2, BalanceTypes, HolderTypes DEF ResetTakes
<1>5. EconTypeOK'
  BY <1>1, <1>2, <1>3, HolderTypes DEF BooksInv, EconTypeOK
<1>6. NothingOlder'
  BY <1>1, <1>2, <1>3, BookTypes DEF BooksInv, NothingOlder, Live
<1>7. LockSteps'
  BY <1>1, <1>3 DEF BooksInv, LockSteps
<1>8. RestartSteps'
  BY <1>1, <1>2, <1>3, BookTypes DEF BooksInv, RestartSteps
<1>9. OnDisk'
  BY <1>1, <1>3 DEF BooksInv, OnDisk, Committing
<1>10. InOrder'
  BY <1>1 DEF BooksInv, InOrder, LockSteps
<1> QED BY <1>5, <1>6, <1>7, <1>8, <1>9, <1>10 DEF BooksInv

LEMMA ResetRemovesKeeps == BooksInv /\ ResetRemoves => BooksInv'
<1> SUFFICES ASSUME BooksInv, ResetRemoves PROVE BooksInv'
  OBVIOUS
<1>1. PICK ok \in BOOLEAN :
        /\ holding.at = "remove" /\ Works(ok)
        /\ backupFile' = IF ok THEN NoFile ELSE backupFile
        /\ IF ok THEN holding' = At(WriteStep, holding.snap) /\ UNCHANGED writeLock ELSE Release
        /\ UNCHANGED <<mainFile, keptCopies, phase, balance, storageError,
                       lastPersisted, pendingState, writeTimer, loadFailed,
                       generation, flushing, newest, resetDone, crashes>>
  BY DEF ResetRemoves, RemovesBackup
<1>2. faults' \in 0..MaxFaults
  BY <1>1, EconomicsBounds DEF Works, BooksInv, EconTypeOK
<1>3. writeLock = "reset"
  BY <1>1, HolderTypes DEF BooksInv, LockSteps, EconTypeOK, Holders
<1>4. CASE ok
  <2>1. backupFile' = NoFile /\ writeLock' = "reset"
    BY <1>1, <1>3, <1>4
  <2>2. PICK h \in [at : Steps, snap : Balances] :
          /\ h = holding' /\ h # Idle /\ h.snap = holding.snap /\ h.at \in {"preserve", "write"}
          /\ h.at = "write" <=> ~loadFailed
    BY <1>1, <1>4, BookTypes, HolderTypes DEF WriteStep
  <2>5. EconTypeOK'
    BY <1>1, <1>2, <2>1, <2>2, StoreFiles, HolderTypes DEF BooksInv, EconTypeOK
  <2>6. NothingOlder'
    BY <1>1, <2>1, <2>2, StoreFiles DEF BooksInv, NothingOlder, Live
  <2>7. LockSteps'
    BY <1>1, <1>3, <2>1, <2>2 DEF BooksInv, LockSteps
  <2>8. RestartSteps'
    BY <1>1, <1>3, <2>1, <2>2, StoreFiles DEF BooksInv, RestartSteps
  <2>9. OnDisk'
    BY <1>1, <1>3, <2>1, <2>2 DEF BooksInv, OnDisk, Committing
  <2>10. InOrder'
    BY <1>1, <1>3, <2>1, <2>2 DEF BooksInv, InOrder, LockSteps
  <2> QED BY <2>5, <2>6, <2>7, <2>8, <2>9, <2>10 DEF BooksInv
<1>5. CASE ~ok
  <2>1. UNCHANGED backupFile /\ writeLock' = "free" /\ holding' = Idle
    BY <1>1, <1>5 DEF Release
  <2>5. EconTypeOK'
    BY <1>1, <1>2, <2>1, HolderTypes DEF BooksInv, EconTypeOK
  <2>6. NothingOlder'
    BY <1>1, <2>1, HolderTypes, BalanceTypes DEF BooksInv, NothingOlder, Live
  <2>7. LockSteps'
    BY <1>1, <1>3, <2>1, HolderTypes DEF BooksInv, LockSteps
  <2>8. RestartSteps'
    BY <1>1, <2>1 DEF BooksInv, RestartSteps
  <2>9. OnDisk'
    BY <1>1, <1>3, <2>1, HolderTypes DEF BooksInv, OnDisk, Committing, LockSteps
  <2>10. InOrder'
    BY <1>1, <1>3, <2>1 DEF BooksInv, InOrder, LockSteps
  <2> QED BY <2>5, <2>6, <2>7, <2>8, <2>9, <2>10 DEF BooksInv
<1> QED BY <1>4, <1>5

LEMMA ResetFailsKeeps == BooksInv /\ ResetFails => BooksInv'
<1> SUFFICES ASSUME BooksInv, ResetFails PROVE BooksInv'
  OBVIOUS
<1>1. /\ holding.at = "recopy" /\ writeLock' = "free" /\ holding' = Idle
      /\ \/ backupFile' = backupFile
         \/ Initialized(lastPersisted) /\ backupFile' = Holds(lastPersisted)
      /\ UNCHANGED <<mainFile, keptCopies, phase, balance, storageError,
                     lastPersisted, pendingState, writeTimer, loadFailed,
                     generation, flushing, newest, resetDone, crashes>>
  BY DEF ResetFails, Release
<1>2. faults' \in 0..MaxFaults
  BY EconomicsBounds DEF ResetFails, Works, BooksInv, EconTypeOK
<1>3. writeLock = "reset"
  BY <1>1, HolderTypes DEF BooksInv, LockSteps, EconTypeOK, Holders
<1>4. backupFile' \in Files
  BY <1>1, BookTypes, StoreFiles
<1>5. EconTypeOK'
  BY <1>1, <1>2, <1>4, HolderTypes DEF BooksInv, EconTypeOK
<1>6. NothingOlder'
  <2>1. backupFile'.kind = "good" => Initialized(backupFile'.bal) /\ Live(backupFile'.bal)
    BY <1>1, BookTypes, StoreFiles DEF BooksInv, NothingOlder
  <2> QED BY <1>1, <2>1, HolderTypes, BalanceTypes DEF BooksInv, NothingOlder, Live
<1>7. LockSteps'
  BY <1>1, <1>3, HolderTypes DEF BooksInv, LockSteps
<1>8. RestartSteps'
  BY <1>1 DEF BooksInv, RestartSteps
<1>9. OnDisk'
  BY <1>1, <1>3, HolderTypes DEF BooksInv, OnDisk, Committing, LockSteps
<1>10. InOrder'
  BY <1>1, <1>3 DEF BooksInv, InOrder, LockSteps
<1> QED BY <1>5, <1>6, <1>7, <1>8, <1>9, <1>10 DEF BooksInv

LEMMA ResetCommitsKeeps == BooksInv /\ ResetCommits => BooksInv'
<1> SUFFICES ASSUME BooksInv, ResetCommits PROVE BooksInv'
  OBVIOUS
<1>1. /\ writeLock = "reset" /\ holding.at = "copy" /\ writeLock' = "free" /\ holding' = Idle
      /\ backupFile' \in {Holds(holding.snap), backupFile}
      /\ lastPersisted' = holding.snap /\ balance' = holding.snap
      /\ pendingState' = Nothing /\ writeTimer' = FALSE
      /\ generation' = generation + 1 /\ resetDone' = holding.snap.start
      /\ UNCHANGED <<mainFile, keptCopies, phase, storageError, loadFailed,
                     flushing, newest, crashes>>
  BY DEF ResetCommits, Supersedes, CancelDelayed, Release
<1>2. faults' \in 0..MaxFaults
  BY EconomicsBounds DEF ResetCommits, Works, BooksInv, EconTypeOK
<1>3. PICK s \in Balances, g \in 0..MaxStarts :
        /\ s = holding.snap /\ s.start = newest /\ Initialized(s) /\ mainFile = Holds(s)
        /\ g = generation' /\ g = generation + 1 /\ g <= newest
        /\ backupFile.kind # "good" /\ ~loadFailed
  BY <1>1, BookTypes DEF BooksInv, LockSteps, RestartSteps
<1>4. phase \in {"up", "closing"}
  BY <1>1 DEF BooksInv, LockSteps, EconTypeOK
<1>5. EconTypeOK'
  <2>1. writeTimer' \in BOOLEAN
    BY <1>1, Zenon
  <2> QED BY <1>1, <1>2, <1>3, <2>1, BookTypes, StoreFiles, BalanceTypes, HolderTypes
          DEF BooksInv, EconTypeOK
<1>6. NothingOlder'
  <2>1. ~(flushing.waits /\ flushing.seen = g)
    BY <1>3, BookTypes DEF BooksInv, RestartSteps
  <2>2. backupFile'.kind = "good" => backupFile'.bal = s
    BY <1>1, <1>3, StoreFiles
  <2> QED BY <1>1, <1>3, <2>1, <2>2, BookTypes, BalanceTypes, StoreFiles, HolderTypes
          DEF NothingOlder, Live
<1>7. LockSteps'
  BY <1>1, <1>4, HolderTypes DEF BooksInv, LockSteps
<1>8. RestartSteps'
  BY <1>1, <1>3, BookTypes DEF BooksInv, RestartSteps
<1>9. OnDisk'
  BY <1>1, <1>3, <1>4, HolderTypes DEF BooksInv, OnDisk
<1>10. InOrder'
  <2>1. flushing.waits => flushing.seen # g
    BY <1>3, BookTypes DEF BooksInv, RestartSteps
  <2>2. ~Initialized(Nothing)
    BY BalanceTypes
  <2> QED BY <1>1, <1>3, <1>4, <2>1, <2>2 DEF InOrder
<1> QED BY <1>5, <1>6, <1>7, <1>8, <1>9, <1>10 DEF BooksInv

LEMMA FlushStartsKeeps == BooksInv /\ FlushStarts => BooksInv'
<1> SUFFICES ASSUME BooksInv, FlushStarts PROVE BooksInv'
  OBVIOUS
<1>1. /\ phase = "up" /\ ~flushing.waits
      /\ UNCHANGED <<mainFile, backupFile, keptCopies, balance, storageError,
                     lastPersisted, loadFailed, generation, writeLock, holding,
                     newest, resetDone, crashes, faults>>
  BY DEF FlushStarts
<1>2. CASE Initialized(balance) /\ Accepts(balance)
  <2>1. /\ phase' = "closing" /\ pendingState' = Nothing /\ writeTimer' = FALSE
        /\ flushing' = [waits |-> TRUE, seen |-> generation, snap |-> balance]
    BY <1>2 DEF FlushStarts, CancelDelayed
  <2>2. PICK w \in [waits : BOOLEAN, seen : 0..MaxStarts, snap : Balances] :
          w = flushing' /\ w.waits /\ w.seen = generation /\ w.snap = balance
    <3>1. generation \in 0..MaxStarts /\ balance \in Balances
      BY BookTypes DEF BooksInv, EconTypeOK
    <3>2. /\ flushing' \in [waits : BOOLEAN, seen : 0..MaxStarts, snap : Balances]
          /\ flushing'.waits /\ flushing'.seen = generation /\ flushing'.snap = balance
      BY <2>1, <3>1, HolderTypes
    <3> QED BY <3>2
  <2>3. Before(lastPersisted, balance) /\ (writeLock = "timer" => Before(holding.snap, balance))
    BY <1>1, <1>2, BookTypes, BeforeItself DEF BooksInv, InOrder
  <2>5. EconTypeOK'
    <3>1. writeTimer' \in BOOLEAN
      BY <2>1, Zenon
    <3> QED BY <1>1, <2>1, <2>2, <3>1, BalanceTypes DEF BooksInv, EconTypeOK
  <2>6. NothingOlder'
    BY <1>1, <2>1, <2>2, BalanceTypes DEF BooksInv, NothingOlder, Live
  <2>7. LockSteps'
    BY <1>1, <2>1, <2>2 DEF BooksInv, LockSteps
  <2>8. RestartSteps'
    BY <1>1, <2>2, BookTypes DEF BooksInv, RestartSteps
  <2>9. OnDisk'
    BY <1>1, <2>1 DEF BooksInv, OnDisk, Committing
  <2>10. InOrder'
    BY <1>1, <1>2, <2>1, <2>2, <2>3, BookTypes, BalanceTypes, BeforeItself
       DEF BooksInv, InOrder, LockSteps
  <2> QED BY <2>5, <2>6, <2>7, <2>8, <2>9, <2>10 DEF BooksInv
<1>3. CASE ~(Initialized(balance) /\ Accepts(balance))
  <2>1. /\ phase' = "off" /\ writeLock = "free"
        /\ UNCHANGED <<flushing, pendingState, writeTimer>>
    BY <1>3 DEF FlushStarts
  <2>5. EconTypeOK'
    BY <1>1, <2>1 DEF BooksInv, EconTypeOK
  <2>6. NothingOlder'
    BY <1>1, <2>1 DEF BooksInv, NothingOlder, Live
  <2>7. LockSteps'
    BY <1>1, <2>1 DEF BooksInv, LockSteps
  <2>8. RestartSteps'
    BY <1>1, <2>1 DEF BooksInv, RestartSteps
  <2>9. OnDisk'
    BY <1>1, <2>1 DEF BooksInv, OnDisk
  <2>10. InOrder'
    BY <1>1, <2>1 DEF BooksInv, InOrder
  <2> QED BY <2>5, <2>6, <2>7, <2>8, <2>9, <2>10 DEF BooksInv
<1> QED BY <1>2, <1>3

LEMMA FlushTakesKeeps == BooksInv /\ FlushTakes => BooksInv'
<1> SUFFICES ASSUME BooksInv, FlushTakes PROVE BooksInv'
  OBVIOUS
<1>1. /\ flushing.waits /\ writeLock = "free" /\ flushing' = NotFlushing /\ phase = "closing"
      /\ UNCHANGED <<mainFile, backupFile, keptCopies, balance, storageError,
                     lastPersisted, loadFailed, generation, newest, resetDone,
                     crashes, faults>>
  BY DEF FlushTakes, BooksInv, LockSteps
<1>2. CASE Superseded
  <2>1. phase' = "off" /\ UNCHANGED <<writeLock, holding, pendingState, writeTimer>>
    BY <1>2 DEF FlushTakes
  <2>5. EconTypeOK'
    BY <1>1, <2>1, HolderTypes DEF BooksInv, EconTypeOK
  <2>6. NothingOlder'
    BY <1>1, <2>1, HolderTypes DEF BooksInv, NothingOlder, Live
  <2>7. LockSteps'
    BY <1>1, <2>1, HolderTypes DEF BooksInv, LockSteps
  <2>8. RestartSteps'
    BY <1>1, <2>1, HolderTypes DEF BooksInv, RestartSteps
  <2>9. OnDisk'
    BY <1>1, <2>1 DEF BooksInv, OnDisk
  <2>10. InOrder'
    BY <1>1, <2>1, HolderTypes DEF BooksInv, InOrder
  <2> QED BY <2>5, <2>6, <2>7, <2>8, <2>9, <2>10 DEF BooksInv
<1>3. CASE ~Superseded
  <2>1. /\ pendingState' = Nothing /\ writeTimer' = FALSE /\ writeLock' = "flush"
        /\ holding' = At(WriteStep, flushing.snap) /\ UNCHANGED phase
    BY <1>3 DEF FlushTakes, CancelDelayed
  <2>2. PICK h \in [at : Steps, snap : Balances] :
          /\ h = holding' /\ h # Idle /\ h.snap = flushing.snap
          /\ h.at \in {"preserve", "write"} /\ (h.at = "write" <=> ~loadFailed)
    BY <2>1, BookTypes, HolderTypes DEF WriteStep
  <2>3. flushing.seen = generation
    BY <1>3 DEF Superseded
  <2>5. EconTypeOK'
    <3>1. writeTimer' \in BOOLEAN
      BY <2>1, Zenon
    <3> QED BY <1>1, <2>1, <2>2, <3>1, BalanceTypes, HolderTypes DEF BooksInv, EconTypeOK
  <2>6. NothingOlder'
    BY <1>1, <2>1, <2>2, <2>3, BalanceTypes, HolderTypes DEF BooksInv, NothingOlder, Live
  <2>7. LockSteps'
    BY <1>1, <2>1, <2>2, <2>3, HolderTypes DEF BooksInv, LockSteps, InOrder
  <2>8. RestartSteps'
    BY <1>1, <2>1, HolderTypes DEF BooksInv, RestartSteps
  <2>9. OnDisk'
    BY <1>1, <2>1, <2>2 DEF BooksInv, OnDisk, Committing
  <2>10. InOrder'
    BY <1>1, <2>1, <2>2, <2>3, BalanceTypes, HolderTypes DEF BooksInv, InOrder
  <2> QED BY <2>5, <2>6, <2>7, <2>8, <2>9, <2>10 DEF BooksInv
<1> QED BY <1>2, <1>3

\* A process that begins knows nothing; what the files hold is still live.
LEMMA ForgetsKeeps ==
    ASSUME BooksInv, Forgets, phase' \in {"off", "loading"},
           mainFile' \in {mainFile} \cup Damaged, backupFile' \in {backupFile} \cup Damaged,
           crashes' \in 0..MaxCrashes, UNCHANGED <<keptCopies, newest, resetDone, faults>>
    PROVE  BooksInv'
<1>1. /\ balance' = Nothing /\ storageError' = FALSE
      /\ lastPersisted' = Nothing /\ pendingState' = Nothing
      /\ writeTimer' = FALSE /\ loadFailed' = FALSE /\ generation' = 0
      /\ writeLock' = "free" /\ holding' = Idle /\ flushing' = NotFlushing
  BY DEF Forgets
<1>2. /\ mainFile' \in Files /\ backupFile' \in Files
      /\ mainFile'.kind = "good" => mainFile' = mainFile
      /\ backupFile'.kind = "good" => backupFile' = backupFile
  BY BookTypes, StoreFiles
<1>5. EconTypeOK'
  <2>1. storageError' \in BOOLEAN /\ writeTimer' \in BOOLEAN /\ loadFailed' \in BOOLEAN
    BY <1>1, Zenon
  <2> QED BY <1>1, <1>2, <2>1, BalanceTypes, HolderTypes, EconomicsBounds
          DEF BooksInv, EconTypeOK
<1>6. NothingOlder'
  BY <1>1, <1>2, BalanceTypes, HolderTypes DEF BooksInv, NothingOlder, Live
<1>7. LockSteps'
  BY <1>1, HolderTypes DEF LockSteps
<1>8. RestartSteps'
  BY <1>1, BookTypes, HolderTypes DEF RestartSteps
<1>9. OnDisk'
  BY <1>1, HolderTypes DEF OnDisk
<1>10. InOrder'
  BY <1>1, HolderTypes DEF InOrder
<1> QED BY <1>5, <1>6, <1>7, <1>8, <1>9, <1>10 DEF BooksInv

LEMMA CrashKeeps == BooksInv /\ Crash => BooksInv'
<1> SUFFICES ASSUME BooksInv, Crash PROVE BooksInv'
  OBVIOUS
<1>1. crashes' \in 0..MaxCrashes
  BY EconomicsBounds DEF Crash, BooksInv, EconTypeOK
<1>2. /\ Forgets /\ phase' = "off" /\ UNCHANGED <<keptCopies, newest, resetDone, faults>>
      /\ mainFile' \in {mainFile} \cup Damaged /\ backupFile' \in {backupFile} \cup Damaged
  BY DEF Crash
<1> QED BY <1>1, <1>2, ForgetsKeeps

LEMMA StartKeeps == BooksInv /\ Start => BooksInv'
<1> SUFFICES ASSUME BooksInv, Start PROVE BooksInv'
  OBVIOUS
<1>1. /\ Forgets /\ phase' = "loading" /\ crashes' \in 0..MaxCrashes
      /\ UNCHANGED <<mainFile, backupFile, keptCopies, newest, resetDone, faults>>
  BY DEF Start, BooksInv, EconTypeOK
<1> QED BY <1>1, ForgetsKeeps

LEMMA LoadMainKeeps == BooksInv /\ LoadMain => BooksInv'
<1> SUFFICES ASSUME BooksInv, LoadMain PROVE BooksInv'
  OBVIOUS
<1>1. PICK ok \in BOOLEAN :
        /\ phase = "loading" /\ Works(ok)
        /\ IF ok /\ mainFile.kind = "good"
           THEN /\ balance' = mainFile.bal /\ lastPersisted' = mainFile.bal
                /\ phase' = "up"
                /\ UNCHANGED <<loadFailed, mainFile, keptCopies>>
           ELSE /\ loadFailed' = (~ok \/ LeftATrace)
                /\ IF ok /\ mainFile.kind = "bad"
                   THEN Keeps /\ mainFile' = NoFile
                   ELSE UNCHANGED <<mainFile, keptCopies>>
                /\ phase' = "restoring"
                /\ UNCHANGED <<balance, lastPersisted>>
        /\ UNCHANGED <<backupFile, storageError, pendingState, writeTimer,
                       generation, writeLock, holding, flushing, newest,
                       resetDone, crashes>>
  BY DEF LoadMain
<1>2. faults' \in 0..MaxFaults
  BY <1>1, EconomicsBounds DEF Works, BooksInv, EconTypeOK
<1>3. /\ writeLock = "free" /\ holding = Idle /\ ~flushing.waits
      /\ pendingState = Nothing /\ balance = Nothing /\ lastPersisted = Nothing
  BY <1>1 DEF BooksInv, EconTypeOK, LockSteps, OnDisk
<1>4. CASE ok /\ mainFile.kind = "good"
  <2>1. /\ balance' = mainFile.bal /\ lastPersisted' = mainFile.bal /\ phase' = "up"
        /\ UNCHANGED <<loadFailed, mainFile, keptCopies>>
    BY <1>1, <1>4
  <2>2. PICK m \in Balances : /\ m = mainFile.bal /\ Initialized(m) /\ Live(m)
                              /\ mainFile = Holds(m)
    <3>1. mainFile = [kind |-> "good", bal |-> mainFile.bal]
      BY <1>4, BookTypes DEF Files
    <3> QED BY <1>4, <3>1, BookTypes DEF BooksInv, NothingOlder, Holds
  <2>3. ~loadFailed
    BY <1>1 DEF BooksInv, OnDisk
  <2>5. EconTypeOK'
    BY <1>1, <1>2, <2>1, BookTypes DEF BooksInv, EconTypeOK
  <2>6. NothingOlder'
    BY <1>1, <2>1, <2>2 DEF BooksInv, NothingOlder, Live
  <2>7. LockSteps'
    BY <1>1, <1>3, <2>1 DEF BooksInv, LockSteps
  <2>8. RestartSteps'
    BY <1>1, <1>3 DEF BooksInv, RestartSteps
  <2>9. OnDisk'
    BY <1>1, <1>3, <2>1, <2>2, <2>3 DEF OnDisk
  <2>10. InOrder'
    BY <1>1, <1>3, <2>1, <2>2, BalanceTypes DEF InOrder
  <2> QED BY <2>5, <2>6, <2>7, <2>8, <2>9, <2>10 DEF BooksInv
<1>5. CASE ~(ok /\ mainFile.kind = "good")
  <2>1. /\ phase' = "restoring" /\ UNCHANGED <<balance, lastPersisted>>
        /\ loadFailed' = (~ok \/ LeftATrace)
        /\ \/ UNCHANGED <<mainFile, keptCopies>>
           \/ mainFile' = NoFile /\ keptCopies' \subseteq keptCopies \cup {mainFile}
    BY <1>1, <1>5 DEF Keeps
  <2>2. loadFailed' \in BOOLEAN
    BY <2>1
  <2>3. mainFile'.kind = "good" => loadFailed'
    BY <1>5, <2>1, StoreFiles
  <2>5. EconTypeOK'
    BY <1>1, <1>2, <2>1, <2>2, BookTypes, StoreFiles DEF BooksInv, EconTypeOK
  <2>6. NothingOlder'
    BY <1>1, <2>1, StoreFiles DEF BooksInv, NothingOlder, Live
  <2>7. LockSteps'
    BY <1>1, <1>3, <2>1, HolderTypes DEF BooksInv, LockSteps
  <2>8. RestartSteps'
    BY <1>1, <1>3 DEF BooksInv, RestartSteps
  <2>9. OnDisk'
    BY <1>1, <1>3, <2>1, <2>3 DEF OnDisk
  <2>10. InOrder'
    BY <1>1, <1>3, <2>1 DEF InOrder
  <2> QED BY <2>5, <2>6, <2>7, <2>8, <2>9, <2>10 DEF BooksInv
<1> QED BY <1>4, <1>5

LEMMA LoadBackupKeeps == BooksInv /\ LoadBackup => BooksInv'
<1> SUFFICES ASSUME BooksInv, LoadBackup PROVE BooksInv'
  OBVIOUS
<1>1. /\ phase = "restoring" /\ writeLock = "free" /\ holding = Idle /\ ~flushing.waits
      /\ UNCHANGED <<mainFile, backupFile, keptCopies, balance, pendingState,
                     writeTimer, generation, flushing, newest, resetDone, crashes, faults>>
      /\ pendingState = Nothing /\ balance = Nothing /\ lastPersisted = Nothing
  BY DEF LoadBackup, BooksInv, EconTypeOK, LockSteps, OnDisk
<1>2. CASE backupFile.kind = "good" /\ AskBackup
  <2>1. /\ writeLock' = "load" /\ loadFailed' = TRUE
        /\ holding' = At("preserve", backupFile.bal) /\ lastPersisted' = backupFile.bal
        /\ UNCHANGED <<phase, storageError>>
    BY <1>2 DEF LoadBackup, PreserveFirst
  <2>2. PICK h \in [at : Steps, snap : Balances] :
          /\ h = holding' /\ h # Idle /\ h.snap = backupFile.bal /\ h.at = "preserve"
          /\ Initialized(h.snap) /\ Live(h.snap)
    BY <1>2, <2>1, BookTypes, HolderTypes DEF BooksInv, NothingOlder
  <2>5. EconTypeOK'
    <3>1. loadFailed' \in BOOLEAN
      BY <2>1, Zenon
    <3> QED BY <1>1, <2>1, <2>2, <3>1, BookTypes, HolderTypes DEF BooksInv, EconTypeOK
  <2>6. NothingOlder'
    BY <1>1, <2>1, <2>2 DEF BooksInv, NothingOlder, Live
  <2>7. LockSteps'
    BY <1>1, <2>1, <2>2 DEF BooksInv, LockSteps
  <2>8. RestartSteps'
    BY <1>1, <2>1 DEF BooksInv, RestartSteps
  <2>9. OnDisk'
    BY <1>1, <2>1, <2>2 DEF OnDisk
  <2>10. InOrder'
    BY <1>1, <2>1 DEF InOrder
  <2> QED BY <2>5, <2>6, <2>7, <2>8, <2>9, <2>10 DEF BooksInv
<1>3. CASE ~(backupFile.kind = "good" /\ AskBackup)
  <2>1. /\ phase' = "up" /\ storageError' = (loadFailed /\ mainFile.kind # "none")
        /\ UNCHANGED <<writeLock, holding, lastPersisted, loadFailed>>
    BY <1>3 DEF LoadBackup
  <2>2. storageError' \in BOOLEAN
    BY <2>1
  <2>5. EconTypeOK'
    BY <1>1, <2>1, <2>2 DEF BooksInv, EconTypeOK
  <2>6. NothingOlder'
    BY <1>1, <2>1 DEF BooksInv, NothingOlder, Live
  <2>7. LockSteps'
    BY <1>1, <2>1, HolderTypes DEF BooksInv, LockSteps
  <2>8. RestartSteps'
    BY <1>1, <2>1 DEF BooksInv, RestartSteps
  <2>9. OnDisk'
    BY <1>1, <2>1, BalanceTypes DEF BooksInv, OnDisk
  <2>10. InOrder'
    BY <1>1, <2>1, BalanceTypes DEF InOrder
  <2> QED BY <2>5, <2>6, <2>7, <2>8, <2>9, <2>10 DEF BooksInv
<1> QED BY <1>2, <1>3

LEMMA BooksStepPreserves == BooksInv /\ [EconNext]_econVars => BooksInv'
<1> SUFFICES ASSUME BooksInv, [EconNext]_econVars PROVE BooksInv'
  OBVIOUS
<1>1. CASE UNCHANGED econVars
  BY <1>1 DEF econVars, BooksInv, EconTypeOK, NothingOlder, Live, LockSteps, RestartSteps,
     OnDisk, Committing, InOrder
<1> QED BY <1>1, BootstrapKeeps, BookKeeps, TimerTakesKeeps, BackupTakesKeeps,
           BackupWritesKeeps, PreserveKeeps, WriteMainKeeps, ResetTakesKeeps,
           ResetRemovesKeeps, ResetFailsKeeps, ResetCommitsKeeps, FlushStartsKeeps,
           FlushTakesKeeps, CrashKeeps, StartKeeps, LoadMainKeeps, LoadBackupKeeps
        DEF EconNext

\* In every reachable state the balances in memory and in the files follow one
\* another, and none is older than the last restart that reported success.
THEOREM BooksInvariant == EconSpec => []BooksInv
<1>1. EconInit => BooksInv
  <2> SUFFICES ASSUME EconInit PROVE BooksInv
    OBVIOUS
  <2>1. storageError \in BOOLEAN /\ writeTimer \in BOOLEAN /\ loadFailed \in BOOLEAN
    BY Zenon DEF EconInit
  <2>2. EconTypeOK
    BY <2>1, StoreFiles, BalanceTypes, HolderTypes, EconomicsBounds DEF EconInit, EconTypeOK
  <2>3. NothingOlder
    BY BalanceTypes, HolderTypes, StoreFiles DEF EconInit, NothingOlder, Live
  <2>4. LockSteps /\ RestartSteps /\ OnDisk /\ InOrder
    BY BalanceTypes, HolderTypes DEF EconInit, LockSteps, RestartSteps, OnDisk, InOrder
  <2> QED BY <2>2, <2>3, <2>4 DEF BooksInv
<1> QED BY <1>1, BooksStepPreserves, PTL DEF EconSpec

\* Nothing is counted twice and nothing is lost, for any number of intervals,
\* activations, deaths and faults.
THEOREM BooksStaySafe == EconSpec => BooksAreSafe
<1>1. BooksInv => ResetIsFinal
  BY BookTypes DEF BooksInv, NothingOlder, Live, ResetIsFinal
<1>2. BooksInv => QuietMeansSaved
  BY DEF BooksInv, EconTypeOK, OnDisk, InOrder, Committing, QuietMeansSaved
<1>3. BooksInv => ConfirmedIsOnDisk
  BY DEF BooksInv, OnDisk, Committing, ConfirmedIsOnDisk
<1>4. BooksInv /\ [EconNext]_econVars =>
        [ (mainFile.kind = "good" /\ mainFile' # mainFile)
          => \/ writeLock = "reset"
             \/ /\ mainFile'.bal.start = mainFile.bal.start
                /\ mainFile'.bal.booked >= mainFile.bal.booked
             \/ mainFile' \in Damaged
             \/ mainFile \in keptCopies' ]_econVars
  <2> SUFFICES ASSUME BooksInv, EconNext, mainFile.kind = "good", mainFile' # mainFile
               PROVE  \/ writeLock = "reset"
                      \/ /\ mainFile'.bal.start = mainFile.bal.start
                         /\ mainFile'.bal.booked >= mainFile.bal.booked
                      \/ mainFile' \in Damaged
                      \/ mainFile \in keptCopies'
    BY DEF econVars
  <2>1. CASE WriteMain
    <3>1. /\ holding.at = "write" /\ mainFile' = Holds(holding.snap) /\ ~loadFailed
          /\ writeLock \in {"timer", "flush", "load", "reset"}
      BY <2>1, WriteMainSteps DEF TimerEnds, FlushEnds, LoadEnds, ResetGoesOn
    <3>2. mainFile'.bal = holding.snap /\ holding.snap \in Balances
      BY <3>1, BookTypes, StoreFiles
    <3>3. writeLock # "load"
      BY <3>1 DEF BooksInv, OnDisk
    <3>4. CASE writeLock \in {"timer", "flush"}
      <4>1. phase \in {"up", "closing"}
        BY <3>4 DEF BooksInv, LockSteps, EconTypeOK
      <4>2. mainFile.bal = lastPersisted /\ Initialized(lastPersisted)
        BY <3>1, <3>4, <4>1, BookTypes, StoreFiles
           DEF BooksInv, OnDisk, Committing, NothingOlder
      <4>3. Before(lastPersisted, holding.snap)
        BY <3>4, <4>1 DEF BooksInv, InOrder
      <4> QED BY <3>2, <4>2, <4>3, BookTypes, BalanceTypes DEF Before
    <3> QED BY <3>1, <3>3, <3>4
  <2>2. CASE Preserve
    BY <2>2 DEF Preserve, Keeps
  <2>3. CASE Crash
    BY <2>3 DEF Crash
  <2>4. CASE LoadMain
    BY <2>4 DEF LoadMain
  <2>5. CASE ~WriteMain /\ ~Preserve /\ ~Crash /\ ~LoadMain
    BY <2>5 DEF EconNext, Bootstrap, Book, TimerTakes, BackupTakes, BackupWrites, ResetTakes,
       ResetRemoves, ResetFails, ResetCommits, FlushStarts, FlushTakes, Start, LoadBackup
  <2> QED BY <2>1, <2>2, <2>3, <2>4, <2>5
<1>5. BooksInv /\ [EconNext]_econVars =>
        [ ( /\ phase \in {"loading", "restoring"} /\ phase' = "up"
            /\ ~Initialized(balance') )
          => backupFile.kind # "good" ]_econVars
  <2> SUFFICES ASSUME BooksInv, EconNext, phase \in {"loading", "restoring"}, phase' = "up",
                      ~Initialized(balance')
               PROVE  backupFile.kind # "good"
    OBVIOUS
  <2>1. CASE WriteMain
    <3>1. PICK ok \in BOOLEAN :
            /\ Initialized(holding.snap)
            /\ TimerEnds(ok) \/ FlushEnds(ok) \/ LoadEnds(ok) \/ ResetGoesOn(ok)
      BY <2>1, WriteMainSteps
    <3>2. writeLock \in {"free", "load"}
      BY DEF BooksInv, LockSteps
    <3>3. balance' = holding.snap
      BY <3>1, <3>2 DEF TimerEnds, FlushEnds, LoadEnds, ResetGoesOn
    <3> QED BY <3>1, <3>3
  <2>2. CASE LoadMain
    BY <2>2 DEF LoadMain, BooksInv, NothingOlder
  <2>3. CASE LoadBackup
    BY <2>3 DEF LoadBackup, AskBackup
  <2>4. CASE ~WriteMain /\ ~LoadMain /\ ~LoadBackup
    BY <2>4 DEF EconNext, Bootstrap, Book, TimerTakes, BackupTakes, BackupWrites, Preserve,
       ResetTakes, ResetRemoves, ResetFails, ResetCommits, FlushStarts, FlushTakes, Crash, Start
  <2> QED BY <2>1, <2>2, <2>3, <2>4
<1> QED BY <1>1, <1>2, <1>3, <1>4, <1>5, BooksInvariant, PTL
        DEF EconSpec, BooksAreSafe, FileGoesForward, NoZeroStartBesideBackup

-----------------------------------------------------------------------------
(* EconomicsBalance: every unit is valued once, at the price of its time    *)

\* The sums after each tick of an interval, from its equation.
SumsAre(f, m, flow, from, to, snaps) ==
    f = [t \in from..to |->
            IF t = from THEN m
            ELSE Valued(f[t - 1], flow, ImportPrice(snaps[t], t), FeedInPrice(snaps[t]))]

LEMMA NatLeast ==
    ASSUME NEW S \in SUBSET Nat, S # {}
    PROVE  \E n \in S : \A k \in S : n <= k
<1>1. PICK n \in S : \A k \in S : ~(<<k, n>> \in OpToRel(<, Nat))
  BY NatLessThanWellFounded, WFMin
<1>2. \A k \in S : n <= k
  <2> TAKE k \in S
  <2>1. k \in Nat /\ n \in Nat
    OBVIOUS
  <2>2. ~(k < n)
    BY <1>1, <2>1 DEF OpToRel
  <2> QED BY <2>1, <2>2
<1> QED BY <1>2

LEMMA StepsExist ==
    ASSUME NEW m, NEW flow, NEW from \in Int, NEW to \in Int, from <= to, NEW snaps
    PROVE  \E f : SumsAre(f, m, flow, from, to, snaps)
<1> DEFINE P(n) == \E f : SumsAre(f, m, flow, from, from + n, snaps)
<1> DEFINE Bad == {n \in Nat : ~P(n)}
<1>1. P(0)
  <2> DEFINE f == [t \in from..(from + 0) |-> m]
  <2>1. SumsAre(f, m, flow, from, from + 0, snaps)
    BY DEF SumsAre
  <2> QED BY <2>1
<1>2. ASSUME NEW n \in Nat, P(n)
      PROVE  P(n + 1)
  <2>1. PICK f : SumsAre(f, m, flow, from, from + n, snaps)
    BY <1>2
  <2> DEFINE V(t, x) == Valued(x, flow, ImportPrice(snaps[t], t), FeedInPrice(snaps[t]))
  <2> DEFINE g == [t \in from..(from + (n + 1)) |->
                     IF t <= from + n THEN f[t] ELSE V(t, f[t - 1])]
  <2>a. f = [t \in from..(from + n) |-> IF t = from THEN m ELSE V(t, f[t - 1])]
    BY <2>1 DEF SumsAre
  <2> HIDE DEF V
  <2>b. \A t \in from..(from + n) : f[t] = IF t = from THEN m ELSE V(t, f[t - 1])
    BY <2>a
  <2>2. ASSUME NEW t \in from..(from + (n + 1))
        PROVE  g[t] = IF t = from THEN m ELSE V(t, g[t - 1])
    <3>1. CASE t = from
      BY <2>b, <3>1
    <3>2. CASE t # from /\ t <= from + n
      <4>1. t \in from..(from + n) /\ t - 1 \in from..(from + (n + 1)) /\ t - 1 <= from + n
        BY <3>2
      <4>2. g[t] = f[t] /\ g[t - 1] = f[t - 1]
        BY <3>2, <4>1
      <4> QED BY <2>b, <3>2, <4>1, <4>2
    <3>3. CASE ~(t <= from + n)
      <4>1. t # from /\ t - 1 \in from..(from + (n + 1)) /\ t - 1 <= from + n
        BY <3>3
      <4>2. g[t] = V(t, f[t - 1]) /\ g[t - 1] = f[t - 1]
        BY <3>3, <4>1
      <4> QED BY <4>1, <4>2
    <3> QED BY <3>1, <3>2, <3>3
  <2>3. g = [t \in from..(from + (n + 1)) |-> IF t = from THEN m ELSE V(t, g[t - 1])]
    BY <2>2
  <2>4. SumsAre(g, m, flow, from, from + (n + 1), snaps)
    BY <2>3 DEF SumsAre, V
  <2> QED BY <2>4
<1> HIDE DEF P
<1>3. Bad = {}
  <2> SUFFICES ASSUME Bad # {} PROVE FALSE
    OBVIOUS
  <2>1. PICK n \in Bad : \A k \in Bad : n <= k
    BY NatLeast
  <2>2. CASE n = 0
    BY <1>1, <2>2
  <2>3. CASE n # 0
    <3>1. n - 1 \in Nat /\ n - 1 \notin Bad /\ (n - 1) + 1 = n
      BY <2>1, <2>3
    <3>2. P(n - 1)
      BY <3>1
    <3> QED BY <1>2, <3>1, <3>2
  <2> QED BY <2>2, <2>3
<1>4. to - from \in Nat /\ from + (to - from) = to
  OBVIOUS
<1>5. P(to - from)
  BY <1>3, <1>4
<1> QED BY <1>4, <1>5 DEF P

LEMMA IntervalIs ==
    ASSUME NEW m, NEW flow, NEW from \in Int, NEW to \in Int, from <= to, NEW snaps
    PROVE  \E f : /\ SumsAre(f, m, flow, from, to, snaps)
                  /\ ValuedInterval(m, flow, from, to, snaps) = f[to]
<1>1. \E f : SumsAre(f, m, flow, from, to, snaps)
  BY StepsExist
<1> DEFINE f == CHOOSE f : SumsAre(f, m, flow, from, to, snaps)
<1>2. SumsAre(f, m, flow, from, to, snaps)
  BY <1>1
<1>3. ValuedInterval(m, flow, from, to, snaps) = f[to]
  BY Zenon DEF ValuedInterval, SumsAre
<1> QED BY <1>2, <1>3
\* What an interval has, tick by tick: an induction along its equation.
LEMMA StepsStart ==
    ASSUME NEW m, NEW flow, NEW from \in Int, NEW to \in Int, from <= to, NEW snaps,
           NEW f, SumsAre(f, m, flow, from, to, snaps)
    PROVE  /\ f[from] = m
           /\ \A t \in (from + 1)..to :
                f[t] = Valued(f[t - 1], flow, ImportPrice(snaps[t], t), FeedInPrice(snaps[t]))
<1> DEFINE V(t, x) == Valued(x, flow, ImportPrice(snaps[t], t), FeedInPrice(snaps[t]))
<1>1. f = [t \in from..to |-> IF t = from THEN m ELSE V(t, f[t - 1])]
  BY DEF SumsAre
<1> HIDE DEF V
<1>2. from \in from..to
  OBVIOUS
<1>3. f[from] = m
  BY <1>1, <1>2
<1>4. \A t \in (from + 1)..to : f[t] = V(t, f[t - 1])
  <2> TAKE t \in (from + 1)..to
  <2>1. t \in from..to /\ t # from
    OBVIOUS
  <2> QED BY <1>1, <2>1
<1> QED BY <1>3, <1>4 DEF V

\* Two tables that agree on the ticks of an interval give it the same sums.
LEMMA SamePrices ==
    ASSUME NEW m, NEW flow, NEW from \in Int, NEW to \in Int, from <= to,
           NEW snaps, NEW other, \A t \in (from + 1)..to : snaps[t] = other[t]
    PROVE  ValuedInterval(m, flow, from, to, snaps) = ValuedInterval(m, flow, from, to, other)
<1>1. PICK f : /\ SumsAre(f, m, flow, from, to, snaps)
               /\ ValuedInterval(m, flow, from, to, snaps) = f[to]
  BY IntervalIs
<1>2. PICK g : /\ SumsAre(g, m, flow, from, to, other)
               /\ ValuedInterval(m, flow, from, to, other) = g[to]
  BY IntervalIs
<1> DEFINE V(t, x) == Valued(x, flow, ImportPrice(snaps[t], t), FeedInPrice(snaps[t]))
<1>3. f[from] = m /\ g[from] = m
  BY <1>1, <1>2, StepsStart
<1>4. \A t \in (from + 1)..to : f[t] = V(t, f[t - 1]) /\ g[t] = V(t, g[t - 1])
  <2> TAKE t \in (from + 1)..to
  <2>1. f[t] = V(t, f[t - 1])
    BY <1>1, StepsStart
  <2>2. g[t] = Valued(g[t - 1], flow, ImportPrice(other[t], t), FeedInPrice(other[t]))
    BY <1>2, StepsStart
  <2>3. snaps[t] = other[t]
    OBVIOUS
  <2> QED BY <2>1, <2>2, <2>3
<1> HIDE DEF V
<1> DEFINE Apart == {n \in Nat : from + n <= to /\ f[from + n] # g[from + n]}
<1>5. Apart = {}
  <2> SUFFICES ASSUME Apart # {} PROVE FALSE
    OBVIOUS
  <2>1. PICK n \in Apart : \A k \in Apart : n <= k
    BY NatLeast
  <2>2. n # 0
    BY <1>3
  <2>3. n - 1 \in Nat /\ n - 1 \notin Apart /\ from + (n - 1) = (from + n) - 1
    BY <2>1, <2>2
  <2>4. from + n \in (from + 1)..to
    BY <2>2
  <2>5. f[(from + n) - 1] = g[(from + n) - 1]
    BY <2>3, <2>4
  <2> QED BY <1>4, <2>4, <2>5
<1>6. to - from \in Nat /\ from + (to - from) = to
  OBVIOUS
<1>7. f[to] = g[to]
  <2>1. to - from \notin Apart
    BY <1>5
  <2> QED BY <1>6, <2>1
<1> QED BY <1>1, <1>2, <1>7

-----------------------------------------------------------------------------
\* The sums of a balance, and what a tick can do to them.
Moneys == [grid : Int, pv : Int, avoided : Int, inventory : Nat,
           pricedCharge : Int, unpricedCharge : Int,
           pricedDischarge : Int, unpricedDischarge : Int]
Flows == {w \in [charge : {0, 1}, grid : {0, 1}, pv : {0, 1}, known : BOOLEAN,
                 discharge : {0, 1}] : w.grid + w.pv = w.charge}
Prices == Int \cup {NoValue}

\* The sums x go on from the sums m: so much charged and discharged, no more.
GoesOn(x, m, charge, discharge) ==
    /\ x \in Moneys
    /\ m.inventory <= m.unpricedCharge => x.inventory <= x.unpricedCharge
    /\ x.pricedCharge + x.unpricedCharge = m.pricedCharge + m.unpricedCharge + charge
    /\ x.pricedDischarge + x.unpricedDischarge
         <= m.pricedDischarge + m.unpricedDischarge + discharge
    /\ discharge = 0 => x.inventory >= m.inventory

LEMMA TickFollows ==
    ASSUME NEW m \in Moneys, NEW flow \in Flows, NEW import \in Prices, NEW feed \in Prices
    PROVE  GoesOn(Valued(m, flow, import, feed), m, flow.charge, flow.discharge)
<1> DEFINE gridPriced == flow.known /\ import # NoValue
           pvPriced == flow.known /\ feed # NoValue
           priced == (IF gridPriced THEN flow.grid ELSE 0)
                     + (IF pvPriced THEN flow.pv ELSE 0)
           unpriced == flow.charge - priced
           consumed == IF flow.discharge < m.inventory THEN flow.discharge ELSE m.inventory
           worth == flow.discharge - consumed
           cost == IF gridPriced THEN flow.grid * import ELSE 0
           lost == IF pvPriced THEN flow.pv * feed ELSE 0
           saved == IF import # NoValue THEN worth * import ELSE 0
           x == Valued(m, flow, import, feed)
<1>a. /\ m.grid \in Int /\ m.pv \in Int /\ m.avoided \in Int /\ m.inventory \in Nat
      /\ m.pricedCharge \in Int /\ m.unpricedCharge \in Int
      /\ m.pricedDischarge \in Int /\ m.unpricedDischarge \in Int
  BY DEF Moneys
<1>b. /\ flow.charge \in {0, 1} /\ flow.grid \in {0, 1} /\ flow.pv \in {0, 1}
      /\ flow.discharge \in {0, 1} /\ flow.grid + flow.pv = flow.charge
  BY DEF Flows
<1>1. priced \in Int /\ 0 <= priced /\ priced <= flow.charge
  BY <1>b
<1>2. /\ consumed \in Nat /\ consumed <= m.inventory /\ consumed <= flow.discharge
      /\ flow.discharge = 0 => consumed = 0
  BY <1>a, <1>b
<1>3. /\ worth \in Nat /\ worth <= flow.discharge
  BY <1>b, <1>2
<1>4. cost \in Int /\ lost \in Int /\ saved \in Int
  <2>1. CASE import # NoValue
    <3>1. import \in Int
      BY <2>1 DEF Prices
    <3>2. flow.grid * import \in Int /\ worth * import \in Int
      BY <1>b, <1>3, <3>1
    <3>3. lost \in Int
      <4>1. feed # NoValue => feed \in Int
        BY DEF Prices
      <4>2. feed # NoValue => flow.pv * feed \in Int
        BY <1>b, <4>1
      <4> QED BY <4>2
    <3> QED BY <3>2, <3>3
  <2>2. CASE import = NoValue
    <3>1. cost = 0 /\ saved = 0
      BY <2>2
    <3>3. lost \in Int
      <4>1. feed # NoValue => feed \in Int
        BY DEF Prices
      <4>2. feed # NoValue => flow.pv * feed \in Int
        BY <1>b, <4>1
      <4> QED BY <4>2
    <3> QED BY <3>1, <3>3
  <2> QED BY <2>1, <2>2
<1>5. x = [grid |-> m.grid + cost, pv |-> m.pv + lost, avoided |-> m.avoided + saved,
           inventory |-> m.inventory + unpriced - consumed,
           pricedCharge |-> m.pricedCharge + priced,
           unpricedCharge |-> m.unpricedCharge + unpriced,
           pricedDischarge |-> m.pricedDischarge + (IF import # NoValue THEN worth ELSE 0),
           unpricedDischarge |-> m.unpricedDischarge + (IF import = NoValue THEN worth ELSE 0)]
  BY Zenon DEF Valued
<1> HIDE DEF priced, consumed, worth, cost, lost, saved, x
<1>6. x.inventory \in Nat
  BY <1>a, <1>b, <1>1, <1>2, <1>5
<1>7. x \in Moneys
  BY <1>a, <1>b, <1>1, <1>2, <1>3, <1>4, <1>5, <1>6 DEF Moneys
<1>8. /\ m.inventory <= m.unpricedCharge => x.inventory <= x.unpricedCharge
      /\ flow.discharge = 0 => x.inventory >= m.inventory
  BY <1>a, <1>b, <1>1, <1>2, <1>5
<1>9. x.pricedCharge + x.unpricedCharge = m.pricedCharge + m.unpricedCharge + flow.charge
  BY <1>a, <1>b, <1>1, <1>5
<1>10. x.pricedDischarge + x.unpricedDischarge
         <= m.pricedDischarge + m.unpricedDischarge + flow.discharge
  BY <1>a, <1>b, <1>3, <1>5
<1> QED BY <1>7, <1>8, <1>9, <1>10 DEF GoesOn, x

\* One tick more of a flow.
LEMMA Times ==
    ASSUME NEW n \in Nat, NEW c \in {0, 1}
    PROVE  n * c \in Nat /\ (n + 1) * c = n * c + c
<1>1. CASE c = 0
  BY <1>1
<1>2. CASE c = 1
  BY <1>2
<1> QED BY <1>1, <1>2

\* An interval follows from the sums before it.
LEMMA IntervalFollows ==
    ASSUME NEW m \in Moneys, NEW flow \in Flows, NEW from \in Int, NEW to \in Int,
           from <= to, NEW snaps,
           \A t \in (from + 1)..to : /\ ImportPrice(snaps[t], t) \in Prices
                                    /\ FeedInPrice(snaps[t]) \in Prices
    PROVE  GoesOn(ValuedInterval(m, flow, from, to, snaps), m,
                   (to - from) * flow.charge, (to - from) * flow.discharge)
<1>1. PICK f : /\ SumsAre(f, m, flow, from, to, snaps)
               /\ ValuedInterval(m, flow, from, to, snaps) = f[to]
  BY IntervalIs
<1>2. /\ f[from] = m
      /\ \A t \in (from + 1)..to :
           f[t] = Valued(f[t - 1], flow, ImportPrice(snaps[t], t), FeedInPrice(snaps[t]))
  <2>1. SumsAre(f, m, flow, from, to, snaps)
    BY <1>1
  <2>2. f[from] = m
    <3>1. from \in from..to
      OBVIOUS
    <3> QED BY <2>1, <3>1 DEF SumsAre
  <2>3. ASSUME NEW t \in (from + 1)..to
        PROVE  f[t] = Valued(f[t - 1], flow, ImportPrice(snaps[t], t), FeedInPrice(snaps[t]))
    BY <2>1, StepsStart
  <2> QED BY <2>2, <2>3
<1>3. flow.charge \in {0, 1} /\ flow.discharge \in {0, 1}
  BY DEF Flows
<1> DEFINE P(n) == GoesOn(f[from + n], m, n * flow.charge, n * flow.discharge)
           Apart == {n \in Nat : from + n <= to /\ ~P(n)}
<1>4. P(0)
  <2>1. 0 * flow.charge = 0 /\ 0 * flow.discharge = 0 /\ from + 0 = from
    BY <1>3
  <2>2. /\ m.inventory \in Nat
        /\ m.pricedCharge \in Int /\ m.unpricedCharge \in Int
        /\ m.pricedDischarge \in Int /\ m.unpricedDischarge \in Int
    BY DEF Moneys
  <2> QED BY <1>2, <2>1, <2>2 DEF GoesOn
<1>5. ASSUME NEW n \in Nat, from + (n + 1) <= to, P(n)
      PROVE  P(n + 1)
  <2> DEFINE t == from + (n + 1)
             x == f[from + n]
             y == f[t]
             charged == n * flow.charge
             discharged == n * flow.discharge
  <2>1. t \in (from + 1)..to /\ t - 1 = from + n
    BY <1>5
  <2>2. y = Valued(x, flow, ImportPrice(snaps[t], t), FeedInPrice(snaps[t]))
    BY <1>2, <2>1
  <2>3. GoesOn(x, m, charged, discharged)
    BY <1>5
  <2>4. x \in Moneys
    BY <2>3 DEF GoesOn
  <2>5. GoesOn(y, x, flow.charge, flow.discharge)
    <3>1. ImportPrice(snaps[t], t) \in Prices /\ FeedInPrice(snaps[t]) \in Prices
      BY <2>1
    <3> QED BY <2>2, <2>4, <3>1, TickFollows
  <2>6. /\ charged \in Nat /\ discharged \in Nat
        /\ (n + 1) * flow.charge = charged + flow.charge
        /\ (n + 1) * flow.discharge = discharged + flow.discharge
    BY <1>3, Times
  <2>7. /\ m.inventory \in Nat
        /\ m.pricedCharge \in Int /\ m.unpricedCharge \in Int
        /\ m.pricedDischarge \in Int /\ m.unpricedDischarge \in Int
        /\ x.inventory \in Nat
        /\ x.pricedCharge \in Int /\ x.unpricedCharge \in Int
        /\ x.pricedDischarge \in Int /\ x.unpricedDischarge \in Int
    BY <2>4 DEF Moneys
  <2>8. /\ y.inventory \in Nat
        /\ y.pricedCharge \in Int /\ y.unpricedCharge \in Int
        /\ y.pricedDischarge \in Int /\ y.unpricedDischarge \in Int
    BY <2>5 DEF Moneys, GoesOn
  <2> HIDE DEF t, x, y, charged, discharged
  <2>9. GoesOn(y, m, charged + flow.charge, discharged + flow.discharge)
    BY <1>3, <2>3, <2>5, <2>6, <2>7, <2>8 DEF GoesOn
  <2> QED BY <2>6, <2>9 DEF t, y
<1> HIDE DEF P
<1>6. Apart = {}
  <2> SUFFICES ASSUME Apart # {} PROVE FALSE
    OBVIOUS
  <2>1. PICK n \in Apart : \A k \in Apart : n <= k
    BY NatLeast
  <2>2. n # 0
    BY <1>4
  <2>3. n - 1 \in Nat /\ n - 1 \notin Apart /\ (n - 1) + 1 = n
    BY <2>1, <2>2
  <2>4. P(n - 1) /\ from + ((n - 1) + 1) <= to
    BY <2>3
  <2> QED BY <1>5, <2>3, <2>4
<1>7. to - from \in Nat /\ from + (to - from) = to
  OBVIOUS
<1>8. P(to - from)
  <2>1. to - from \notin Apart
    BY <1>6
  <2> QED BY <1>7, <2>1
<1> QED BY <1>1, <1>7, <1>8 DEF P

\* Every snapshot has a price or none, in every tick.
LEMMA SnapshotPrices ==
    ASSUME NEW snap \in Tariffs, NEW t \in Int
    PROVE  ImportPrice(snap, t) \in Prices /\ FeedInPrice(snap) \in Prices
<1>1. FeedInPrice(snap) \in Prices
  BY BalanceBounds DEF FeedInPrice, Prices
<1>2. CASE snap.kind = "daily"
  <2>1. ImportPrice(snap, t) = DayPrices[(t - 1) % DayTicks]
    BY <1>2 DEF ImportPrice
  <2>2. (t - 1) % DayTicks \in 0..(DayTicks - 1)
    BY BalanceBounds
  <2> QED BY <1>1, <2>1, <2>2, BalanceBounds DEF Prices
<1>3. CASE snap.kind = "single"
  <2>1. ImportPrice(snap, t) = snap.price
    BY <1>3 DEF ImportPrice
  <2>2. snap.price \in FixedPrices \cup {NoValue}
    BY <1>3 DEF Tariffs
  <2> QED BY <1>1, <2>1, <2>2, BalanceBounds DEF Prices
<1>4. CASE snap.kind = "off"
  <2>1. ImportPrice(snap, t) = NoValue
    BY <1>4 DEF ImportPrice
  <2> QED BY <1>1, <2>1 DEF Prices
<1>5. snap.kind \in {"off", "single", "daily"}
  BY DEF Tariffs
<1> QED BY <1>2, <1>3, <1>4, <1>5

\* A sample's flow.
LEMMA FlowTypes ==
    ASSUME NEW power \in {-1, 0, 1}, NEW meter \in {NoValue, 0, 1}
    PROVE  /\ Flow(power, meter) \in Flows
           /\ Flow(power, meter).charge + Flow(power, meter).discharge <= 1
           /\ Flow(power, meter).discharge = 1 <=> power = 1
<1>1. meter # NoValue => meter \in {0, 1}
  OBVIOUS
<1>2. CASE power = -1
  <2>1. power + 1 = 0 /\ power \in Int
    BY <1>2
  <2>2. -power = 1 /\ power < 0 /\ ~(power > 0)
    BY <2>1
  <2>3. Flow(power, meter) =
          LET drawn == IF meter = NoValue \/ meter > 1 THEN 1
                       ELSE IF meter > 0 THEN meter ELSE 0
          IN [charge |-> 1, grid |-> drawn, pv |-> 1 - drawn,
              known |-> 1 = 0 \/ meter # NoValue, discharge |-> 0]
    BY <2>2 DEF Flow
  <2>4. meter = NoValue \/ meter = 0 \/ meter = 1
    OBVIOUS
  <2> QED BY <2>1, <2>3, <2>4, BalanceBounds DEF Flows
<1>3. CASE power = 0
  BY <1>1, <1>3 DEF Flow, Flows
<1>4. CASE power = 1
  BY <1>1, <1>4 DEF Flow, Flows
<1> QED BY <1>2, <1>3, <1>4

-----------------------------------------------------------------------------
\* What the balance keeps true, from poll to poll.

\* The types, with the histories.
SumTypes ==
    /\ tick \in 0..LastStep /\ tariffNow \in Tariffs
    /\ priceHistory \in Seq([at : 0..LastStep, snap : Tariffs])
    /\ priceHistory # <<>>
    /\ sampleAt \in 0..tick \cup {NoValue}
    /\ energyAt \in {sampleAt, NoValue}
    /\ counters \in [charged : Nat, discharged : Nat, grid : Nat, pv : Nat]
    /\ started \in BOOLEAN /\ dischargedSince \in BOOLEAN
    /\ money \in Moneys /\ highWater \in Nat /\ dayResult \in Int
    /\ dayResults \in [Days -> Int \cup {NoValue}]
    /\ idleCount \in 0..Confirmations
    /\ inForce \in [1..LastStep -> Tariffs]
    /\ earned \in [Days -> Int] /\ restRun \in Nat

\* The tariff provider can still tell what was in force in every tick that no
\* poll has booked.
HistoryIsTrue ==
    /\ Last(priceHistory).snap = tariffNow
    /\ \A i \in 1..Len(priceHistory) : priceHistory[i].at <= tick
    /\ energyAt # NoValue =>
         \A t \in (energyAt + 1)..tick : SnapshotFrom(priceHistory, t) = inForce[t]

\* The open day is not after today, and nothing is known of the days after it.
DaysInOrder ==
    /\ ~started => /\ moneyDay = NoValue /\ dayResult = 0
                   /\ \A d \in Days : earned[d] = 0 /\ dayResults[d] = NoValue
    /\ started => /\ moneyDay \in Days /\ tick >= 1 /\ moneyDay <= DayOf(tick)
                  /\ dayResult = earned[moneyDay]
                  /\ \A d \in Days :
                       /\ d > moneyDay => earned[d] = 0
                       /\ d >= moneyDay => dayResults[d] = NoValue
                       /\ dayResults[d] # NoValue => dayResults[d] = earned[d]

\* No more rest is confirmed than was measured, and none before the balance
\* begins.
RestIsMeasured == idleCount <= restRun /\ (~started => idleCount = 0)

BalInv ==
    /\ SumTypes /\ HistoryIsTrue /\ PricedAsItWas /\ NothingInvented
    /\ DaysInOrder /\ RestIsMeasured
-----------------------------------------------------------------------------
\* A bounded set of indices has a greatest one.
LEMMA GreatestIndex ==
    ASSUME NEW n \in Nat, NEW S, S \subseteq 1..n, S # {}
    PROVE  Max(S) \in S /\ \A x \in S : Max(S) >= x
<1> DEFINE T == {n - x : x \in S}
<1>1. \A x \in S : x \in Int /\ n - x \in Nat
  OBVIOUS
<1>2. T \in SUBSET Nat /\ T # {}
  BY <1>1
<1>3. PICK least \in T : \A y \in T : least <= y
  BY <1>2, NatLeast
<1>4. PICK x \in S : least = n - x
  OBVIOUS
<1>5. \A y \in S : x >= y
  <2> TAKE y \in S
  <2>1. n - y \in T
    OBVIOUS
  <2>2. n - x <= n - y
    BY <1>3, <1>4, <2>1
  <2> QED BY <1>1, <2>2
<1> QED BY <1>5 DEF Max

\* All that was seen before a tick: the newest snapshot counts in it.
LEMMA NewestCounts ==
    ASSUME NEW history, Len(history) \in Nat, Len(history) >= 1, NEW t \in Int,
           \A i \in 1..Len(history) : history[i].at <= t - 1
    PROVE  SnapshotFrom(history, t) = Last(history).snap
<1> DEFINE known == {i \in 1..Len(history) : history[i].at <= t - 1}
<1>1. known = 1..Len(history)
  OBVIOUS
<1>2. known # {} /\ Len(history) \in known
  BY <1>1
<1>3. Max(known) \in known /\ Max(known) >= Len(history)
  BY <1>1, <1>2, GreatestIndex
<1>4. Max(known) = Len(history)
  BY <1>1, <1>3
<1> QED BY <1>2, <1>4 DEF SnapshotFrom, Last

\* What is seen later changes nothing for an earlier tick.
LEMMA EarlierStands ==
    ASSUME NEW history, history \in Seq([at : 0..LastStep, snap : Tariffs]),
           NEW at \in 0..LastStep, NEW snap, NEW t \in Int, t <= at
    PROVE  SnapshotFrom(Append(history, [at |-> at, snap |-> snap]), t)
             = SnapshotFrom(history, t)
<1> DEFINE entry == [at |-> at, snap |-> snap]
           later == Append(history, entry)
           known == {i \in 1..Len(history) : history[i].at <= t - 1}
           knownLater == {i \in 1..Len(later) : later[i].at <= t - 1}
<1>1. /\ Len(history) \in Nat /\ Len(later) = Len(history) + 1
      /\ \A i \in 1..Len(history) : later[i] = history[i]
      /\ later[Len(history) + 1] = entry
  OBVIOUS
<1>2. ~(entry.at <= t - 1)
  OBVIOUS
<1> HIDE DEF entry, later
<1>3. known = knownLater
  BY <1>1, <1>2
<1>4. CASE known = {}
  BY <1>3, <1>4 DEF SnapshotFrom, later, entry
<1>5. CASE known # {}
  <2>1. Max(known) \in known
    BY <1>1, <1>5, GreatestIndex
  <2>2. later[Max(known)] = history[Max(known)]
    BY <1>1, <2>1
  <2>3. SnapshotFrom(later, t) = later[Max(knownLater)].snap
    BY <1>3, <1>5 DEF SnapshotFrom
  <2>4. SnapshotFrom(history, t) = history[Max(known)].snap
    BY <1>5 DEF SnapshotFrom
  <2> QED BY <1>3, <2>2, <2>3, <2>4 DEF later, entry
<1> QED BY <1>4, <1>5

\* Every tick has a snapshot.
LEMMA SnapshotTypes ==
    ASSUME NEW history, history \in Seq([at : 0..LastStep, snap : Tariffs]), NEW t \in Int
    PROVE  SnapshotFrom(history, t) \in Tariffs
<1> DEFINE Entries == [at : 0..LastStep, snap : Tariffs]
<1>0. history \in Seq(Entries)
  OBVIOUS
<1> HIDE DEF Entries
<1>a. \A i \in 1..Len(history) : history[i] \in Entries
  BY <1>0
<1> DEFINE known == {i \in 1..Len(history) : history[i].at <= t - 1}
<1>1. Len(history) \in Nat
  OBVIOUS
<1>2. CASE known = {}
  <2>1. SnapshotFrom(history, t) = Off
    BY <1>2 DEF SnapshotFrom
  <2> QED BY <2>1 DEF Off, Tariffs
<1>3. CASE known # {}
  <2>1. Max(known) \in known
    BY <1>1, <1>3, GreatestIndex
  <2>2. SnapshotFrom(history, t) = history[Max(known)].snap
    BY <1>3 DEF SnapshotFrom
  <2>4. Max(known) \in 1..Len(history)
    BY <2>1
  <2> HIDE DEF known
  <2>5. history[Max(known)] \in Entries
    BY <1>a, <2>4
  <2> QED BY <2>2, <2>5 DEF Entries
<1> QED BY <1>2, <1>3

-----------------------------------------------------------------------------
\* Days follow each other.
LEMMA DaysFollow ==
    ASSUME NEW s \in Int, NEW t \in Int, s <= t
    PROVE  DayOf(s) \in Int /\ DayOf(t) \in Int /\ DayOf(s) <= DayOf(t)
<1> DEFINE p == DayOf(s)
           q == DayOf(t)
<1>1. DayTicks \in Nat /\ DayTicks > 0
  BY BalanceBounds
<1>2. /\ p \in Int /\ s - 1 >= DayTicks * p /\ s - 1 < DayTicks * p + DayTicks
  <2>1. /\ (s - 1) \div DayTicks \in Int /\ (s - 1) % DayTicks \in 0..(DayTicks - 1)
        /\ s - 1 = DayTicks * ((s - 1) \div DayTicks) + ((s - 1) % DayTicks)
    BY <1>1
  <2> QED BY <1>1, <2>1 DEF DayOf
<1>3. /\ q \in Int /\ t - 1 >= DayTicks * q /\ t - 1 < DayTicks * q + DayTicks
  <2>1. /\ (t - 1) \div DayTicks \in Int /\ (t - 1) % DayTicks \in 0..(DayTicks - 1)
        /\ t - 1 = DayTicks * ((t - 1) \div DayTicks) + ((t - 1) % DayTicks)
    BY <1>1
  <2> QED BY <1>1, <2>1 DEF DayOf
<1> HIDE DEF p, q
<1>4. p <= q
  <2> SUFFICES ASSUME p >= q + 1 PROVE FALSE
    BY <1>2, <1>3
  <2>1. p - (q + 1) \in Nat /\ DayTicks * (p - (q + 1)) \in Nat
    BY <1>1, <1>2, <1>3
  <2>2. DayTicks * (p - (q + 1)) = DayTicks * p - (DayTicks * q + DayTicks)
    BY <1>1, <1>2, <1>3
  <2>3. DayTicks * p \in Int /\ DayTicks * q \in Int
    BY <1>1, <1>2, <1>3
  <2> DEFINE a == DayTicks * p
             b == DayTicks * q
  <2>4. a \in Int /\ b \in Int /\ a - (b + DayTicks) >= 0 /\ s - 1 >= a
        /\ t - 1 < b + DayTicks
    BY <1>2, <1>3, <2>1, <2>2, <2>3
  <2> HIDE DEF a, b
  <2> QED BY <1>1, <2>4
<1> QED BY <1>2, <1>3, <1>4 DEF p, q

\* Every poll has its day.
LEMMA DayIsDay ==
    ASSUME NEW t \in 1..LastStep
    PROVE  DayOf(t) \in Days
<1>1. LastStep \in Nat /\ t \in Int /\ 1 <= t /\ t <= LastStep
  BY BalanceBounds
<1>2. DayOf(1) = 0
  <2>1. DayTicks \in Nat /\ DayTicks > 0
    BY BalanceBounds
  <2>2. 0 \div DayTicks = 0
    <3> DEFINE q == 0 \div DayTicks
    <3>1. q \in Int /\ 0 % DayTicks \in 0..(DayTicks - 1) /\ 0 = DayTicks * q + (0 % DayTicks)
      BY <2>1
    <3> HIDE DEF q
    <3>2. CASE q >= 1
      <4>1. /\ q - 1 \in Nat /\ DayTicks * (q - 1) \in Nat
            /\ DayTicks * (q - 1) = DayTicks * q - DayTicks
        BY <2>1, <3>1, <3>2
      <4> QED BY <2>1, <3>1, <4>1
    <3>3. CASE q <= -1
      <4>1. /\ -1 - q \in Nat /\ DayTicks * (-1 - q) \in Nat
            /\ DayTicks * (-1 - q) = -DayTicks - DayTicks * q
        BY <2>1, <3>1, <3>3
      <4> QED BY <2>1, <3>1, <4>1
    <3> QED BY <3>1, <3>2, <3>3 DEF q
  <2> QED BY <2>2 DEF DayOf
<1>3. DayOf(1) <= DayOf(t) /\ DayOf(t) <= DayOf(LastStep) /\ DayOf(t) \in Int
      /\ DayOf(LastStep) \in Int
  BY <1>1, DaysFollow
<1> QED BY <1>2, <1>3 DEF Days

-----------------------------------------------------------------------------
\* What a poll does with an interval.

\* An interval is not longer than a sample may be old, and begins where the
\* one before it ended.
LEMMA MeasuredBounds ==
    ASSUME SumTypes
    PROVE  LET n == Measured(tick + 1)
           IN /\ n \in Nat /\ n <= MaxAge
              /\ n # 0 => energyAt \in Int /\ (tick + 1) - n = energyAt
<1>1. tick \in Nat /\ MaxAge \in Nat
  BY BalanceBounds DEF SumTypes
<1>2. energyAt # NoValue => energyAt \in Int /\ energyAt <= tick
  BY <1>1 DEF SumTypes
<1>3. CASE energyAt = NoValue
  BY <1>1, <1>3 DEF Measured
<1>4. CASE energyAt # NoValue /\ (tick + 1) - energyAt > MaxAge
  BY <1>1, <1>4 DEF Measured
<1>5. CASE energyAt # NoValue /\ ~((tick + 1) - energyAt > MaxAge)
  <2>1. Measured(tick + 1) = (tick + 1) - energyAt
    BY <1>5 DEF Measured
  <2> QED BY <1>1, <1>2, <1>5, <2>1
<1> QED BY <1>3, <1>4, <1>5

\* A standstill is confirmed no more often than it was measured.
LEMMA RestCounts ==
    ASSUME SumTypes, RestIsMeasured, NEW power \in {-1, 0, 1}, NEW length \in Nat
    PROVE  /\ IdleAfter(power, length) \in 0..Confirmations
           /\ RestAfter(power, length) \in Nat
           /\ IdleAfter(power, length) <= RestAfter(power, length)
           /\ power # 0 => IdleAfter(power, length) = 0
<1>1. Confirmations \in Nat /\ Confirmations >= 1 /\ restRun \in Nat /\ idleCount \in Nat
      /\ idleCount <= Confirmations /\ idleCount <= restRun
  BY BalanceBounds DEF SumTypes, RestIsMeasured
<1>2. CASE power # 0
  BY <1>1, <1>2 DEF IdleAfter, RestAfter
<1>3. CASE power = 0 /\ length = 0
  BY <1>1, <1>3 DEF IdleAfter, RestAfter
<1>4. CASE power = 0 /\ length # 0
  BY <1>1, <1>4 DEF IdleAfter, RestAfter
<1> QED BY <1>2, <1>3, <1>4

\* A correction takes from the inventory only, and only when confirmed.
LEMMA CorrectedOnly ==
    ASSUME NEW m \in Moneys, NEW idle, NEW discharged, NEW atMinimum,
           NEW content \in {NoValue, 1}
    PROVE  LET c == Corrected(m, idle, discharged, atMinimum, content)
           IN /\ c \in Moneys /\ c = [m EXCEPT !.inventory = c.inventory]
              /\ c.inventory <= m.inventory
              /\ idle < Confirmations => c = m
<1> DEFINE atFloor == IF discharged /\ atMinimum THEN 0 ELSE m.inventory
           capped == IF content # NoValue /\ atFloor > content THEN content ELSE atFloor
           c == Corrected(m, idle, discharged, atMinimum, content)
<1>1. m.inventory \in Nat
  BY DEF Moneys
<1>2. atFloor \in Nat /\ atFloor <= m.inventory
  BY <1>1
<1>3. capped \in Nat /\ capped <= m.inventory
  BY <1>1, <1>2
<1>4. c = IF idle < Confirmations THEN m ELSE [m EXCEPT !.inventory = capped]
  BY Zenon DEF Corrected
<1> HIDE DEF c, capped
<1>5. CASE idle < Confirmations
  <2>1. c = m
    BY <1>4, <1>5
  <2>2. m = [m EXCEPT !.inventory = m.inventory]
    BY DEF Moneys
  <2> QED BY <1>1, <2>1, <2>2 DEF c
<1>6. CASE ~(idle < Confirmations)
  <2>1. c = [m EXCEPT !.inventory = capped]
    BY <1>4, <1>6
  <2>2. c \in Moneys /\ c.inventory = capped
    BY <1>3, <2>1 DEF Moneys
  <2> QED BY <1>3, <1>6, <2>1, <2>2 DEF c
<1> QED BY <1>5, <1>6

\* The result of some sums.
LEMMA ResultType ==
    ASSUME NEW m \in Moneys
    PROVE  RawResult(m) \in Int
<1>1. m.avoided \in Int /\ m.grid \in Int /\ m.pv \in Int
  BY DEF Moneys
<1> QED BY <1>1 DEF RawResult

\* A poll that books moves on to its day.
LEMMA DayAdvances ==
    ASSUME SumTypes, DaysInOrder, tick < LastStep, NEW gain \in Int,
           tick' = tick + 1, started' = TRUE, moneyDay' = DayOf(tick + 1),
           dayResults' = IF NewDay(tick + 1) /\ moneyDay # NoValue
                         THEN [dayResults EXCEPT ![moneyDay] = dayResult] ELSE dayResults,
           dayResult' = (IF NewDay(tick + 1) THEN 0 ELSE dayResult) + gain,
           earned' = [earned EXCEPT ![DayOf(tick + 1)] = @ + gain]
    PROVE  /\ DaysInOrder'
           /\ dayResult' \in Int /\ dayResults' \in [Days -> Int \cup {NoValue}]
           /\ earned' \in [Days -> Int]
<1> DEFINE today == DayOf(tick + 1)
<1>1. /\ tick \in Nat /\ tick + 1 \in 1..LastStep /\ tick + 1 >= 1
  BY BalanceBounds DEF SumTypes
<1>2. today \in Days /\ DayOf(tick) \in Int /\ DayOf(tick) <= today
  BY <1>1, DayIsDay, DaysFollow
<1>3. Days \subseteq Int /\ NoValue \notin Int /\ \A d \in Days : d \in Int
  BY BalanceBounds DEF Days
<1>4. /\ dayResult \in Int /\ dayResults \in [Days -> Int \cup {NoValue}]
      /\ earned \in [Days -> Int]
  BY DEF SumTypes
<1> HIDE DEF today
<1>t. moneyDay' = today /\ earned' = [earned EXCEPT ![today] = @ + gain]
  BY DEF today
<1>5. NewDay(tick + 1) <=> moneyDay # today
  BY DEF NewDay, today
<1>6. moneyDay # NoValue => moneyDay \in Days
  BY DEF DaysInOrder
<1>7. /\ dayResult' \in Int /\ dayResults' \in [Days -> Int \cup {NoValue}]
      /\ earned' \in [Days -> Int]
  BY <1>2, <1>4, <1>6, <1>t
<1>8. /\ earned'[today] = earned[today] + gain
      /\ \A d \in Days : d # today => earned'[d] = earned[d]
  BY <1>2, <1>4, <1>t
<1>u. /\ started' /\ moneyDay' \in Days /\ tick' >= 1 /\ moneyDay' <= DayOf(tick')
  <2>1. DayOf(tick') = today
    BY DEF today
  <2>2. today <= today
    BY <1>2, <1>3
  <2> QED BY <1>1, <1>2, <1>t, <2>1, <2>2
<1>v. ASSUME /\ dayResult' = earned'[today]
             /\ \A d \in Days :
                  /\ d > today => earned'[d] = 0
                  /\ d >= today => dayResults'[d] = NoValue
                  /\ dayResults'[d] # NoValue => dayResults'[d] = earned'[d]
      PROVE  DaysInOrder'
  BY Zenon, <1>t, <1>u, <1>v DEF DaysInOrder
<1>9. CASE ~started
  <2>1. moneyDay = NoValue /\ \A d \in Days : earned[d] = 0 /\ dayResults[d] = NoValue
    BY <1>9 DEF DaysInOrder
  <2>2. dayResult' = gain /\ dayResults' = dayResults
    BY <1>2, <1>3, <1>5, <2>1
  <2>3. earned'[today] = gain /\ \A d \in Days : d # today => earned'[d] = 0
    BY <1>2, <1>8, <2>1
  <2>4. \A d \in Days : /\ d > today => earned'[d] = 0
                        /\ dayResults'[d] = NoValue
    BY <1>2, <1>3, <2>1, <2>2, <2>3
  <2> QED BY <1>7, <1>v, <2>2, <2>3, <2>4
<1>10. CASE started /\ moneyDay = today
  <2>1. /\ dayResult = earned[today]
        /\ \A d \in Days :
             /\ d > today => earned[d] = 0
             /\ d >= today => dayResults[d] = NoValue
             /\ dayResults[d] # NoValue => dayResults[d] = earned[d]
    BY <1>10 DEF DaysInOrder
  <2>2. dayResult' = earned'[today] /\ dayResults' = dayResults
    BY <1>4, <1>5, <1>8, <1>10, <2>1
  <2>3. \A d \in Days :
          /\ d > today => earned'[d] = 0
          /\ d >= today => dayResults'[d] = NoValue
          /\ dayResults'[d] # NoValue => dayResults'[d] = earned'[d]
    <3> TAKE d \in Days
    <3>1. CASE d = today
      <4>1. dayResults[d] = NoValue /\ ~(d > today)
        BY <1>2, <1>3, <2>1, <3>1
      <4> QED BY <2>2, <4>1
    <3>2. CASE d # today
      BY <1>8, <2>1, <2>2, <3>2
    <3> QED BY <3>1, <3>2
  <2> QED BY <1>7, <1>v, <2>2, <2>3
<1>11. CASE started /\ moneyDay # today
  <2>1. /\ moneyDay \in Days /\ moneyDay <= DayOf(tick) /\ dayResult = earned[moneyDay]
        /\ \A d \in Days :
             /\ d > moneyDay => earned[d] = 0
             /\ d >= moneyDay => dayResults[d] = NoValue
             /\ dayResults[d] # NoValue => dayResults[d] = earned[d]
    BY <1>11 DEF DaysInOrder
  <2>2. moneyDay < today /\ moneyDay \in Int /\ moneyDay # NoValue
    BY <1>2, <1>3, <1>11, <2>1
  <2>3. dayResult' = gain /\ dayResults' = [dayResults EXCEPT ![moneyDay] = dayResult]
    BY <1>5, <1>11, <2>2
  <2>4. earned[today] = 0 /\ dayResult' = earned'[today]
    BY <1>2, <1>8, <2>1, <2>2, <2>3
  <2>5. \A d \in Days :
          /\ d > today => earned'[d] = 0
          /\ d >= today => dayResults'[d] = NoValue
          /\ dayResults'[d] # NoValue => dayResults'[d] = earned'[d]
    <3> TAKE d \in Days
    <3>0. d \in Int /\ today \in Int
      BY <1>2, <1>3
    <3>1. CASE d = moneyDay
      <4>1. dayResults'[d] = dayResult /\ earned'[d] = earned[d] /\ ~(d > today) /\ ~(d >= today)
        BY <1>4, <1>8, <2>2, <2>3, <3>0, <3>1
      <4> QED BY <2>1, <3>1, <4>1
    <3>2. CASE d # moneyDay
      <4>1. dayResults'[d] = dayResults[d]
        BY <1>4, <2>3, <3>2
      <4>2. CASE d = today
        <5>1. dayResults[d] = NoValue /\ ~(d > today)
          BY <2>1, <2>2, <3>0, <4>2
        <5> QED BY <4>1, <5>1
      <4>3. CASE d # today
        <5>1. earned'[d] = earned[d]
          BY <1>8, <4>3
        <5>2. d > today => d > moneyDay
          BY <2>2, <3>0
        <5>3. d >= today => d >= moneyDay
          BY <2>2, <3>0
        <5> QED BY <2>1, <4>1, <5>1, <5>2, <5>3
      <4> QED BY <4>2, <4>3
    <3> QED BY <3>1, <3>2
  <2> QED BY <1>7, <1>v, <2>4, <2>5
<1> QED BY <1>7, <1>9, <1>10, <1>11

\* A poll that books nothing leaves the days as they are.
LEMMA DaysWait ==
    ASSUME SumTypes, DaysInOrder, tick' \in {tick, tick + 1},
           UNCHANGED <<started, moneyDay, dayResult, dayResults, earned>>
    PROVE  DaysInOrder'
<1>1. tick \in Nat
  BY BalanceBounds DEF SumTypes
<1>2. tick \in Int /\ tick' \in Int /\ tick <= tick'
  BY <1>1
<1>3. DayOf(tick) \in Int /\ DayOf(tick') \in Int /\ DayOf(tick) <= DayOf(tick')
  BY <1>2, DaysFollow
<1>4. started => moneyDay \in Int
  BY DEF DaysInOrder, Days
<1>5. started /\ moneyDay <= DayOf(tick) => moneyDay <= DayOf(tick')
  BY <1>3, <1>4
<1>6. started /\ tick >= 1 => tick' >= 1
  BY <1>2
<1> QED BY Zenon, <1>5, <1>6 DEF DaysInOrder

\* The price of every tick of an interval is the one that was in force.
LEMMA PricesAreTrue ==
    ASSUME SumTypes, HistoryIsTrue, tick < LastStep
    PROVE  LET now == tick + 1
               from == now - Measured(now)
           IN /\ Observed(priceHistory, now, tariffNow) = priceHistory
              /\ \A t \in (from + 1)..now :
                   /\ SnapshotFrom(priceHistory, t) \in Tariffs
                   /\ SnapshotFrom(priceHistory, t) = [inForce EXCEPT ![now] = tariffNow][t]
<1> DEFINE now == tick + 1
           from == now - Measured(now)
           seen == [inForce EXCEPT ![now] = tariffNow]
<1>1. /\ tick \in Nat /\ now \in 1..LastStep /\ now \in Int /\ now - 1 = tick
  BY BalanceBounds DEF SumTypes
<1>2. Observed(priceHistory, now, tariffNow) = priceHistory
  BY DEF Observed, HistoryIsTrue
<1>3. /\ Measured(now) \in Nat
      /\ Measured(now) # 0 => energyAt \in Int /\ from = energyAt
  BY MeasuredBounds
<1>4. priceHistory \in Seq([at : 0..LastStep, snap : Tariffs]) /\ priceHistory # <<>>
  BY DEF SumTypes
<1>5. Len(priceHistory) \in Nat /\ Len(priceHistory) >= 1
  BY <1>4
<1>6. SnapshotFrom(priceHistory, now) = tariffNow
  <2>1. \A i \in 1..Len(priceHistory) : priceHistory[i].at <= now - 1
    BY <1>1 DEF HistoryIsTrue
  <2> HIDE DEF now
  <2>2. SnapshotFrom(priceHistory, now) = Last(priceHistory).snap
    BY <1>1, <1>5, <2>1, NewestCounts
  <2> QED BY <2>2 DEF HistoryIsTrue
<1>7. seen[now] = tariffNow /\ \A t \in 1..LastStep : t # now => seen[t] = inForce[t]
  BY <1>1 DEF SumTypes
<1> HIDE DEF now, from, seen
<1>8. ASSUME NEW t \in (from + 1)..now
      PROVE  SnapshotFrom(priceHistory, t) \in Tariffs /\ SnapshotFrom(priceHistory, t) = seen[t]
  <2>0. from \in Int /\ t \in Int
    BY <1>1, <1>3 DEF from
  <2>1. SnapshotFrom(priceHistory, t) \in Tariffs
    BY <1>4, <2>0, SnapshotTypes
  <2>2. CASE t = now
    BY <1>6, <1>7, <2>1, <2>2
  <2>3. CASE t # now
    <3>1. Measured(now) # 0
      <4> SUFFICES ASSUME Measured(now) = 0 PROVE FALSE
        OBVIOUS
      <4>1. from = now
        BY <1>1 DEF from
      <4> QED BY <1>1, <2>0, <2>3, <4>1
    <3>2. energyAt \in Int /\ from = energyAt
      BY <1>3, <3>1
    <3>3. energyAt \in 0..tick
      BY <3>2, BalanceBounds DEF SumTypes
    <3>4. t \in (energyAt + 1)..tick /\ t \in 1..LastStep /\ energyAt # NoValue
      BY <1>1, <2>0, <2>3, <3>2, <3>3, BalanceBounds
    <3>5. SnapshotFrom(priceHistory, t) = inForce[t]
      BY <3>4 DEF HistoryIsTrue
    <3> QED BY <1>7, <2>1, <2>3, <3>4, <3>5
  <2> QED BY <2>2, <2>3
<1> QED BY <1>2, <1>8 DEF now, from, seen

\* What a poll books: the interval at the prices of its time.
Booked(flow) ==
    LET now == tick + 1
        from == now - Measured(now)
    IN ValuedInterval(money, flow, from, now,
                      [t \in (from + 1)..now |-> SnapshotFrom(priceHistory, t)])

LEMMA BookedIsTrue ==
    ASSUME SumTypes, HistoryIsTrue, PricedAsItWas, tick < LastStep, NEW flow \in Flows
    PROVE  LET now == tick + 1
               n == Measured(now)
           IN /\ ValuedInterval(asItWas, flow, now - n, now, [inForce EXCEPT ![now] = tariffNow])
                    = Booked(flow)
              /\ GoesOn(Booked(flow), money, n * flow.charge, n * flow.discharge)
              /\ n = 0 => Booked(flow) = money
<1> DEFINE now == tick + 1
           n == Measured(now)
           from == now - n
           seen == [inForce EXCEPT ![now] = tariffNow]
           told == [t \in (from + 1)..now |-> SnapshotFrom(priceHistory, t)]
<1>1. /\ now \in Int /\ n \in Nat
  BY MeasuredBounds DEF SumTypes
<1>2. from \in Int /\ from <= now /\ now - from = n
  BY <1>1
<1>3. \A t \in (from + 1)..now : SnapshotFrom(priceHistory, t) \in Tariffs
                               /\ SnapshotFrom(priceHistory, t) = seen[t]
  BY PricesAreTrue
<1>4. asItWas = money /\ money \in Moneys
  BY DEF PricedAsItWas, SumTypes
<1> HIDE DEF now, n, seen
<1>5. \A t \in (from + 1)..now : seen[t] = told[t] /\ told[t] \in Tariffs /\ t \in Int
  BY <1>1, <1>3
<1>6. Booked(flow) = ValuedInterval(money, flow, from, now, told)
  BY Zenon DEF Booked, now, n
<1> HIDE DEF from, told
<1>7. ValuedInterval(asItWas, flow, from, now, seen) = Booked(flow)
  BY <1>1, <1>2, <1>4, <1>5, <1>6, SamePrices
<1>8. GoesOn(Booked(flow), money, n * flow.charge, n * flow.discharge)
  <2>1. \A t \in (from + 1)..now : /\ ImportPrice(told[t], t) \in Prices
                                  /\ FeedInPrice(told[t]) \in Prices
    BY <1>5, SnapshotPrices
  <2>2. GoesOn(ValuedInterval(money, flow, from, now, told), money,
                (now - from) * flow.charge, (now - from) * flow.discharge)
    BY <1>1, <1>2, <1>4, <2>1, IntervalFollows
  <2> QED BY <1>2, <1>6, <2>2
<1>9. n = 0 => Booked(flow) = money
  <2> SUFFICES ASSUME n = 0 PROVE Booked(flow) = money
    OBVIOUS
  <2>1. from = now
    BY <1>1, <1>2
  <2>2. PICK f : /\ SumsAre(f, money, flow, from, now, told)
                 /\ ValuedInterval(money, flow, from, now, told) = f[now]
    BY <1>1, <1>2, IntervalIs
  <2>3. f[from] = money
    <3>1. from \in from..now
      BY <1>2
    <3>2. SumsAre(f, money, flow, from, now, told)
      BY <2>2
    <3> QED BY <3>1, <3>2 DEF SumsAre
  <2> QED BY <1>6, <2>1, <2>2, <2>3
<1> QED BY <1>7, <1>8, <1>9 DEF now, n, from, seen

\* The greatest of three numbers, one of them zero.
LEMMA GreatestOfThree ==
    ASSUME NEW a \in Nat, NEW b \in Int
    PROVE  Max({0, a, b}) \in Nat
<1> DEFINE S == {0, a, b}
<1>1. \E x \in S : \A y \in S : x >= y
  <2>1. CASE b > a
    BY <2>1
  <2>2. CASE ~(b > a)
    BY <2>2
  <2> QED BY <2>1, <2>2
<1>2. Max(S) \in S /\ \A y \in S : Max(S) >= y
  BY <1>1 DEF Max
<1>3. Max(S) \in Int /\ Max(S) >= 0
  BY <1>2
<1> QED BY <1>3

\* A sample counts its energy.
CountsSample(flow, length) ==
    counters' = [charged |-> counters.charged + length * flow.charge,
                 discharged |-> counters.discharged + length * flow.discharge,
                 grid |-> counters.grid + length * flow.grid,
                 pv |-> counters.pv + length * flow.pv]

LEMMA EnergyCounts ==
    ASSUME SumTypes, NEW flow \in Flows, NEW length \in Nat, CountsSample(flow, length)
    PROVE  /\ counters' \in [charged : Nat, discharged : Nat, grid : Nat, pv : Nat]
           /\ length * flow.charge \in Nat /\ length * flow.discharge \in Nat
           /\ counters'.charged = counters.charged + length * flow.charge
           /\ counters'.discharged = counters.discharged + length * flow.discharge
           /\ counters.charged = counters.grid + counters.pv
                => counters'.charged = counters'.grid + counters'.pv
<1>1. /\ counters.charged \in Nat /\ counters.discharged \in Nat
      /\ counters.grid \in Nat /\ counters.pv \in Nat
  BY DEF SumTypes
<1>2. /\ flow.charge \in {0, 1} /\ flow.discharge \in {0, 1}
      /\ flow.grid \in {0, 1} /\ flow.pv \in {0, 1} /\ flow.grid + flow.pv = flow.charge
  BY DEF Flows
<1> DEFINE a == length * flow.charge
           b == length * flow.discharge
           g == length * flow.grid
           p == length * flow.pv
<1>3. a \in Nat /\ b \in Nat /\ g \in Nat /\ p \in Nat
  BY <1>2, Times
<1>4. a = g + p
  <2>1. CASE flow.grid = 0
    <3>1. flow.charge = flow.pv /\ g = 0
      BY <1>2, <2>1
    <3> QED BY <1>3, <3>1
  <2>2. CASE flow.grid = 1
    <3>1. flow.charge = 1 /\ flow.pv = 0
      BY <1>2, <2>2
    <3>2. a = length /\ g = length /\ p = 0
      BY <2>2, <3>1
    <3> QED BY <3>2
  <2> QED BY <1>2, <2>1, <2>2
<1>5. counters' = [charged |-> counters.charged + a, discharged |-> counters.discharged + b,
                   grid |-> counters.grid + g, pv |-> counters.pv + p]
  BY DEF CountsSample
<1> HIDE DEF a, b, g, p
<1> QED BY <1>1, <1>3, <1>4, <1>5 DEF a, b

\* What a poll that books leaves behind.
LEMMA BookedPoll ==
    ASSUME BalInv, tick < LastStep, NEW power \in {-1, 0, 1}, NEW meter \in {NoValue, 0, 1},
           NEW atMinimum \in BOOLEAN, NEW content \in {NoValue, 1}, tick' = tick + 1,
           CountsSample(Flow(power, meter), Measured(tick + 1)),
           restRun' = RestAfter(power, Measured(tick + 1)),
           BookMoney(Flow(power, meter), power, Measured(tick + 1), tick + 1,
                     atMinimum, content)
    PROVE  /\ started' \in BOOLEAN /\ dischargedSince' \in BOOLEAN
           /\ money' \in Moneys /\ highWater' \in Nat /\ dayResult' \in Int
           /\ dayResults' \in [Days -> Int \cup {NoValue}]
           /\ idleCount' \in 0..Confirmations
           /\ earned' \in [Days -> Int] /\ restRun' \in Nat
           /\ PricedAsItWas' /\ NothingInvented' /\ DaysInOrder' /\ RestIsMeasured'
           /\ money'.inventory < money.inventory
                => \/ counters'.discharged > counters.discharged
                   \/ restRun' >= Confirmations
<1> DEFINE now == tick + 1
           length == Measured(now)
           flow == Flow(power, meter)
           sums == Booked(flow)
           idle == IdleAfter(power, length)
           discharged == IF power < 0 THEN FALSE
                         ELSE IF power > 0 THEN TRUE ELSE dischargedSince
           after == Corrected(sums, idle, discharged, atMinimum, content)
           true == ValuedInterval(asItWas, flow, now - length, now,
                                  [inForce EXCEPT ![now] = tariffNow])
<1>1. /\ SumTypes /\ HistoryIsTrue /\ PricedAsItWas /\ NothingInvented
      /\ DaysInOrder /\ RestIsMeasured
  BY DEF BalInv
<1>2. /\ flow \in Flows /\ flow.charge + flow.discharge <= 1
      /\ flow.discharge = 1 <=> power = 1
  BY FlowTypes
<1>3. length \in Nat
  BY <1>1, MeasuredBounds
<1>4. /\ true = sums /\ GoesOn(sums, money, length * flow.charge, length * flow.discharge)
      /\ length = 0 => sums = money
  BY <1>1, <1>2, BookedIsTrue
<1>5. sums \in Moneys
  BY <1>4 DEF GoesOn
<1>6. /\ after \in Moneys /\ after = [sums EXCEPT !.inventory = after.inventory]
      /\ after.inventory <= sums.inventory /\ (idle < Confirmations => after = sums)
  <2> HIDE DEF sums, idle, discharged
  <2> QED BY <1>5, CorrectedOnly
<1>7. /\ idle \in 0..Confirmations /\ restRun' \in Nat /\ idle <= restRun'
      /\ power # 0 => idle = 0
  BY <1>1, <1>3, RestCounts
<1>8. /\ length * flow.charge \in Nat /\ length * flow.discharge \in Nat
      /\ counters'.charged = counters.charged + length * flow.charge
      /\ counters'.discharged = counters.discharged + length * flow.discharge
      /\ counters'.charged = counters'.grid + counters'.pv
      /\ counters' \in [charged : Nat, discharged : Nat, grid : Nat, pv : Nat]
  BY <1>1, <1>2, <1>3, EnergyCounts DEF NothingInvented
<1>9. Observed(priceHistory, now, tariffNow) = priceHistory
  BY <1>1, PricesAreTrue
<1>10. /\ started' = StartedBy(tariffNow)
       /\ IF started'
          THEN /\ money' = after
               /\ highWater' = Max({0, highWater, RawResult(sums)})
               /\ AdvanceDay(money, sums, now)
               /\ idleCount' = idle
               /\ dischargedSince' =
                    (discharged /\ ~(idle >= Confirmations /\ discharged
                                     /\ atMinimum /\ sums.inventory > 0))
               /\ asItWas' = [true EXCEPT !.inventory = after.inventory]
               /\ earned' = [earned EXCEPT ![DayOf(now)] =
                               @ + RawResult(sums) - RawResult(money)]
          ELSE UNCHANGED <<money, highWater, moneyDay, dayResult, dayResults,
                           idleCount, dischargedSince, asItWas, earned>>
  BY Zenon, <1>9 DEF BookMoney, Booked
<1>11. started' \in BOOLEAN
  BY <1>1, <1>10 DEF StartedBy, SumTypes
<1>12. /\ money \in Moneys /\ counters.charged \in Nat /\ counters.discharged \in Nat
  BY <1>1 DEF SumTypes
<1>13. RawResult(sums) \in Int /\ RawResult(money) \in Int
  BY <1>5, <1>12, ResultType
<1> HIDE DEF sums, after, true, idle, flow, length, now
<1>14. CASE ~started'
  <2>1. UNCHANGED <<money, highWater, moneyDay, dayResult, dayResults,
                    idleCount, dischargedSince, asItWas, earned>>
    BY <1>10, <1>14
  <2>2. ~started
    BY <1>10, <1>14 DEF StartedBy
  <2>3. started' = started
    BY <1>1, <1>11, <1>14, <2>2 DEF SumTypes
  <2>4. DaysInOrder'
    BY <1>1, <2>1, <2>3, DaysWait
  <2>5. idleCount' = 0
    BY <1>1, <2>1, <2>2 DEF RestIsMeasured
  <2>6. NothingInvented'
    BY <1>1, <1>8, <1>12, <2>1 DEF NothingInvented, Moneys
  <2>7. RestIsMeasured'
    BY <1>7, <2>5 DEF RestIsMeasured
  <2>8. PricedAsItWas'
    BY <1>1, <2>1 DEF PricedAsItWas
  <2>9. /\ dischargedSince' \in BOOLEAN /\ money' \in Moneys /\ highWater' \in Nat
        /\ dayResult' \in Int /\ dayResults' \in [Days -> Int \cup {NoValue}]
        /\ idleCount' \in 0..Confirmations /\ earned' \in [Days -> Int]
    BY <1>1, <2>1 DEF SumTypes
  <2>10. ~(money'.inventory < money.inventory)
    <3>1. money.inventory \in Nat /\ money' = money
      BY <1>12, <2>1 DEF Moneys
    <3> QED BY <3>1
  <2> QED BY <1>7, <1>11, <2>4, <2>6, <2>7, <2>8, <2>9, <2>10
<1>15. CASE started'
  <2>1. /\ money' = after /\ idleCount' = idle
        /\ highWater' = Max({0, highWater, RawResult(sums)})
        /\ AdvanceDay(money, sums, now)
        /\ dischargedSince' = (discharged /\ ~(idle >= Confirmations /\ discharged
                                               /\ atMinimum /\ sums.inventory > 0))
        /\ asItWas' = [true EXCEPT !.inventory = after.inventory]
        /\ earned' = [earned EXCEPT ![DayOf(now)] = @ + RawResult(sums) - RawResult(money)]
    BY <1>10, <1>15
  <2>2. PricedAsItWas'
    BY <1>4, <1>6, <2>1 DEF PricedAsItWas
  <2>3. NothingInvented'
    <3>1. /\ money.inventory \in Nat /\ money.inventory <= money.unpricedCharge
          /\ money.pricedCharge + money.unpricedCharge <= counters.charged
          /\ money.pricedDischarge + money.unpricedDischarge <= counters.discharged
      BY <1>1, <1>12 DEF NothingInvented, Moneys
    <3>2. /\ money.pricedCharge \in Int /\ money.unpricedCharge \in Int
          /\ money.pricedDischarge \in Int /\ money.unpricedDischarge \in Int
      BY <1>12 DEF Moneys
    <3>3. /\ sums.pricedCharge \in Int /\ sums.unpricedCharge \in Int
          /\ sums.pricedDischarge \in Int /\ sums.unpricedDischarge \in Int
          /\ sums.inventory \in Nat
      BY <1>5 DEF Moneys
    <3>4. /\ after.pricedCharge = sums.pricedCharge
          /\ after.unpricedCharge = sums.unpricedCharge
          /\ after.pricedDischarge = sums.pricedDischarge
          /\ after.unpricedDischarge = sums.unpricedDischarge
          /\ after.inventory \in Nat
      <4>1. \A k \in Nat : LET c == [sums EXCEPT !.inventory = k]
                            IN /\ c.pricedCharge = sums.pricedCharge
                               /\ c.unpricedCharge = sums.unpricedCharge
                               /\ c.pricedDischarge = sums.pricedDischarge
                               /\ c.unpricedDischarge = sums.unpricedDischarge
        BY <1>5 DEF Moneys
      <4>2. after.inventory \in Nat
        BY <1>6 DEF Moneys
      <4> QED BY <1>6, <4>1, <4>2
    <3>5. /\ sums.inventory <= sums.unpricedCharge
          /\ sums.pricedCharge + sums.unpricedCharge
               = money.pricedCharge + money.unpricedCharge + length * flow.charge
          /\ sums.pricedDischarge + sums.unpricedDischarge
               <= money.pricedDischarge + money.unpricedDischarge + length * flow.discharge
      BY <1>4, <3>1 DEF GoesOn
    <3>6. /\ after.inventory >= 0 /\ after.inventory <= after.unpricedCharge
          /\ after.pricedCharge + after.unpricedCharge <= counters'.charged
          /\ after.pricedDischarge + after.unpricedDischarge <= counters'.discharged
      BY <1>6, <1>8, <1>12, <3>1, <3>2, <3>3, <3>4, <3>5
    <3> QED BY <1>8, <2>1, <3>6 DEF NothingInvented
  <2>4. /\ DaysInOrder' /\ dayResult' \in Int
        /\ dayResults' \in [Days -> Int \cup {NoValue}] /\ earned' \in [Days -> Int]
    <3> DEFINE gain == RawResult(sums) - RawResult(money)
    <3>1. /\ moneyDay' = DayOf(now)
          /\ dayResults' = IF NewDay(now) /\ moneyDay # NoValue
                           THEN [dayResults EXCEPT ![moneyDay] = dayResult] ELSE dayResults
          /\ dayResult' = (IF NewDay(now) THEN 0 ELSE dayResult)
                          + RawResult(sums) - RawResult(money)
      BY <2>1 DEF AdvanceDay
    <3>2. gain \in Int
      BY <1>13
    <3>3. dayResult' = (IF NewDay(now) THEN 0 ELSE dayResult) + gain
      <4>1. (IF NewDay(now) THEN 0 ELSE dayResult) \in Int
        BY <1>1 DEF SumTypes
      <4> QED BY <1>13, <3>1, <4>1
    <3>4. earned' = [earned EXCEPT ![DayOf(now)] = @ + gain]
      <4>1. DayOf(now) \in Days
        <5>1. now \in 1..LastStep
          BY <1>1, BalanceBounds DEF SumTypes, now
        <5> QED BY <5>1, DayIsDay
      <4>2. earned[DayOf(now)] \in Int
        BY <1>1, <4>1 DEF SumTypes
      <4>3. earned[DayOf(now)] + RawResult(sums) - RawResult(money) = earned[DayOf(now)] + gain
        BY <1>13, <4>2
      <4> QED BY <2>1, <4>3
    <3> HIDE DEF gain
    <3>5. started' = TRUE
      BY <1>11, <1>15
    <3> QED BY <1>1, <3>1, <3>2, <3>3, <3>4, <3>5, DayAdvances DEF now
  <2>5. highWater' \in Nat
    <3>1. highWater \in Nat
      BY <1>1 DEF SumTypes
    <3> QED BY <1>13, <2>1, <3>1, GreatestOfThree
  <2>6. money'.inventory < money.inventory
          => \/ counters'.discharged > counters.discharged
             \/ restRun' >= Confirmations
    <3> SUFFICES ASSUME money'.inventory < money.inventory,
                        ~(counters'.discharged > counters.discharged)
                 PROVE  restRun' >= Confirmations
      OBVIOUS
    <3>1. length * flow.discharge = 0
      BY <1>8, <1>12
    <3>2. sums.inventory >= money.inventory
      BY <1>4, <3>1 DEF GoesOn
    <3>3. /\ money.inventory \in Nat /\ sums.inventory \in Nat
          /\ after.inventory < sums.inventory
      <4>1. money.inventory \in Nat /\ sums.inventory \in Nat /\ after.inventory \in Nat
        BY <1>5, <1>6, <1>12 DEF Moneys
      <4> QED BY <2>1, <3>2, <4>1
    <3>4. ~(idle < Confirmations)
      <4>1. after # sums
        BY <3>3
      <4> QED BY <1>6, <4>1
    <3> QED BY <1>7, <3>4, BalanceBounds
  <2>7. dischargedSince' \in BOOLEAN
    BY <2>1
  <2>8. RestIsMeasured'
    BY <1>7, <1>15, <2>1 DEF RestIsMeasured
  <2> QED BY <1>6, <1>7, <1>11, <2>1, <2>2, <2>3, <2>4, <2>5, <2>6, <2>7, <2>8
<1> QED BY <1>11, <1>14, <1>15

\* A new snapshot begins after everything that was seen before it.
LEMMA TariffKeeps == ASSUME BalInv, ChangeTariff PROVE BalInv'
<1>1. /\ SumTypes /\ HistoryIsTrue /\ tick \in 0..LastStep /\ tick' = tick
      /\ tariffNow' \in Tariffs /\ tariffNow' # tariffNow
      /\ priceHistory' = Observed(priceHistory, tick, tariffNow')
      /\ priceHistory \in Seq([at : 0..LastStep, snap : Tariffs]) /\ priceHistory # <<>>
  BY DEF BalInv, SumTypes, ChangeTariff
<1>2. UNCHANGED <<tick, sampleAt, energyAt, counters, started, money, highWater, moneyDay,
                  dayResult, dayResults, idleCount, dischargedSince, inForce, asItWas,
                  earned, restRun>>
  BY DEF ChangeTariff
<1>3. priceHistory' = Append(priceHistory, [at |-> tick, snap |-> tariffNow'])
  BY <1>1 DEF Observed, HistoryIsTrue
<1> DEFINE entry == [at |-> tick, snap |-> tariffNow']
<1>4. entry \in [at : 0..LastStep, snap : Tariffs]
  BY <1>1
<1>5. /\ priceHistory' \in Seq([at : 0..LastStep, snap : Tariffs]) /\ priceHistory' # <<>>
      /\ Len(priceHistory) \in Nat /\ Len(priceHistory') = Len(priceHistory) + 1
      /\ \A i \in 1..Len(priceHistory) : priceHistory'[i] = priceHistory[i]
      /\ priceHistory'[Len(priceHistory) + 1] = entry
  <2> DEFINE Entries == [at : 0..LastStep, snap : Tariffs]
  <2>1. priceHistory \in Seq(Entries) /\ entry \in Entries
        /\ priceHistory' = Append(priceHistory, entry)
    BY <1>1, <1>3, <1>4
  <2> HIDE DEF Entries, entry
  <2>2. /\ priceHistory' \in Seq(Entries) /\ priceHistory' # <<>>
        /\ Len(priceHistory) \in Nat /\ Len(priceHistory') = Len(priceHistory) + 1
        /\ \A i \in 1..Len(priceHistory) : priceHistory'[i] = priceHistory[i]
        /\ priceHistory'[Len(priceHistory) + 1] = entry
    BY <2>1
  <2> QED BY <2>2 DEF Entries
<1>6. SumTypes'
  BY <1>1, <1>2, <1>5 DEF SumTypes
<1>7. HistoryIsTrue'
  <2>1. Last(priceHistory').snap = tariffNow'
    BY <1>5 DEF Last
  <2>2. \A i \in 1..Len(priceHistory') : priceHistory'[i].at <= tick'
    <3> TAKE i \in 1..Len(priceHistory')
    <3>1. CASE i = Len(priceHistory) + 1
      BY <1>1, <1>5, <3>1
    <3>2. CASE i # Len(priceHistory) + 1
      <4>1. i \in 1..Len(priceHistory)
        BY <1>5, <3>2
      <4> QED BY <1>1, <1>5, <4>1 DEF HistoryIsTrue
    <3> QED BY <3>1, <3>2
  <2>3. ASSUME energyAt' # NoValue, NEW t \in (energyAt' + 1)..tick'
        PROVE  SnapshotFrom(priceHistory', t) = inForce'[t]
    <3>1. energyAt # NoValue /\ t \in (energyAt + 1)..tick /\ inForce' = inForce
      BY <1>2, <2>3
    <3>2. t \in Int /\ t <= tick
      BY <1>1, <3>1, BalanceBounds
    <3> DEFINE snap == tariffNow'
    <3>a. priceHistory' = Append(priceHistory, [at |-> tick, snap |-> snap])
      BY <1>3
    <3> HIDE DEF snap
    <3>3. SnapshotFrom(priceHistory', t) = SnapshotFrom(priceHistory, t)
      <4>1. SnapshotFrom(Append(priceHistory, [at |-> tick, snap |-> snap]), t)
              = SnapshotFrom(priceHistory, t)
        BY <1>1, <3>2, EarlierStands
      <4> QED BY <3>a, <4>1
    <3> QED BY <1>1, <3>1, <3>3 DEF HistoryIsTrue
  <2> QED BY Zenon, <2>1, <2>2, <2>3 DEF HistoryIsTrue
<1>8. /\ PricedAsItWas' /\ NothingInvented' /\ RestIsMeasured'
  BY <1>2 DEF BalInv, PricedAsItWas, NothingInvented, RestIsMeasured
<1>9. DaysInOrder'
  BY <1>2, DaysWait DEF BalInv
<1> QED BY <1>6, <1>7, <1>8, <1>9 DEF BalInv

\* Once an interval is priced, one snapshot is enough.
LEMMA HistoryStarts ==
    ASSUME SumTypes, HistoryIsTrue, tick < LastStep, tick' = tick + 1,
           tariffNow' = tariffNow, energyAt' \in {tick + 1, NoValue},
           priceHistory' = Consumed(Observed(priceHistory, tick + 1, tariffNow), tick + 1)
    PROVE  /\ priceHistory' \in Seq([at : 0..LastStep, snap : Tariffs])
           /\ priceHistory' # <<>> /\ HistoryIsTrue'
<1>1. tick \in Nat /\ tick + 1 \in 0..LastStep /\ tariffNow \in Tariffs
  BY BalanceBounds DEF SumTypes
<1>2. Observed(priceHistory, tick + 1, tariffNow) = priceHistory
  BY PricesAreTrue
<1>3. priceHistory' = <<[at |-> tick + 1, snap |-> tariffNow]>>
  BY <1>2 DEF Consumed, HistoryIsTrue
<1> DEFINE entry == [at |-> tick + 1, snap |-> tariffNow]
<1>4. entry \in [at : 0..LastStep, snap : Tariffs]
  BY <1>1
<1>5. /\ priceHistory' \in Seq([at : 0..LastStep, snap : Tariffs]) /\ priceHistory' # <<>>
      /\ Len(priceHistory') = 1 /\ priceHistory'[1] = entry
  <2> DEFINE Entries == [at : 0..LastStep, snap : Tariffs]
  <2>1. entry \in Entries /\ priceHistory' = <<entry>>
    BY <1>3, <1>4
  <2> HIDE DEF Entries, entry
  <2>2. /\ <<entry>> \in Seq(Entries) /\ <<entry>> # <<>>
        /\ Len(<<entry>>) = 1 /\ <<entry>>[1] = entry
    BY <2>1
  <2> QED BY <2>1, <2>2 DEF Entries
<1>6. Last(priceHistory').snap = tariffNow'
  BY <1>5 DEF Last
<1>7. \A i \in 1..Len(priceHistory') : priceHistory'[i].at <= tick'
  BY <1>1, <1>5
<1>8. ASSUME energyAt' # NoValue, NEW t \in (energyAt' + 1)..tick' PROVE FALSE
  <2>1. energyAt' = tick + 1
    BY <1>8
  <2> QED BY <1>1, <1>8, <2>1
<1> QED BY <1>5, <1>6, <1>7, <1>8 DEF HistoryIsTrue

\* The history of the snapshots goes on.
LEMMA InForceGrows ==
    ASSUME SumTypes, tick < LastStep, inForce' = [inForce EXCEPT ![tick + 1] = tariffNow]
    PROVE  /\ inForce' \in [1..LastStep -> Tariffs] /\ inForce'[tick + 1] = tariffNow
           /\ \A t \in 1..LastStep : t # tick + 1 => inForce'[t] = inForce[t]
           /\ tick + 1 \in 1..LastStep
<1>1. tick + 1 \in 1..LastStep
  BY BalanceBounds DEF SumTypes
<1> QED BY <1>1 DEF SumTypes

\* A fresh sample, sums or skipped.
LEMMA FreshKeeps ==
    ASSUME BalInv, FreshPoll
    PROVE  /\ BalInv'
           /\ money'.inventory < money.inventory
                => \/ counters'.discharged > counters.discharged
                   \/ restRun' >= Confirmations
           /\ counters'.charged + counters'.discharged
                - counters.charged - counters.discharged <= MaxAge
<1>1. PICK power \in {-1, 0, 1}, meter \in {NoValue, 0, 1}, level \in Levels, fails \in BOOLEAN :
        LET now == tick + 1
            length == Measured(now)
            flow == Flow(power, meter)
        IN /\ meter # NoValue => power < 0
           /\ power # 0 \/ fails => level = [atMinimum |-> FALSE, content |-> NoValue]
           /\ tick' = now
           /\ sampleAt' = now /\ energyAt' = now
           /\ counters' = [charged |-> counters.charged + length * flow.charge,
                           discharged |-> counters.discharged + length * flow.discharge,
                           grid |-> counters.grid + length * flow.grid,
                           pv |-> counters.pv + length * flow.pv]
           /\ inForce' = [inForce EXCEPT ![now] = tariffNow]
           /\ restRun' = IF fails THEN restRun ELSE RestAfter(power, length)
           /\ priceHistory' = Consumed(Observed(priceHistory, now, tariffNow), now)
           /\ IF fails THEN SkipMoney
              ELSE BookMoney(flow, power, length, now, level.atMinimum, level.content)
  BY Zenon DEF FreshPoll
<1> DEFINE length == Measured(tick + 1)
           flow == Flow(power, meter)
<1>2. /\ tick' = tick + 1 /\ sampleAt' = tick + 1 /\ energyAt' = tick + 1
      /\ CountsSample(flow, length)
      /\ inForce' = [inForce EXCEPT ![tick + 1] = tariffNow]
      /\ restRun' = IF fails THEN restRun ELSE RestAfter(power, length)
      /\ priceHistory' = Consumed(Observed(priceHistory, tick + 1, tariffNow), tick + 1)
      /\ fails => SkipMoney
      /\ ~fails => BookMoney(flow, power, length, tick + 1, level.atMinimum, level.content)
  BY Zenon, <1>1 DEF CountsSample
<1>3. tick < LastStep /\ tariffNow' = tariffNow
  BY DEF FreshPoll
<1>4. /\ SumTypes /\ HistoryIsTrue /\ PricedAsItWas /\ NothingInvented
      /\ DaysInOrder /\ RestIsMeasured
  BY DEF BalInv
<1>5. /\ length \in Nat /\ length <= MaxAge /\ MaxAge \in Nat
  BY <1>4, MeasuredBounds, BalanceBounds
<1>6. flow \in Flows /\ flow.charge + flow.discharge <= 1
  BY FlowTypes
<1> HIDE DEF length, flow
<1>7. /\ counters' \in [charged : Nat, discharged : Nat, grid : Nat, pv : Nat]
      /\ length * flow.charge \in Nat /\ length * flow.discharge \in Nat
      /\ counters'.charged = counters.charged + length * flow.charge
      /\ counters'.discharged = counters.discharged + length * flow.discharge
      /\ counters'.charged = counters'.grid + counters'.pv
  BY <1>2, <1>4, <1>5, <1>6, EnergyCounts DEF NothingInvented
<1>8. /\ priceHistory' \in Seq([at : 0..LastStep, snap : Tariffs])
      /\ priceHistory' # <<>> /\ HistoryIsTrue'
  BY <1>2, <1>3, <1>4, HistoryStarts
<1>9. inForce' \in [1..LastStep -> Tariffs] /\ tick' \in 0..LastStep /\ tick' = tick + 1
  <2>1. inForce' \in [1..LastStep -> Tariffs] /\ tick + 1 \in 1..LastStep
    BY <1>2, <1>3, <1>4, InForceGrows
  <2> QED BY <1>2, <2>1
<1>10. /\ sampleAt' \in 0..tick' \cup {NoValue} /\ energyAt' \in {sampleAt', NoValue}
  BY <1>2, <1>9
<1>11. counters'.charged + counters'.discharged
         - counters.charged - counters.discharged <= MaxAge
  <2>1. counters.charged \in Nat /\ counters.discharged \in Nat
    BY <1>4 DEF SumTypes
  <2>2. flow.charge \in {0, 1} /\ flow.discharge \in {0, 1}
    BY <1>6 DEF Flows
  <2>3. length * flow.charge + length * flow.discharge <= length
    <3>1. CASE flow.charge = 0
      <4>1. length * flow.charge = 0
        BY <1>5, <3>1
      <4>2. length * flow.discharge = 0 \/ length * flow.discharge = length
        BY <1>5, <2>2
      <4> QED BY <1>5, <4>1, <4>2
    <3>2. CASE flow.charge = 1
      <4>1. flow.discharge = 0
        BY <1>6, <2>2, <3>2
      <4>2. length * flow.charge = length /\ length * flow.discharge = 0
        BY <1>5, <3>2, <4>1
      <4> QED BY <1>5, <4>2
    <3> QED BY <2>2, <3>1, <3>2
  <2> DEFINE a == length * flow.charge
             b == length * flow.discharge
  <2>4. a \in Nat /\ b \in Nat /\ a + b <= length
        /\ counters'.charged = counters.charged + a
        /\ counters'.discharged = counters.discharged + b
    BY <1>7, <2>3
  <2> HIDE DEF a, b
  <2> QED BY <1>5, <2>1, <2>4
<1>12. CASE fails
  <2>1. /\ UNCHANGED <<started, money, highWater, moneyDay, dayResult, dayResults,
                       idleCount, dischargedSince, asItWas, earned>>
        /\ restRun' = restRun
    BY <1>2, <1>12 DEF SkipMoney
  <2>2. SumTypes'
    BY <1>3, <1>4, <1>7, <1>8, <1>9, <1>10, <2>1 DEF SumTypes
  <2>3. DaysInOrder'
    BY <1>4, <1>9, <2>1, DaysWait
  <2>4. PricedAsItWas' /\ RestIsMeasured'
    BY <1>4, <2>1 DEF PricedAsItWas, RestIsMeasured
  <2>5. NothingInvented' /\ ~(money'.inventory < money.inventory)
    <3>1. /\ money.inventory \in Nat /\ money.pricedCharge \in Int
          /\ money.unpricedCharge \in Int /\ money.pricedDischarge \in Int
          /\ money.unpricedDischarge \in Int /\ counters.charged \in Nat
          /\ counters.discharged \in Nat
      BY <1>4 DEF SumTypes, Moneys
    <3>2. counters'.charged >= counters.charged /\ counters'.discharged >= counters.discharged
      BY <1>7, <3>1
    <3>3. counters'.charged \in Nat /\ counters'.discharged \in Nat
      BY <1>7, <3>1
    <3> QED BY <1>4, <1>7, <2>1, <3>1, <3>2, <3>3 DEF NothingInvented
  <2> QED BY <1>8, <1>11, <2>2, <2>3, <2>4, <2>5 DEF BalInv
<1>13. CASE ~fails
  <2>1. level.atMinimum \in BOOLEAN /\ level.content \in {NoValue, 1}
    <3>1. level \in Levels
      OBVIOUS
    <3>2. CASE level = [atMinimum |-> FALSE, content |-> NoValue]
      BY <3>2
    <3>3. CASE level = [atMinimum |-> TRUE, content |-> NoValue]
      BY <3>3
    <3>4. CASE level = [atMinimum |-> FALSE, content |-> 1]
      BY <3>4
    <3> QED BY Zenon, <3>1, <3>2, <3>3, <3>4 DEF Levels
  <2>2. /\ BookMoney(flow, power, length, tick + 1, level.atMinimum, level.content)
        /\ restRun' = RestAfter(power, length)
    BY <1>2, <1>13
  <2>3. /\ started' \in BOOLEAN /\ dischargedSince' \in BOOLEAN
        /\ money' \in Moneys /\ highWater' \in Nat /\ dayResult' \in Int
        /\ dayResults' \in [Days -> Int \cup {NoValue}]
        /\ idleCount' \in 0..Confirmations
        /\ earned' \in [Days -> Int] /\ restRun' \in Nat
        /\ PricedAsItWas' /\ NothingInvented' /\ DaysInOrder' /\ RestIsMeasured'
        /\ money'.inventory < money.inventory
             => \/ counters'.discharged > counters.discharged
                \/ restRun' >= Confirmations
    BY <1>2, <1>3, <2>1, <2>2, BookedPoll DEF flow, length
  <2>4. SumTypes'
    BY <1>3, <1>4, <1>7, <1>8, <1>9, <1>10, <2>3 DEF SumTypes
  <2> QED BY <1>8, <1>11, <2>3, <2>4 DEF BalInv
<1> QED BY <1>12, <1>13

\* A cached refresh: the interval waits or is given up.
LEMMA StaleKeeps ==
    ASSUME BalInv, StalePoll
    PROVE  BalInv' /\ money' = money /\ counters' = counters
<1>1. PICK lost \in BOOLEAN, fails \in BOOLEAN :
        LET now == tick + 1
            gone == lost \/ sampleAt = NoValue \/ now - sampleAt > MaxAge
        IN /\ tick' = now
           /\ energyAt' = IF gone THEN NoValue ELSE energyAt
           /\ inForce' = [inForce EXCEPT ![now] = tariffNow]
           /\ restRun' = IF gone /\ ~fails THEN 0 ELSE restRun
           /\ LET history == Observed(priceHistory, now, tariffNow)
              IN priceHistory' = IF gone THEN Consumed(history, now) ELSE priceHistory
           /\ IF fails
              THEN UNCHANGED <<started, moneyDay, dayResult, dayResults>>
              ELSE /\ started' = StartedBy(tariffNow)
                   /\ IF started'
                      THEN AdvanceDay(money, money, now)
                      ELSE UNCHANGED <<moneyDay, dayResult, dayResults>>
           /\ idleCount' = IF gone /\ started' /\ ~fails THEN 0 ELSE idleCount
  BY Zenon DEF StalePoll
<1> DEFINE gone == lost \/ sampleAt = NoValue \/ (tick + 1) - sampleAt > MaxAge
<1>2. /\ tick' = tick + 1 /\ energyAt' = (IF gone THEN NoValue ELSE energyAt)
      /\ inForce' = [inForce EXCEPT ![tick + 1] = tariffNow]
      /\ restRun' = (IF gone /\ ~fails THEN 0 ELSE restRun)
      /\ gone => priceHistory' = Consumed(Observed(priceHistory, tick + 1, tariffNow), tick + 1)
      /\ ~gone => priceHistory' = priceHistory
      /\ fails => UNCHANGED <<started, moneyDay, dayResult, dayResults>>
      /\ ~fails => /\ started' = StartedBy(tariffNow)
                   /\ started' => AdvanceDay(money, money, tick + 1)
                   /\ ~started' => UNCHANGED <<moneyDay, dayResult, dayResults>>
      /\ idleCount' = (IF gone /\ started' /\ ~fails THEN 0 ELSE idleCount)
  BY <1>1
<1> HIDE DEF gone
<1>3. /\ tick < LastStep
      /\ UNCHANGED <<tariffNow, sampleAt, counters, money, highWater, dischargedSince,
                     asItWas, earned>>
  BY DEF StalePoll
<1>4. /\ SumTypes /\ HistoryIsTrue /\ PricedAsItWas /\ NothingInvented
      /\ DaysInOrder /\ RestIsMeasured
  BY DEF BalInv
<1>5. /\ inForce' \in [1..LastStep -> Tariffs] /\ tick + 1 \in 1..LastStep
      /\ inForce'[tick + 1] = tariffNow
      /\ \A t \in 1..LastStep : t # tick + 1 => inForce'[t] = inForce[t]
  BY <1>2, <1>3, <1>4, InForceGrows
<1>6. tick \in Nat /\ tick' \in 0..LastStep
  BY <1>2, <1>4, <1>5 DEF SumTypes
<1>7. /\ sampleAt' \in 0..tick' \cup {NoValue} /\ energyAt' \in {sampleAt', NoValue}
  <2>1. sampleAt \in 0..tick \cup {NoValue} /\ energyAt \in {sampleAt, NoValue}
    BY <1>4 DEF SumTypes
  <2>2. 0..tick \subseteq 0..tick'
    BY <1>2, <1>6
  <2> QED BY <1>2, <1>3, <2>1, <2>2
<1>8. /\ priceHistory' \in Seq([at : 0..LastStep, snap : Tariffs])
      /\ priceHistory' # <<>> /\ HistoryIsTrue'
  <2>1. CASE gone
    BY <1>2, <1>3, <1>4, <2>1, HistoryStarts
  <2>2. CASE ~gone
    <3>1. priceHistory' = priceHistory /\ energyAt' = energyAt /\ tariffNow' = tariffNow
      BY <1>2, <1>3, <2>2
    <3>2. priceHistory \in Seq([at : 0..LastStep, snap : Tariffs]) /\ priceHistory # <<>>
      BY <1>4 DEF SumTypes
    <3>3. /\ Last(priceHistory).snap = tariffNow
          /\ \A i \in 1..Len(priceHistory) : priceHistory[i].at <= tick
      BY <1>4 DEF HistoryIsTrue
    <3>4. Len(priceHistory) \in Nat /\ Len(priceHistory) >= 1
      BY <3>2
    <3>5. \A i \in 1..Len(priceHistory) : priceHistory[i].at <= tick'
      <4> TAKE i \in 1..Len(priceHistory)
      <4>1. priceHistory[i].at <= tick
        BY <3>3
      <4>2. priceHistory[i].at \in Int
        <5> DEFINE Entries == [at : 0..LastStep, snap : Tariffs]
        <5>1. priceHistory \in Seq(Entries)
          BY <3>2
        <5> HIDE DEF Entries
        <5>2. priceHistory[i] \in Entries
          BY <5>1
        <5> QED BY <5>2 DEF Entries
      <4> QED BY <1>2, <1>6, <4>1, <4>2
    <3>6. SnapshotFrom(priceHistory, tick + 1) = tariffNow
      <4> DEFINE now == tick + 1
      <4>1. now \in Int /\ now - 1 = tick
        BY <1>6
      <4> HIDE DEF now
      <4>2. SnapshotFrom(priceHistory, now) = Last(priceHistory).snap
        BY <3>3, <3>4, <4>1, NewestCounts
      <4> QED BY <3>3, <4>2 DEF now
    <3>7. ASSUME energyAt # NoValue, NEW t \in (energyAt + 1)..tick'
          PROVE  SnapshotFrom(priceHistory, t) = inForce'[t]
      <4>1. energyAt \in 0..tick
        BY <1>4, <3>7 DEF SumTypes
      <4>2. CASE t = tick + 1
        BY <1>5, <3>6, <4>2
      <4>3. CASE t # tick + 1
        <5>0. t \in Int /\ energyAt \in Int /\ 0 <= energyAt /\ energyAt + 1 <= t /\ t <= tick + 1
          BY <1>2, <1>6, <3>7, <4>1
        <5>1. t <= tick /\ 1 <= t /\ tick + 1 <= LastStep /\ LastStep \in Int
          BY <1>5, <1>6, <4>3, <5>0, BalanceBounds
        <5>2. t \in (energyAt + 1)..tick /\ t \in 1..LastStep
          BY <1>6, <5>0, <5>1
        <5> QED BY <1>4, <1>5, <3>7, <4>3, <5>2 DEF HistoryIsTrue
      <4> QED BY <4>2, <4>3
    <3> QED BY Zenon, <3>1, <3>2, <3>3, <3>5, <3>7 DEF HistoryIsTrue
  <2> QED BY <2>1, <2>2
<1>9. /\ started' \in BOOLEAN /\ DaysInOrder' /\ dayResult' \in Int
      /\ dayResults' \in [Days -> Int \cup {NoValue}]
  <2>1. started' \in BOOLEAN
    BY <1>2, <1>4 DEF StartedBy, SumTypes
  <2>2. CASE fails \/ ~started'
    <3>1. UNCHANGED <<moneyDay, dayResult, dayResults>>
      BY <1>2, <2>2
    <3>2. started' = started
      <4>1. CASE fails
        BY <1>2, <4>1
      <4>2. CASE ~fails
        <5>1. ~started
          BY <1>2, <2>2, <4>2 DEF StartedBy
        <5> QED BY <1>4, <2>1, <2>2, <4>2, <5>1 DEF SumTypes
      <4> QED BY <4>1, <4>2
    <3>3. DaysInOrder'
      BY <1>2, <1>3, <1>4, <3>1, <3>2, DaysWait
    <3> QED BY <1>4, <2>1, <3>1, <3>3 DEF SumTypes
  <2>3. CASE ~fails /\ started'
    <3>1. AdvanceDay(money, money, tick + 1) /\ started' = TRUE
      BY <1>2, <2>1, <2>3
    <3>2. /\ moneyDay' = DayOf(tick + 1)
          /\ dayResults' = IF NewDay(tick + 1) /\ moneyDay # NoValue
                           THEN [dayResults EXCEPT ![moneyDay] = dayResult] ELSE dayResults
          /\ dayResult' = (IF NewDay(tick + 1) THEN 0 ELSE dayResult)
                          + RawResult(money) - RawResult(money)
      BY <3>1 DEF AdvanceDay
    <3>3. dayResult' = (IF NewDay(tick + 1) THEN 0 ELSE dayResult) + 0
      <4>1. money \in Moneys /\ (IF NewDay(tick + 1) THEN 0 ELSE dayResult) \in Int
        BY <1>4 DEF SumTypes
      <4>2. RawResult(money) \in Int
        BY <4>1, ResultType
      <4> QED BY <3>2, <4>1, <4>2
    <3>4. earned' = [earned EXCEPT ![DayOf(tick + 1)] = @ + 0]
      <4>1. DayOf(tick + 1) \in Days
        BY <1>5, DayIsDay
      <4> QED BY <1>3, <1>4, <4>1 DEF SumTypes
    <3> DEFINE gain == 0
    <3>5. /\ gain \in Int /\ earned' = [earned EXCEPT ![DayOf(tick + 1)] = @ + gain]
          /\ dayResult' = (IF NewDay(tick + 1) THEN 0 ELSE dayResult) + gain
      BY <3>3, <3>4
    <3> HIDE DEF gain
    <3>6. /\ DaysInOrder' /\ dayResult' \in Int
          /\ dayResults' \in [Days -> Int \cup {NoValue}]
      BY <1>2, <1>3, <1>4, <3>1, <3>2, <3>5, DayAdvances
    <3> QED BY <2>1, <3>6
  <2> QED BY <2>2, <2>3, <2>1
<1>10. idleCount' \in 0..Confirmations /\ restRun' \in Nat /\ RestIsMeasured'
  <2>1. idleCount \in 0..Confirmations /\ restRun \in Nat /\ idleCount <= restRun
        /\ Confirmations \in Nat
    BY <1>4, BalanceBounds DEF SumTypes, RestIsMeasured
  <2>2. ~started' => ~started
    BY <1>2 DEF StartedBy
  <2>3. CASE gone /\ started' /\ ~fails
    BY <1>2, <2>1, <2>3 DEF RestIsMeasured
  <2>4. CASE ~(gone /\ started' /\ ~fails)
    <3>1. idleCount' = idleCount /\ (~started => idleCount = 0)
      BY <1>2, <1>4, <2>4 DEF RestIsMeasured
    <3>2. CASE gone /\ ~fails
      <4>1. ~started' /\ idleCount' = 0 /\ restRun' = 0
        BY <1>2, <2>2, <2>4, <3>1, <3>2
      <4> QED BY <2>1, <4>1 DEF RestIsMeasured
    <3>3. CASE ~(gone /\ ~fails)
      <4>1. restRun' = restRun
        BY <1>2, <3>3
      <4> QED BY <2>1, <2>2, <3>1, <4>1 DEF RestIsMeasured
    <3> QED BY <3>2, <3>3
  <2> QED BY <2>3, <2>4
<1>11. SumTypes'
  BY <1>3, <1>4, <1>5, <1>6, <1>7, <1>8, <1>9, <1>10 DEF SumTypes
<1>12. PricedAsItWas' /\ NothingInvented'
  BY <1>3, <1>4 DEF PricedAsItWas, NothingInvented
<1> QED BY <1>3, <1>8, <1>9, <1>10, <1>11, <1>12 DEF BalInv

\* In the beginning nothing is known and nothing is sums.
LEMMA BalanceBegins == BalInit => BalInv
<1> SUFFICES ASSUME BalInit PROVE BalInv
  OBVIOUS
<1>1. /\ LastStep \in Nat /\ Confirmations \in Nat
  BY BalanceBounds
<1>2. Off \in Tariffs
  BY DEF Off, Tariffs
<1> DEFINE entry == [at |-> 0, snap |-> Off]
           Entries == [at : 0..LastStep, snap : Tariffs]
<1>3. entry \in Entries /\ priceHistory = <<entry>> /\ entry.at = 0 /\ entry.snap = Off
  BY <1>1, <1>2 DEF BalInit
<1> HIDE DEF entry, Entries
<1>4. /\ priceHistory \in Seq(Entries) /\ priceHistory # <<>>
      /\ Len(priceHistory) = 1 /\ priceHistory[1] = entry
  BY <1>3
<1>5. money \in Moneys /\ money.inventory = 0
  BY DEF BalInit, ZeroMoney, Moneys
<1>6. SumTypes
  <2>1. /\ tick \in 0..LastStep /\ tariffNow \in Tariffs
        /\ priceHistory \in Seq([at : 0..LastStep, snap : Tariffs]) /\ priceHistory # <<>>
    BY <1>1, <1>2, <1>4 DEF BalInit, Entries
  <2>2. sampleAt = NoValue /\ energyAt = NoValue
    BY DEF BalInit
  <2>3. counters \in [charged : Nat, discharged : Nat, grid : Nat, pv : Nat]
    BY DEF BalInit
  <2>4. /\ dayResults \in [Days -> Int \cup {NoValue}] /\ earned \in [Days -> Int]
        /\ inForce \in [1..LastStep -> Tariffs]
    BY <1>2 DEF BalInit
  <2>5. started = FALSE /\ dischargedSince = FALSE
    BY Zenon DEF BalInit
  <2>6. highWater = 0 /\ dayResult = 0 /\ idleCount = 0 /\ restRun = 0
    BY Zenon DEF BalInit
  <2>7. /\ highWater \in Nat /\ dayResult \in Int /\ idleCount \in 0..Confirmations
        /\ restRun \in Nat
    BY <1>1, <2>6
  <2> QED BY <1>5, <2>1, <2>2, <2>3, <2>4, <2>5, <2>7 DEF SumTypes
<1>7. HistoryIsTrue
  <2>1. Last(priceHistory).snap = tariffNow
    BY <1>3, <1>4 DEF Last, BalInit
  <2>2. \A i \in 1..Len(priceHistory) : priceHistory[i].at <= tick
    BY <1>3, <1>4 DEF BalInit
  <2>3. energyAt = NoValue
    BY DEF BalInit
  <2> QED BY <2>1, <2>2, <2>3 DEF HistoryIsTrue
<1>8. PricedAsItWas /\ NothingInvented
  BY DEF BalInit, PricedAsItWas, NothingInvented, ZeroMoney
<1>9. DaysInOrder /\ RestIsMeasured
  BY DEF BalInit, DaysInOrder, RestIsMeasured
<1> QED BY <1>6, <1>7, <1>8, <1>9 DEF BalInv

\* A step that changes nothing.
LEMMA BalanceRests == ASSUME BalInv, UNCHANGED balVars PROVE BalInv'
<1>1. UNCHANGED <<tick, tariffNow, priceHistory, sampleAt, energyAt, counters, started, money,
                  highWater, moneyDay, dayResult, dayResults, idleCount, dischargedSince,
                  inForce, asItWas, earned, restRun>>
  BY DEF balVars
<1>2. SumTypes' /\ HistoryIsTrue'
  BY <1>1 DEF BalInv, SumTypes, HistoryIsTrue
<1>3. PricedAsItWas' /\ NothingInvented' /\ DaysInOrder' /\ RestIsMeasured'
  BY <1>1 DEF BalInv, PricedAsItWas, NothingInvented, DaysInOrder, RestIsMeasured
<1> QED BY <1>2, <1>3 DEF BalInv

\* The balance's invariant: the snapshots kept are those that were in force
\* in every tick still to be sums, so that the sums are those of the
\* prices as they were (_price_history, accounting_segments); no energy is
\* accounted twice; the days follow each other; rest is confirmed by rest.
THEOREM BalanceInvariant == BalSpec => []BalInv
<1>1. BalInv /\ [BalNext]_balVars => BalInv'
  BY TariffKeeps, FreshKeeps, StaleKeeps, BalanceRests DEF BalNext, Ended
<1> QED BY <1>1, BalanceBegins, PTL DEF BalSpec

\* Every unit of energy is valued once, at the price of its time, and on the
\* right day; the inventory is corrected only after rest that was sums, and
\* no interval reaches back over a gap (_accumulate_economics_interval,
\* _battery_energy_interval).
THEOREM BalanceTrue == BalSpec => BalanceIsTrue
<1>1. BalInv => PricedAsItWas /\ NothingInvented /\ DaysAddUp
  BY DEF BalInv, DaysInOrder, DaysAddUp
<1>2. ASSUME BalInv, [BalNext]_balVars
      PROVE  /\ [money'.inventory < money.inventory
                 => \/ counters'.discharged > counters.discharged
                    \/ restRun' >= Confirmations]_balVars
             /\ [counters'.charged + counters'.discharged
                 - counters.charged - counters.discharged <= MaxAge]_balVars
  <2>1. money.inventory \in Nat /\ counters.charged \in Nat /\ counters.discharged \in Nat
        /\ MaxAge \in Nat
    BY <1>2, BalanceBounds DEF BalInv, SumTypes, Moneys
  <2>2. CASE FreshPoll
    BY <1>2, <2>2, FreshKeeps
  <2>3. CASE StalePoll
    <3>1. money' = money /\ counters' = counters
      BY <1>2, <2>3, StaleKeeps
    <3> QED BY <2>1, <3>1
  <2>4. CASE ChangeTariff
    <3>1. money' = money /\ counters' = counters
      BY <2>4 DEF ChangeTariff
    <3> QED BY <2>1, <3>1
  <2>5. CASE UNCHANGED balVars
    BY <2>5
  <2> QED BY <1>2, <2>2, <2>3, <2>4, <2>5 DEF BalNext, Ended
<1>3. BalSpec => []BalInv
  BY BalanceInvariant
<1> QED BY <1>1, <1>2, <1>3, PTL DEF BalSpec, BalanceIsTrue, CorrectedAtRest, NoBridgedGap
=============================================================================
