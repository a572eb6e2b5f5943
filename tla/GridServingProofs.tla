------------------------- MODULE GridServingProofs -------------------------
(***************************************************************************)
(* What GridServing promises, for any hysteresis and any set of deciders,  *)
(* and that the setpoint is what was ordered, for any order, reference and *)
(* scale.                                                                  *)
(***************************************************************************)
EXTENDS GridServing, Setpoint, TLAPS

\* The blocks read since the pause began pay for the wait, and after the wait
\* for every count of the release; a block not counted yet is still to be used.
WaitIsPaid ==
    held => since + wait >= HysteresisCycles + (IF "wait" \in counted THEN 0 ELSE 1)

ReleaseIsPaid ==
    held /\ wait = 0 =>
        \/ since = 2 * HysteresisCycles
        \/ since >= HysteresisCycles + rounds["release"]
                    + (IF "release" \in counted THEN 0 ELSE 1)

PauseInv == PauseTypeOK /\ WaitIsPaid /\ ReleaseIsPaid
----------------------------------------------------------------------------
LEMMA RoundsTypes ==
    ASSUME PauseTypeOK, NEW c \in Confirmed, NEW m
    PROVE  /\ Rounds(c, m) \in 0..HysteresisCycles
           /\ Rounds(c, m) <= rounds[c] + (IF c \in counted THEN 0 ELSE 1)
           /\ Reached(c, m) => Fulfils(c, m)
  BY HysteresisAssumption DEF Rounds, Reached, UpTo, PauseTypeOK

LEMMA SetRounds ==
    ASSUME PauseTypeOK, NEW c \in Confirmed, NEW n \in 0..HysteresisCycles,
           NEW d \in Confirmed, NEW k \in 0..HysteresisCycles
    PROVE  /\ [rounds EXCEPT ![c] = n] \in [Confirmed -> 0..HysteresisCycles]
           /\ [rounds EXCEPT ![c] = n][c] = n
           /\ [rounds EXCEPT ![c] = n, ![d] = k] \in [Confirmed -> 0..HysteresisCycles]
           /\ [rounds EXCEPT ![c] = n, ![d] = k][d] = k
  BY DEF PauseTypeOK

\* An evaluation keeps the types of what it has measured.
LEMMA EvaluatedTypes ==
    ASSUME PauseTypeOK, NEW by, Evaluated(by)
    PROVE  /\ turn' = turn /\ turn' \in Turns /\ socKnown' = TRUE
           /\ {shown', arrived'} \subseteq Readings \cup {Unread, NoReading}
           /\ row' \in 0..HysteresisCycles
           /\ Seen(by) = shown'
  <1>1. row' \in 0..HysteresisCycles
    BY HysteresisAssumption DEF Evaluated, UpTo, PauseTypeOK
  <1> QED BY <1>1 DEF Evaluated, Seen, PauseTypeOK

\* The blocks since the pause began are counted on, or anew.
LEMMA SinceTypes ==
    ASSUME PauseTypeOK, CountsBlocks
    PROVE  /\ since' \in 0..(2 * HysteresisCycles)
           /\ held /\ held' => since' = since
  BY HysteresisAssumption DEF CountsBlocks, PauseTypeOK

\* A step of the machine leads from pause to pause as it has to.
LEMMA StepKeeps ==
    ASSUME PauseInv, NEW by \in {"poll", "worker"}, Step(by)
    PROVE  PauseInv'
<1> DEFINE m == Seen(by)
<1>0. /\ PauseTypeOK /\ HysteresisCycles \in Nat \ {0} /\ wait \in 0..HysteresisCycles
      /\ since \in 0..(2 * HysteresisCycles) /\ rounds \in [Confirmed -> 0..HysteresisCycles]
      /\ held \in BOOLEAN /\ counted \subseteq Confirmed \cup {"wait"}
  BY HysteresisAssumption DEF PauseInv, PauseTypeOK
<1>1. /\ turn' \in Turns /\ socKnown' \in BOOLEAN
      /\ {shown', arrived'} \subseteq Readings \cup {Unread, NoReading}
      /\ row' \in 0..HysteresisCycles
  BY <1>0, EvaluatedTypes DEF Step
<1>2. since' \in 0..(2 * HysteresisCycles) /\ (held /\ held' => since' = since)
  BY <1>0, SinceTypes DEF Step
<1>3. {"charge", "import", "release"} \subseteq Confirmed
  BY DEF Confirmed
<1> SUFFICES /\ counted' \subseteq Confirmed \cup {"wait"}
             /\ held' \in BOOLEAN /\ wait' \in 0..HysteresisCycles
             /\ rounds' \in [Confirmed -> 0..HysteresisCycles]
             /\ storage' \in {"zero", "meter", "charge", "unsure"}
             /\ WaitIsPaid' /\ ReleaseIsPaid'
  BY <1>1, <1>2 DEF PauseInv, PauseTypeOK
<1> HIDE DEF m
<1>4. CASE WatchesCharge(by)
  <2>1. rounds' \in [Confirmed -> 0..HysteresisCycles]
    BY <1>0, <1>3, <1>4, RoundsTypes, SetRounds DEF WatchesCharge
  <2> QED BY <1>0, <1>3, <1>4, <2>1 DEF WatchesCharge, Stops, WaitIsPaid, ReleaseIsPaid
<1>5. CASE PauseBegins(by)
  <2>1. rounds' \in [Confirmed -> 0..HysteresisCycles]
    BY <1>0, <1>3, <1>5, SetRounds DEF PauseBegins
  <2>2. held' \in BOOLEAN /\ storage' \in {"zero", "unsure"}
    BY <1>0, <1>5 DEF PauseBegins, Starts
  <2>3. CASE held'
    <3>1. wait' = HysteresisCycles /\ counted' = counted \cup {"charge", "wait"}
      BY <1>5, <2>3 DEF PauseBegins, NewWait
    <3>2. WaitIsPaid' /\ ReleaseIsPaid'
      <4>1. PICK n \in Nat : n = since'
        BY <1>2, HysteresisAssumption
      <4>2. HysteresisCycles \in Nat /\ HysteresisCycles # 0
        BY HysteresisAssumption
      <4>3. n + HysteresisCycles >= HysteresisCycles + 0
        BY <4>2
      <4>4. WaitIsPaid'
        BY <3>1, <4>1, <4>3 DEF WaitIsPaid
      <4>5. ReleaseIsPaid'
        BY <3>1, <4>2 DEF ReleaseIsPaid
      <4> QED BY <4>4, <4>5
    <3> QED BY <1>0, <1>3, <2>1, <2>2, <3>1, <3>2
  <2>4. CASE ~held'
    BY <1>0, <1>3, <1>5, <2>1, <2>2, <2>4 DEF PauseBegins, WaitIsPaid, ReleaseIsPaid
  <2> QED BY <2>3, <2>4
<1>6. CASE ImportEndsPause(by)
  <2>1. rounds' \in [Confirmed -> 0..HysteresisCycles]
    BY <1>0, <1>3, <1>6, SetRounds DEF ImportEndsPause
  <2> QED BY <1>0, <1>3, <1>6, <2>1 DEF ImportEndsPause, Stops, WaitIsPaid, ReleaseIsPaid
<1>7. CASE Waits(by)
  <2>1. /\ rounds' \in [Confirmed -> 0..HysteresisCycles] /\ rounds'["release"] = 0
    BY <1>0, <1>3, <1>7, RoundsTypes, SetRounds DEF Waits
  <2>2. held' = TRUE /\ storage' \in {"zero", "unsure"}
    BY <1>7, <1>0 DEF Waits, Starts
  <2>3. /\ wait' = (IF "wait" \in counted THEN wait ELSE wait - 1) /\ wait > 0
        /\ counted' = counted \cup {"import", "wait", "release"}
    BY <1>7 DEF Waits, Shorter
  <2>4. since' = since /\ since + wait >= HysteresisCycles + (IF "wait" \in counted THEN 0 ELSE 1)
    BY <1>2, <1>7, <2>2 DEF Waits, PauseInv, WaitIsPaid
  <2> QED BY <1>0, <1>3, <2>1, <2>2, <2>3, <2>4 DEF WaitIsPaid, ReleaseIsPaid
<1>8. CASE PauseReleases(by)
  <2>1. rounds' \in [Confirmed -> 0..HysteresisCycles]
    BY <1>0, <1>3, <1>8, RoundsTypes, SetRounds DEF PauseReleases
  <2> QED BY <1>0, <1>3, <1>8, <2>1 DEF PauseReleases, Stops, WaitIsPaid, ReleaseIsPaid
<1>9. CASE PauseGoesOn(by)
  <2>1. /\ rounds' \in [Confirmed -> 0..HysteresisCycles]
        /\ rounds'["release"] = Rounds("release", Seen(by))
    BY <1>0, <1>3, <1>9, RoundsTypes, SetRounds DEF PauseGoesOn
  <2>2. /\ rounds'["release"] \in 0..HysteresisCycles
        /\ rounds'["release"] <= rounds["release"] + (IF "release" \in counted THEN 0 ELSE 1)
    BY <1>0, <1>3, <2>1, RoundsTypes
  <2>3. held' = TRUE /\ storage' \in {"zero", "unsure"}
    BY <1>9, <1>0 DEF PauseGoesOn, Starts
  <2>4. /\ held /\ wait = 0 /\ wait' = 0
        /\ counted' = counted \cup {"import", "release"}
    BY <1>9 DEF PauseGoesOn
  <2>5. since' = since
    BY <1>2, <2>3, <2>4
  <2>6. WaitIsPaid'
    BY <1>0, <2>3, <2>4, <2>5 DEF PauseInv, WaitIsPaid
  <2>7. ReleaseIsPaid'
    BY <1>0, <1>3, <2>2, <2>3, <2>4, <2>5 DEF PauseInv, ReleaseIsPaid
  <2> QED BY <1>0, <1>3, <2>1, <2>3, <2>4, <2>6, <2>7
<1> QED BY <1>4, <1>5, <1>6, <1>7, <1>8, <1>9 DEF Step

LEMMA PauseStepPreserves == PauseInv /\ [PauseNext]_pauseVars => PauseInv'
<1> SUFFICES ASSUME PauseInv, [PauseNext]_pauseVars PROVE PauseInv'
  OBVIOUS
<1>0. /\ PauseTypeOK /\ HysteresisCycles \in Nat \ {0} /\ wait \in 0..HysteresisCycles
      /\ since \in 0..(2 * HysteresisCycles) /\ rounds \in [Confirmed -> 0..HysteresisCycles]
      /\ rounds["release"] \in 0..HysteresisCycles
  BY HysteresisAssumption DEF PauseInv, PauseTypeOK, Confirmed
<1>1. CASE BlockArrives
  <2>1. /\ since' \in 0..(2 * HysteresisCycles)
        /\ held => since' = UpTo(since + 1, 2 * HysteresisCycles)
    BY <1>0, <1>1 DEF BlockArrives, UpTo
  <2>2. WaitIsPaid' /\ ReleaseIsPaid'
    BY <1>0, <1>1, <2>1 DEF BlockArrives, UpTo, PauseInv, WaitIsPaid, ReleaseIsPaid
  <2> QED BY <1>0, <1>1, <2>1, <2>2 DEF BlockArrives, PauseInv, PauseTypeOK
<1>2. CASE BlockServesAgain \/ TurnChanges \/ PauseLost \/ UNCHANGED pauseVars
  BY <1>0, <1>2 DEF BlockServesAgain, TurnChanges, PauseLost, pauseVars, pauseMeasured, pauseState,
     PauseInv, PauseTypeOK, WaitIsPaid, ReleaseIsPaid
<1>3. ASSUME NEW by \in {"poll", "worker"}, ManualFirst(by) PROVE PauseInv'
  <2>1. since' \in 0..(2 * HysteresisCycles) /\ (held => since' = since)
    BY <1>0, <1>3, SinceTypes DEF ManualFirst
  <2> QED BY <1>0, <1>3, <2>1, EvaluatedTypes
          DEF ManualFirst, PauseInv, PauseTypeOK, WaitIsPaid, ReleaseIsPaid
<1>4. ASSUME NEW by \in {"poll", "worker"}, NotEligible(by) PROVE PauseInv'
  <2>1. since' \in 0..(2 * HysteresisCycles)
    BY <1>0, <1>4, SinceTypes DEF NotEligible
  <2>2. rounds' \in [Confirmed -> 0..HysteresisCycles]
    BY <1>0, <1>4 DEF NotEligible, NoRounds
  <2>3. WaitIsPaid' /\ ReleaseIsPaid'
    BY <1>4 DEF NotEligible, WaitIsPaid, ReleaseIsPaid
  <2>4. /\ held' = FALSE /\ wait' = 0 /\ counted' = counted
        /\ storage' \in {"zero", "meter", "charge", "unsure"}
    BY <1>4 DEF NotEligible
  <2>5. Evaluated(by)
    BY <1>4 DEF NotEligible
  <2>6. /\ turn' \in Turns /\ socKnown' = TRUE /\ row' \in 0..HysteresisCycles
        /\ {shown', arrived'} \subseteq Readings \cup {Unread, NoReading}
    BY <1>0, <2>5, EvaluatedTypes
  <2>7. counted' \subseteq Confirmed \cup {"wait"} /\ wait' \in 0..HysteresisCycles
    BY <1>0, <2>4 DEF PauseTypeOK
  <2> QED BY <2>1, <2>2, <2>3, <2>4, <2>6, <2>7 DEF PauseInv, PauseTypeOK
<1>5. CASE SocMissing
  <2>1. since' \in 0..(2 * HysteresisCycles)
    BY <1>0, <1>5, SinceTypes DEF SocMissing
  <2> QED BY <1>0, <1>5, <2>1 DEF SocMissing, PauseInv, PauseTypeOK, WaitIsPaid, ReleaseIsPaid
<1> QED BY <1>1, <1>2, <1>3, <1>4, <1>5, StepKeeps DEF PauseNext

\* In every reachable state the pause has paid for its wait and its release with
\* measurements of its own.
THEOREM PauseInvariant == PauseSpec => []PauseInv
<1>1. PauseInit => PauseInv
  <2> SUFFICES ASSUME PauseInit PROVE PauseTypeOK /\ ~held
    BY DEF PauseInv, WaitIsPaid, ReleaseIsPaid
  <2>1. rounds \in [Confirmed -> 0..HysteresisCycles]
    BY HysteresisAssumption DEF PauseInit, NoRounds
  <2>2. /\ since = 0 /\ wait = 0 /\ row = 0
        /\ 0 \in 0..HysteresisCycles /\ 0 \in 0..(2 * HysteresisCycles)
    BY HysteresisAssumption DEF PauseInit
  <2> QED BY <2>1, <2>2 DEF PauseInit, PauseTypeOK
<1> QED BY <1>1, PauseStepPreserves, PTL DEF PauseSpec

\* The counters stay within the hysteresis, whoever evaluates how often.
THEOREM PauseTypeCorrect == PauseSpec => []PauseTypeOK
  BY PauseInvariant, PTL DEF PauseInv

\* A pause ends after two hystereses of measurements or on confirmed import.
THEOREM WaitIsKept == PauseSpec => WaitRespected
<1>1. ASSUME PauseInv, PauseNext, held, ~held', turn = "pause", socKnown'
      PROVE  since >= 2 * HysteresisCycles \/ ImportConfirmed
  <2>0. /\ PauseTypeOK /\ HysteresisCycles \in Nat \ {0}
        /\ since \in 0..(2 * HysteresisCycles) /\ rounds \in [Confirmed -> 0..HysteresisCycles]
        /\ {"charge", "import", "release"} \subseteq Confirmed
    BY <1>1, HysteresisAssumption DEF PauseInv, PauseTypeOK, Confirmed
  <2>1. PICK by \in {"poll", "worker"} :
               (ImportEndsPause(by) /\ Evaluated(by)) \/ PauseReleases(by)
    BY <1>1 DEF PauseNext, BlockArrives, BlockServesAgain, TurnChanges, PauseLost, pauseState,
       Step, WatchesCharge, PauseBegins, Waits, PauseGoesOn, Starts, ManualFirst, NotEligible,
       SocMissing
  <2>2. CASE ImportEndsPause(by) /\ Evaluated(by)
    <3>1. Rounds("import", Seen(by)) >= HysteresisCycles
      BY <2>2 DEF ImportEndsPause, Reached
    <3>2. Fulfils("import", Seen(by)) /\ rounds["import"] >= HysteresisCycles - 1
      BY <2>0, <2>2, <3>1, RoundsTypes DEF ImportEndsPause
    <3>3. shown'.grid = "import"
      BY <2>0, <2>2, <3>2, EvaluatedTypes DEF Fulfils
    <3> QED BY <3>2, <3>3 DEF ImportConfirmed
  <2>3. CASE PauseReleases(by)
    <3>1. wait = 0 /\ Rounds("release", Seen(by)) >= HysteresisCycles
      BY <2>3 DEF PauseReleases, Reached
    <3>2. /\ rounds["release"] \in 0..HysteresisCycles
          /\ HysteresisCycles <= rounds["release"] + (IF "release" \in counted THEN 0 ELSE 1)
      BY <2>0, <3>1, RoundsTypes
    <3> QED BY <1>1, <2>0, <3>1, <3>2 DEF PauseInv, ReleaseIsPaid
  <2> QED BY <2>1, <2>2, <2>3
<1> QED BY <1>1, PauseInvariant, PTL DEF PauseSpec, WaitRespected

\* Where the pause has the turn, a zero is the pause's.
THEOREM ZeroHasOwner == PauseSpec => ZeroIsOwned
<1>1. ASSUME NEW by \in {"poll", "worker"}, Step(by), storage' = "zero"
      PROVE  held'
  BY <1>1 DEF Step, WatchesCharge, PauseBegins, ImportEndsPause, Waits, PauseReleases, PauseGoesOn,
     Starts, Stops
<1>2. [PauseNext]_pauseVars =>
          [(\E by \in {"poll", "worker"} : Step(by)) /\ storage' = "zero" => held']_pauseVars
  BY <1>1
<1> QED BY <1>2, PTL DEF PauseSpec, ZeroIsOwned

\* A pause ends neither early nor unnoticed.
THEOREM PauseStaysKept == PauseSpec => PauseIsKept
  BY WaitIsKept, ZeroHasOwner, PTL DEF PauseIsKept

----------------------------------------------------------------------------
(* The setpoint                                                            *)

LEMMA PowersOfTen ==
    ASSUME NEW k \in 1..10
    PROVE  10 ^ k \in Nat /\ 10 ^ k > 0
<1>1. CASE k = 1
  <2>1. 10 ^ 1 = 10
    OBVIOUS
  <2>. QED BY <1>1, <2>1
<1>2. CASE k = 2
  <2>1. 10 ^ 2 = 100
    OBVIOUS
  <2>. QED BY <1>2, <2>1
<1>3. CASE k = 3
  <2>1. 10 ^ 3 = 1000
    OBVIOUS
  <2>. QED BY <1>3, <2>1
<1>4. CASE k = 4
  <2>1. 10 ^ 4 = 10000
    OBVIOUS
  <2>. QED BY <1>4, <2>1
<1>5. CASE k = 5
  <2>1. 10 ^ 5 = 100000
    OBVIOUS
  <2>. QED BY <1>5, <2>1
<1>6. CASE k = 6
  <2>1. 10 ^ 6 = 1000000
    OBVIOUS
  <2>. QED BY <1>6, <2>1
<1>7. CASE k = 7
  <2>1. 10 ^ 7 = 10000000
    OBVIOUS
  <2>. QED BY <1>7, <2>1
<1>8. CASE k = 8
  <2>1. 10 ^ 8 = 100000000
    OBVIOUS
  <2>. QED BY <1>8, <2>1
<1>9. CASE k = 9
  <2>1. 10 ^ 9 = 1000000000
    OBVIOUS
  <2>. QED BY <1>9, <2>1
<1>10. CASE k = 10
  <2>1. 10 ^ 10 = 10000000000
    OBVIOUS
  <2>. QED BY <1>10, <2>1
<1>11. \/ k = 1 \/ k = 2 \/ k = 3 \/ k = 4 \/ k = 5
       \/ k = 6 \/ k = 7 \/ k = 8 \/ k = 9 \/ k = 10
  OBVIOUS
<1>. QED BY <1>1, <1>2, <1>3, <1>4, <1>5, <1>6, <1>7, <1>8, <1>9, <1>10, <1>11

\* What int16 holds comes back as it was.
LEMMA RegisterRoundTrip ==
    ASSUME NEW n \in Int, Fits(n)
    PROVE  ToUnsigned16(n) \in Int /\ ToSigned16(ToUnsigned16(n)) = n
<1>1. CASE n >= 0
  <2>1. n % 65536 = n
    BY <1>1 DEF Fits
  <2>. QED BY <1>1, <2>1 DEF Fits, ToSigned16, ToUnsigned16
<1>2. CASE n < 0
  <2>1. n % 65536 = n + 65536
    BY <1>2 DEF Fits
  <2>. QED BY <1>2, <2>1 DEF Fits, ToSigned16, ToUnsigned16
<1>. QED BY <1>1, <1>2

\* Rounding moves by half a unit at most, and never beyond zero.
LEMMA RoundsToNearest ==
    ASSUME NEW n \in Int, NEW d \in Nat, d > 0
    PROVE  LET r == Rounded(n, d)
           IN  /\ r \in Int
               /\ 2 * (r * d - n) <= d /\ 2 * (n - r * d) <= d
               /\ n >= 0 => r >= 0
               /\ n <= 0 => r <= 0
<1>. DEFINE q == n \div d
            m == n % d
<1>1. q \in Int /\ m \in 0..(d - 1) /\ n = d * q + m
  OBVIOUS
<1>2. Rounded(n, d) = IF 2 * m < d \/ (2 * m = d /\ q % 2 = 0) THEN q ELSE q + 1
  BY DEF Rounded
<1>3. /\ Rounded(n, d) \in {q, q + 1}
      /\ Rounded(n, d) = q => 2 * m <= d
      /\ Rounded(n, d) = q + 1 => 2 * m >= d
  <2>. HIDE DEF q, m
  <2>. QED BY <1>1, <1>2
<1>. HIDE DEF q, m
<1>4. q * d = d * q /\ (q + 1) * d = d * q + d /\ d * q \in Int
  BY <1>1
<1>5. n >= 0 => q >= 0
  <2>1. SUFFICES ASSUME n >= 0, q <= -1 PROVE FALSE
    BY <1>1
  <2>2. d * q = -d - (-1 - q) * d /\ -1 - q \in Nat /\ (-1 - q) * d \in Nat
    BY <1>1, <2>1
  <2>. QED BY <1>1, <2>1, <2>2
<1>6. n <= 0 => q <= -1 \/ (q = 0 /\ m = 0)
  <2>1. SUFFICES ASSUME n <= 0, q >= 0 PROVE q = 0 /\ m = 0
    BY <1>1
  <2>2. q * d \in Nat /\ (q >= 1 => q * d = d + (q - 1) * d /\ (q - 1) * d \in Nat)
    BY <1>1, <2>1
  <2>. QED BY <1>1, <1>4, <2>1, <2>2
<1>7. CASE Rounded(n, d) = q
  <2>1. 2 * m <= d /\ q * d - n = -m /\ n - q * d = m
    BY <1>1, <1>3, <1>4, <1>7
  <2>2. n <= 0 => q <= 0
    BY <1>1, <1>6
  <2>. QED BY <1>1, <1>5, <1>7, <2>1, <2>2
<1>8. CASE Rounded(n, d) = q + 1
  <2>1. 2 * m >= d /\ (q + 1) * d - n = d - m /\ n - (q + 1) * d = m - d
    BY <1>1, <1>3, <1>4, <1>8
  <2>2. n <= 0 => q <= -1
    BY <1>1, <1>6, <2>1
  <2>. QED BY <1>1, <1>5, <1>8, <2>1, <2>2
<1>. QED BY <1>3, <1>7, <1>8

\* What may be ordered.
Orders == [watts : Watts, reference : References, scale : ScaleRegisters]

LEMMA OrderTypes ==
    ASSUME NEW o \in Orders
    PROVE  o.watts \in Int /\ o.reference \in Nat /\ o.scale \in Nat
<1>1. o.watts \in Watts /\ o.reference \in References /\ o.scale \in ScaleRegisters
  BY DEF Orders
<1>2. Watts \subseteq Int /\ References \subseteq Nat /\ \A n \in ScaleRegisters : n \in Nat
  BY SetpointAssumption
<1>. QED BY <1>1, <1>2

LEMMA ScaledOrder ==
    ASSUME NEW o \in Orders, o.reference # 0, IsScale(o.scale)
    PROVE  /\ Share(o) = 100 * Target(o) /\ Target(o) \in Int
           /\ o.watts >= 0 => Share(o) >= 0
           /\ o.watts <= 0 => Share(o) <= 0
           /\ Numerator(o, Share(o)) \in Int
           /\ o.watts >= 0 => Numerator(o, Share(o)) >= 0
           /\ o.watts <= 0 => Numerator(o, Share(o)) <= 0
           /\ Denominator(o) \in Nat /\ Denominator(o) > 0
<1>1. /\ o.watts \in Int /\ o.reference \in Nat /\ o.reference > 0 /\ o.scale \in Nat
  BY OrderTypes
<1>2. /\ Share(o) = 100 * Target(o) /\ Target(o) \in Int /\ Share(o) \in Int
      /\ o.watts >= 0 => Share(o) >= 0
      /\ o.watts <= 0 => Share(o) <= 0
  BY <1>1 DEF Share, Target, Magnitude
<1>3. ToSigned16(o.scale) \in -10..10
  BY DEF IsScale
<1>4. /\ Numerator(o, Share(o)) \in Int
      /\ o.watts >= 0 => Numerator(o, Share(o)) >= 0
      /\ o.watts <= 0 => Numerator(o, Share(o)) <= 0
  <2>. DEFINE k == -ToSigned16(o.scale)
              p == 10 ^ k
              s == Share(o)
  <2>1. CASE ToSigned16(o.scale) < 0
    <3>1. k \in 1..10
      BY <1>3, <2>1
    <3>2. p \in Nat /\ p > 0
      <4>. HIDE DEF k
      <4>. QED BY <3>1, PowersOfTen
    <3>3. Numerator(o, s) = s * p
      BY <2>1 DEF Numerator
    <3>. HIDE DEF p, s
    <3>4. s * p \in Int /\ (s >= 0 => s * p >= 0) /\ (s <= 0 => s * p <= 0)
      <4>1. s \in Int
        BY <1>2 DEF s
      <4>2. s >= 0 => s * p \in Nat
        BY <3>2, <4>1
      <4>3. s <= 0 => (-s) * p \in Nat /\ s * p = -((-s) * p)
        BY <3>2, <4>1
      <4>. QED BY <3>2, <4>1, <4>2, <4>3
    <3>. QED BY <1>2, <3>3, <3>4 DEF s
  <2>2. CASE ~(ToSigned16(o.scale) < 0)
    BY <1>2, <2>2 DEF Numerator
  <2>. QED BY <2>1, <2>2
<1>5. Denominator(o) \in Nat /\ Denominator(o) > 0
  <2>. DEFINE k == ToSigned16(o.scale)
              p == 10 ^ k
              r == o.reference
  <2>1. CASE k > 0
    <3>1. k \in 1..10
      BY <1>3, <2>1
    <3>2. p \in Nat /\ p > 0
      <4>. HIDE DEF k
      <4>. QED BY <3>1, PowersOfTen
    <3>3. Denominator(o) = r * p
      BY <2>1 DEF Denominator
    <3>4. r \in Nat /\ r > 0
      BY <1>1
    <3>. HIDE DEF p, r
    <3>5. r * p = p + (r - 1) * p /\ (r - 1) * p \in Nat
      BY <3>2, <3>4
    <3>. QED BY <3>2, <3>3, <3>5
  <2>2. CASE ~(k > 0)
    BY <1>1, <2>2 DEF Denominator
  <2>. QED BY <2>1, <2>2
<1>. QED BY <1>2, <1>4, <1>5

\* The register holds what its order makes of it.
RegisterHolds == (order = NoOrder /\ register = 0) \/ (order \in Orders /\ register = Raw(order))

LEMMA HeldIsTrue ==
    ASSUME NEW o \in Orders, o.watts # 0, Raw(o) # Unwritten
    PROVE  LET read == ToSigned16(Raw(o))
           IN  /\ 2 * Magnitude(read * Denominator(o) - Numerator(o, 100 * Target(o)))
                      <= Denominator(o)
               /\ o.watts > 0 => read >= 0
               /\ o.watts < 0 => read <= 0
<1>. DEFINE n == Numerator(o, Share(o))
            d == Denominator(o)
            r == Rounded(n, d)
<1>1. /\ o.reference # 0 /\ IsScale(o.scale) /\ Fits(r) /\ Raw(o) = ToUnsigned16(r)
  BY DEF Raw, Encoded
<1>2. /\ n \in Int /\ d \in Nat /\ d > 0 /\ n = Numerator(o, 100 * Target(o))
      /\ o.watts >= 0 => n >= 0
      /\ o.watts <= 0 => n <= 0
  BY <1>1, ScaledOrder
<1>3. o.watts \in Int
  BY OrderTypes
<1>. HIDE DEF n, d
<1>4. /\ r \in Int /\ 2 * (r * d - n) <= d /\ 2 * (n - r * d) <= d
      /\ n >= 0 => r >= 0
      /\ n <= 0 => r <= 0
  BY <1>2, RoundsToNearest
<1>. HIDE DEF r
<1>5. ToSigned16(Raw(o)) = r
  BY <1>1, <1>4, RegisterRoundTrip
<1>6. 2 * Magnitude(r * d - n) <= d
  <2>1. r * d \in Int
    BY <1>2, <1>4
  <2>. QED BY <1>2, <1>4, <2>1 DEF Magnitude
<1>. QED BY <1>2, <1>3, <1>4, <1>5, <1>6 DEF d

LEMMA HeldRegister == ASSUME RegisterHolds PROVE SetpointIsTrue
<1>1. CASE order = NoOrder /\ register = 0
  BY <1>1 DEF SetpointIsTrue, DeviceReadsTheOrder, ZeroIsAlwaysWritten, NoOrder
<1>2. CASE order \in Orders /\ register = Raw(order)
  <2>1. ZeroIsAlwaysWritten
    BY <1>2 DEF ZeroIsAlwaysWritten, Raw
  <2>2. DeviceReadsTheOrder
    BY <1>2, HeldIsTrue DEF DeviceReadsTheOrder
  <2>. QED BY <2>1, <2>2 DEF SetpointIsTrue
<1>. QED BY <1>1, <1>2 DEF RegisterHolds

\* Whatever is ordered, of whatever reference and scale: what the device reads
\* is within half a unit of what was meant, on the same side of zero, and a zero
\* is always written.
THEOREM SetpointStaysTrue == SetpointSpec => []SetpointIsTrue
<1>1. SetpointInit => RegisterHolds
  BY DEF SetpointInit, RegisterHolds
<1>2. RegisterHolds /\ [OrdersPower]_setpointVars => RegisterHolds'
  BY DEF RegisterHolds, OrdersPower, setpointVars, Orders, NoOrder, Raw, Encoded
<1>. QED BY <1>1, <1>2, HeldRegister, PTL DEF SetpointSpec
============================================================================
