----------------------------- MODULE PriceSlots ----------------------------
(***************************************************************************)
(* What price_optimizer does with the forecast of a price sensor: entries  *)
(* become slots, contradictions are cut out, the cheapest hours are chosen *)
(* and added to the hours already used.  A behaviour reads one forecast,   *)
(* of entries in any order, and plans with it as time passes.  Hours stand *)
(* for seconds; prices are in the configured unit.                         *)
(***************************************************************************)
EXTENDS Integers, FiniteSets, Sequences, SequencesExt

CONSTANTS
    Entries,        \* [start, end, price] a sensor may list
    MaxEntries,     \* of them in a forecast
    SlotHours,      \* default length of a slot, const.DEFAULT_PRICE_SLOT_MINUTES
    CycleEnd,       \* the end of the planning cycle, which begins at 0
    LastMoment,     \* bound: the clock stops here
    MaxWanted,      \* hours of charging
    Missing         \* no end, or a price that cannot be read

ASSUME SlotsAssumption ==
    /\ {SlotHours, CycleEnd, LastMoment, MaxWanted, MaxEntries} \subseteq Nat \ {0}
    /\ \A e \in Entries : e.start \in Nat /\ e.end \in Nat \cup {Missing}
                          /\ e.price \in Int \cup {Missing}

VARIABLES
    forecast,   \* the entries read
    moment,
    wanted,     \* selection_hours
    chosen,     \* plan.slots
    intervals   \* the cycle's intervals

slotVars == <<forecast, moment, wanted, chosen, intervals>>

Lower(a, b) == IF a < b THEN a ELSE b
Upper(a, b) == IF a < b THEN b ELSE a
Covers(s, t) == s.start <= t /\ t < s.end       \* PriceSlot.overlaps
HoursOf(S) == UNION {s.start..(s.end - 1) : s \in S}

-----------------------------------------------------------------------------
(* _finalize_slots                                                          *)

StartsOf(raw) == {e.start : e \in raw}
After(S, t) == {u \in S : u > t}
First(S) == CHOOSE t \in S : \A u \in S : t <= u

Gaps(raw) ==
    {First(After(StartsOf(raw), t)) - t :
        t \in {u \in StartsOf(raw) : After(StartsOf(raw), u) # {}}}

\* Without an end, or with a wrong one, an entry ends where the next begins.
EndOf(e, raw) ==
    LET next == After(StartsOf(raw), e.start) IN
    IF e.end # Missing /\ e.end > e.start THEN e.end
    ELSE IF next # {} THEN First(next)
    ELSE e.start + (IF Gaps(raw) = {} THEN SlotHours ELSE First(Gaps(raw)))

Finalized(raw) ==
    {[start |-> e.start, end |-> EndOf(e, raw), price |-> e.price] :
        e \in {r \in raw : r.price # Missing}}

-----------------------------------------------------------------------------
(* unambiguous_price_slots, current_price                                   *)

Boundaries(S) == {s.start : s \in S} \cup {s.end : s \in S}
At(S, t) == {s \in S : Covers(s, t)}
Apart(a, b) == a.end <= b.start \/ b.end <= a.start

Unambiguous(S) ==
    IF \A a, b \in S : a = b \/ Apart(a, b) THEN S
    ELSE {[start |-> t, end |-> First(After(Boundaries(S), t)),
           price |-> (CHOOSE s \in At(S, t) : TRUE).price] :
             t \in {u \in Boundaries(S) : Cardinality(At(S, u)) = 1}}

CurrentPrice(S, t) ==
    IF Cardinality(At(S, t)) = 1 THEN (CHOOSE s \in At(S, t) : TRUE).price ELSE Missing

-----------------------------------------------------------------------------
(* _cheapest_slots: each slot from now, up to the end, until enough is      *)
(* collected                                                                *)

ByPrice(a, b) == a.price < b.price \/ (a.price = b.price /\ a.start < b.start)

Part(s, now, hours) ==
    LET from == Upper(s.start, now)
    IN  [start |-> from, end |-> from + Lower(Lower(s.end, CycleEnd) - from, hours),
         price |-> s.price]

\* One turn of the loop: of the slots left, the cheapest, as far as hours are left.
TakesNext(was, now, hours) ==
    LET next == CHOOSE s \in was.left : \A u \in was.left : s = u \/ ByPrice(s, u)
        part == Part(next, now, hours - Cardinality(HoursOf(was.taken)))
    IN  [left |-> was.left \ {next},
         taken |-> was.taken \cup (IF part.start < part.end THEN {part} ELSE {})]

CheapestSlots(S, now, hours) ==
    LET turn[n \in 0..Cardinality(S)] ==
            IF n = 0 THEN [left |-> S, taken |-> {}] ELSE TakesNext(turn[n - 1], now, hours)
    IN  turn[Cardinality(S)].taken

-----------------------------------------------------------------------------
(* _merge_intervals                                                         *)

IntervalOf(s) == [start |-> s.start, end |-> s.end]

Joins(merged, i) ==
    IF merged # <<>> /\ i.start <= Last(merged).end
    THEN [merged EXCEPT ![Len(merged)].end = Upper(@, i.end)]
    ELSE Append(merged, i)

InCycle(S) ==
    {i \in {[start |-> Upper(j.start, 0), end |-> Lower(j.end, CycleEnd)] : j \in S} :
        i.start < i.end}

\* One turn of the loop: of the intervals left, the earliest.
MergesNext(was) ==
    LET next == CHOOSE i \in was.left : \A j \in was.left : i.start <= j.start
    IN  [left |-> was.left \ {next}, merged |-> Joins(was.merged, next)]

Merged(S) ==
    LET turn[n \in 0..Cardinality(InCycle(S))] ==
            IF n = 0 THEN [left |-> InCycle(S), merged |-> <<>>] ELSE MergesNext(turn[n - 1])
    IN  turn[Cardinality(InCycle(S))].merged

\* What _compute_budgeted_plan counts as used.
\* A slip: what was chosen is used to its end.
ElapsedWhole(S, now) == {i \in S : i.start < now}
ElapsedOf(S, now) ==
    {[start |-> i.start, end |-> Lower(i.end, now)] : i \in {j \in S : j.start < now}}

-----------------------------------------------------------------------------
SlotsInit ==
    /\ forecast \in {{}} \cup {ToSet(f) : f \in [1..MaxEntries -> Entries]}
    /\ moment = 0 /\ wanted = 0 /\ chosen = {} /\ intervals = <<>>

\* An evaluation now or later, for more or fewer hours.
PlansSlots ==
    /\ moment' \in moment..LastMoment /\ wanted' \in 0..MaxWanted
    /\ chosen' = CheapestSlots(Unambiguous(Finalized(forecast)), moment', wanted')
    /\ intervals' = Merged(ElapsedOf(ToSet(intervals), moment')
                              \cup {IntervalOf(s) : s \in chosen'})
    /\ UNCHANGED forecast

SlotsSpec == SlotsInit /\ [][PlansSlots]_slotVars

-----------------------------------------------------------------------------
Intervals == [start : 0..CycleEnd, end : 0..CycleEnd]

\* The types; nothing chosen is empty, past or beyond the cycle.
SlotTypeOK ==
    /\ forecast \subseteq Entries /\ moment \in 0..LastMoment /\ wanted \in 0..MaxWanted
    /\ \A s \in chosen : moment <= s.start /\ s.start < s.end /\ s.end <= CycleEnd
    /\ intervals \in Seq(Intervals)

\* A price is nobody's guess: an hour has the price of an entry that covers it,
\* by its own end or because no entry, not even an unreadable one, follows.
NoPriceInvented ==
    \A s \in Unambiguous(Finalized(forecast)) : \A t \in s.start..(s.end - 1) :
        \E e \in forecast :
            /\ e.price = s.price /\ e.start <= t
            /\ \/ e.end # Missing /\ e.end > e.start /\ t < e.end
               \/ \A o \in forecast : ~(e.start < o.start /\ o.start <= t)

\* Contradicting entries cost the hours they contradict each other in, no more:
\* every other hour keeps its price.
OnlyConflictsAreCut ==
    LET S == Finalized(forecast) IN
    \A t \in HoursOf(S) : CurrentPrice(Unambiguous(S), t) = CurrentPrice(S, t)

\* The hours chosen are as many as wanted, or all there are, and no hour left
\* out is cheaper than one of them.
CheapestAreChosen ==
    LET S == Unambiguous(Finalized(forecast))
        known == {t \in HoursOf(S) : moment <= t /\ t < CycleEnd}
        hours == HoursOf(chosen)
    IN  /\ hours \subseteq known /\ Cardinality(hours) = Lower(wanted, Cardinality(known))
        /\ \A t \in hours, u \in known \ hours : CurrentPrice(S, t) <= CurrentPrice(S, u)
        /\ \A s \in chosen : \A t \in s.start..(s.end - 1) : s.price = CurrentPrice(S, t)

\* The cycle accepts its own record at the next start: in order, and apart.
IntervalsAreApart ==
    \A i \in 1..(Len(intervals) - 1) : intervals[i].end < intervals[i + 1].start

\* A new plan takes no used hour back and adds none: before now the record
\* stays as it was, from now on it is the plan.
UsedHoursStay ==
    [][LET before == 0..(moment' - 1)
           hours == HoursOf(ToSet(intervals')) IN
       /\ hours \cap before = HoursOf(ToSet(intervals)) \cap before
       /\ hours \ before = HoursOf(chosen')]_slotVars

\* From a forecast with gaps, overlaps and contradictions the cheapest known
\* hours are chosen, and the record of the cycle stays one that can be read.
SlotsAreRight ==
    /\ []NoPriceInvented /\ []OnlyConflictsAreCut /\ []CheapestAreChosen
    /\ []IntervalsAreApart /\ UsedHoursStay
=============================================================================
