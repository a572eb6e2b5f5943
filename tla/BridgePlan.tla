----------------------------- MODULE BridgePlan ----------------------------
(***************************************************************************)
(* Which charge bridges the consumption until PV starts (REQ-BRIDGE-CHARGE,*)
(* domain/bridge_charge.plan_bridge_charge): one charge in one permitted   *)
(* window, computed from bounds on its length, and compared here with      *)
(* every charge there could be.                                            *)
(*                                                                         *)
(* Time is in ticks from now, energy in power times ticks; an hour has so  *)
(* many ticks that every quotient of the code is whole (PlanAssumption).   *)
(***************************************************************************)
EXTENDS Integers, FiniteSets

CONSTANTS
    Hour,           \* ticks
    Horizons,       \* hours until PV starts
    Powers,         \* of the charge, above the consumption
    Discharges,     \* average consumption
    Amounts,        \* of energy above the lower limit, in power times hours
    Offers,         \* permitted windows: begin and end in hours from now, price;
                    \* the highest price stands for none
    MaxOffers

ASSUME PlanAssumption ==
    /\ Hour \in Nat \ {0} /\ Horizons \subseteq Nat \ {0} /\ Powers \subseteq Nat \ {0}
    /\ Discharges \subseteq Nat \ {0} /\ Amounts \subseteq Nat
    /\ \A p \in Powers, d \in Discharges : Hour % (p * d) = 0 /\ Hour % (p + d) = 0
    /\ IsFiniteSet(Offers)
    /\ \A o \in Offers : o.begin \in Int /\ o.end \in Int /\ o.begin < o.end /\ o.price \in Nat

VARIABLES
    demand,         \* horizon, discharge, power, available and maximum energy, windows
    charge          \* what was planned for it

planVars == <<demand, charge>>

NoCharge == [begin |-> 0, length |-> 0, missing |-> 0, price |-> 0]
AtLeast0(n) == IF n > 0 THEN n ELSE 0
Smallest(S) == CHOOSE n \in S : \A m \in S : n <= m
-----------------------------------------------------------------------------
(* The code                                                                 *)

\* _merged_windows: windows of one price that touch are one.  A slip: they are
\* left apart, so that a midnight ends a charge.
OffersApart(offers) == {<<o.begin, o.end, o.price>> : o \in offers}
IsOpenAt(offers, price, n) ==
    \E o \in offers : o.price = price /\ o.begin <= n /\ n < o.end
AreMerged(offers, first, last) ==
    /\ first.price = last.price /\ first.begin < last.end
    /\ \A n \in first.begin..(last.end - 1) : IsOpenAt(offers, first.price, n)
    /\ ~IsOpenAt(offers, first.price, first.begin - 1)
    /\ ~IsOpenAt(offers, first.price, last.end)
MergedOffers(offers) ==
    {<<p[1].begin, p[2].end, p[1].price>> :
        p \in {r \in offers \X offers : AreMerged(offers, r[1], r[2])}}

Required(d) == AtLeast0(d.discharge * d.horizon - d.available)

\* What bounds the length of a charge in a window: what is needed, the window,
\* the capacity, the room there is if it ends with the window, and what can be
\* used until PV.
LengthBounds(d, from, to) ==
    {Required(d) \div (d.power + d.discharge), to - from, d.maximum \div d.power,
     (d.discharge * to + d.maximum - d.available) \div (d.power + d.discharge),
     (d.discharge * (d.horizon - from)) \div (d.power + d.discharge)}

\* As late as the window and the use before PV allow.
Begins(d, to, length) ==
    Smallest({to - length, d.horizon - ((d.power + d.discharge) * length) \div d.discharge})

BridgeCandidates(d) ==
    {c \in {LET from == AtLeast0(w[1] * Hour)
                to == Smallest({d.horizon, w[2] * Hour})
                length == IF from < to THEN Smallest(LengthBounds(d, from, to)) ELSE 0
            IN  [begin |-> Begins(d, to, length), length |-> length, price |-> w[3],
                 missing |-> AtLeast0(Required(d) - (d.power + d.discharge) * length)]
            : w \in MergedOffers(d.offers)} : c.length > 0}

\* Least is missing, then the cheapest, then the latest.
IsPreferred(a, b) ==
    \/ a.missing < b.missing
    \/ a.missing = b.missing /\ (a.price < b.price \/ (a.price = b.price /\ a.begin >= b.begin))

PlanBridgeCharge(d) ==
    IF Required(d) = 0 THEN NoCharge
    ELSE IF BridgeCandidates(d) = {} THEN [NoCharge EXCEPT !.missing = Required(d)]
    ELSE CHOOSE c \in BridgeCandidates(d) : \A e \in BridgeCandidates(d) : IsPreferred(c, e)
-----------------------------------------------------------------------------
Demands ==
    [horizon : {n * Hour : n \in Horizons}, power : Powers, discharge : Discharges,
     available : {n * Hour : n \in Amounts}, maximum : {n * Hour : n \in Amounts},
     offers : {S \in SUBSET Offers : Cardinality(S) <= MaxOffers}]

PlanInit == demand \in Demands /\ charge = NoCharge

PlansBridge == charge' = PlanBridgeCharge(demand) /\ UNCHANGED demand

PlanSpec == PlanInit /\ [][PlansBridge]_planVars
-----------------------------------------------------------------------------
(* What a charge of that begin and length would do                          *)

StoredAt(d, begin) == AtLeast0(d.available - d.discharge * begin)
Uncovered(d, begin, length) ==
    AtLeast0(d.discharge * begin - d.available)
    + AtLeast0(d.discharge * (d.horizon - begin - length)
               - (StoredAt(d, begin) + d.power * length))
LeftAtPv(d, begin, length) ==
    AtLeast0(StoredAt(d, begin) + d.power * length
             - d.discharge * (d.horizon - begin - length))

\* At one price, within what is permitted, and below the ceiling.
IsPermitted(d, begin, length, price) ==
    \A n \in begin..(begin + length - 1) :
        \E o \in d.offers : o.price = price /\ o.begin * Hour <= n /\ n < o.end * Hour
IsFeasible(d, begin, length, price) ==
    /\ begin + length <= d.horizon
    /\ StoredAt(d, begin) + d.power * length <= d.maximum
    /\ IsPermitted(d, begin, length, price)

Planned == charge.length > 0
Prices == {o.price : o \in demand.offers}

\* No charge begins before now, ends after its window or PV, passes the ceiling
\* or buys what cannot be used, and it leaves exactly what the plan says.
PlanIsFeasible ==
    Planned =>
        /\ charge.begin >= 0
        /\ IsFeasible(demand, charge.begin, charge.length, charge.price)
        /\ Uncovered(demand, charge.begin, charge.length) = charge.missing
        /\ LeftAtPv(demand, charge.begin, charge.length) = 0

\* No other charge covers more, or as much for less, or as much as late.
BestCharge ==
    charge # NoCharge =>
        \A begin \in 0..(demand.horizon - 1) : \A length \in 1..(demand.horizon - begin) :
            \A price \in Prices :
                IsFeasible(demand, begin, length, price) =>
                    LET missing == Uncovered(demand, begin, length)
                    IN  /\ missing >= charge.missing
                        /\ missing = charge.missing => Planned /\ price >= charge.price
                        /\ missing = charge.missing /\ price = charge.price => begin <= charge.begin

\* The plan is possible, and there is no better one.
PlanIsBest == PlanIsFeasible /\ BestCharge
=============================================================================
