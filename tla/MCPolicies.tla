---------------------------- MODULE MCPolicies -----------------------------
(* The machines that decide what may charge and what is booked, for TLC,    *)
(* side by side: they share no state, so a behaviour runs one of them and   *)
(* leaves the others where they start.                                      *)
(* PriceSlots has entries that touch, overlap, contradict each other, have  *)
(* no end, or no readable price; BridgePlan has windows that touch, overlap *)
(* or have begun, in a horizon of two hours.                                *)
EXTENDS ChargeWindows, ChargeSwitches, EconomicsStatus, EnergyCounters, PriceSlots,
        EconomicsBalance, FixedTimeCharge, BridgeSession, BridgePlan, Setpoint

VARIABLE part           \* the machine this behaviour runs

Parts == {"windows", "switches", "daily", "status", "balance", "counters", "slots",
          "bridge", "plan", "setpoint"}

MCEntries == [start : 0..2, end : {Missing, 3}, price : {1, 2, Missing}]
MCOffers == {o \in [begin : -1..1, end : 0..2, price : {1, 2}] : o.begin < o.end}
MCDemand == CHOOSE d \in Demands : d.offers = {}
MCDayPrices == [i \in 0..(DayTicks - 1) |-> IF i = 0 THEN 1 ELSE 3]
MCWatts == {-4096, -30, -1, 0, 1, 25}
MCScales == {ToUnsigned16(n) : n \in (-3..2) \cup {-11, 11, -32768}}

PoliciesInit ==
    /\ part \in Parts
    /\ WinInit /\ (part = "windows" \/ ~rests)
    /\ SwitchInit /\ StatusInit /\ BalInit /\ EnergyInit
    /\ SlotsInit /\ (part = "slots" \/ forecast = {})
    /\ FixedInit /\ (part = "daily" \/ startTime = 0)
    /\ BridgeInit /\ (part = "bridge" \/ (level = 0 /\ device = 1))
    /\ PlanInit /\ (part = "plan" \/ demand = MCDemand)
    /\ SetpointInit

\* What a machine leaves alone, in three groups.
automations == <<winVars, switchVars, fixedVars>>
prices == <<statusVars, balVars, energyVars, slotVars>>
bridging == <<bridgeVars, planVars, setpointVars>>

PoliciesNext ==
    /\ UNCHANGED part
    /\ \/ /\ UNCHANGED <<prices, bridging>>
          /\ \/ part = "windows" /\ WinNext /\ UNCHANGED <<switchVars, fixedVars>>
             \/ part = "switches" /\ SwitchNext /\ UNCHANGED <<winVars, fixedVars>>
             \/ part = "daily" /\ FixedNext /\ UNCHANGED <<winVars, switchVars>>
       \/ /\ UNCHANGED <<automations, bridging>>
          /\ \/ part = "status" /\ StatusNext /\ UNCHANGED <<balVars, energyVars, slotVars>>
             \/ part = "balance" /\ BalNext /\ UNCHANGED <<statusVars, energyVars, slotVars>>
             \/ part = "counters" /\ EnergyNext /\ UNCHANGED <<statusVars, balVars, slotVars>>
             \/ part = "slots" /\ PlansSlots /\ UNCHANGED <<statusVars, balVars, energyVars>>
       \/ /\ UNCHANGED <<automations, prices>>
          /\ \/ part = "bridge" /\ BridgeNext /\ UNCHANGED <<planVars, setpointVars>>
             \/ part = "plan" /\ PlansBridge /\ UNCHANGED <<bridgeVars, setpointVars>>
             \/ part = "setpoint" /\ OrdersPower /\ UNCHANGED <<bridgeVars, planVars>>

PoliciesSpec ==
    PoliciesInit /\ [][PoliciesNext]_<<part, automations, prices, bridging>>

\* The types of the machine that runs, and of the others, which rest.
PoliciesTypeOK ==
    /\ WinTypeOK /\ SwitchTypeOK /\ StatusTypeOK /\ BalTypeOK /\ EnergyTypeOK
    /\ SlotTypeOK /\ FixedTypeOK /\ BridgeTypeOK
============================================================================
