-------------------------- MODULE SunChargeProofs --------------------------
(***************************************************************************)
(* What holds of the writer for every set of powers and permissions.       *)
(***************************************************************************)
EXTENDS SunCharge, TLAPS

----------------------------------------------------------------------------
(* Types                                                                   *)

USE DEF device, locks, procs, writer, belief, orders, world, TypeOK

\* What is left alone keeps its type.
LEMMA SameTypes ==
    ASSUME TypeOK
    PROVE  /\ UNCHANGED device => DeviceOK'
           /\ UNCHANGED locks => LocksOK'
           /\ UNCHANGED procs => ProcsOK'
           /\ UNCHANGED writer => WriterOK'
           /\ UNCHANGED belief => BeliefOK'
           /\ UNCHANGED orders => OrdersOK'
           /\ UNCHANGED world => WorldOK'
BY DEF DeviceOK, LocksOK, ProcsOK, WriterOK, BeliefOK, OrdersOK, WorldOK

LEMMA OrderTypes ==
    /\ NoJob \in Jobs
    /\ \A power \in Powers, pvHold \in BOOLEAN, safe \in BOOLEAN,
          why \in {"create", "update", "loop", "pv", "release", "confirm", "unload", "expire"} :
          Order(power, pvHold, safe, why) \in Jobs
BY DEF Order, NoJob, Jobs, Powers

\* A process that goes somewhere stays among its program counters.
LEMMA GotoTypes ==
    ASSUME ProcsOK
    PROVE  /\ \A to \in ControlPcs : Goto("control", to) =>
                /\ pc' \in [Processes -> ControlPcs \cup WriterPcs \cup BasicPcs]
                /\ pc'["control"] = to /\ pc'["writer"] = pc["writer"] /\ pc'["basic"] = pc["basic"]
           /\ \A to \in WriterPcs : Goto("writer", to) =>
                /\ pc' \in [Processes -> ControlPcs \cup WriterPcs \cup BasicPcs]
                /\ pc'["writer"] = to /\ pc'["control"] = pc["control"] /\ pc'["basic"] = pc["basic"]
           /\ \A to \in BasicPcs : Goto("basic", to) =>
                /\ pc' \in [Processes -> ControlPcs \cup WriterPcs \cup BasicPcs]
                /\ pc'["basic"] = to /\ pc'["control"] = pc["control"] /\ pc'["writer"] = pc["writer"]
BY DEF ProcsOK, Goto, Processes

LEMMA AppliedTypes ==
    ASSUME TypeOK, NEW p \in {"control", "writer"}
    PROVE  Applied(p) \in [mode : Modes, power : Powers \cup {None}]
<1>1. /\ dev.mode \in Modes /\ dev.power \in Powers \cup {None}
      /\ job[p].power \in Powers
  BY DEF DeviceOK, ProcsOK, Jobs
<1> QED BY <1>1 DEF Applied, Modes

LEMMA CancelTypes ==
    ASSUME TypeOK, NEW to \in ControlPcs, NEW order \in Jobs, CancelWriter(to, order)
    PROVE  /\ DeviceOK' /\ ProcsOK'
           /\ task' \in BOOLEAN /\ ic' \in {"free", "control", "writer"}
           /\ bus' \in {"free"} \cup Processes
<1>1. /\ pc' = [pc EXCEPT !["writer"] = "off", !["control"] = to]
      /\ job' = [job EXCEPT !["control"] = order, !["writer"] = NoJob]
  BY DEF CancelWriter
<1>2. ProcsOK'
  BY <1>1, OrderTypes DEF ProcsOK, Processes, WriterPcs
<1>3. DeviceOK'
  <2>1. dev' \in {dev, Applied("writer")} /\ unknown' \in BOOLEAN
    BY DEF CancelWriter, DeviceOK
  <2> QED BY <2>1, AppliedTypes DEF DeviceOK
<1>4. /\ task' \in BOOLEAN /\ ic' \in {"free", "control", "writer"}
      /\ bus' \in {"free"} \cup Processes
  BY DEF CancelWriter, Released, LocksOK
<1> QED BY <1>2, <1>3, <1>4

LEMMA RollsBackTypes ==
    ASSUME TypeOK, NEW to \in ControlPcs, NEW order \in Jobs, CancelRollsBack(to, order)
    PROVE  /\ DeviceOK' /\ ProcsOK'
           /\ task' \in BOOLEAN /\ ic' \in {"free", "control", "writer"}
           /\ bus' \in {"free"} \cup Processes
<1>1. /\ pc' = [pc EXCEPT !["writer"] = "backQ", !["control"] = to]
      /\ job' = [job EXCEPT !["control"] = order]
      /\ dev' \in {dev, Applied("writer")} /\ bus' = "free"
      /\ UNCHANGED <<task, ic, unknown>>
  BY DEF CancelRollsBack
<1>2. ProcsOK'
  BY <1>1 DEF ProcsOK, Processes, WriterPcs, Sequence
<1>3. DeviceOK'
  BY <1>1, AppliedTypes DEF DeviceOK
<1> QED BY <1>1, <1>2, <1>3 DEF WriterOK, LocksOK

LEMMA KeepTypes ==
    ASSUME TypeOK, NEW to \in ControlPcs, NEW order \in Jobs, KeepWriter(to, order)
    PROVE  /\ DeviceOK' /\ ProcsOK'
           /\ task' \in BOOLEAN /\ ic' \in {"free", "control", "writer"}
           /\ bus' \in {"free"} \cup Processes
<1>1. /\ Goto("control", to) /\ job' = [job EXCEPT !["control"] = order]
      /\ UNCHANGED <<task, ic, bus, device>>
  BY DEF KeepWriter
<1>2. ProcsOK'
  BY <1>1, GotoTypes DEF ProcsOK
<1> QED BY <1>1, <1>2 DEF DeviceOK, WriterOK, LocksOK

LEMMA EnvironmentTypes == ASSUME TypeOK, Environment PROVE TypeOK'
<1>1. ASSUME PlanChanges PROVE TypeOK'
  <2>1. plan' \in Plans /\ due' \in BOOLEAN
    BY <1>1 DEF PlanChanges, WorldOK
  <2>2. UNCHANGED <<device, locks, procs, writer, belief, orders, poll, basicFailed, stale, shutdown>>
    BY <1>1 DEF PlanChanges
  <2> QED BY <2>1, <2>2, SameTypes DEF WorldOK
<1>2. ASSUME TariffChanges PROVE TypeOK'
  BY <1>2, SameTypes DEF TariffChanges, WorldOK
<1>3. ASSUME DeviceTimeout PROVE TypeOK'
  BY <1>3, SameTypes DEF DeviceTimeout, DeviceOK, Modes
<1>4. ASSUME ShutdownStarts PROVE TypeOK'
  BY <1>4, SameTypes DEF ShutdownStarts, WorldOK
<1>5. ASSUME PollFails PROVE TypeOK'
  BY <1>5, SameTypes DEF PollFails, WorldOK, Polls
<1>6. ASSUME NEW mode \in {dev.mode, None}, PollReads(mode) PROVE TypeOK'
  <2>1. mode \in Modes \cup {None}
    BY DEF DeviceOK
  <2> QED BY <1>6, <2>1, SameTypes DEF PollReads, WorldOK, Polls
<1> QED BY <1>1, <1>2, <1>3, <1>4, <1>5, <1>6 DEF Environment

LEMMA ArrivalTypes == ASSUME TypeOK, Arrival PROVE TypeOK'
<1>1. ASSUME PollBegins PROVE TypeOK'
  <2>1. ProcsOK'
    BY <1>1, GotoTypes DEF PollBegins, ProcsOK, ControlPcs
  <2>2. LocksOK'
    BY <1>1 DEF PollBegins, LocksOK
  <2>3. WorldOK'
    BY <1>1 DEF PollBegins, WorldOK
  <2> QED BY <1>1, <2>1, <2>2, <2>3, SameTypes DEF PollBegins
<1>2. ASSUME WorkerBegins PROVE TypeOK'
  <2>1. ProcsOK'
    BY <1>2, GotoTypes DEF WorkerBegins, ProcsOK, ControlPcs
  <2>2. LocksOK'
    BY <1>2 DEF WorkerBegins, LocksOK
  <2>3. WorldOK'
    BY <1>2 DEF WorkerBegins, WorldOK
  <2> QED BY <1>2, <2>1, <2>2, <2>3, SameTypes DEF WorkerBegins
<1>3. ASSUME UnloadBegins PROVE TypeOK'
  <2>1. ProcsOK'
    BY <1>3, GotoTypes, OrderTypes DEF UnloadBegins, ProcsOK, ControlPcs, Powers
  <2>2. LocksOK' /\ OrdersOK'
    BY <1>3 DEF UnloadBegins, LocksOK, OrdersOK
  <2> QED BY <1>3, <2>1, <2>2, SameTypes DEF UnloadBegins
<1>4. ASSUME StopService PROVE TypeOK'
  <2>1. ProcsOK'
    BY <1>4, GotoTypes, OrderTypes DEF StopService, ProcsOK, ControlPcs, Powers
  <2>2. LocksOK' /\ OrdersOK'
    BY <1>4 DEF StopService, LocksOK, OrdersOK
  <2> QED BY <1>4, <2>1, <2>2, SameTypes DEF StopService
<1>5. ASSUME NEW power \in Manuals, StartService(power) PROVE TypeOK'
  <2>1. ProcsOK'
    BY <1>5, GotoTypes DEF StartService, ProcsOK, ControlPcs
  <2>2. LocksOK' /\ OrdersOK'
    BY <1>5 DEF StartService, LocksOK, OrdersOK
  <2> QED BY <1>5, <2>1, <2>2, SameTypes DEF StartService
<1> QED BY <1>1, <1>2, <1>3, <1>4, <1>5 DEF Arrival

LEMMA WriterTypes == ASSUME TypeOK, WriterStep PROVE TypeOK'
<1>1. ASSUME Wakes PROVE TypeOK'
  <2>1. ProcsOK'
    BY <1>1, GotoTypes DEF Wakes, ProcsOK, WriterPcs, Refresh
  <2> QED BY <1>1, <2>1, SameTypes DEF Wakes
<1>2. ASSUME PriceLapses PROVE TypeOK'
  <2>1. ProcsOK'
    BY <1>2, GotoTypes DEF PriceLapses, ProcsOK, WriterPcs
  <2>2. due' \in BOOLEAN
    BY <1>2 DEF PriceLapses, WorldOK
  <2> QED BY <1>2, <2>1, <2>2, SameTypes DEF PriceLapses, WorldOK
<1>3. ASSUME PermitExpires PROVE TypeOK'
  <2>1. ProcsOK'
    BY <1>3, GotoTypes, OrderTypes DEF PermitExpires, ProcsOK, WriterPcs, Powers
  <2>2. LocksOK'
    BY <1>3 DEF PermitExpires, LocksOK
  <2> QED BY <1>3, <2>1, <2>2, SameTypes DEF PermitExpires
<1>4. ASSUME PermitHolds PROVE TypeOK'
  <2>1. ProcsOK'
    BY <1>4, GotoTypes DEF PermitHolds, ProcsOK, WriterPcs, Refresh
  <2> QED BY <1>4, <2>1, SameTypes DEF PermitHolds
<1>5. ASSUME NEW power \in PvPowers, PvAdjusts(power) PROVE TypeOK'
  <2>0. Order(power, TRUE, FALSE, "pv") \in Jobs
    BY OrderTypes DEF Powers
  <2>1. ProcsOK' /\ LocksOK'
    <3>1. CASE shutdown # "running"
      BY <1>5, <3>1, GotoTypes DEF PvAdjusts, ProcsOK, WriterPcs, LocksOK
    <3>2. CASE shutdown = "running" /\ ~hold
      BY <1>5, <3>2, GotoTypes DEF PvAdjusts, ProcsOK, WriterPcs, LocksOK
    <3>3. CASE shutdown = "running" /\ hold
      BY <1>5, <2>0, <3>3, GotoTypes DEF PvAdjusts, ProcsOK, WriterPcs, LocksOK
    <3> QED BY <3>1, <3>2, <3>3 DEF WriterOK
  <2> QED BY <1>5, <2>1, SameTypes DEF PvAdjusts
<1> QED BY <1>1, <1>2, <1>3, <1>4, <1>5 DEF WriterStep

LEMMA BasicTypes == ASSUME TypeOK, BasicStep PROVE TypeOK'
<1>1. ASSUME SwitchRequested PROVE TypeOK'
  <2>1. ProcsOK'
    BY <1>1, GotoTypes DEF SwitchRequested, ProcsOK, BasicPcs
  <2> QED BY <1>1, <2>1, SameTypes DEF SwitchRequested
<1>2. ASSUME Sends("basic") PROVE TypeOK'
  <2>1. pc["basic"] = "basicQ"
    BY <1>2 DEF Sends, ProcsOK, BasicPcs, Queued
  <2>2. InFlight(pc["basic"]) \in BasicPcs
    BY <2>1 DEF InFlight, BasicPcs
  <2>3. ProcsOK' /\ LocksOK'
    BY <1>2, <2>2, GotoTypes DEF Sends, ProcsOK, LocksOK, Processes
  <2> QED BY <1>2, <2>3, SameTypes DEF Sends
<1>3. ASSUME SwitchEnds PROVE TypeOK'
  <2>1. ProcsOK'
    BY <1>3, GotoTypes DEF SwitchEnds, ProcsOK, BasicPcs
  <2>2. LocksOK'
    BY <1>3 DEF SwitchEnds, LocksOK
  <2> QED BY <1>3, <2>1, <2>2, SameTypes DEF SwitchEnds
<1> QED BY <1>1, <1>2, <1>3 DEF BasicStep

LEMMA AfterStopTypes ==
    AfterStop(TRUE) \in ControlPcs /\ AfterStop(FALSE) \in ControlPcs
BY DEF AfterStop, ControlPcs

LEMMA BeginsTypes == ASSUME TypeOK, Begins PROVE TypeOK'
<1>1. PICK to \in {"outage", "decide"} : CancelWriter(to, NoJob) \/ KeepWriter(to, NoJob)
  BY DEF Begins
<1>2. to \in ControlPcs /\ NoJob \in Jobs
  BY OrderTypes DEF ControlPcs
<1>3. /\ DeviceOK' /\ ProcsOK'
      /\ task' \in BOOLEAN /\ ic' \in {"free", "control", "writer"}
      /\ bus' \in {"free"} \cup Processes
  BY <1>1, <1>2, CancelTypes, KeepTypes
<1>4. BeliefOK'
  <2>1. CASE Blind
    BY <2>1 DEF Begins, BeliefOK
  <2>2. CASE ~Blind
    <3>1. poll.mode \in Modes \cup {None}
      BY DEF WorldOK, Polls
    <3>2. /\ observed' = IF ctl = "poll" THEN poll.mode ELSE cached
          /\ reset' \in BOOLEAN /\ acked' = FALSE
          /\ UNCHANGED <<commanded, cached>>
      BY <2>2 DEF Begins, BeliefOK
    <3> QED BY <3>1, <3>2 DEF BeliefOK
  <2> QED BY <2>1, <2>2
<1>5. /\ UNCHANGED <<ctl, sunPower, hold, orders, poll, plan, due, shutdown>>
      /\ stale' = FALSE /\ basicFailed' \in BOOLEAN
  BY DEF Begins, Blind, WorldOK
<1> QED BY <1>3, <1>4, <1>5, SameTypes DEF LocksOK, WriterOK, WorldOK

LEMMA DecidesStartTypes ==
    ASSUME TypeOK, NEW power \in Powers, NEW pvHold \in BOOLEAN,
           NEW kind \in PermitKinds \cup {"none"}, DecidesStart(power, pvHold, kind)
    PROVE  TypeOK'
<1> DEFINE order == Order(power, pvHold, FALSE, "create")
<1>1. order \in Jobs /\ "start" \in ControlPcs /\ "awaitStart" \in ControlPcs
  BY OrderTypes DEF ControlPcs
<1>2. CancelWriter("start", order) \/ CancelRollsBack("awaitStart", order) \/ KeepWriter("start", order)
  BY DEF DecidesStart
<1>3. /\ DeviceOK' /\ ProcsOK'
      /\ task' \in BOOLEAN /\ ic' \in {"free", "control", "writer"}
      /\ bus' \in {"free"} \cup Processes
  BY <1>1, <1>2, CancelTypes, RollsBackTypes, KeepTypes
<1>4. UNCHANGED <<ctl, sunPower, hold, belief, manual, saved, world>> /\ permit' = kind
  BY DEF DecidesStart
<1> QED BY <1>3, <1>4, SameTypes DEF LocksOK, WriterOK, OrdersOK

LEMMA StartsTypes == ASSUME TypeOK, Starts PROVE TypeOK'
<1> DEFINE order == job["control"]
<1>1. PICK to \in {"failed", "wantIc", "awaitStart", "done"},
           next \in {NoJob, Order(order.power, order.hold, order.safe, "create"),
                     Order(order.power, order.hold, order.safe, "update")} :
        CancelWriter(to, next) \/ CancelRollsBack(to, next) \/ KeepWriter(to, next)
  BY DEF Starts
<1>2. to \in ControlPcs /\ next \in Jobs
  <2>1. order.power \in Powers /\ order.hold \in BOOLEAN /\ order.safe \in BOOLEAN
    BY DEF ProcsOK, Jobs
  <2> QED BY <2>1, OrderTypes DEF ControlPcs
<1>3. /\ DeviceOK' /\ ProcsOK'
      /\ task' \in BOOLEAN /\ ic' \in {"free", "control", "writer"}
      /\ bus' \in {"free"} \cup Processes
  BY <1>1, <1>2, CancelTypes, RollsBackTypes, KeepTypes
<1>4. UNCHANGED <<ctl, sunPower, hold, belief, orders, world>>
  BY DEF Starts
<1> QED BY <1>3, <1>4, SameTypes DEF LocksOK, WriterOK

LEMMA StopsTypes == ASSUME TypeOK, Stops PROVE TypeOK'
<1>1. PICK to \in {AfterStop(TRUE), "wantReset", "awaitReset"}, next \in {NoJob, job["control"]} :
        CancelWriter(to, next) \/ CancelRollsBack(to, next) \/ KeepWriter(to, next)
  BY DEF Stops
<1>2. to \in ControlPcs /\ next \in Jobs
  BY AfterStopTypes, OrderTypes DEF ControlPcs, ProcsOK
<1>3. /\ DeviceOK' /\ ProcsOK'
      /\ task' \in BOOLEAN /\ ic' \in {"free", "control", "writer"}
      /\ bus' \in {"free"} \cup Processes
  BY <1>1, <1>2, CancelTypes, RollsBackTypes, KeepTypes
<1>4. hold' \in {hold, FALSE} /\ reset' \in {reset, TRUE} /\ commanded' \in {commanded, 0}
  BY DEF Stops
<1>5. UNCHANGED <<ctl, sunPower, observed, cached, acked, orders, world>>
  BY DEF Stops
<1> QED BY <1>3, <1>4, <1>5, SameTypes DEF LocksOK, WriterOK, BeliefOK, Modes

LEMMA LeavesTypes == ASSUME TypeOK, Leaves PROVE TypeOK'
<1>1. pc' = [pc EXCEPT !["control"] = "begin"] \/ pc' = [pc EXCEPT !["control"] = "idle"]
  BY DEF Leaves, Goto
<1>2. ProcsOK'
  BY <1>1, GotoTypes DEF Goto, Leaves, ProcsOK, ControlPcs
<1>3. LocksOK' /\ OrdersOK'
  BY DEF Leaves, LocksOK, OrdersOK
<1>4. poll' \in {poll, NoPoll} /\ cached' \in {cached, commanded, poll.mode} /\ acked' \in {acked, FALSE}
  BY DEF Leaves
<1>5. UNCHANGED <<device, writer, reset, commanded, observed, basicFailed, plan, stale, due, shutdown>>
  BY DEF Leaves
<1>6. NoPoll \in Polls /\ poll.mode \in Modes \cup {None}
  BY DEF NoPoll, Polls, WorldOK
<1> QED BY <1>2, <1>3, <1>4, <1>5, <1>6, SameTypes DEF BeliefOK, WorldOK

LEMMA ControlTypes == ASSUME TypeOK, ControlStep PROVE TypeOK'
<1>1. ASSUME BeginsLate PROVE TypeOK'
  BY <1>1, GotoTypes, SameTypes DEF BeginsLate, ProcsOK, ControlPcs
<1>2. ASSUME Suspends PROVE TypeOK'
  <2>1. /\ Order(0, plan = "pv", TRUE, "create") \in Jobs
        /\ Order(0, FALSE, TRUE, "release") \in Jobs
    BY OrderTypes DEF Powers
  <2>2. ProcsOK'
    BY <1>2, <2>1, GotoTypes DEF Suspends, ProcsOK, ControlPcs
  <2> QED BY <1>2, <2>2, SameTypes DEF Suspends, OrdersOK
<1>3. ASSUME DecidesLate PROVE TypeOK'
  BY <1>3, GotoTypes, SameTypes DEF DecidesLate, ProcsOK, ControlPcs
<1>4. ASSUME DecidesStop PROVE TypeOK'
  <2>1. ProcsOK'
    BY <1>4, GotoTypes, OrderTypes DEF DecidesStop, ProcsOK, ControlPcs, Powers
  <2> QED BY <1>4, <2>1, SameTypes DEF DecidesStop, OrdersOK
<1>5. ASSUME UnloadDrains PROVE TypeOK'
  BY <1>5, GotoTypes, SameTypes DEF UnloadDrains, ProcsOK, ControlPcs
<1>6. ASSUME UnloadCloses PROVE TypeOK'
  <2>1. ProcsOK'
    BY <1>6, GotoTypes DEF UnloadCloses, ProcsOK, ControlPcs
  <2> QED BY <1>6, <2>1, SameTypes DEF UnloadCloses, LocksOK, WorldOK
<1>7. ASSUME CancelEnds PROVE TypeOK'
  <2>1. ProcsOK'
    BY <1>7, GotoTypes DEF CancelEnds, ProcsOK, ControlPcs
  <2>2. /\ hold' \in {hold, FALSE} /\ reset' \in {reset, TRUE} /\ task' = FALSE
        /\ UNCHANGED <<device, locks, sunPower, commanded, observed, cached, acked, orders, world>>
    BY <1>7 DEF CancelEnds
  <2> QED BY <2>1, <2>2, SameTypes DEF WriterOK, BeliefOK
<1> QED
  BY <1>1, <1>2, <1>3, <1>4, <1>5, <1>6, <1>7, BeginsTypes, DecidesStartTypes, StartsTypes,
     StopsTypes, LeavesTypes DEF ControlStep

LEMMA FailTypes ==
    ASSUME TypeOK, NEW p \in {"control", "writer"}, Fail(p)
    PROVE  ProcsOK' /\ ic' \in {"free", "control", "writer"} /\ task' \in BOOLEAN
           /\ ctl' \in {ctl, "free"}
<1>1. NoJob \in Jobs
  BY OrderTypes
<1>2. CASE p = "writer"
  BY <1>1, <1>2, GotoTypes DEF Fail, ProcsOK, WriterPcs, LocksOK, Released, WriterOK
<1>3. CASE p = "control"
  <2>1. PICK to \in {"done", "failed"}, wr \in {"off", pc["writer"]} :
           pc' = [pc EXCEPT !["control"] = to, !["writer"] = wr]
    BY <1>3 DEF Fail
  <2>2. ProcsOK'
    BY <1>1, <1>3, <2>1 DEF Fail, ProcsOK, ControlPcs, WriterPcs, Processes
  <2>3. ic' \in {"free", "control", "writer"} /\ task' \in BOOLEAN /\ ctl' = ctl
    BY <1>3 DEF Fail, LocksOK, WriterOK, Released
  <2> QED BY <2>2, <2>3
<1> QED BY <1>2, <1>3

LEMMA SucceedTypes ==
    ASSUME TypeOK, NEW p \in {"control", "writer"}, Succeed(p)
    PROVE  ProcsOK' /\ WriterOK' /\ ic' \in {"free", "control", "writer"} /\ ctl' \in {ctl, "free"}
<1>1. NoJob \in Jobs /\ job[p].power \in Powers /\ job[p].hold \in BOOLEAN
  BY OrderTypes DEF ProcsOK, Jobs
<1>2. CASE p = "writer"
  BY <1>1, <1>2, GotoTypes DEF Succeed, ProcsOK, WriterPcs, LocksOK, Released, WriterOK
<1>3. CASE p = "control"
  <2>1. PICK wr \in {"sleep", pc["writer"]} :
           pc' = [pc EXCEPT !["control"] = "done", !["writer"] = wr]
    BY <1>3 DEF Succeed, Goto, ProcsOK, Processes
  <2>2. ProcsOK'
    BY <1>1, <1>3, <2>1 DEF Succeed, ProcsOK, ControlPcs, WriterPcs, Processes
  <2>3. ic' \in {"free", "control", "writer"} /\ ctl' = ctl
    BY <1>3 DEF Succeed, LocksOK, Released
  <2>4. WriterOK'
    BY <1>1, <1>3 DEF Succeed, WriterOK
  <2> QED BY <2>2, <2>3, <2>4
<1> QED BY <1>2, <1>3

\* What a request leaves behind, answered or not.
LEMMA AnswerTypes ==
    ASSUME TypeOK, NEW p \in {"control", "writer"}
    PROVE  /\ Answered(p) => dev' \in [mode : Modes, power : Powers \cup {None}]
                             /\ bus' \in {"free"} \cup Processes
           /\ Unanswered(p) => DeviceOK' /\ bus' \in {"free"} \cup Processes
<1>1. Applied(p) \in [mode : Modes, power : Powers \cup {None}]
  BY AppliedTypes
<1> QED BY <1>1 DEF Answered, Unanswered, DeviceOK, LocksOK

LEMMA RecordTypes ==
    ASSUME TypeOK, NEW mode \in Modes, Record(mode), reset' \in BOOLEAN
    PROVE  BeliefOK' /\ unknown' \in BOOLEAN
BY DEF Record, BeliefOK

LEMMA WriteTypes ==
    ASSUME TypeOK, NEW p \in {"control", "writer"}, WriteStep(p)
    PROVE  TypeOK'
<1>0. /\ NoJob \in Jobs /\ ControlPcs \cap WriterPcs \subseteq ControlPcs
      /\ {"modeQ", "modeF", "setQ", "setF", "backQ", "backF", "zeroQ", "zeroF"} \subseteq ControlPcs
      /\ {"modeQ", "modeF", "setQ", "setF", "backQ", "backF", "zeroQ", "zeroF"} \subseteq WriterPcs
  BY OrderTypes DEF ControlPcs, WriterPcs, Sequence, Reset
<1>1. ASSUME EntersSequence(p) PROVE TypeOK'
  <2>1. UNCHANGED <<device, bus, sunPower, hold, belief, orders, world>>
    BY <1>1 DEF EntersSequence
  <2>2. CASE Fail(p)
    BY <2>1, <2>2, FailTypes, SameTypes DEF LocksOK, WriterOK
  <2>3. CASE ~Fail(p)
    <3>1. PICK power \in Powers :
            job' = [job EXCEPT ![p] = Order(power, job[p].hold, job[p].safe, job[p].why)]
      BY <1>1, <2>3 DEF EntersSequence, ProcsOK, Jobs, WriterOK
    <3>2. Order(power, job[p].hold, job[p].safe, job[p].why) \in Jobs
      BY OrderTypes DEF ProcsOK, Jobs
    <3>3. Goto(p, "modeQ") /\ ic' = p /\ UNCHANGED <<ctl, task>>
      BY <1>1, <2>3 DEF EntersSequence
    <3>4. ProcsOK'
      BY <1>0, <3>1, <3>2, <3>3, GotoTypes DEF ProcsOK
    <3> QED BY <2>1, <3>3, <3>4, SameTypes DEF LocksOK, WriterOK
  <2> QED BY <2>2, <2>3
<1>2. ASSUME EntersReset(p) PROVE TypeOK'
  <2>1. ProcsOK'
    BY <1>0, <1>2, GotoTypes DEF EntersReset, ProcsOK
  <2> QED BY <1>2, <2>1, SameTypes DEF EntersReset, LocksOK
<1>3. ASSUME Sends(p) PROVE TypeOK'
  <2>1. pc[p] \in {"modeQ", "setQ", "backQ", "zeroQ"}
    BY <1>3 DEF Sends, Queued, ProcsOK, ControlPcs, WriterPcs, Sequence, Reset
  <2>2. InFlight(pc[p]) \in {"modeF", "setF", "backF", "zeroF"}
    BY <2>1 DEF InFlight
  <2>3. ProcsOK'
    BY <1>0, <1>3, <2>2, GotoTypes DEF Sends, ProcsOK
  <2> QED BY <1>3, <2>3, SameTypes DEF Sends, LocksOK, Processes
<1>4. ASSUME ModeAcked(p) PROVE TypeOK'
  <2>1. ProcsOK'
    <3>1. Goto(p, "setQ") \/ Goto(p, "backQ")
      BY <1>4 DEF ModeAcked
    <3> QED BY <1>0, <1>4, <3>1, GotoTypes DEF ModeAcked, ProcsOK
  <2>2. BeliefOK' /\ unknown' \in BOOLEAN
    BY <1>4, RecordTypes DEF ModeAcked, Modes
  <2> QED BY <1>4, <2>1, <2>2, AnswerTypes, SameTypes DEF ModeAcked, DeviceOK, LocksOK
<1>5. ASSUME SetpointAcked(p) PROVE TypeOK'
  <2>0. Answered(p) /\ UNCHANGED <<unknown, belief, orders, world>>
    BY <1>5 DEF SetpointAcked
  <2>1. ProcsOK' /\ WriterOK' /\ ic' \in {"free", "control", "writer"} /\ ctl' \in {ctl, "free"}
    <3>1. CASE Succeed(p)
      BY <3>1, SucceedTypes
    <3>2. CASE Goto(p, "backQ") /\ UNCHANGED <<ctl, ic, job, writer>>
      BY <1>0, <3>2, GotoTypes DEF ProcsOK, WriterOK, LocksOK
    <3> QED BY <1>5, <3>1, <3>2 DEF SetpointAcked
  <2> QED BY <2>0, <2>1, AnswerTypes, SameTypes DEF DeviceOK, LocksOK
<1>6. ASSUME RollbackAcked(p) PROVE TypeOK'
  <2>1. BeliefOK' /\ unknown' \in BOOLEAN
    BY <1>6, RecordTypes DEF RollbackAcked, Modes
  <2>2. Answered(p) /\ Fail(p) /\ UNCHANGED <<sunPower, hold, orders, world>>
    BY <1>6 DEF RollbackAcked
  <2> QED BY <2>1, <2>2, FailTypes, AnswerTypes, SameTypes DEF DeviceOK, LocksOK, WriterOK
<1>7. ASSUME ResetAcked(p) PROVE TypeOK'
  <2>1. BeliefOK' /\ unknown' \in BOOLEAN
    BY <1>7, RecordTypes DEF ResetAcked, Modes
  <2>2. ProcsOK'
    <3>1. \/ p = "control" /\ Goto("control", AfterStop(TRUE))
          \/ p = "writer" /\ Goto("writer", "off")
      BY <1>7 DEF ResetAcked
    <3>2. "off" \in WriterPcs
      BY DEF WriterPcs
    <3> QED BY <1>0, <1>7, <3>1, <3>2, GotoTypes, AfterStopTypes DEF ResetAcked, ProcsOK
  <2>3. ctl' \in {ctl, "free"} /\ hold' \in {hold, FALSE} /\ permit' \in {permit, "none"}
    BY <1>7 DEF ResetAcked
  <2>4. /\ Answered(p) /\ ic' = "free"
        /\ UNCHANGED <<task, sunPower, manual, saved, world>>
    BY <1>7 DEF ResetAcked
  <2> QED
    BY <2>1, <2>2, <2>3, <2>4, AnswerTypes, SameTypes DEF DeviceOK, LocksOK, WriterOK, OrdersOK
<1>8. ASSUME ModeFails(p) \/ RollbackFails(p) PROVE TypeOK'
  <2>1. Unanswered(p) /\ Fail(p) /\ UNCHANGED <<sunPower, hold, belief, orders, world>>
    BY <1>8 DEF ModeFails, RollbackFails
  <2> QED BY <2>1, FailTypes, AnswerTypes, SameTypes DEF LocksOK, WriterOK
<1>9. ASSUME SetpointFails(p) PROVE TypeOK'
  <2>1. ProcsOK'
    BY <1>0, <1>9, GotoTypes DEF SetpointFails, ProcsOK
  <2> QED BY <1>9, <2>1, AnswerTypes, SameTypes DEF SetpointFails, LocksOK
<1>10. ASSUME ResetFails(p) PROVE TypeOK'
  <2>1. ProcsOK'
    <3>1. \/ p = "control" /\ Goto("control", AfterStop(FALSE))
          \/ p = "writer" /\ Goto("writer", "off")
      BY <1>10 DEF ResetFails
    <3>2. "off" \in WriterPcs
      BY DEF WriterPcs
    <3> QED BY <1>0, <1>10, <3>1, <3>2, GotoTypes, AfterStopTypes DEF ResetFails, ProcsOK
  <2>2. ctl' \in {ctl, "free"} /\ ic' = "free" /\ Unanswered(p)
    BY <1>10 DEF ResetFails
  <2> QED BY <1>10, <2>1, <2>2, AnswerTypes, SameTypes DEF ResetFails, LocksOK
<1> QED
  BY <1>1, <1>2, <1>3, <1>4, <1>5, <1>6, <1>7, <1>8, <1>9, <1>10 DEF WriteStep

LEMMA InitTypes == Init => TypeOK
<1> SUFFICES ASSUME Init PROVE TypeOK
  OBVIOUS
<1>1. ProcsOK
  BY OrderTypes DEF Init, ProcsOK, Processes, ControlPcs, WriterPcs, BasicPcs
<1>2. DeviceOK /\ cached \in {0, 1, None}
  BY DEF Init, DeviceOK, Modes, Powers
<1>3. LocksOK /\ WriterOK /\ OrdersOK
  BY DEF Init, LocksOK, WriterOK, OrdersOK, Powers
<1>4. BeliefOK
  BY <1>2 DEF Init, BeliefOK, Modes
<1>5. WorldOK
  BY DEF Init, WorldOK, NoPoll, Polls
<1> QED BY <1>1, <1>2, <1>3, <1>4, <1>5

\* Every state variable keeps its type in every step.
LEMMA NextTypes == TypeOK /\ [Next]_vars => TypeOK'
<1> SUFFICES ASSUME TypeOK, [Next]_vars PROVE TypeOK'
  OBVIOUS
<1>1. CASE Next
  BY <1>1, EnvironmentTypes, ArrivalTypes, ControlTypes, WriterTypes, BasicTypes, WriteTypes
  DEF Next
<1>2. CASE UNCHANGED vars
  BY <1>2, SameTypes DEF vars
<1> QED BY <1>1, <1>2

(***************************************************************************)
(* Every variable of the coordinator, the locks and the tasks keeps its    *)
(* type, for every set of powers and every kind of permission.             *)
(***************************************************************************)
THEOREM TypeCorrect == Spec => []TypeOK
BY InitTypes, NextTypes, PTL DEF Spec

----------------------------------------------------------------------------
(* The flow of control                                                     *)

(***************************************************************************)
(* The locks are held exactly while their holders are where they hold     *)
(* them.                                                                   *)
(***************************************************************************)
LocksHeld ==
    /\ ic = "control" <=> pc["control"] \in Sequence \cup Reset
    /\ ic = "writer" <=> pc["writer"] \in Sequence \cup Reset
    /\ bus = "control" <=> pc["control"] \in Flying
    /\ bus = "writer" <=> pc["writer"] \in Flying
    /\ bus = "basic" <=> pc["basic"] \in Flying
    /\ ctl \in {"free", "writer"} <=> pc["control"] = "idle"
    /\ ctl = "writer" => pc["writer"] \in {"wantIc", "wantReset"} \cup Sequence \cup Reset
    /\ pc["writer"] \in {"wantReset"} \cup Reset => ctl = "writer"

\* A first write and a reset find no living writer.
WriterCancelled ==
    /\ Alive => task
    /\ pc["control"] \in {"wantIc"} \cup Sequence => job["control"].why \in {"create", "update"}
    /\ pc["control"] \in {"wantIc"} \cup Sequence /\ job["control"].why = "create" => ~Alive
    /\ pc["control"] \in {"wantReset", "close"} \cup Reset => ~Alive
    /\ pc["control"] = "awaitStart" => job["control"].why = "create"

\* The unload holds the control lock from its first step to the final gate.
UnloadOrdered ==
    /\ ctl = "unload" => shutdown = "started"
    /\ ctl = "unload" =>
          pc["control"] \in {"drain", "stop", "awaitReset", "wantReset", "close"} \cup Reset
    /\ pc["control"] \in {"drain", "close"} => ctl = "unload"
    /\ pc["control"] \in {"drain", "stop", "awaitReset", "wantReset"} \cup Reset =>
          (ctl = "unload" <=> job["control"].why = "unload")
    /\ shutdown = "complete" =>
          /\ bus = "free" /\ ic = "free" /\ ~Alive
          /\ pc["control"] \in {"idle", "begin", "done", "failed"}

Flow == LocksHeld /\ WriterCancelled /\ UnloadOrdered

\* Nobody but the process in a sequence changes what the storage follows.
Followed == Alive /\ ic = "free" /\ dev.mode = 1 => dev.power = sunPower

\* A reset that is under way is on the books until it is acknowledged.
ResetBooked == pc["control"] \in {"wantReset"} \cup Reset => reset

IInv == TypeOK /\ Flow /\ OwnedSetpointMode /\ Followed /\ ResetBooked

USE DEF LocksHeld, WriterCancelled, UnloadOrdered, Flow, Alive, Sequence, Reset, Flying

LEMMA EnvironmentFlow == ASSUME TypeOK, Flow, Environment PROVE Flow'
<1>1. UNCHANGED <<ctl, ic, bus, pc, job, task>>
  BY DEF Environment, PlanChanges, TariffChanges, DeviceTimeout, PollFails, PollReads, ShutdownStarts
<1>2. shutdown' = shutdown \/ (shutdown = "running" /\ shutdown' = "started")
  BY DEF Environment, PlanChanges, TariffChanges, DeviceTimeout, PollFails, PollReads, ShutdownStarts
<1> QED BY <1>1, <1>2

LEMMA ArrivalFlow == ASSUME TypeOK, Flow, Arrival PROVE Flow'
<1> USE GotoTypes DEF ProcsOK, LocksOK, ControlPcs
<1>1. ASSUME PollBegins PROVE Flow'
  BY <1>1 DEF PollBegins
<1>2. ASSUME WorkerBegins PROVE Flow'
  BY <1>2 DEF WorkerBegins
<1>3. ASSUME UnloadBegins PROVE Flow'
  BY <1>3 DEF UnloadBegins, Order
<1>4. ASSUME StopService PROVE Flow'
  BY <1>4 DEF StopService, Order
<1>5. ASSUME NEW power \in Manuals, StartService(power) PROVE Flow'
  BY <1>5 DEF StartService
<1> QED BY <1>1, <1>2, <1>3, <1>4, <1>5 DEF Arrival

\* A cancelled writer leaves the locks to the control process.
LEMMA CancelFlow ==
    ASSUME TypeOK, Flow, NEW to \in ControlPcs, NEW order \in Jobs, CancelWriter(to, order),
           pc["control"] \notin {"idle"} \cup Sequence \cup Reset,
           to \notin Sequence \cup Reset
    PROVE  /\ pc'["control"] = to /\ pc'["writer"] = "off" /\ pc'["basic"] = pc["basic"]
           /\ job'["control"] = order /\ ~task'
           /\ ic' = "free" /\ bus' \notin {"control", "writer"}
           /\ bus' = "basic" <=> pc'["basic"] \in Flying
<1>1. /\ pc' = [pc EXCEPT !["writer"] = "off", !["control"] = to]
      /\ job' = [job EXCEPT !["control"] = order, !["writer"] = NoJob]
      /\ task' = FALSE
      /\ ic' = Released(ic, "writer") /\ bus' = Released(bus, "writer")
  BY DEF CancelWriter
<1>2. /\ pc'["control"] = to /\ pc'["writer"] = "off" /\ pc'["basic"] = pc["basic"]
      /\ job'["control"] = order
  BY <1>1 DEF ProcsOK, Processes
<1>3. ic' = "free"
  BY <1>1 DEF LocksOK, Released
<1>4. bus # "control"
  BY DEF ProcsOK, ControlPcs
<1>5. bus' \in {"free", "basic"} /\ (bus' = "basic" <=> bus = "basic")
  BY <1>1, <1>4 DEF LocksOK, Processes, Released
<1> QED BY <1>1, <1>2, <1>3, <1>5

\* One that still rolls back keeps its lock.
LEMMA RollsBackFlow ==
    ASSUME TypeOK, Flow, NEW to \in ControlPcs, NEW order \in Jobs, CancelRollsBack(to, order)
    PROVE  /\ pc'["control"] = to /\ pc'["writer"] = "backQ" /\ pc'["basic"] = pc["basic"]
           /\ pc["writer"] = "setF"
           /\ job'["control"] = order /\ bus' = "free" /\ UNCHANGED <<ic, task>>
<1>1. /\ pc' = [pc EXCEPT !["writer"] = "backQ", !["control"] = to]
      /\ job' = [job EXCEPT !["control"] = order]
      /\ bus' = "free" /\ pc["writer"] = "setF" /\ UNCHANGED <<ic, task>>
  BY DEF CancelRollsBack
<1> QED BY <1>1 DEF ProcsOK, Processes

LEMMA KeepFlow ==
    ASSUME TypeOK, NEW to \in ControlPcs, NEW order \in Jobs, KeepWriter(to, order)
    PROVE  /\ pc'["control"] = to /\ pc'["writer"] = pc["writer"] /\ pc'["basic"] = pc["basic"]
           /\ job'["control"] = order /\ UNCHANGED <<task, ic, bus>>
BY GotoTypes DEF KeepWriter, ProcsOK

LEMMA ControlFlow == ASSUME TypeOK, Flow, ControlStep PROVE Flow'
<1> USE GotoTypes DEF ProcsOK, LocksOK, ControlPcs
<1>1. ASSUME Begins PROVE Flow'
  <2>1. PICK to \in {"outage", "decide"} : CancelWriter(to, NoJob) \/ KeepWriter(to, NoJob)
    BY <1>1 DEF Begins
  <2>2. pc["control"] = "begin" /\ shutdown = "running" /\ UNCHANGED <<ctl, shutdown>>
    BY <1>1 DEF Begins
  <2> QED BY <2>1, <2>2, CancelFlow, KeepFlow, OrderTypes
<1>2. ASSUME BeginsLate PROVE Flow'
  BY <1>2 DEF BeginsLate
<1>3. ASSUME Suspends PROVE Flow'
  BY <1>3 DEF Suspends, Order
<1>4. ASSUME DecidesLate PROVE Flow'
  BY <1>4 DEF DecidesLate
<1>5. ASSUME DecidesStop PROVE Flow'
  BY <1>5 DEF DecidesStop, Order
<1>6. ASSUME NEW power \in Powers, NEW pvHold \in BOOLEAN, NEW kind \in PermitKinds \cup {"none"},
             DecidesStart(power, pvHold, kind)
      PROVE  Flow'
  <2> DEFINE order == Order(power, pvHold, FALSE, "create")
  <2>1. CancelWriter("start", order) \/ CancelRollsBack("awaitStart", order) \/ KeepWriter("start", order)
    BY <1>6 DEF DecidesStart
  <2>2. pc["control"] = "decide" /\ UNCHANGED <<ctl, shutdown>>
    BY <1>6 DEF DecidesStart
  <2>3. order \in Jobs /\ order.why = "create"
    BY OrderTypes DEF Order
  <2> HIDE DEF order
  <2>4. CASE CancelWriter("start", order)
    BY <2>2, <2>3, <2>4, CancelFlow
  <2>5. CASE KeepWriter("start", order)
    BY <2>2, <2>3, <2>5, KeepFlow
  <2>6. CASE CancelRollsBack("awaitStart", order)
    BY <2>2, <2>3, <2>6, RollsBackFlow
  <2> QED BY <2>1, <2>4, <2>5, <2>6
<1>7. ASSUME Starts PROVE Flow'
  <2>1. pc["control"] = "start" /\ UNCHANGED <<ctl, shutdown>>
    BY <1>7 DEF Starts
  <2>2. \/ \E order \in Jobs : order.why = "create" /\ CancelWriter("wantIc", order)
        \/ \E order \in Jobs : order.why = "create" /\ CancelRollsBack("awaitStart", order)
        \/ \E order \in Jobs : order.why = "update" /\ KeepWriter("wantIc", order)
        \/ \E to \in {"failed", "done"} : KeepWriter(to, NoJob)
    <3> DEFINE make(why) == Order(job["control"].power, job["control"].hold, job["control"].safe, why)
    <3>1. make("create") \in Jobs /\ make("update") \in Jobs
      BY OrderTypes DEF Jobs
    <3>2. make("create").why = "create" /\ make("update").why = "update"
      BY DEF Order
    <3>3. \/ CancelWriter("wantIc", make("create")) \/ CancelRollsBack("awaitStart", make("create"))
          \/ KeepWriter("wantIc", make("update"))
          \/ KeepWriter("failed", NoJob) \/ KeepWriter("done", NoJob)
      BY <1>7 DEF Starts
    <3> QED BY <3>1, <3>2, <3>3
  <2>3. CASE \E order \in Jobs : order.why = "create" /\ CancelRollsBack("awaitStart", order)
    BY <2>1, <2>3, RollsBackFlow
  <2>4. CASE ~\E order \in Jobs : order.why = "create" /\ CancelRollsBack("awaitStart", order)
    BY <2>1, <2>2, <2>4, CancelFlow, KeepFlow, OrderTypes
  <2> QED BY <2>3, <2>4
<1>8. ASSUME Stops PROVE Flow'
  <2>1. pc["control"] = "stop" /\ UNCHANGED <<ctl, shutdown>>
    BY <1>8 DEF Stops
  <2>2. CASE CancelWriter("wantReset", job["control"])
    BY <2>1, <2>2, CancelFlow
  <2>3. CASE KeepWriter(AfterStop(TRUE), NoJob) /\ ~task
    <3>1. AfterStop(TRUE) \in {"begin", "done"} \/ (AfterStop(TRUE) = "close" /\ ctl = "unload")
      BY <2>1 DEF AfterStop
    <3>2. ctl = "unload" => AfterStop(TRUE) = "close"
      BY <2>1 DEF AfterStop
    <3> QED BY <2>1, <2>3, <3>1, <3>2, KeepFlow, OrderTypes
  <2>4. CASE CancelRollsBack("awaitReset", job["control"])
    BY <2>1, <2>4, RollsBackFlow
  <2> QED BY <1>8, <2>2, <2>3, <2>4 DEF Stops, WriterOK
<1>9. ASSUME Leaves PROVE Flow'
  BY <1>9 DEF Leaves
<1>10. ASSUME UnloadDrains PROVE Flow'
  BY <1>10 DEF UnloadDrains
<1>11. ASSUME UnloadCloses PROVE Flow'
  BY <1>11 DEF UnloadCloses
<1>12. ASSUME CancelEnds PROVE Flow'
  <2>1. UNCHANGED <<ctl, ic, bus, job, shutdown>> /\ ~task' /\ pc["writer"] = "off"
    BY <1>12 DEF CancelEnds
  <2>2. \/ pc["control"] = "awaitStart" /\ Goto("control", "wantIc")
        \/ pc["control"] = "awaitReset" /\ Goto("control", "wantReset")
    BY <1>12 DEF CancelEnds
  <2> QED BY <2>1, <2>2
<1> QED
  BY <1>1, <1>2, <1>3, <1>4, <1>5, <1>6, <1>7, <1>8, <1>9, <1>10, <1>11, <1>12 DEF ControlStep

LEMMA WriterFlow == ASSUME TypeOK, Flow, WriterStep PROVE Flow'
<1> USE GotoTypes DEF ProcsOK, LocksOK, WriterPcs
<1>1. ASSUME Wakes PROVE Flow'
  BY <1>1 DEF Wakes, Refresh
<1>2. ASSUME PriceLapses PROVE Flow'
  BY <1>2 DEF PriceLapses
<1>3. ASSUME PermitExpires PROVE Flow'
  BY <1>3 DEF PermitExpires
<1>4. ASSUME PermitHolds PROVE Flow'
  BY <1>4 DEF PermitHolds, Refresh
<1>5. ASSUME NEW power \in PvPowers, PvAdjusts(power) PROVE Flow'
  <2>1. pc["writer"] = "wantPv" /\ ctl = "free" /\ UNCHANGED <<ic, bus, task, shutdown>>
    BY <1>5 DEF PvAdjusts
  <2>2. CASE ctl' = ctl /\ job' = job /\ (Goto("writer", "off") \/ Goto("writer", "sleep"))
    BY <2>1, <2>2
  <2>3. CASE /\ shutdown = "running" /\ ctl' = "writer"
             /\ job' = [job EXCEPT !["writer"] = Order(power, TRUE, FALSE, "pv")]
             /\ Goto("writer", "wantIc") \/ Goto("writer", "wantReset")
    <3>1. job'["control"] = job["control"]
      BY <2>3
    <3> QED BY <2>1, <2>3, <3>1
  <2> QED BY <1>5, <2>2, <2>3 DEF PvAdjusts
<1> QED BY <1>1, <1>2, <1>3, <1>4, <1>5 DEF WriterStep

LEMMA BasicFlow == ASSUME TypeOK, Flow, BasicStep PROVE Flow'
<1> USE GotoTypes DEF ProcsOK, LocksOK, BasicPcs
<1>1. ASSUME SwitchRequested PROVE Flow'
  BY <1>1 DEF SwitchRequested
<1>2. ASSUME Sends("basic") PROVE Flow'
  BY <1>2 DEF Sends, MayWrite, Queued, InFlight
<1>3. ASSUME SwitchEnds PROVE Flow'
  BY <1>3 DEF SwitchEnds
<1> QED BY <1>1, <1>2, <1>3 DEF BasicStep

LEMMA WriteFlow ==
    ASSUME TypeOK, Flow, NEW p \in {"control", "writer"}, WriteStep(p)
    PROVE  Flow'
<1> USE GotoTypes DEF ProcsOK, LocksOK, Processes, ControlPcs, WriterPcs
<1>1. ASSUME EntersSequence(p) PROVE Flow'
  BY <1>1 DEF EntersSequence, Fail, Released, NoJob, Order, Goto
<1>2. ASSUME EntersReset(p) PROVE Flow'
  BY <1>2 DEF EntersReset, Goto
<1>3. ASSUME Sends(p) PROVE Flow'
  BY <1>3, SMTT(40) DEF Sends, MayWrite, Queued, InFlight, Goto
<1>4. ASSUME ModeAcked(p) PROVE Flow'
  BY <1>4 DEF ModeAcked, Answered, Goto
<1>5. ASSUME SetpointAcked(p) PROVE Flow'
  BY <1>5 DEF SetpointAcked, Answered, Succeed, Released, NoJob, Order, Goto
<1>6. ASSUME RollbackAcked(p) PROVE Flow'
  BY <1>6 DEF RollbackAcked, Answered, Fail, Released, NoJob, Order, Goto
<1>7. ASSUME ResetAcked(p) PROVE Flow'
  BY <1>7 DEF ResetAcked, Answered, AfterStop, NoJob, Order, Goto
<1>8. ASSUME ModeFails(p) \/ RollbackFails(p) PROVE Flow'
  BY <1>8 DEF ModeFails, RollbackFails, Unanswered, Fail, Released, NoJob, Order, Goto
<1>9. ASSUME SetpointFails(p) PROVE Flow'
  BY <1>9 DEF SetpointFails, Unanswered, Goto
<1>10. ASSUME ResetFails(p) PROVE Flow'
  BY <1>10 DEF ResetFails, Unanswered, AfterStop, NoJob, Order, Goto
<1> QED
  BY <1>1, <1>2, <1>3, <1>4, <1>5, <1>6, <1>7, <1>8, <1>9, <1>10 DEF WriteStep

LEMMA NextFlow == TypeOK /\ Flow /\ [Next]_vars => Flow'
<1> SUFFICES ASSUME TypeOK, Flow, [Next]_vars PROVE Flow'
  OBVIOUS
<1>1. CASE Next
  BY <1>1, EnvironmentFlow, ArrivalFlow, ControlFlow, WriterFlow, BasicFlow, WriteFlow DEF Next
<1>2. CASE UNCHANGED vars
  BY <1>2 DEF vars
<1> QED BY <1>1, <1>2

----------------------------------------------------------------------------
(* The storage and what the program believes of it                         *)

\* Only an in-flight write of a mode changes the mode, and only that of
\* a setpoint the power.
LEMMA AppliedEffect ==
    ASSUME TypeOK, NEW p \in {"control", "writer"}
    PROVE  /\ Applied(p).mode = IF pc[p] = "modeF" THEN 1
                                ELSE IF pc[p] \in {"backF", "zeroF"} THEN 0 ELSE dev.mode
           /\ Applied(p).power = IF pc[p] = "setF" THEN job[p].power ELSE dev.power
           /\ pc[p] \notin Flying => Applied(p) = dev
<1>1. dev = [mode |-> dev.mode, power |-> dev.power]
  BY DEF DeviceOK
<1> QED BY <1>1 DEF Applied

LEMMA NextOwned == TypeOK /\ Flow /\ OwnedSetpointMode /\ [Next]_vars => OwnedSetpointMode'
<1> SUFFICES ASSUME TypeOK, Flow, OwnedSetpointMode, [Next]_vars PROVE OwnedSetpointMode'
  OBVIOUS
<1> USE DEF OwnedSetpointMode
<1>1. CASE Environment
  <2>1. dev' = dev \/ dev'.mode = 0
    BY <1>1 DEF Environment, PlanChanges, TariffChanges, DeviceTimeout, PollFails, PollReads, ShutdownStarts
  <2>2. UNCHANGED <<unknown, reset, observed>>
    BY <1>1 DEF Environment, PlanChanges, TariffChanges, DeviceTimeout, PollFails, PollReads, ShutdownStarts
  <2> QED BY <2>1, <2>2
<1>2. CASE Arrival
  <2>1. UNCHANGED <<device, reset, observed>>
    BY <1>2 DEF Arrival, PollBegins, WorkerBegins, UnloadBegins, StopService, StartService
  <2> QED BY <2>1
<1>3. CASE WriterStep
  <2>1. UNCHANGED <<device, reset, observed>>
    BY <1>3 DEF WriterStep, Wakes, PriceLapses, PermitExpires, PermitHolds, PvAdjusts
  <2> QED BY <2>1
<1>4. CASE BasicStep
  <2>1. UNCHANGED <<device, reset, observed>>
    BY <1>4 DEF BasicStep, SwitchRequested, Sends, SwitchEnds
  <2> QED BY <2>1
<1>5. ASSUME NEW to, NEW order,
             CancelWriter(to, order) \/ CancelRollsBack(to, order) \/ KeepWriter(to, order)
      PROVE  dev'.mode = 1 /\ ~unknown' => dev.mode = 1 /\ ~unknown
  <2>1. CASE KeepWriter(to, order)
    BY <2>1 DEF KeepWriter
  <2>2. CASE CancelWriter(to, order)
    <3>1. /\ dev' \in {dev, Applied("writer")}
          /\ unknown' = (unknown \/ (pc["writer"] = "modeF" /\ dev'.mode = 1))
      BY <2>2 DEF CancelWriter
    <3>2. dev'.mode = 1 => dev.mode = 1 \/ pc["writer"] = "modeF"
      BY <3>1, AppliedEffect
    <3> QED BY <3>1, <3>2 DEF DeviceOK
  <2>3. CASE CancelRollsBack(to, order)
    <3>1. dev' \in {dev, Applied("writer")} /\ unknown' = unknown /\ pc["writer"] = "setF"
      BY <2>3 DEF CancelRollsBack
    <3> QED BY <3>1, AppliedEffect
  <2> QED BY <1>5, <2>1, <2>2, <2>3
<1>6. CASE ControlStep
  <2>1. CASE Begins
    <3>1. dev'.mode = 1 /\ ~unknown' => dev.mode = 1 /\ ~unknown
      BY <1>5, <2>1 DEF Begins
    <3>2. CASE Blind
      BY <2>1, <3>1, <3>2 DEF Begins
    <3>3. CASE ~Blind
      <4>1. PICK mode : observed' = mode /\ reset' = (reset \/ (mode = 1 /\ observed # 1))
        BY <2>1, <3>3 DEF Begins
      <4>2. reset => reset'
        BY <4>1 DEF BeliefOK
      <4>3. observed' = 1 => reset'
        BY <4>1, Zenon DEF BeliefOK
      <4> QED BY <3>1, <4>2, <4>3
    <3> QED BY <3>2, <3>3
  <2>2. ASSUME NEW power \in Powers, NEW pvHold \in BOOLEAN, NEW kind \in PermitKinds \cup {"none"},
               DecidesStart(power, pvHold, kind)
        PROVE  OwnedSetpointMode'
    <3>1. UNCHANGED <<reset, observed>>
      BY <2>2 DEF DecidesStart
    <3>2. dev'.mode = 1 /\ ~unknown' => dev.mode = 1 /\ ~unknown
      BY <1>5, <2>2 DEF DecidesStart
    <3> QED BY <3>1, <3>2
  <2>3. CASE Starts
    <3>1. UNCHANGED <<reset, observed>>
      BY <2>3 DEF Starts
    <3>2. dev'.mode = 1 /\ ~unknown' => dev.mode = 1 /\ ~unknown
      BY <1>5, <2>3 DEF Starts
    <3> QED BY <3>1, <3>2
  <2>4. CASE Stops
    <3>1. observed' = observed /\ reset' \in {reset, TRUE}
      BY <2>4 DEF Stops
    <3>2. dev'.mode = 1 /\ ~unknown' => dev.mode = 1 /\ ~unknown
      BY <1>5, <2>4 DEF Stops
    <3> QED BY <3>1, <3>2
  <2>5. CASE BeginsLate \/ Suspends \/ DecidesLate \/ DecidesStop \/ Leaves \/ UnloadDrains \/ UnloadCloses
    <3>1. UNCHANGED <<device, reset, observed>>
      BY <2>5 DEF BeginsLate, Suspends, DecidesLate, DecidesStop, Leaves, UnloadDrains, UnloadCloses
    <3> QED BY <3>1
  <2>6. CASE CancelEnds
    BY <2>6 DEF CancelEnds
  <2> QED BY <1>6, <2>1, <2>2, <2>3, <2>4, <2>5, <2>6 DEF ControlStep
<1>7. ASSUME NEW p \in {"control", "writer"}, WriteStep(p) PROVE OwnedSetpointMode'
  <2>1. CASE EntersSequence(p) \/ EntersReset(p) \/ Sends(p)
    <3>1. UNCHANGED <<device, reset, observed>>
      BY <2>1 DEF EntersSequence, EntersReset, Sends
    <3> QED BY <3>1
  <2>2. CASE ModeAcked(p)
    BY <2>2 DEF ModeAcked
  <2>3. CASE SetpointAcked(p)
    <3>1. dev' = Applied(p) /\ pc[p] = "setF" /\ UNCHANGED <<unknown, reset, observed>>
      BY <2>3 DEF SetpointAcked, Answered
    <3> QED BY <3>1, AppliedEffect
  <2>4. CASE RollbackAcked(p) \/ ResetAcked(p)
    <3>1. dev' = Applied(p) /\ pc[p] \in {"backF", "zeroF"} /\ observed' = 0
      BY <2>4 DEF RollbackAcked, ResetAcked, Answered, Record
    <3>2. dev'.mode = 0
      BY <3>1, AppliedEffect
    <3> QED BY <3>1, <3>2
  <2>5. CASE ModeFails(p) \/ SetpointFails(p) \/ RollbackFails(p) \/ ResetFails(p)
    <3>1. Unanswered(p) /\ UNCHANGED <<reset, observed>>
      BY <2>5 DEF ModeFails, SetpointFails, RollbackFails, ResetFails
    <3>2. \/ UNCHANGED device
          \/ /\ dev' \in {dev, Applied(p)}
             /\ unknown' = (unknown \/ (pc[p] = "modeF" /\ dev'.mode = 1))
      BY <3>1 DEF Unanswered
    <3>3. CASE UNCHANGED device
      BY <3>1, <3>3
    <3>4. CASE /\ dev' \in {dev, Applied(p)}
               /\ unknown' = (unknown \/ (pc[p] = "modeF" /\ dev'.mode = 1))
      <4>1. dev'.mode = 1 => dev.mode = 1 \/ pc[p] = "modeF"
        BY <3>4, AppliedEffect
      <4>2. dev'.mode = 1 /\ ~unknown' => dev.mode = 1 /\ ~unknown
        BY <3>4, <4>1 DEF DeviceOK
      <4> QED BY <3>1, <4>2
    <3> QED BY <3>2, <3>3, <3>4
  <2> QED BY <1>7, <2>1, <2>2, <2>3, <2>4, <2>5 DEF WriteStep
<1>8. CASE UNCHANGED vars
  BY <1>8 DEF vars
<1> QED BY <1>1, <1>2, <1>3, <1>4, <1>6, <1>7, <1>8 DEF Next

\* A failed sequence leaves no writer behind that would repeat something else.
LEMMA FailEndsWriter ==
    ASSUME TypeOK, Flow, NEW p \in {"control", "writer"}, Fail(p),
           pc[p] \in {"wantIc"} \cup Sequence
    PROVE  pc'["writer"] = "off"
<1>1. CASE p = "writer"
  BY <1>1, GotoTypes DEF Fail, WriterPcs
<1>2. CASE p = "control"
  <2>1. pc' = [pc EXCEPT !["control"] = IF job["control"].safe THEN "done" ELSE "failed",
                         !["writer"] = IF job["control"].why = "update" THEN "off" ELSE pc["writer"]]
    BY <1>2 DEF Fail
  <2>2. pc'["writer"] = IF job["control"].why = "update" THEN "off" ELSE pc["writer"]
    BY <2>1 DEF ProcsOK, Processes
  <2> QED BY <1>2, <2>2
<1> QED BY <1>1, <1>2

LEMMA NextFollowed == TypeOK /\ Flow /\ Followed /\ [Next]_vars => Followed'
<1> SUFFICES ASSUME TypeOK, Flow, Followed, [Next]_vars PROVE Followed'
  OBVIOUS
<1> USE DEF Followed
<1>1. CASE Environment
  <2>1. dev' = dev \/ dev'.mode = 0
    BY <1>1 DEF Environment, PlanChanges, TariffChanges, DeviceTimeout, PollFails, PollReads, ShutdownStarts
  <2>2. UNCHANGED <<pc, ic, sunPower>>
    BY <1>1 DEF Environment, PlanChanges, TariffChanges, DeviceTimeout, PollFails, PollReads, ShutdownStarts
  <2> QED BY <2>1, <2>2
<1>2. CASE Arrival
  <2>1. UNCHANGED <<dev, ic, sunPower>>
    BY <1>2 DEF Arrival, PollBegins, WorkerBegins, UnloadBegins, StopService, StartService
  <2>2. pc' = pc \/ \E to \in ControlPcs : Goto("control", to)
    BY <1>2 DEF Arrival, PollBegins, WorkerBegins, UnloadBegins, StopService, StartService, ControlPcs
  <2>3. pc'["writer"] = pc["writer"]
    BY <2>2, GotoTypes
  <2> QED BY <2>1, <2>3
<1>3. CASE WriterStep
  <2>1. UNCHANGED <<dev, ic, sunPower>> /\ Alive
    BY <1>3 DEF WriterStep, Wakes, PriceLapses, PermitExpires, PermitHolds, PvAdjusts
  <2> QED BY <2>1
<1>4. CASE BasicStep
  <2>1. UNCHANGED <<dev, ic, sunPower>>
    BY <1>4 DEF BasicStep, SwitchRequested, Sends, SwitchEnds
  <2>2. \E to : Goto("basic", to)
    BY <1>4 DEF BasicStep, SwitchRequested, Sends, SwitchEnds
  <2>3. pc'["writer"] = pc["writer"]
    BY <2>2 DEF Goto, ProcsOK, Processes
  <2> QED BY <2>1, <2>3
<1>5. CASE ControlStep
  <2>1. ASSUME NEW to, NEW order, CancelWriter(to, order) PROVE Followed'
    BY <2>1 DEF CancelWriter, ProcsOK, Processes
  <2>2. ASSUME NEW to, NEW order, KeepWriter(to, order), sunPower' = sunPower PROVE Followed'
    <3>1. pc'["writer"] = pc["writer"]
      BY <2>2 DEF KeepWriter, Goto, ProcsOK, Processes
    <3> QED BY <2>2, <3>1 DEF KeepWriter
  <2>3. CASE Begins
    BY <2>1, <2>2, <2>3 DEF Begins
  <2>8. ASSUME NEW to, NEW order, CancelRollsBack(to, order) PROVE Followed'
    <3>1. pc["writer"] = "setF" /\ ic' = ic
      BY <2>8 DEF CancelRollsBack
    <3> QED BY <3>1
  <2>9. CASE CancelEnds
    <3>1. pc["writer"] = "off" /\ \E to : Goto("control", to)
      BY <2>9 DEF CancelEnds
    <3>2. pc'["writer"] = pc["writer"]
      BY <3>1 DEF Goto, ProcsOK, Processes
    <3> QED BY <3>1, <3>2
  <2>4. ASSUME NEW power \in Powers, NEW pvHold \in BOOLEAN, NEW kind \in PermitKinds \cup {"none"},
               DecidesStart(power, pvHold, kind)
        PROVE  Followed'
    BY <2>1, <2>2, <2>4, <2>8 DEF DecidesStart
  <2>5. CASE Starts
    BY <2>1, <2>2, <2>5, <2>8 DEF Starts
  <2>6. CASE Stops
    BY <2>1, <2>2, <2>6, <2>8 DEF Stops
  <2>7. CASE BeginsLate \/ Suspends \/ DecidesLate \/ DecidesStop \/ Leaves \/ UnloadDrains \/ UnloadCloses
    <3>1. UNCHANGED <<dev, ic, sunPower>>
      BY <2>7 DEF BeginsLate, Suspends, DecidesLate, DecidesStop, Leaves, UnloadDrains, UnloadCloses
    <3>2. \E to : Goto("control", to)
      BY <2>7 DEF BeginsLate, Suspends, DecidesLate, DecidesStop, Leaves, UnloadDrains, UnloadCloses
    <3>3. pc'["writer"] = pc["writer"]
      BY <3>2 DEF Goto, ProcsOK, Processes
    <3> QED BY <3>1, <3>3
  <2> QED BY <1>5, <2>3, <2>4, <2>5, <2>6, <2>7, <2>9 DEF ControlStep
<1>6. ASSUME NEW p \in {"control", "writer"}, WriteStep(p) PROVE Followed'
  <2>1. CASE EntersSequence(p)
    <3>1. CASE Fail(p)
      BY <2>1, <3>1, FailEndsWriter DEF EntersSequence
    <3>2. CASE ic' = p
      BY <3>2
    <3> QED BY <2>1, <3>1, <3>2 DEF EntersSequence
  <2>2. CASE EntersReset(p)
    BY <2>2 DEF EntersReset
  <2>3. CASE Sends(p) \/ ModeAcked(p) \/ SetpointFails(p)
    <3>1. ic' = ic /\ pc[p] \in {"basicQ"} \cup Sequence \cup Reset
      BY <2>3 DEF Sends, ModeAcked, SetpointFails, Queued
    <3>2. ic = p
      BY <3>1 DEF ProcsOK, ControlPcs, WriterPcs
    <3> QED BY <3>1, <3>2
  <2>4. CASE SetpointAcked(p)
    <3>1. pc[p] = "setF" /\ dev' = Applied(p)
      BY <2>4 DEF SetpointAcked, Answered
    <3>2. dev'.power = job[p].power /\ ic = p
      BY <3>1, AppliedEffect
    <3>3. CASE ic' = ic
      BY <3>2, <3>3
    <3>4. CASE Succeed(p)
      <4>1. CASE sunPower' = job[p].power
        BY <3>2, <4>1
      <4>2. CASE sunPower' # job[p].power
        <5>1. p = "control" /\ job[p].why = "create" /\ Goto("control", "done")
          BY <3>4, <4>2 DEF Succeed
        <5>2. pc'["writer"] = pc["writer"]
          BY <5>1 DEF Goto, ProcsOK, Processes
        <5> QED BY <3>1, <5>1, <5>2
      <4> QED BY <4>1, <4>2
    <3> QED BY <2>4, <3>3, <3>4 DEF SetpointAcked
  <2>5. CASE RollbackAcked(p) \/ ModeFails(p) \/ RollbackFails(p)
    <3>1. Fail(p) /\ pc[p] \in Sequence
      BY <2>5 DEF RollbackAcked, ModeFails, RollbackFails
    <3> QED BY <3>1, FailEndsWriter
  <2>6. CASE ResetAcked(p) \/ ResetFails(p)
    <3>1. /\ pc[p] \in Reset
          /\ p = "writer" => Goto("writer", "off")
          /\ p = "control" => \E to : Goto("control", to)
      BY <2>6 DEF ResetAcked, ResetFails
    <3>2. CASE p = "writer"
      BY <3>1, <3>2 DEF Goto, ProcsOK, Processes
    <3>3. CASE p = "control"
      BY <3>1, <3>3 DEF Goto, ProcsOK, Processes
    <3> QED BY <3>2, <3>3
  <2> QED BY <1>6, <2>1, <2>2, <2>3, <2>4, <2>5, <2>6 DEF WriteStep
<1>7. CASE UNCHANGED vars
  BY <1>7 DEF vars
<1> QED BY <1>1, <1>2, <1>3, <1>4, <1>5, <1>6, <1>7 DEF Next

LEMMA NextBooked == TypeOK /\ Flow /\ ResetBooked /\ [Next]_vars => ResetBooked'
<1> SUFFICES ASSUME TypeOK, Flow, ResetBooked, [Next]_vars PROVE ResetBooked'
  OBVIOUS
<1> USE DEF ResetBooked
<1>1. CASE Environment
  <2>1. UNCHANGED <<pc, reset>>
    BY <1>1 DEF Environment, PlanChanges, TariffChanges, DeviceTimeout, PollFails, PollReads, ShutdownStarts
  <2> QED BY <2>1
<1>2. CASE Arrival
  <2>1. reset' = reset
    BY <1>2 DEF Arrival, PollBegins, WorkerBegins, UnloadBegins, StopService, StartService
  <2>2. pc' = pc \/ \E to \in {"begin", "drain", "stop"} : Goto("control", to)
    BY <1>2 DEF Arrival, PollBegins, WorkerBegins, UnloadBegins, StopService, StartService
  <2> QED BY <2>1, <2>2, GotoTypes DEF ControlPcs
<1>3. CASE WriterStep
  <2>1. reset' = reset
    BY <1>3 DEF WriterStep, Wakes, PriceLapses, PermitExpires, PermitHolds, PvAdjusts
  <2>2. \E to : Goto("writer", to)
    BY <1>3 DEF WriterStep, Wakes, PriceLapses, PermitExpires, PermitHolds, PvAdjusts
  <2>3. pc'["control"] = pc["control"]
    BY <2>2 DEF Goto, ProcsOK, Processes
  <2> QED BY <2>1, <2>3
<1>4. CASE BasicStep
  <2>1. reset' = reset
    BY <1>4 DEF BasicStep, SwitchRequested, Sends, SwitchEnds
  <2>2. \E to : Goto("basic", to)
    BY <1>4 DEF BasicStep, SwitchRequested, Sends, SwitchEnds
  <2>3. pc'["control"] = pc["control"]
    BY <2>2 DEF Goto, ProcsOK, Processes
  <2> QED BY <2>1, <2>3
<1>5. CASE ControlStep
  <2>1. CASE Stops
    <3>1. \/ CancelWriter("wantReset", job["control"]) /\ reset'
          \/ CancelRollsBack("awaitReset", job["control"])
          \/ KeepWriter(AfterStop(TRUE), NoJob)
      BY <2>1 DEF Stops
    <3>2. AfterStop(TRUE) \notin {"wantReset"} \cup Reset
      BY DEF AfterStop
    <3>3. reset' \/ pc'["control"] \in {"awaitReset", AfterStop(TRUE)}
      BY <3>1 DEF CancelRollsBack, KeepWriter, Goto, ProcsOK, Processes
    <3> QED BY <3>2, <3>3
  <2>2. CASE CancelEnds
    <3>1. Goto("control", "wantIc") \/ reset'
      BY <2>2 DEF CancelEnds
    <3> QED BY <3>1, GotoTypes DEF ControlPcs
  <2>3. ASSUME NEW to \in ControlPcs \ ({"wantReset"} \cup Reset), NEW order,
               CancelWriter(to, order) \/ CancelRollsBack(to, order) \/ KeepWriter(to, order)
        PROVE  ResetBooked'
    <3>1. pc'["control"] = to
      BY <2>3 DEF CancelWriter, CancelRollsBack, KeepWriter, Goto, ProcsOK, Processes
    <3> QED BY <3>1
  <2>4. {"outage", "decide", "start", "awaitStart", "wantIc", "done", "failed"}
          \subseteq ControlPcs \ ({"wantReset"} \cup Reset)
    BY DEF ControlPcs
  <2>5. CASE Begins
    BY <2>3, <2>4, <2>5 DEF Begins
  <2>6. ASSUME NEW power \in Powers, NEW pvHold \in BOOLEAN, NEW kind \in PermitKinds \cup {"none"},
               DecidesStart(power, pvHold, kind)
        PROVE  ResetBooked'
    BY <2>3, <2>4, <2>6 DEF DecidesStart
  <2>7. CASE Starts
    BY <2>3, <2>4, <2>7 DEF Starts
  <2>8. CASE BeginsLate \/ Suspends \/ DecidesLate \/ DecidesStop \/ Leaves \/ UnloadDrains \/ UnloadCloses
    <3>1. \E to \in {"failed", "done", "start", "stop", "begin", "idle"} : Goto("control", to)
      BY <2>8 DEF BeginsLate, Suspends, DecidesLate, DecidesStop, Leaves, UnloadDrains, UnloadCloses
    <3> QED BY <3>1, GotoTypes DEF ControlPcs
  <2> QED BY <1>5, <2>1, <2>2, <2>5, <2>6, <2>7, <2>8 DEF ControlStep
<1>6. ASSUME NEW p \in {"control", "writer"}, WriteStep(p) PROVE ResetBooked'
  <2>1. CASE EntersSequence(p) \/ EntersReset(p) \/ Sends(p) \/ SetpointFails(p)
             \/ SetpointAcked(p) \/ ModeFails(p) \/ RollbackFails(p)
    <3>1. reset' = reset
      BY <2>1 DEF EntersSequence, EntersReset, Sends, SetpointFails, SetpointAcked, ModeFails, RollbackFails
    <3>2. pc'["control"] \in {"wantReset"} \cup Reset => pc["control"] \in {"wantReset"} \cup Reset
      <4>1. CASE EntersSequence(p) \/ ModeFails(p) \/ RollbackFails(p)
        BY <4>1 DEF EntersSequence, ModeFails, RollbackFails, Fail, Goto, ProcsOK, Processes
      <4>2. CASE EntersReset(p) \/ SetpointFails(p)
        BY <4>2 DEF EntersReset, SetpointFails, Goto, ProcsOK, Processes
      <4>3. CASE Sends(p)
        BY <4>3 DEF Sends, InFlight, Queued, Goto, ProcsOK, Processes
      <4>4. CASE SetpointAcked(p)
        BY <4>4 DEF SetpointAcked, Succeed, Goto, ProcsOK, Processes
      <4> QED BY <2>1, <4>1, <4>2, <4>3, <4>4
    <3> QED BY <3>1, <3>2
  <2>2. CASE ModeAcked(p)
    BY <2>2 DEF ModeAcked
  <2>3. CASE RollbackAcked(p)
    <3>1. pc[p] = "backF" /\ Fail(p)
      BY <2>3 DEF RollbackAcked
    <3>2. pc["control"] \notin {"wantReset"} \cup Reset
      BY <3>1
    <3> QED BY <3>1, <3>2 DEF Fail, Goto, ProcsOK, Processes
  <2>4. CASE ResetAcked(p) \/ ResetFails(p)
    <3>1. /\ pc[p] \in Reset
          /\ \/ p = "control" /\ \E ok \in BOOLEAN : Goto("control", AfterStop(ok))
             \/ p = "writer" /\ Goto("writer", "off")
      BY <2>4 DEF ResetAcked, ResetFails
    <3>2. \A ok \in BOOLEAN : AfterStop(ok) \notin {"wantReset"} \cup Reset
      BY DEF AfterStop
    <3>3. CASE p = "control"
      BY <3>1, <3>2, <3>3 DEF Goto, ProcsOK, Processes
    <3>4. CASE p = "writer"
      <4>1. pc["control"] \notin {"wantReset"} \cup Reset
        BY <3>1, <3>4
      <4> QED BY <3>1, <3>4, <4>1 DEF Goto, ProcsOK, Processes
    <3> QED BY <3>3, <3>4
  <2> QED BY <1>6, <2>1, <2>2, <2>3, <2>4 DEF WriteStep
<1>7. CASE UNCHANGED vars
  BY <1>7 DEF vars
<1> QED BY <1>1, <1>2, <1>3, <1>4, <1>5, <1>6, <1>7 DEF Next

----------------------------------------------------------------------------
(* The theorems                                                            *)

LEMMA InitInvariant == Init => IInv
<1> SUFFICES ASSUME Init PROVE IInv
  OBVIOUS
<1>1. TypeOK
  BY InitTypes
<1>2. /\ pc["control"] = "idle" /\ pc["writer"] = "off" /\ pc["basic"] = "off"
      /\ ctl = "free" /\ ic = "free" /\ bus = "free" /\ shutdown = "running"
  BY DEF Init, Processes
<1>3. Flow
  BY <1>2
<1>4. observed # 1
  BY NoneAssumption DEF Init
<1>5. OwnedSetpointMode
  BY <1>4 DEF Init, OwnedSetpointMode
<1> QED BY <1>1, <1>2, <1>3, <1>5 DEF IInv, Followed, ResetBooked

\* The inductive invariant.
THEOREM InvariantHolds == Spec => []IInv
<1>1. IInv /\ [Next]_vars => IInv'
  BY NextTypes, NextFlow, NextOwned, NextFollowed, NextBooked DEF IInv
<1> QED BY InitInvariant, <1>1, PTL DEF Spec

(***************************************************************************)
(* The two processes that write the Immediate Controls exclude each other, *)
(* and neither a reset nor a first write runs next to a living writer.     *)
(***************************************************************************)
THEOREM SequencesExclude == Spec => []OneSequence
<1>1. IInv => OneSequence
  BY DEF IInv, OneSequence
<1> QED BY <1>1, InvariantHolds, PTL

\* Setpoint mode the program brought about or saw has a reset on the books.
THEOREM SetpointModeOwned == Spec => []OwnedSetpointMode
<1>1. IInv => OwnedSetpointMode
  BY DEF IInv
<1> QED BY <1>1, InvariantHolds, PTL

\* A sleeping writer repeats what the storage already follows.
THEOREM RefreshRepeats == Spec => []WriterRepeatsDevice
<1>1. IInv => WriterRepeatsDevice
  BY DEF IInv, Followed, WriterRepeatsDevice
<1> QED BY <1>1, InvariantHolds, PTL

\* The final gate of the unload leaves nothing behind that could still write.
THEOREM UnloadIsFinal == Spec => []QuietAfterUnload
<1>1. IInv => QuietAfterUnload
  BY DEF IInv, QuietAfterUnload
<1> QED BY <1>1, InvariantHolds, PTL

(***************************************************************************)
(* While one process is in its sequence, only its own answered or lost     *)
(* requests and the storage's timeout change the registers.                *)
(***************************************************************************)
THEOREM SequenceUntouched == Spec => SequenceNotTorn
<1> DEFINE
      Untorn(p) == pc[p] \in Sequence /\ dev' # dev =>
                      \/ pc[p] \in Flying /\ pc'[p] # pc[p]
                      \/ dev'.mode = 0 /\ dev'.power = None
<1>1. ASSUME IInv, Next, NEW p \in {"control", "writer"} PROVE Untorn(p)
  <2> SUFFICES ASSUME pc[p] \in Sequence, dev' # dev
               PROVE  \/ pc[p] \in Flying /\ pc'[p] # pc[p]
                      \/ dev'.mode = 0 /\ dev'.power = None
    OBVIOUS
  <2>0. TypeOK /\ Flow
    BY <1>1 DEF IInv
  <2>1. CASE Environment
    <3>1. dev' = [mode |-> 0, power |-> None]
      BY <2>1 DEF Environment, PlanChanges, TariffChanges, DeviceTimeout, PollFails, PollReads, ShutdownStarts
    <3> QED BY <3>1
  <2>2. CASE Arrival \/ WriterStep \/ BasicStep
    <3>1. CASE Arrival
      BY <3>1 DEF Arrival, PollBegins, WorkerBegins, UnloadBegins, StopService, StartService
    <3>2. CASE WriterStep
      BY <3>2 DEF WriterStep, Wakes, PriceLapses, PermitExpires, PermitHolds, PvAdjusts
    <3>3. CASE BasicStep
      BY <3>3 DEF BasicStep, SwitchRequested, Sends, SwitchEnds
    <3> QED BY <2>2, <3>1, <3>2, <3>3
  <2>3. CASE ControlStep
    <3>1. PICK to, order : CancelWriter(to, order) \/ CancelRollsBack(to, order)
      <4>1. ASSUME NEW power, NEW pvHold, NEW kind, DecidesStart(power, pvHold, kind)
            PROVE  \E to, order : CancelWriter(to, order) \/ CancelRollsBack(to, order)
        BY <4>1 DEF DecidesStart, KeepWriter
      <4>2. CASE Begins
        BY <4>2 DEF Begins, KeepWriter
      <4>3. CASE Starts
        BY <4>3 DEF Starts, KeepWriter
      <4>4. CASE Stops
        BY <4>4 DEF Stops, KeepWriter
      <4>5. CASE BeginsLate \/ Suspends \/ DecidesLate \/ DecidesStop \/ Leaves \/ CancelEnds
                 \/ UnloadDrains \/ UnloadCloses
        BY <4>5 DEF BeginsLate, Suspends, DecidesLate, DecidesStop, Leaves, CancelEnds, UnloadDrains, UnloadCloses
      <4> QED BY <2>3, <4>1, <4>2, <4>3, <4>4, <4>5 DEF ControlStep
    <3>2. /\ dev' \in {dev, Applied("writer")}
          /\ \E left \in {"off", "backQ"} : pc' = [pc EXCEPT !["writer"] = left, !["control"] = to]
      BY <3>1 DEF CancelWriter, CancelRollsBack
    <3>3. pc["writer"] \in Flying
      BY <2>0, <3>2, AppliedEffect
    <3>4. p = "writer"
      BY <2>0, <3>3 DEF ProcsOK, WriterPcs
    <3>5. pc'["writer"] \in {"off", "backQ"}
      BY <2>0, <3>2 DEF ProcsOK, Processes
    <3> QED BY <3>3, <3>4, <3>5
  <2>4. ASSUME NEW q \in {"control", "writer"}, WriteStep(q)
        PROVE  pc[p] \in Flying /\ pc'[p] # pc[p]
    <3>1. dev' \in {dev, Applied(q)}
      BY <2>4 DEF WriteStep, EntersSequence, EntersReset, Sends, ModeAcked, SetpointAcked, RollbackAcked,
                  ResetAcked, ModeFails, SetpointFails, RollbackFails, ResetFails, Answered, Unanswered
    <3>2. pc[q] \in Flying
      BY <2>0, <3>1, AppliedEffect
    <3>3. q = p
      BY <2>0, <3>2 DEF ProcsOK, ControlPcs, WriterPcs
    <3>4. pc'[p] \notin Flying
      <4>1. CASE EntersSequence(q) \/ EntersReset(q) \/ Sends(q)
        BY <3>2, <4>1 DEF EntersSequence, EntersReset, Sends, Queued
      <4>2. CASE ModeAcked(q) \/ SetpointFails(q)
        BY <2>0, <3>3, <4>2 DEF ModeAcked, SetpointFails, Goto, ProcsOK, Processes
      <4>3. CASE SetpointAcked(q)
        BY <2>0, <3>3, <4>3 DEF SetpointAcked, Succeed, Goto, ProcsOK, Processes
      <4>4. CASE RollbackAcked(q) \/ ModeFails(q) \/ RollbackFails(q)
        BY <2>0, <3>3, <4>4 DEF RollbackAcked, ModeFails, RollbackFails, Fail, Goto, ProcsOK, Processes
      <4>5. CASE ResetAcked(q) \/ ResetFails(q)
        BY <2>0, <3>3, <4>5 DEF ResetAcked, ResetFails
      <4> QED BY <2>4, <4>1, <4>2, <4>3, <4>4, <4>5 DEF WriteStep
    <3> QED BY <3>2, <3>3, <3>4
  <2>5. CASE \E q \in {"control", "writer"} : WriteStep(q)
    BY <2>4, <2>5
  <2> QED BY <1>1, <2>1, <2>2, <2>3, <2>5 DEF Next
<1>2. IInv /\ [Next]_vars => [\A p \in {"control", "writer"} : Untorn(p)]_vars
  BY <1>1
<1> QED BY <1>2, InvariantHolds, PTL DEF Spec, SequenceNotTorn

(***************************************************************************)
(* A stop service that reports a refused reset has it on the books for the *)
(* next poll and the next call.                                            *)
(***************************************************************************)
THEOREM RefusedStopOwed == Spec => FailedStopIsOwed
<1>1. IInv /\ [Next]_vars =>
        [ctl = "stop" /\ pc["control"] \in Reset /\ pc'["control"] = "failed" => reset']_vars
  <2> SUFFICES ASSUME IInv, Next, pc["control"] \in Reset, pc'["control"] = "failed"
               PROVE  reset'
    OBVIOUS
  <2>0. TypeOK /\ Flow /\ reset
    BY DEF IInv, ResetBooked
  <2>1. CASE Environment
    BY <2>0, <2>1 DEF Environment, PlanChanges, TariffChanges, DeviceTimeout, PollFails, PollReads, ShutdownStarts
  <2>2. CASE Arrival \/ WriterStep \/ BasicStep
    <3>1. reset' = reset
      BY <2>2 DEF Arrival, PollBegins, WorkerBegins, UnloadBegins, StopService, StartService,
                  WriterStep, Wakes, PriceLapses, PermitExpires, PermitHolds, PvAdjusts,
                  BasicStep, SwitchRequested, Sends, SwitchEnds
    <3> QED BY <2>0, <3>1
  <2>3. CASE ControlStep
    <3>1. pc["control"] \in {"begin", "outage", "decide", "start", "stop", "awaitStart", "awaitReset",
                             "drain", "close", "done", "failed"}
      BY <2>3 DEF ControlStep, Begins, BeginsLate, Suspends, DecidesLate, DecidesStop, DecidesStart,
                  Starts, Stops, CancelEnds, Leaves, UnloadDrains, UnloadCloses
    <3> QED BY <3>1
  <2>4. ASSUME NEW p \in {"control", "writer"}, WriteStep(p) PROVE reset'
    <3>1. CASE RollbackAcked(p) \/ ResetAcked(p)
      <4>1. pc[p] \in Sequence \cup Reset
        BY <3>1 DEF RollbackAcked, ResetAcked
      <4>2. p = "control"
        BY <2>0, <4>1
      <4>3. ResetAcked("control")
        BY <3>1, <4>2 DEF RollbackAcked
      <4>4. pc'["control"] = AfterStop(TRUE)
        BY <2>0, <4>3 DEF ResetAcked, Goto, ProcsOK, Processes
      <4> QED BY <4>4 DEF AfterStop
    <3>2. CASE ModeAcked(p)
      BY <3>2 DEF ModeAcked
    <3>3. CASE reset' = reset
      BY <2>0, <3>3
    <3> QED
      BY <2>4, <3>1, <3>2, <3>3
      DEF WriteStep, EntersSequence, EntersReset, Sends, SetpointAcked, ModeFails, SetpointFails,
          RollbackFails, ResetFails
  <2>5. CASE \E p \in {"control", "writer"} : WriteStep(p)
    BY <2>4, <2>5
  <2> QED BY <2>1, <2>2, <2>3, <2>5 DEF Next
<1> QED BY <1>1, InvariantHolds, PTL DEF Spec, FailedStopIsOwed

(***************************************************************************)
(* What a stop service has achieved stays: its order is withdrawn, and once*)
(* its reset was confirmed the evaluation that follows finds no writer and *)
(* no mode 1 it knows of.                                                  *)
(***************************************************************************)
AfterConfirmation ==
    \/ pc["control"] \in {"begin", "outage", "decide"}
    \/ pc["control"] \in {"stop", "awaitReset", "wantReset"} \cup Reset
          /\ job["control"].why = "release"

StopAchieved ==
    ctl = "stop" => /\ manual = None
                    /\ AfterConfirmation => ~Alive /\ (dev.mode = 1 => unknown)

LEMMA StopControl ==
    ASSUME TypeOK, Flow, OwnedSetpointMode, StopAchieved, ControlStep
    PROVE  StopAchieved'
<1> USE GotoTypes DEF ProcsOK, LocksOK, Processes, ControlPcs, WriterPcs
<1>1. (manual' = manual /\ ctl' = ctl) \/ ctl' = "free"
  <2>1. CASE Begins \/ BeginsLate \/ Suspends \/ DecidesLate \/ DecidesStop
    BY <2>1 DEF Begins, BeginsLate, Suspends, DecidesLate, DecidesStop, orders, locks
  <2>2. ASSUME NEW power, NEW pvHold, NEW kind, DecidesStart(power, pvHold, kind)
        PROVE  manual' = manual /\ ctl' = ctl
    BY <2>2 DEF DecidesStart
  <2>3. CASE Starts \/ Stops
    BY <2>3 DEF Starts, Stops, orders
  <2>4. CASE CancelEnds \/ Leaves \/ UnloadDrains \/ UnloadCloses
    BY <2>4 DEF CancelEnds, Leaves, UnloadDrains, UnloadCloses, orders, locks
  <2> QED BY <2>1, <2>2, <2>3, <2>4 DEF ControlStep
<1> SUFFICES ASSUME ctl = "stop", ctl' = "stop", AfterConfirmation'
             PROVE  ~Alive' /\ (dev'.mode = 1 => unknown')
  <2>1. manual' = manual \/ ctl' # "stop"
    BY <1>1
  <2>2. ctl = "stop" \/ ctl' # "stop"
    BY <1>1
  <2> QED BY <2>1, <2>2 DEF StopAchieved
<1>3. ASSUME AfterConfirmation, NEW to, NEW order, CancelWriter(to, order)
      PROVE  ~Alive' /\ (dev'.mode = 1 => unknown')
  <2>1. pc["writer"] = "off" /\ (dev.mode = 1 => unknown)
    BY <1>3 DEF StopAchieved
  <2>2. dev' = dev \/ dev' = Applied("writer")
    BY <1>3 DEF CancelWriter
  <2>3. Applied("writer").mode = dev.mode
    BY <2>1 DEF Applied
  <2>4. dev'.mode = dev.mode
    BY <2>2, <2>3
  <2>5. unknown => unknown'
    BY <1>3 DEF CancelWriter
  <2>6. pc'["writer"] = "off"
    BY <1>3 DEF CancelWriter
  <2> QED BY <2>1, <2>4, <2>5, <2>6
<1>4. ASSUME AfterConfirmation, UNCHANGED device, pc'["writer"] = pc["writer"]
      PROVE  ~Alive' /\ (dev'.mode = 1 => unknown')
  BY <1>4 DEF StopAchieved, device
<1>5. CASE Begins
  <2>1. AfterConfirmation
    BY <1>5 DEF Begins, AfterConfirmation
  <2> QED BY <1>3, <1>4, <1>5, <2>1 DEF Begins, KeepWriter, Goto
<1>6. CASE Suspends \/ DecidesStop
  <2>1. AfterConfirmation
    BY <1>6 DEF Suspends, DecidesStop, AfterConfirmation
  <2> QED BY <1>4, <1>6, <2>1 DEF Suspends, DecidesStop, Goto
<1>7. CASE Stops
  <2>1. CASE KeepWriter(AfterStop(TRUE), NoJob) /\ ~task /\ ~reset
    BY <2>1 DEF KeepWriter, Goto, OwnedSetpointMode, device
  <2>2. CASE CancelWriter("wantReset", job["control"])
    <3>1. job'["control"] = job["control"] /\ pc'["control"] = "wantReset"
      BY <2>2 DEF CancelWriter
    <3>2. AfterConfirmation
      BY <1>7, <3>1 DEF Stops, AfterConfirmation
    <3> QED BY <1>3, <2>2, <3>2
  <2>3. CASE CancelRollsBack("awaitReset", job["control"])
    <3>1. job'["control"] = job["control"] /\ pc'["control"] = "awaitReset" /\ Alive
      BY <2>3 DEF CancelRollsBack
    <3>2. AfterConfirmation
      BY <1>7, <3>1 DEF Stops, AfterConfirmation
    <3> QED BY <3>1, <3>2 DEF StopAchieved
  <2> QED BY <1>7, <2>1, <2>2, <2>3 DEF Stops
<1>8. CASE CancelEnds
  <2>1. job' = job /\ UNCHANGED device
    BY <1>8 DEF CancelEnds
  <2>2. \/ pc["control"] = "awaitStart" /\ Goto("control", "wantIc")
        \/ pc["control"] = "awaitReset" /\ Goto("control", "wantReset")
    BY <1>8 DEF CancelEnds
  <2>3. pc'["writer"] = pc["writer"]
    BY <2>2
  <2>4. pc["control"] = "awaitReset" /\ pc'["control"] = "wantReset"
    BY <2>2 DEF AfterConfirmation
  <2>5. job["control"].why = "release"
    BY <2>1, <2>4 DEF AfterConfirmation
  <2>6. AfterConfirmation
    BY <2>4, <2>5 DEF AfterConfirmation
  <2> QED BY <1>4, <2>1, <2>3, <2>6
<1>9. CASE BeginsLate \/ DecidesLate \/ Leaves
  <2>1. pc'["control"] \in {"done", "failed", "idle"}
    BY <1>9 DEF BeginsLate, DecidesLate, Leaves, Goto
  <2> QED BY <2>1 DEF AfterConfirmation
<1>10. CASE UnloadDrains \/ UnloadCloses
  BY <1>10 DEF UnloadDrains, UnloadCloses
<1>11. CASE Starts
  <2>1. pc'["control"] \in {"done", "failed", "wantIc", "awaitStart"}
    BY <1>11 DEF Starts, KeepWriter, CancelWriter, CancelRollsBack, Goto
  <2> QED BY <2>1 DEF AfterConfirmation
<1>12. ASSUME NEW power, NEW pvHold, NEW kind, DecidesStart(power, pvHold, kind)
       PROVE  ~Alive' /\ (dev'.mode = 1 => unknown')
  <2>1. pc'["control"] \in {"start", "awaitStart"}
    BY <1>12 DEF DecidesStart, KeepWriter, CancelWriter, CancelRollsBack, Goto
  <2> QED BY <2>1 DEF AfterConfirmation
<1> QED BY <1>5, <1>6, <1>7, <1>8, <1>9, <1>10, <1>11, <1>12 DEF ControlStep

LEMMA StopWrites ==
    ASSUME TypeOK, Flow, StopAchieved, NEW p \in {"control", "writer"}, WriteStep(p)
    PROVE  StopAchieved'
<1> USE GotoTypes DEF ProcsOK, LocksOK, Processes, ControlPcs, WriterPcs
<1>1. manual' = manual /\ (ctl' = ctl \/ ctl' # "stop")
  <2>1. CASE EntersSequence(p) \/ EntersReset(p) \/ Sends(p)
    BY <2>1 DEF EntersSequence, EntersReset, Sends, Fail, Released, orders
  <2>2. CASE ModeAcked(p) \/ ModeFails(p) \/ SetpointFails(p)
    BY <2>2 DEF ModeAcked, ModeFails, SetpointFails, Fail, Released, orders
  <2>3. CASE SetpointAcked(p)
    BY <2>3 DEF SetpointAcked, Succeed, Released, orders
  <2>4. CASE RollbackAcked(p) \/ RollbackFails(p)
    BY <2>4 DEF RollbackAcked, RollbackFails, Fail, Released, orders
  <2>5. CASE ResetAcked(p) \/ ResetFails(p)
    BY <2>5 DEF ResetAcked, ResetFails, orders
  <2> QED BY <2>1, <2>2, <2>3, <2>4, <2>5 DEF WriteStep
<1> SUFFICES ASSUME ctl = "stop", ctl' = "stop", AfterConfirmation'
             PROVE  ~Alive' /\ (dev'.mode = 1 => unknown')
  BY <1>1 DEF StopAchieved
<1>2. CASE p = "writer"
  <2>1. pc["writer"] # "off"
    BY <1>2 DEF WriteStep, EntersSequence, EntersReset, Sends, ModeAcked, SetpointAcked,
                RollbackAcked, ResetAcked, ModeFails, SetpointFails, RollbackFails, ResetFails,
                Unanswered, Queued
  <2>2. pc'["control"] = pc["control"] /\ job'["control"] = job["control"]
    BY <1>2 DEF WriteStep, EntersSequence, EntersReset, Sends, ModeAcked, SetpointAcked,
                RollbackAcked, ResetAcked, ModeFails, SetpointFails, RollbackFails, ResetFails,
                Fail, Succeed, Goto
  <2>3. AfterConfirmation
    BY <2>2 DEF AfterConfirmation
  <2> QED BY <2>1, <2>3 DEF StopAchieved
<1>3. CASE p = "control"
  <2>1. CASE EntersReset("control") \/ (Sends("control") /\ pc["control"] \in Reset)
    <3>1. /\ job' = job /\ UNCHANGED device /\ pc'["writer"] = pc["writer"]
          /\ pc["control"] \in {"wantReset"} \cup Reset /\ pc'["control"] \in Reset
      BY <2>1 DEF EntersReset, Sends, Goto, InFlight
    <3>2. AfterConfirmation
      BY <3>1 DEF AfterConfirmation
    <3> QED BY <3>1, <3>2 DEF StopAchieved, device
  <2>2. CASE ResetAcked("control")
    <3>1. ~Alive /\ dev'.mode = 0 /\ pc'["writer"] = pc["writer"]
      BY <2>2 DEF ResetAcked, Answered, Applied, Goto
    <3> QED BY <3>1
  <2>3. CASE ResetFails("control")
    <3>1. pc'["control"] \in {"close", "done", "failed"}
      BY <2>3 DEF ResetFails, AfterStop, Goto
    <3> QED BY <3>1 DEF AfterConfirmation
  <2>4. CASE pc'["control"] \in Sequence \cup {"done", "failed"}
    BY <2>4 DEF AfterConfirmation
  <2>5. \/ EntersReset("control") \/ (Sends("control") /\ pc["control"] \in Reset)
        \/ ResetAcked("control") \/ ResetFails("control")
        \/ pc'["control"] \in Sequence \cup {"done", "failed"}
    BY <1>3 DEF WriteStep, EntersSequence, Sends, ModeAcked, SetpointAcked, RollbackAcked,
                ModeFails, SetpointFails, RollbackFails, Fail, Succeed, Goto, Queued, InFlight
  <2> QED BY <2>1, <2>2, <2>3, <2>4, <2>5
<1> QED BY <1>2, <1>3

LEMMA NextAchieved ==
    ASSUME TypeOK, Flow, OwnedSetpointMode, StopAchieved, [Next]_vars
    PROVE  StopAchieved'
<1> USE GotoTypes DEF ProcsOK, LocksOK, Processes, ControlPcs, WriterPcs
<1>1. CASE Environment
  <2>1. UNCHANGED <<ctl, pc, job, manual, unknown>> /\ (dev' = dev \/ dev'.mode = 0)
    BY <1>1 DEF Environment, PlanChanges, TariffChanges, DeviceTimeout, PollFails, PollReads,
                ShutdownStarts
  <2> QED BY <2>1 DEF StopAchieved, AfterConfirmation
<1>2. CASE Arrival
  <2>1. CASE StopService
    BY <2>1 DEF StopService, StopAchieved, AfterConfirmation, Order, Goto
  <2>2. CASE ctl' \in {"poll", "worker", "start", "unload"}
    BY <2>2 DEF StopAchieved
  <2>3. CASE UNCHANGED <<ctl, pc, job, manual, dev, unknown>>
    BY <2>3 DEF StopAchieved, AfterConfirmation
  <2>4. CASE WorkerBegins
    BY <2>2, <2>3, <2>4 DEF WorkerBegins, device, orders
  <2>5. CASE PollBegins \/ UnloadBegins \/ \E power \in Manuals : StartService(power)
    BY <2>2, <2>5 DEF PollBegins, UnloadBegins, StartService
  <2> QED BY <1>2, <2>1, <2>4, <2>5 DEF Arrival
<1>3. CASE WriterStep
  <2>1. /\ pc["writer"] # "off" /\ pc'["control"] = pc["control"]
        /\ job'["control"] = job["control"] /\ manual' = manual /\ (ctl' = ctl \/ ctl' # "stop")
    BY <1>3 DEF WriterStep, Wakes, PriceLapses, PermitExpires, PermitHolds, PvAdjusts, Goto
  <2> QED BY <2>1 DEF StopAchieved, AfterConfirmation
<1>4. CASE BasicStep
  <2>1. /\ pc'["writer"] = pc["writer"] /\ pc'["control"] = pc["control"]
        /\ job' = job /\ manual' = manual /\ ctl' = ctl /\ dev'.mode = dev.mode
        /\ unknown' = unknown
    BY <1>4 DEF BasicStep, SwitchRequested, Sends, SwitchEnds, Goto, Answered, Unanswered,
                Applied, BasicPcs, InFlight, Queued
  <2> QED BY <2>1 DEF StopAchieved, AfterConfirmation
<1>5. CASE ControlStep
  BY <1>5, StopControl
<1>6. CASE \E p \in {"control", "writer"} : WriteStep(p)
  BY <1>6, StopWrites
<1>7. CASE UNCHANGED vars
  BY <1>7 DEF vars, StopAchieved, AfterConfirmation
<1> QED BY <1>1, <1>2, <1>3, <1>4, <1>5, <1>6, <1>7 DEF Next

(***************************************************************************)
(* A stop service that reports success leaves no order, no writer and no   *)
(* mode 1 it knows of.                                                     *)
(***************************************************************************)
THEOREM StopConfirmed == Spec => StopIsConfirmed
<1> DEFINE Stopped == ctl = "stop" /\ pc["control"] \in {"stop", "zeroF"}
                         /\ pc'["control"] \in {"begin", "done"}
                      => /\ dev'.mode = 1 => unknown'
                         /\ pc'["writer"] = "off" /\ manual' = None
<1>1. Init => StopAchieved
  BY DEF Init, StopAchieved
<1>2. IInv /\ StopAchieved /\ [Next]_vars => StopAchieved'
  BY NextAchieved DEF IInv
<1>3. Spec => []StopAchieved
  BY <1>1, <1>2, InvariantHolds, PTL DEF Spec
<1>4. IInv /\ StopAchieved /\ [Next]_vars => [Stopped]_vars
  <2> SUFFICES ASSUME IInv, StopAchieved, Next, ctl = "stop",
                      pc["control"] \in {"stop", "zeroF"}, pc'["control"] \in {"begin", "done"}
               PROVE  /\ dev'.mode = 1 => unknown'
                      /\ pc'["writer"] = "off" /\ manual' = None
    OBVIOUS
  <2> TypeOK /\ Flow /\ OwnedSetpointMode /\ manual = None
    BY DEF IInv, StopAchieved
  <2> USE DEF ProcsOK, LocksOK, Processes, ControlPcs, WriterPcs
  <2>1. CASE Environment \/ Arrival \/ WriterStep \/ BasicStep
    <3>1. ~Arrival /\ pc'["control"] = pc["control"]
      BY <2>1 DEF Environment, PlanChanges, TariffChanges, DeviceTimeout, PollFails, PollReads,
                  ShutdownStarts, Arrival, PollBegins, WorkerBegins, UnloadBegins, StartService,
                  StopService, WriterStep, Wakes, PriceLapses, PermitExpires, PermitHolds,
                  PvAdjusts, BasicStep, SwitchRequested, Sends, SwitchEnds, Goto
    <3> QED BY <3>1
  <2>2. CASE ControlStep
    <3>1. KeepWriter(AfterStop(TRUE), NoJob) /\ ~task /\ ~reset /\ UNCHANGED orders
      BY <2>2 DEF ControlStep, Begins, BeginsLate, Suspends, DecidesLate, DecidesStop,
                  DecidesStart, Starts, Stops, CancelEnds, Leaves, UnloadDrains, UnloadCloses,
                  CancelWriter, CancelRollsBack
    <3> QED BY <3>1 DEF KeepWriter, Goto, OwnedSetpointMode, device, orders
  <2>3. ASSUME NEW p \in {"control", "writer"}, WriteStep(p)
        PROVE  /\ dev'.mode = 1 => unknown'
               /\ pc'["writer"] = "off" /\ manual' = None
    <3>1. p = "control"
      BY <2>3 DEF WriteStep, EntersSequence, EntersReset, Sends, ModeAcked, SetpointAcked,
                  RollbackAcked, ResetAcked, ModeFails, SetpointFails, RollbackFails, ResetFails,
                  Fail, Succeed, Goto
    <3>2. CASE ResetAcked("control")
      BY <3>2 DEF ResetAcked, Answered, Applied, Goto
    <3>3. CASE ResetFails("control")
      <4>1. job["control"].why = "release"
        BY <3>3 DEF ResetFails, AfterStop, Goto
      <4>2. AfterConfirmation /\ pc["writer"] = "off" /\ (dev.mode = 1 => unknown)
        BY <4>1 DEF StopAchieved, AfterConfirmation
      <4>3. dev' = dev \/ dev' = Applied("control")
        BY <3>3 DEF ResetFails, Unanswered, device
      <4>4. dev' = dev \/ dev'.mode = 0
        BY <3>3, <4>3 DEF Applied, ResetFails, Unanswered, Queued
      <4>5. unknown => unknown'
        BY <3>3 DEF ResetFails, Unanswered, device
      <4>6. pc'["writer"] = "off" /\ manual' = None
        BY <3>3, <4>2 DEF ResetFails, Goto, orders
      <4> QED BY <4>2, <4>4, <4>5, <4>6
    <3>4. CASE ~ResetAcked("control") /\ ~ResetFails("control")
      BY <2>3, <3>1, <3>4 DEF WriteStep, EntersSequence, EntersReset, Sends, ModeAcked,
         SetpointAcked, RollbackAcked, ModeFails, SetpointFails, RollbackFails, Fail, Succeed,
         Goto, Queued, InFlight, Unanswered
    <3> QED BY <3>1, <3>2, <3>3, <3>4
  <2> QED BY <2>1, <2>2, <2>3 DEF Next
<1> QED BY <1>3, <1>4, InvariantHolds, PTL DEF Spec, StopIsConfirmed

\* A stop service reports what is true, its success as well as its refusal.
THEOREM StopsTellTheTruth == Spec => StopTellsTheTruth
  BY StopConfirmed, RefusedStopOwed, PTL DEF StopTellsTheTruth
============================================================================
