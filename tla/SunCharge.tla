----------------------------- MODULE SunCharge -----------------------------
(***************************************************************************)
(* The writer of the SunSpec Immediate Controls and everybody who drives   *)
(* it.  The storage follows its own smart meter (mode 0) unless register   *)
(* 40051 says "setpoint" (mode 1); then it follows the power of register   *)
(* 40049, negative for charging, zero for a hold, and falls back to mode 0 *)
(* when neither is refreshed.  A charge is therefore a sequence of two     *)
(* acknowledged writes, repeated by a background task, and ends with an    *)
(* acknowledged write of mode 0.                                           *)
(*                                                                         *)
(* Two processes touch these registers.  "control" is whatever runs under  *)
(* the charge-control lock: the poll, the configuration worker, the start  *)
(* and the stop service, the unload.  "writer" is the background task that *)
(* repeats the sequence.  A third one, "basic", is the storage switch; it  *)
(* shares the transport only.  All of them are asyncio tasks of one event  *)
(* loop: what lies between two awaits is one action.                       *)
(***************************************************************************)
EXTENDS Integers, FiniteSets

CONSTANTS
    None,         \* Python's None
    Actors,       \* who takes the charge-control lock in this instance
    PermitKinds,  \* automatic charges with a permission of their own
    Plans,        \* what the charge policy can decide
    Manuals,      \* powers of the manual charge service
    PvPowers,     \* setpoints of the PV hold
    Full          \* MIN_SETPOINT_POWER: an automatic charge takes all it can

AllActors == {"poll", "worker", "start", "stop", "unload", "basic"}
Powers == {0, Full} \cup Manuals \cup PvPowers
Modes == {0, 1}

ASSUME NoneAssumption == None \notin Int
ASSUME ActorsAssumption == Actors \subseteq AllActors
ASSUME KindsAssumption == PermitKinds \subseteq {"fixed", "window", "price"}
ASSUME PlansAssumption == Plans \subseteq {"meter", "hold", "pv"} \cup PermitKinds
ASSUME ManualsAssumption == Manuals \subseteq {w \in Int : w < 0}
ASSUME PvPowersAssumption == PvPowers \subseteq {w \in Int : w <= 0}
ASSUME FullAssumption == Full \in Int /\ Full < 0

VARIABLES
    dev,          \* the storage: its mode and its setpoint
    unknown,      \* history: mode 1 may have reached it without an answer
    ctl,          \* _charge_control_lock: its holder
    ic,           \* _sun_charge_write_lock: its holder
    bus,          \* _write_lock: its holder
    pc,           \* where each process stands
    job,          \* the sequence or reset a process is busy with
    task,         \* _sun_charge_task is not None
    sunPower,     \* _sun_charge_power
    hold,         \* _sun_charge_timed_discharge
    reset,        \* _sun_charge_reset_required
    commanded,    \* _sun_charge_commanded_mode
    observed,     \* _last_observed_ic_control_mode
    cached,       \* self.data["ic_control_mode"]
    acked,        \* _sun_charge_command_revision moved during this evaluation
    poll,         \* what the running poll has read of the device
    basicFailed,  \* _basic_read_failed or _charge_soc_unavailable
    manual,       \* _grid_charge_power
    saved,        \* the manual order a running service found
    permit,       \* the kind of permission the automatic charge rests on
    plan,         \* what the policy would decide now
    stale,        \* _tariff_control_revision # _tariff_source_revision
    due,          \* _month_control_task has a revision to apply
    shutdown      \* _shutdown_started, _shutdown_complete

device == <<dev, unknown>>
locks == <<ctl, ic, bus>>
procs == <<pc, job>>
writer == <<task, sunPower, hold>>
belief == <<reset, commanded, observed, cached, acked>>
orders == <<manual, saved, permit>>
world == <<poll, basicFailed, plan, stale, due, shutdown>>
vars == <<device, locks, procs, writer, belief, orders, world>>

Processes == {"control", "writer", "basic"}
Sequence == {"modeQ", "modeF", "setQ", "setF", "backQ", "backF"}
Reset == {"zeroQ", "zeroF"}
Queued == {"modeQ", "setQ", "backQ", "zeroQ", "basicQ"}
Flying == {"modeF", "setF", "backF", "zeroF", "basicF"}
ControlPcs == {"idle", "begin", "outage", "decide", "start", "stop", "drain", "close",
               "awaitStart", "awaitReset", "wantIc", "wantReset", "done", "failed"}
              \cup Sequence \cup Reset
WriterPcs == {"off", "sleep", "wantCtl", "wantPv", "wantIc", "wantReset"}
             \cup Sequence \cup Reset
BasicPcs == {"off", "basicQ", "basicF"}
Jobs == [power : Powers, hold : BOOLEAN, safe : BOOLEAN,
         why : {"create", "update", "loop", "pv", "release", "confirm", "unload", "expire"}]
NoPoll == [state |-> "idle", mode |-> None]
Polls == [state : {"idle", "read", "failed"}, mode : Modes \cup {None}]

DeviceOK ==
    /\ dev \in [mode : Modes, power : Powers \cup {None}]
    /\ unknown \in BOOLEAN

LocksOK ==
    /\ ctl \in {"free", "poll", "worker", "start", "stop", "unload", "writer"}
    /\ ic \in {"free", "control", "writer"}
    /\ bus \in {"free"} \cup Processes

ProcsOK ==
    /\ pc \in [Processes -> ControlPcs \cup WriterPcs \cup BasicPcs]
    /\ pc["control"] \in ControlPcs /\ pc["writer"] \in WriterPcs /\ pc["basic"] \in BasicPcs
    /\ job \in [{"control", "writer"} -> Jobs]

WriterOK == task \in BOOLEAN /\ sunPower \in Powers /\ hold \in BOOLEAN

BeliefOK ==
    /\ reset \in BOOLEAN /\ acked \in BOOLEAN
    /\ {commanded, observed, cached} \subseteq Modes \cup {None}

OrdersOK ==
    /\ manual \in Manuals \cup {None} /\ saved \in Manuals \cup {None}
    /\ permit \in PermitKinds \cup {"none"}

WorldOK ==
    /\ poll \in Polls /\ plan \in Plans
    /\ {basicFailed, stale, due} \subseteq BOOLEAN
    /\ shutdown \in {"running", "started", "complete"}

TypeOK == DeviceOK /\ LocksOK /\ ProcsOK /\ WriterOK /\ BeliefOK /\ OrdersOK /\ WorldOK

\* What a sequence writes, for which kind of writer, and on whose behalf;
\* "safe" marks the safe state of an outage, whose errors are only logged.
Order(power, pvHold, safe, why) ==
    [power |-> power, hold |-> pvHold, safe |-> safe, why |-> why]
NoJob == Order(0, FALSE, FALSE, "loop")

(***************************************************************************)
(* The bootstrap is over, no order was given yet.  The storage may still   *)
(* be in the mode the previous instance left it in.                        *)
(***************************************************************************)
Init ==
    /\ dev \in {[mode |-> 0, power |-> None], [mode |-> 1, power |-> Full]}
    /\ unknown = (dev.mode = 1)
    /\ ctl = "free" /\ ic = "free" /\ bus = "free"
    /\ pc = [p \in Processes |-> IF p = "control" THEN "idle" ELSE "off"]
    /\ job = [p \in {"control", "writer"} |-> NoJob]
    /\ task = FALSE /\ sunPower = 0 /\ hold = FALSE
    /\ reset = FALSE /\ commanded = None /\ observed = None /\ acked = FALSE
    /\ cached \in {dev.mode, None}
    /\ poll = NoPoll /\ basicFailed = FALSE
    /\ manual = None /\ saved = None /\ permit = "none"
    /\ plan \in Plans
    /\ stale = FALSE /\ due = FALSE /\ shutdown = "running"

----------------------------------------------------------------------------
(* Helpers                                                                 *)

Alive == pc["writer"] # "off"
Deadline == permit \in {"window", "price"}
Permitted == permit = "none" \/ plan = permit

\* A slip: a check that forgets the permission.
CheckWithoutPermit(power) == power < 0 => ~stale /\ ~basicFailed

\* _check_timed_charge_write
Check(power) == power < 0 => ~stale /\ ~basicFailed /\ Permitted

\* A slip: the setpoint is scaled twice.
AppliedUnscaled(p) ==
    [mode  |-> IF pc[p] = "modeF" THEN 1
               ELSE IF pc[p] \in {"backF", "zeroF"} THEN 0 ELSE dev.mode,
     power |-> IF pc[p] = "setF" THEN 10 * job[p].power ELSE dev.power]

\* What an answered request leaves in the registers.
Applied(p) ==
    [mode  |-> IF pc[p] = "modeF" THEN 1
               ELSE IF pc[p] \in {"backF", "zeroF"} THEN 0 ELSE dev.mode,
     power |-> IF pc[p] = "setF" THEN job[p].power ELSE dev.power]

\* The gate of _async_write_register, passed with the transport lock held.
MayWrite(p) ==
    \/ shutdown = "running"
    \/ shutdown = "started" /\ (pc[p] \in Sequence \/ (p = "control" /\ ctl = "unload"))

Goto(p, to) == pc' = [pc EXCEPT ![p] = to]
Released(lock, p) == IF lock = p THEN "free" ELSE lock

\* _record_ic_control_mode
Record(mode) ==
    /\ commanded' = mode /\ observed' = mode /\ cached' = mode
    /\ acked' = (pc["control"] # "idle")
    /\ unknown' = FALSE

(***************************************************************************)
(* _async_cancel_sun_charge_task, called under the control lock: the       *)
(* writer dies at the await it is at and gives back its locks.  A request  *)
(* in flight may or may not still reach the storage; nobody reads the      *)
(* answer.  "to" and "order" are what the control process goes on with.    *)
(***************************************************************************)
CancelWriter(to, order) ==
    /\ pc' = [pc EXCEPT !["writer"] = "off", !["control"] = to]
    /\ job' = [job EXCEPT !["control"] = order, !["writer"] = NoJob]
    /\ task' = FALSE
    /\ ic' = Released(ic, "writer")
    /\ bus' = Released(bus, "writer")
    /\ dev' \in {dev, Applied("writer")}
    /\ unknown' = (unknown \/ (pc["writer"] = "modeF" /\ dev'.mode = 1))

\* Or the transport reports the cancelled setpoint write as an error: then
\* the writer still takes its mode write back, and its canceller waits.
CancelRollsBack(to, order) ==
    /\ pc["writer"] = "setF"
    /\ pc' = [pc EXCEPT !["writer"] = "backQ", !["control"] = to]
    /\ job' = [job EXCEPT !["control"] = order]
    /\ bus' = "free"
    /\ dev' \in {dev, Applied("writer")}
    /\ UNCHANGED <<task, ic, unknown>>

\* The same with nothing to cancel.
KeepWriter(to, order) ==
    /\ Goto("control", to)
    /\ job' = [job EXCEPT !["control"] = order]
    /\ UNCHANGED <<task, ic, bus, device>>

----------------------------------------------------------------------------
(* The world: policy, tariff, device and operators                         *)

\* Time passes, a setting is accepted; a setting also wakes the worker.
PlanChanges ==
    /\ plan' \in Plans \ {plan}
    /\ due' \in {due, due \/ ("worker" \in Actors /\ shutdown = "running")}
    /\ UNCHANGED <<device, locks, procs, writer, belief, orders, poll, basicFailed, stale, shutdown>>

TariffChanges ==
    /\ "worker" \in Actors /\ shutdown = "running"
    /\ stale' = TRUE /\ due' = TRUE
    /\ UNCHANGED <<device, locks, procs, writer, belief, orders, poll, basicFailed, plan, shutdown>>

\* The storage discards a setpoint that is not refreshed in time.
DeviceTimeout ==
    /\ dev.mode = 1
    /\ dev' = [mode |-> 0, power |-> None]
    /\ UNCHANGED <<unknown, locks, procs, writer, belief, orders, world>>

\* The reads of a poll, before it asks for the control lock.
PollReads(mode) ==
    /\ "poll" \in Actors /\ shutdown = "running" /\ poll.state = "idle"
    /\ poll' = [state |-> "read", mode |-> mode]
    /\ UNCHANGED <<device, locks, procs, writer, belief, orders, basicFailed, plan, stale, due, shutdown>>

PollFails ==
    /\ "poll" \in Actors /\ shutdown = "running" /\ poll.state = "idle"
    /\ poll' = [state |-> "failed", mode |-> None]
    /\ basicFailed' = TRUE
    /\ UNCHANGED <<device, locks, procs, writer, belief, orders, plan, stale, due, shutdown>>

ShutdownStarts ==
    /\ "unload" \in Actors /\ shutdown = "running"
    /\ shutdown' = "started"
    /\ UNCHANGED <<device, locks, procs, writer, belief, orders, poll, basicFailed, plan, stale, due>>

----------------------------------------------------------------------------
(* Entering the control lock                                               *)

PollBegins ==
    /\ poll.state # "idle" /\ ctl = "free"
    /\ ctl' = "poll"
    /\ Goto("control", "begin")
    /\ UNCHANGED <<device, ic, bus, job, writer, belief, orders, world>>

WorkerBegins ==
    /\ due /\ due' = FALSE
    /\ \/ /\ shutdown = "running" /\ ctl = "free"
          /\ ctl' = "worker"
          /\ Goto("control", "begin")
       \/ /\ shutdown # "running"
          /\ UNCHANGED <<ctl, pc>>
    /\ UNCHANGED <<device, ic, bus, job, writer, belief, orders, poll, basicFailed, plan, stale, shutdown>>

\* async_start_grid_charge
StartService(power) ==
    /\ "start" \in Actors /\ shutdown = "running" /\ ctl = "free" /\ ~basicFailed
    /\ ctl' = "start"
    /\ saved' = manual /\ manual' = power
    /\ Goto("control", "begin")
    /\ UNCHANGED <<device, ic, bus, job, writer, belief, permit, world>>

\* async_stop_grid_charge: an order to withdraw, or a reset nobody works on.
StopService ==
    /\ "stop" \in Actors /\ shutdown = "running" /\ ctl = "free"
    /\ manual # None \/ (reset /\ ~Alive)
    /\ ctl' = "stop"
    /\ saved' = manual /\ manual' = None
    /\ job' = [job EXCEPT !["control"] = Order(0, FALSE, FALSE, "confirm")]
    /\ Goto("control", "stop")
    /\ UNCHANGED <<device, ic, bus, writer, belief, permit, world>>

\* async_shutdown once the worker is gone.
UnloadBegins ==
    /\ shutdown = "started" /\ ctl = "free" /\ ~due
    /\ ctl' = "unload"
    /\ manual' = None
    /\ job' = [job EXCEPT !["control"] = Order(0, FALSE, FALSE, "unload")]
    /\ Goto("control", "drain")
    /\ UNCHANGED <<device, ic, bus, writer, belief, saved, permit, world>>

UnloadDrains ==
    /\ pc["control"] = "drain" /\ ic = "free"
    /\ Goto("control", "stop")
    /\ UNCHANGED <<device, locks, job, writer, belief, orders, world>>

\* A slip: the gate closes with a write still in the transport.
UnloadClosesAtOnce ==
    /\ pc["control"] = "close"
    /\ shutdown' = "complete"
    /\ ctl' = "free"
    /\ Goto("control", "idle")
    /\ UNCHANGED <<device, ic, bus, job, writer, belief, orders, poll, basicFailed, plan, stale, due>>

UnloadCloses ==
    /\ pc["control"] = "close" /\ ic = "free" /\ bus = "free"
    /\ shutdown' = "complete"
    /\ ctl' = "free"
    /\ Goto("control", "idle")
    /\ UNCHANGED <<device, ic, bus, job, writer, belief, orders, poll, basicFailed, plan, stale, due>>

----------------------------------------------------------------------------
(* One evaluation, _async_enforce_grid_charge_locked                       *)

\* The caller's data hold no valid SOC; a poll that succeeded brings one.
Blind == basicFailed /\ ~(ctl = "poll" /\ poll.state = "read")

\* A slip: the mode read back is not looked at.
BeginsBlind ==
    /\ pc["control"] = "begin" /\ shutdown = "running"
    /\ stale' = FALSE /\ basicFailed' = Blind
    /\ IF stale
       THEN ic = "free" /\ CancelWriter(IF Blind THEN "outage" ELSE "decide", NoJob)
       ELSE KeepWriter(IF Blind THEN "outage" ELSE "decide", NoJob)
    /\ acked' = FALSE
    /\ UNCHANGED <<ctl, sunPower, hold, reset, commanded, observed, cached, orders,
                   poll, plan, due, shutdown>>

(***************************************************************************)
(* A superseded writer is drained and cancelled first.  Then the mode the  *)
(* caller's data hold is compared with the last one seen; mode 1 that      *)
(* nobody asked for becomes a reset request.  Without a valid SOC the      *)
(* evaluation goes straight to the safe state.                             *)
(***************************************************************************)
Begins ==
    /\ pc["control"] = "begin" /\ shutdown = "running"
    /\ stale' = FALSE /\ basicFailed' = Blind
    /\ IF stale
       THEN ic = "free" /\ CancelWriter(IF Blind THEN "outage" ELSE "decide", NoJob)
       ELSE KeepWriter(IF Blind THEN "outage" ELSE "decide", NoJob)
    /\ IF Blind
       THEN UNCHANGED <<reset, observed>>
       ELSE LET mode == IF ctl = "poll" THEN poll.mode ELSE cached IN
            /\ observed' = mode
            /\ reset' = (reset \/ (mode = 1 /\ observed # 1))
    /\ acked' = FALSE
    /\ UNCHANGED <<ctl, sunPower, hold, commanded, cached, orders,
                   poll, plan, due, shutdown>>

\* Nothing is decided once the unload has begun; a start service reports it.
BeginsLate ==
    /\ pc["control"] = "begin" /\ shutdown # "running"
    /\ Goto("control", IF ctl = "start" THEN "failed" ELSE "done")
    /\ UNCHANGED <<device, locks, job, writer, belief, orders, world>>

\* _async_suspend_charge_for_missing_soc: hold what holds, charge nothing.
Suspends ==
    /\ pc["control"] = "outage"
    /\ permit' = "none"
    /\ IF plan \in {"pv", "hold"}
       THEN /\ job' = [job EXCEPT !["control"] = Order(0, plan = "pv", TRUE, "create")]
            /\ Goto("control", "start")
       ELSE /\ job' = [job EXCEPT !["control"] = Order(0, FALSE, TRUE, "release")]
            /\ Goto("control", "stop")
    /\ UNCHANGED <<device, locks, writer, belief, manual, saved, world>>

\* The tariff changed while the evaluation persisted its latches.
DecidesLate ==
    /\ pc["control"] = "decide" /\ stale
    /\ Goto("control", "done")
    /\ UNCHANGED <<device, locks, job, writer, belief, orders, world>>

\* The maximum SOC outranks the manual order, which outranks the rest.
DecidesStart(power, pvHold, kind) ==
    /\ pc["control"] = "decide" /\ ~stale
    /\ \/ plan = "hold" /\ power = 0 /\ ~pvHold /\ kind = "none"
       \/ plan # "hold" /\ manual = power /\ ~pvHold /\ kind = "none"
       \/ plan \in PermitKinds /\ manual = None /\ power = Full /\ ~pvHold /\ kind = plan
       \/ plan = "pv" /\ manual = None /\ power \in PvPowers /\ pvHold /\ kind = "none"
    /\ permit' = kind
    \* A new deadline restarts the writer, which may sleep past it.
    /\ \/ /\ kind \in {"window", "price"}
          /\ LET order == Order(power, pvHold, FALSE, "create") IN
             CancelWriter("start", order) \/ CancelRollsBack("awaitStart", order)
       \/ /\ kind \notin {"window", "price"} \/ permit = kind
          /\ KeepWriter("start", Order(power, pvHold, FALSE, "create"))
    /\ UNCHANGED <<ctl, sunPower, hold, belief, manual, saved, world>>

DecidesStop ==
    /\ pc["control"] = "decide" /\ ~stale
    /\ plan = "meter" /\ manual = None
    /\ permit' = "none"
    /\ job' = [job EXCEPT !["control"] = Order(0, FALSE, FALSE, "release")]
    /\ Goto("control", "stop")
    /\ UNCHANGED <<device, locks, writer, belief, manual, saved, world>>

(***************************************************************************)
(* async_start_sun_charge: a writer of the other kind is cancelled, a dead *)
(* one replaced, a live one updated when its power or the storage's mode   *)
(* is not what is ordered.                                                 *)
(***************************************************************************)
Starts ==
    LET order == job["control"]
        other == order.hold # hold
        update == \/ order.power # sunPower
                  \/ observed = 0
                  \/ commanded # 1
    IN
    /\ pc["control"] = "start"
    /\ \/ /\ shutdown # "running"
          /\ KeepWriter(IF order.safe THEN "done" ELSE "failed", NoJob)
       \/ /\ shutdown = "running" /\ (other \/ ~Alive)
          /\ LET create == Order(order.power, order.hold, order.safe, "create") IN
             CancelWriter("wantIc", create) \/ CancelRollsBack("awaitStart", create)
       \/ /\ shutdown = "running" /\ ~other /\ Alive /\ update
          /\ KeepWriter("wantIc", Order(order.power, order.hold, order.safe, "update"))
       \/ /\ shutdown = "running" /\ ~other /\ Alive /\ ~update
          /\ KeepWriter("done", NoJob)
    /\ UNCHANGED <<ctl, sunPower, hold, belief, orders, world>>

\* A slip: a failed reset is repeated at once.
AfterStopRetries(ok) ==
    LET why == job["control"].why IN
    IF ~ok THEN "stop"
    ELSE IF why = "unload" THEN "close"
    ELSE IF why = "confirm" /\ saved # None THEN "begin" ELSE "done"

\* Where a reset leads when it is over, confirmed or not.
AfterStop(ok) ==
    LET why == job["control"].why IN
    IF why = "unload" THEN "close"
    ELSE IF why = "release" THEN "done"
    ELSE IF ~ok THEN "failed"
    ELSE IF saved # None THEN "begin" ELSE "done"

(***************************************************************************)
(* async_stop_sun_charge: mode 0 of the first fresh reading needs no write;*)
(* a task, an open reset, a commanded or an observed mode 1 do.            *)
(***************************************************************************)
Stops ==
    LET confirm == job["control"].why = "confirm"
        initial == commanded = None /\ ~task /\ ~reset /\ observed = 0 /\ ~confirm
        needed == \/ task \/ reset \/ commanded = 1 \/ observed = 1
                  \/ commanded = None /\ observed # None
    IN
    /\ pc["control"] = "stop"
    /\ \/ /\ initial                       \* the reading is fresh
          /\ commanded' = 0
          /\ KeepWriter(AfterStop(TRUE), NoJob)
          /\ UNCHANGED <<hold, reset>>
       \/ /\ ~needed
          /\ KeepWriter(AfterStop(TRUE), NoJob)
          /\ UNCHANGED <<hold, reset, commanded>>
       \/ /\ needed
          /\ CancelWriter("wantReset", job["control"])
          /\ hold' = FALSE /\ reset' = TRUE
          /\ UNCHANGED commanded
       \/ /\ needed
          /\ CancelRollsBack("awaitReset", job["control"])
          /\ UNCHANGED <<hold, reset, commanded>>
    /\ UNCHANGED <<ctl, sunPower, observed, cached, acked, orders, world>>

\* A slip: the reset is on the books before the writer's own rollback.
CancelEndsForgetting ==
    /\ pc["writer"] = "off"
    /\ \/ pc["control"] = "awaitStart" /\ Goto("control", "wantIc") /\ UNCHANGED hold
       \/ pc["control"] = "awaitReset" /\ Goto("control", "wantReset") /\ hold' = FALSE
    /\ task' = FALSE
    /\ UNCHANGED <<device, locks, job, sunPower, belief, orders, world>>

\* The cancelled writer is gone.  Its rollback may have struck the reset off
\* the books; the one that follows is a request of its own.
CancelEnds ==
    /\ pc["writer"] = "off"
    /\ \/ pc["control"] = "awaitStart" /\ Goto("control", "wantIc") /\ UNCHANGED <<hold, reset>>
       \/ pc["control"] = "awaitReset" /\ Goto("control", "wantReset") /\ hold' = FALSE /\ reset' = TRUE
    /\ task' = FALSE
    /\ UNCHANGED <<device, locks, job, sunPower, commanded, observed, cached, acked, orders, world>>

\* The evaluation or service is over; a start service repeats an evaluation
\* the tariff overtook and takes its order back on an error.
Leaves ==
    LET ok == pc["control"] = "done" IN
    /\ pc["control"] \in {"done", "failed"}
    /\ IF ctl = "start" /\ ok /\ stale
       THEN /\ Goto("control", "begin")
            /\ UNCHANGED <<ctl, manual, saved, cached, acked, poll>>
       ELSE /\ Goto("control", "idle")
            /\ ctl' = "free"
            /\ manual' = IF ctl = "start" /\ ~ok THEN saved ELSE manual
            /\ saved' = None
            /\ acked' = FALSE
            /\ IF ctl = "poll"
               THEN /\ poll' = NoPoll
                    /\ cached' = IF poll.state = "failed" THEN cached
                                 ELSE IF ok /\ acked THEN commanded ELSE poll.mode
               ELSE UNCHANGED <<poll, cached>>
    /\ UNCHANGED <<device, ic, bus, job, writer, reset, commanded, observed, permit,
                   basicFailed, plan, stale, due, shutdown>>

----------------------------------------------------------------------------
(* The sequence and the reset, request by request                          *)

\* A slip: a failed update leaves the sleeping writer alone.
FailKeepsWriter(p) ==
    /\ ic' = Released(ic, p)
    /\ job' = [job EXCEPT ![p] = NoJob]
    /\ Goto(p, IF p = "writer" THEN "off" ELSE IF job[p].safe THEN "done" ELSE "failed")
    /\ ctl' = IF p = "writer" THEN Released(ctl, "writer") ELSE ctl
    /\ UNCHANGED task

\* A sequence that fails: the caller of an update also ends the writer.
Fail(p) ==
    LET update == job["control"].why = "update" IN
    /\ ic' = Released(ic, p)
    /\ IF p = "writer"
       THEN /\ Goto("writer", "off")
            /\ job' = [job EXCEPT !["writer"] = NoJob]
            /\ ctl' = Released(ctl, "writer")
            /\ UNCHANGED task
       ELSE /\ pc' = [pc EXCEPT !["control"] = IF job["control"].safe THEN "done" ELSE "failed",
                                !["writer"] = IF update THEN "off" ELSE pc["writer"]]
            /\ job' = [job EXCEPT !["control"] = NoJob]
            /\ task' = (task /\ ~update)
            /\ UNCHANGED ctl

\* A sequence whose two writes are acknowledged and still permitted.
Succeed(p) ==
    LET order == job[p] IN
    /\ ic' = Released(ic, p)
    /\ job' = [job EXCEPT ![p] = NoJob]
    /\ IF p = "writer"
       THEN /\ Goto("writer", "sleep")
            /\ ctl' = Released(ctl, "writer")
            /\ sunPower' = order.power
            /\ UNCHANGED <<task, hold>>
       ELSE IF order.why = "create" /\ shutdown # "running"
       THEN /\ Goto("control", "done")
            /\ UNCHANGED <<ctl, writer>>
       ELSE /\ pc' = [pc EXCEPT !["control"] = "done",
                                !["writer"] = IF order.why = "create" THEN "sleep" ELSE pc["writer"]]
            /\ task' = TRUE
            /\ sunPower' = order.power
            /\ hold' = IF order.why = "create" THEN order.hold ELSE hold
            /\ UNCHANGED ctl

\* A slip: the sequence is not serialised with the other process's.
EntersSequenceUnlocked(p) ==
    LET power == IF job[p].why = "loop" THEN sunPower ELSE job[p].power IN
    /\ pc[p] = "wantIc" /\ shutdown = "running" /\ Check(power)
    /\ job' = [job EXCEPT ![p] = Order(power, job[p].hold, job[p].safe, job[p].why)]
    /\ Goto(p, "modeQ")
    /\ ic' = p
    /\ UNCHANGED <<device, ctl, bus, writer, belief, orders, world>>

(***************************************************************************)
(* Taking the Immediate Controls lock for a sequence.  The writer's plain  *)
(* refresh reads _sun_charge_power only now.                               *)
(***************************************************************************)
EntersSequence(p) ==
    LET power == IF job[p].why = "loop" THEN sunPower ELSE job[p].power IN
    /\ pc[p] = "wantIc" /\ ic = "free"
    /\ \/ /\ shutdown = "running" /\ Check(power)
          /\ job' = [job EXCEPT ![p] = Order(power, job[p].hold, job[p].safe, job[p].why)]
          /\ Goto(p, "modeQ")
          /\ ic' = p
          /\ UNCHANGED <<ctl, task>>
       \/ \* the unload began, the permission is gone, or the reference
          \* values the power is scaled with are missing
          /\ shutdown # "running" \/ power < 0
          /\ Fail(p)
    /\ UNCHANGED <<device, bus, sunPower, hold, belief, orders, world>>

EntersReset(p) ==
    /\ pc[p] = "wantReset" /\ ic = "free"
    /\ ic' = p
    /\ Goto(p, "zeroQ")
    /\ UNCHANGED <<device, ctl, bus, job, writer, belief, orders, world>>

InFlight(queued) ==
    IF queued = "modeQ" THEN "modeF" ELSE IF queued = "setQ" THEN "setF"
    ELSE IF queued = "backQ" THEN "backF" ELSE IF queued = "zeroQ" THEN "zeroF"
    ELSE "basicF"

\* A request leaves once it holds the transport and passes the gate.
Sends(p) ==
    /\ pc[p] \in Queued /\ bus = "free" /\ MayWrite(p)
    /\ bus' = p
    /\ Goto(p, InFlight(pc[p]))
    /\ UNCHANGED <<device, ctl, ic, job, writer, belief, orders, world>>

\* The storage has executed the request and its answer arrives.
Answered(p) ==
    /\ pc[p] \in Flying
    /\ bus' = "free" /\ dev' = Applied(p)

\* The gate rejects it, or no valid answer arrives, executed or not.
Unanswered(p) ==
    \/ /\ pc[p] \in Queued /\ bus = "free" /\ ~MayWrite(p)
       /\ UNCHANGED <<bus, device>>
    \/ /\ pc[p] \in Flying
       /\ bus' = "free"
       /\ dev' \in {dev, Applied(p)}
       /\ unknown' = (unknown \/ (pc[p] = "modeF" /\ dev'.mode = 1))

ModeAcked(p) ==
    /\ pc[p] = "modeF" /\ Answered(p)
    /\ reset' = TRUE /\ Record(1)
    /\ Goto(p, IF Check(job[p].power) THEN "setQ" ELSE "backQ")
    /\ UNCHANGED <<ctl, ic, job, writer, orders, world>>

ModeFails(p) ==
    /\ pc[p] \in {"modeQ", "modeF"} /\ Unanswered(p)
    /\ Fail(p)
    /\ UNCHANGED <<sunPower, hold, belief, orders, world>>

SetpointAcked(p) ==
    /\ pc[p] = "setF" /\ Answered(p)
    /\ IF Check(job[p].power)
       THEN Succeed(p)
       ELSE /\ Goto(p, "backQ")
            /\ UNCHANGED <<ctl, ic, job, writer>>
    /\ UNCHANGED <<unknown, belief, orders, world>>

SetpointFails(p) ==
    /\ pc[p] \in {"setQ", "setF"} /\ Unanswered(p)
    /\ Goto(p, "backQ")
    /\ UNCHANGED <<ctl, ic, job, writer, belief, orders, world>>

RollbackAcked(p) ==
    /\ pc[p] = "backF" /\ Answered(p)
    /\ reset' = FALSE /\ Record(0)
    /\ Fail(p)
    /\ UNCHANGED <<sunPower, hold, orders, world>>

RollbackFails(p) ==
    /\ pc[p] \in {"backQ", "backF"} /\ Unanswered(p)
    /\ Fail(p)
    /\ UNCHANGED <<sunPower, hold, belief, orders, world>>

\* The writer's own reset ends the permission it lost, or the PV hold.
ResetAcked(p) ==
    /\ pc[p] = "zeroF" /\ Answered(p)
    /\ reset' = FALSE /\ Record(0)
    /\ ic' = "free"
    /\ IF p = "control"
       THEN /\ Goto("control", AfterStop(TRUE))
            /\ UNCHANGED <<ctl, hold, permit>>
       ELSE /\ Goto("writer", "off")
            /\ ctl' = "free"
            /\ IF job["writer"].why = "pv"
               THEN hold' = FALSE /\ UNCHANGED permit
               ELSE permit' = "none" /\ UNCHANGED hold
    /\ job' = [job EXCEPT ![p] = NoJob]
    /\ UNCHANGED <<task, sunPower, manual, saved, world>>

\* A slip: a failed reset is struck off the books.
ResetFailsForgotten(p) ==
    /\ pc[p] \in {"zeroQ", "zeroF"} /\ Unanswered(p)
    /\ ic' = "free" /\ reset' = FALSE
    /\ IF p = "control"
       THEN /\ Goto("control", AfterStop(FALSE))
            /\ UNCHANGED ctl
       ELSE /\ Goto("writer", "off")
            /\ ctl' = "free"
    /\ job' = [job EXCEPT ![p] = NoJob]
    /\ UNCHANGED <<writer, commanded, observed, cached, acked, orders, world>>

\* A failed reset stays requested.
ResetFails(p) ==
    /\ pc[p] \in {"zeroQ", "zeroF"} /\ Unanswered(p)
    /\ ic' = "free"
    /\ IF p = "control"
       THEN /\ Goto("control", AfterStop(FALSE))
            /\ UNCHANGED ctl
       ELSE /\ Goto("writer", "off")
            /\ ctl' = "free"
    /\ job' = [job EXCEPT ![p] = NoJob]
    /\ UNCHANGED <<writer, belief, orders, world>>

\* The storage switch: gate, transport, gate again.
SwitchRequested ==
    /\ "basic" \in Actors /\ shutdown = "running" /\ pc["basic"] = "off"
    /\ Goto("basic", "basicQ")
    /\ UNCHANGED <<device, locks, job, writer, belief, orders, world>>

SwitchEnds ==
    /\ \/ pc["basic"] = "basicF" /\ bus' = "free"
       \/ pc["basic"] = "basicQ" /\ bus = "free" /\ ~MayWrite("basic") /\ UNCHANGED bus
    /\ Goto("basic", "off")
    /\ UNCHANGED <<device, ctl, ic, job, writer, belief, orders, world>>

----------------------------------------------------------------------------
(* The background task, _async_sun_charge_loop                             *)

\* Past the checks that need the control lock, a refresh is next.
Refresh == IF hold THEN "wantPv" ELSE "wantIc"

Wakes ==
    /\ pc["writer"] = "sleep"
    /\ Goto("writer", IF shutdown # "running" \/ stale THEN "off"
                      ELSE IF Deadline THEN "wantCtl" ELSE Refresh)
    /\ UNCHANGED <<device, locks, job, writer, belief, orders, world>>

\* A price slot that is over is the worker's business.
PriceLapses ==
    /\ pc["writer"] = "wantCtl" /\ ctl = "free"
    /\ permit = "price" /\ ~Permitted
    /\ Goto("writer", "off")
    /\ due' = (due \/ shutdown = "running")
    /\ UNCHANGED <<device, locks, job, writer, belief, orders, poll, basicFailed, plan, stale, shutdown>>

\* Another deadline, or a lost measurement, ends the charge on the spot.
PermitExpires ==
    /\ pc["writer"] = "wantCtl" /\ ctl = "free"
    /\ Deadline /\ (~Permitted \/ basicFailed) /\ ~(permit = "price" /\ ~Permitted)
    /\ ctl' = "writer"
    /\ job' = [job EXCEPT !["writer"] = Order(0, FALSE, FALSE, "expire")]
    /\ Goto("writer", "wantReset")
    /\ UNCHANGED <<device, ic, bus, writer, belief, orders, world>>

PermitHolds ==
    /\ pc["writer"] = "wantCtl" /\ ctl = "free"
    /\ ~Deadline \/ (Permitted /\ ~basicFailed)
    /\ Goto("writer", Refresh)
    /\ UNCHANGED <<device, locks, job, writer, belief, orders, world>>

\* The PV hold computes its setpoint and writes it under the control lock.
PvAdjusts(power) ==
    /\ pc["writer"] = "wantPv" /\ ctl = "free"
    /\ IF shutdown # "running"
       THEN Goto("writer", "off") /\ UNCHANGED <<ctl, job>>
       ELSE IF ~hold
       THEN Goto("writer", "sleep") /\ UNCHANGED <<ctl, job>>
       ELSE /\ ctl' = "writer"
            /\ job' = [job EXCEPT !["writer"] = Order(power, TRUE, FALSE, "pv")]
            /\ Goto("writer", IF plan = "pv" THEN "wantIc" ELSE "wantReset")
    /\ UNCHANGED <<device, ic, bus, writer, belief, orders, world>>

----------------------------------------------------------------------------

ControlStep ==
    \/ Begins \/ BeginsLate \/ Suspends
    \/ DecidesLate \/ DecidesStop
    \/ \E power \in Powers, pvHold \in BOOLEAN, kind \in PermitKinds \cup {"none"} :
          DecidesStart(power, pvHold, kind)
    \/ Starts \/ Stops \/ CancelEnds \/ Leaves
    \/ UnloadDrains \/ UnloadCloses

WriteStep(p) ==
    \/ EntersSequence(p) \/ EntersReset(p) \/ Sends(p)
    \/ ModeAcked(p) \/ SetpointAcked(p) \/ RollbackAcked(p) \/ ResetAcked(p)
    \/ ModeFails(p) \/ SetpointFails(p) \/ RollbackFails(p) \/ ResetFails(p)

WriterStep ==
    \/ Wakes \/ PriceLapses \/ PermitExpires \/ PermitHolds
    \/ \E power \in PvPowers : PvAdjusts(power)

BasicStep == SwitchRequested \/ Sends("basic") \/ SwitchEnds

Arrival ==
    \/ PollBegins \/ WorkerBegins \/ UnloadBegins \/ StopService
    \/ \E power \in Manuals : StartService(power)

Environment ==
    \/ PlanChanges \/ TariffChanges \/ DeviceTimeout \/ ShutdownStarts
    \/ PollFails \/ \E mode \in {dev.mode, None} : PollReads(mode)

Next ==
    \/ Environment \/ Arrival \/ ControlStep \/ WriterStep \/ BasicStep
    \/ \E p \in {"control", "writer"} : WriteStep(p)

Spec == Init /\ [][Next]_vars

----------------------------------------------------------------------------
(* Safety                                                                  *)

(***************************************************************************)
(* Only one of the two processes works on the registers at a time, and a   *)
(* reset or a first write never overlaps a living writer: a charge that is *)
(* stopped or replaced cannot write once more.                             *)
(***************************************************************************)
OneSequence ==
    /\ pc["control"] \in Sequence \cup Reset => pc["writer"] \notin Sequence \cup Reset
    /\ pc["control"] \in Sequence \cup Reset /\ job["control"].why # "update" => ~Alive

(***************************************************************************)
(* Setpoint mode has an owner: if the storage follows a setpoint, a reset  *)
(* is on the program's books, unless the write that put it there was never *)
(* answered (or dates from before this run) and has not been read back.    *)
(***************************************************************************)
OwnedSetpointMode ==
    /\ dev.mode = 1 /\ ~unknown => reset
    /\ observed = 1 => reset

(***************************************************************************)
(* While the writer sleeps and nobody else writes, a storage in setpoint   *)
(* mode follows the very power the next refresh will repeat.               *)
(***************************************************************************)
WriterRepeatsDevice ==
    /\ pc["writer"] = "sleep" /\ ic = "free" /\ dev.mode = 1 => dev.power = sunPower

(***************************************************************************)
(* After the final gate nothing is written, and nothing is left that could *)
(* write: no request in flight, no lock of a sequence, no writer.          *)
(***************************************************************************)
QuietAfterUnload ==
    shutdown = "complete" => bus = "free" /\ ic = "free" /\ ~Alive

(***************************************************************************)
(* A stop service succeeds only when no writer is left, the order is gone  *)
(* and the storage is in mode 0; a mode that was never acknowledged nor    *)
(* read back is the one exception, there is nothing to reset it for.       *)
(***************************************************************************)
StopIsConfirmed ==
    [][ ctl = "stop" /\ pc["control"] \in {"stop", "zeroF"} /\ pc'["control"] \in {"begin", "done"}
            => /\ dev'.mode = 1 => unknown'
               /\ pc'["writer"] = "off" /\ manual' = None ]_vars

(***************************************************************************)
(* A stop service whose reset is refused leaves it on the books, though    *)
(* the writer it cancelled may have had its own rollback acknowledged.     *)
(***************************************************************************)
FailedStopIsOwed ==
    [][ ctl = "stop" /\ pc["control"] \in Reset /\ pc'["control"] = "failed" => reset' ]_vars

(***************************************************************************)
(* A sequence is not torn: between its mode write and its end the          *)
(* registers change only by its own requests or the storage's timeout.     *)
(***************************************************************************)
SequenceNotTorn ==
    [][ \A p \in {"control", "writer"} :
          pc[p] \in Sequence /\ dev' # dev =>
              \/ pc[p] \in Flying /\ pc'[p] # pc[p]
              \/ dev'.mode = 0 /\ dev'.power = None ]_vars

----------------------------------------------------------------------------
(* Liveness                                                                *)

Control == ControlStep \/ WriteStep("control")
Poll == PollFails \/ PollBegins \/ \E mode \in {dev.mode, None} : PollReads(mode)
Unattended == ~Alive /\ pc["control"] \notin Sequence

(***************************************************************************)
(* Every task gets on when it can, the writer's timer comes around, and a  *)
(* request ends, answered or not.  A storage nobody writes to falls back   *)
(* to its own regulation.  Nothing is assumed of the policy, the tariff,   *)
(* the services, the switch and, here, the polls.                          *)
(***************************************************************************)
Progress ==
    /\ WF_vars(Control)
    /\ WF_vars(WriterStep \/ WriteStep("writer"))
    /\ WF_vars(Sends("basic") \/ SwitchEnds)
    /\ WF_vars(WorkerBegins)
    /\ WF_vars(UnloadBegins)
    /\ WF_vars(DeviceTimeout /\ Unattended)

\* No poll is needed.
TimerSpec == Spec /\ Progress

\* asyncio locks are first-in, first-out: whoever waits for one gets it, however
\* often the others take it in between.
Turns == SF_vars(Control) /\ SF_vars(WriterStep \/ WriteStep("writer"))

(***************************************************************************)
(* A storage that never falls back by itself.  Polls get their turn and    *)
(* keep reading its mode, and of the writes of a mode that are repeated    *)
(* again and again some day one is answered.                               *)
(***************************************************************************)
StubbornSpec ==
    /\ Spec
    /\ SF_vars(Control)
    /\ WF_vars(WriterStep \/ WriteStep("writer"))
    /\ SF_vars(PollReads(dev.mode)) /\ SF_vars(PollBegins)
    /\ SF_vars(ModeAcked("control") \/ ResetAcked("control"))

Charging == dev.mode = 1 /\ dev.power # None /\ dev.power < 0

(***************************************************************************)
(* When the state of charge stays unknown, charging ends for good: the     *)
(* writer sees to that alone, should no poll get as far as the lock.       *)
(***************************************************************************)
ChargeEndsWithoutSoc == <>[]basicFailed => <>[]~Charging

(***************************************************************************)
(* A charge whose permission has lapsed ends for good, again without the   *)
(* help of a poll, and although nobody may have told the worker.           *)
(***************************************************************************)
LapsedChargeEnds == <>[](plan = "meter" /\ manual = None) => <>[]~Charging

(***************************************************************************)
(* When nothing is ordered any more, the storage is led back to its smart  *)
(* meter for good: every setpoint mode left behind by a failed rollback, a *)
(* lost answer or a cancelled writer is found and taken back, though the   *)
(* storage itself would keep it for ever.                                  *)
(***************************************************************************)
MeterRestored ==
    <>[](plan = "meter" /\ manual = None /\ ~basicFailed) => <>[](dev.mode = 0)

\* An unload that has begun ends, whatever the storage answers.
UnloadEnds == []<>(shutdown # "started")

\* A start service returns when the locks come in turn, unless the tariff
\* overtakes it again and again.
StartServiceEnds == Turns => []<>(ctl # "start" \/ stale)

----------------------------------------------------------------------------
(* The same, together                                                       *)

\* A stop service reports what is true: success only without a writer and with
\* the storage in mode 0, and a refusal that is still owed.
StopTellsTheTruth == StopIsConfirmed /\ FailedStopIsOwed

\* No writer outlives the reason for its charge, whichever it was.
ChargesEnd == ChargeEndsWithoutSoc /\ LapsedChargeEnds

\* Nobody waits for ever: the unload for the writer, or a start for the tariff.
ServicesEnd == UnloadEnds /\ StartServiceEnds
============================================================================
