--------------------------- MODULE BridgeSession ---------------------------
(***************************************************************************)
(* Charging just enough to last until PV starts (REQ-BRIDGE-CHARGE): a     *)
(* plan is made anew at every evaluation until its charge begins, is then  *)
(* frozen, because charging spoils the measurement it rests on, and is     *)
(* judged at its end.  Data may be missing at any time, and the writer     *)
(* ends the charge on its own.  Which plan is best is BridgePlan's         *)
(* subject; time is in minutes.                                            *)
(***************************************************************************)
EXTENDS Integers

CONSTANTS
    LastMinute,     \* bound: the clock stops here
    ChargeLevels,   \* of charge, as far as targets tell them apart
    Configurations, \* months, target, tariff and PV source, when it is enabled
    Devices,        \* capacity, lower limit and power reference
    NoTime

ASSUME BridgeAssumption ==
    /\ LastMinute \in Nat /\ ChargeLevels \subseteq Nat
    /\ NoTime \notin Int /\ "off" \notin Configurations

VARIABLES
    now, level, device,
    configured,     \* what the user wants, or "off"
    session,        \* the plan, whether it has begun, and how it ended
    configuration, fingerprint,     \* _configuration, _fingerprint of the session
    deadline,       \* _bridge_charge_deadline: the writer charges up to it
    \* History, read by the properties only.
    ended           \* when the last charge under this configuration ended

bridgeVars == <<now, level, device, configured, session, configuration, fingerprint,
                deadline, ended>>

NoPlan == [begin |-> NoTime, end |-> NoTime, target |-> 0]
Plans ==
    {p \in [begin : now..LastMinute, end : (now + 1)..(LastMinute + 1),
            target : ChargeLevels \ {0}] : p.begin < p.end}

\* BridgeChargeSession.reset
FreshSession == [plan |-> NoPlan, started |-> FALSE, completed |-> NoTime, pending |-> FALSE]
Fingerprint == <<configured, device>>
-----------------------------------------------------------------------------
(* The session                                                              *)

\* _finish_if_due: the end is noticed without measurements, the verdict on it
\* needs some that are usable.
IsDue(s, usable) ==
    s.started /\ (now >= s.plan.end \/ (usable /\ level >= s.plan.target))
FinishIfDue(s, usable) ==
    LET done == IF IsDue(s, usable)
                THEN [s EXCEPT !.started = FALSE, !.completed = now, !.pending = TRUE]
                ELSE s
    IN  [done EXCEPT !.pending = done.pending /\ ~usable]

\* wait_for_data.
\* A slip: a gap forgets what began.
WaitForgettingCharge(s, usable) ==
    IF s.completed # NoTime THEN FinishIfDue(s, usable) ELSE FreshSession
WaitForData(s, usable) ==
    IF s.plan # NoPlan /\ (s.started \/ s.completed # NoTime)
    THEN IF s.completed # NoTime /\ ~s.pending THEN s ELSE FinishIfDue(s, usable)
    ELSE FreshSession

\* What keeps prepare from planning.
Busy(s) == s.started \/ (s.completed # NoTime /\ now < s.completed + 1)

Replanned(s, plan) == [FreshSession EXCEPT !.plan = plan]

\* prepare, with or without a new observation of the consumption.
Prepared(s, observed) ==
    LET known == FinishIfDue(IF fingerprint = Fingerprint THEN s ELSE FreshSession, TRUE)
    IN  IF Busy(known) THEN {known}
        ELSE IF ~observed THEN {IF known.completed = NoTime THEN FreshSession ELSE known}
        ELSE {Replanned(known, p) : p \in Plans \cup {NoPlan}}

IsOpen(s) == s.plan # NoPlan /\ s.plan.begin <= now /\ now < s.plan.end
ChargesNow(s) == s.started \/ (s.completed = NoTime /\ IsOpen(s))

\* History: the measurements a charge spoils are those of its configuration.
RemembersEnd(s, t) ==
    ended' = IF configuration' # configuration \/ fingerprint' # fingerprint \/ configured = "off"
             THEN NoTime
             ELSE IF s.started /\ t.completed # NoTime THEN now ELSE ended
-----------------------------------------------------------------------------
(* The coordinator                                                          *)

\* _sync_bridge_charge_configuration
Synced == IF configured = "off" \/ configuration # configured THEN FreshSession ELSE session
Syncs == configuration' = IF configured = "off" THEN configuration ELSE configured

\* The consumption of a charge that has begun is known from its beginning.
Retained(s, observed) ==
    s.started \/ (s.completed # NoTime /\ (now < s.completed + 1 \/ ~observed))

\* _prepare_bridge_charge: nothing is charged while anything is missing.
EvaluatesGap(usable) ==
    /\ Syncs /\ deadline' = NoTime
    /\ session' = IF configured = "off" THEN FreshSession ELSE WaitForData(Synced, usable)
    /\ UNCHANGED <<now, level, device, configured, fingerprint>>
    /\ RemembersEnd(Synced, session')

\* The order goes out unless surplus or a manual order prevails, and begins the
\* charge unless a cap does.
Deadline(s, ordered) == IF ordered THEN s.plan.end ELSE NoTime

EvaluatesBridge(observed, ordered, begins) ==
    /\ configured # "off" /\ (observed \/ Retained(Synced, observed))
    /\ Syncs /\ fingerprint' = Fingerprint
    /\ \E s \in Prepared(Synced, observed) :
           /\ (begins => ordered) /\ (ordered => ChargesNow(s))
           /\ session' = [s EXCEPT !.started = s.started \/ begins]
           /\ deadline' = Deadline(s, ordered)
           /\ RemembersEnd(IF fingerprint = Fingerprint THEN Synced ELSE FreshSession, s)
    /\ UNCHANGED <<now, level, device, configured>>

\* The writer's tick at the deadline, or when measurements or forecast are old.
WriterEnds(usable) ==
    /\ deadline # NoTime /\ deadline' = NoTime
    /\ session' = WaitForData(session, usable)
    /\ UNCHANGED <<now, level, device, configured, configuration, fingerprint>>
    /\ RemembersEnd(session, session')

\* A failed poll; the writer notices it by itself.
PollFails ==
    /\ session' = WaitForData(session, FALSE)
    /\ UNCHANGED <<now, level, device, configured, configuration, fingerprint, deadline>>
    /\ RemembersEnd(session, session')

\* A setter revokes at once what it changes; options are noticed later.
ChangesBridge ==
    /\ configured' \in (Configurations \cup {"off"}) \ {configured}
    /\ \/ /\ session' = FreshSession /\ ended' = NoTime
          /\ configuration' = IF configured' = "off" THEN configuration ELSE configured'
       \/ UNCHANGED <<session, ended, configuration>>
    /\ UNCHANGED <<now, level, device, fingerprint, deadline>>

MinutePasses ==
    /\ now < LastMinute /\ now' = now + 1
    /\ UNCHANGED <<level, device, configured, session, configuration, fingerprint,
                   deadline, ended>>

BatteryMoves ==
    /\ \/ level' \in ChargeLevels \ {level} /\ UNCHANGED device
       \/ device' \in Devices \ {device} /\ UNCHANGED level
    /\ UNCHANGED <<now, configured, session, configuration, fingerprint,
                   deadline, ended>>
-----------------------------------------------------------------------------
BridgeInit ==
    /\ now = 0 /\ level \in ChargeLevels /\ device \in Devices /\ configured = "off"
    /\ session = FreshSession /\ configuration = NoTime /\ fingerprint = NoTime
    /\ deadline = NoTime /\ ended = NoTime

BridgeNext ==
    \/ \E usable \in BOOLEAN : EvaluatesGap(usable) \/ WriterEnds(usable)
    \/ \E observed, ordered, begins \in BOOLEAN : EvaluatesBridge(observed, ordered, begins)
    \/ PollFails \/ ChangesBridge \/ MinutePasses \/ BatteryMoves

BridgeSpec == BridgeInit /\ [][BridgeNext]_bridgeVars
-----------------------------------------------------------------------------
Moments == (0..(LastMinute + 1)) \cup {NoTime}

\* What may end or replace a charge before its time.
Revoked == \/ "off" \in {configured, configured'}
           \/ configured' # configured
           \/ configuration' # configuration \/ fingerprint' # fingerprint

\* The types; only a plan with a time is begun or ended, one after the other.
BridgeTypeOK ==
    /\ now \in 0..LastMinute /\ level \in ChargeLevels /\ device \in Devices
    /\ configured \in Configurations \cup {"off"}
    /\ {session.plan.begin, session.plan.end, session.completed, deadline, ended}
           \subseteq Moments
    /\ {session.started, session.pending} \subseteq BOOLEAN
    /\ session.started \/ session.completed # NoTime => session.plan # NoPlan
    /\ session.started => session.completed = NoTime
    /\ session.pending => session.completed # NoTime

\* The writer never charges for another plan than the session's.
DeadlineIsThePlans ==
    deadline # NoTime /\ session.plan # NoPlan => session.plan.end = deadline

\* A plan is not made anew while its charge is under way.
FrozenWhileCharging ==
    [][session.started /\ session'.started /\ ~Revoked => session'.plan = session.plan]_bridgeVars

\* Gaps in the data neither end a charge nor make it longer.
EndsForAReason ==
    [][session.started /\ ~session'.started /\ ~Revoked
          => now >= session.plan.end \/ level >= session.plan.target]_bridgeVars

\* The measurements of the charge itself are no reason for another one.
RestsAMinute ==
    [][~session.started /\ session'.started /\ ended # NoTime /\ ~Revoked => now > ended]_bridgeVars

\* What a charge achieved, or that it is still to be judged, stays known until
\* a new plan may be made, and a verdict is not taken back.
ResultStays ==
    [][session.completed # NoTime /\ ~Revoked
          => \/ now > session.completed
             \/ /\ session'.completed = session.completed
                /\ session'.pending => session.pending]_bridgeVars

\* One charge for one plan: the writer charges until that plan's end, not for a
\* gap or a new plan less, no measurement of its own begins another, and its
\* verdict stays.
BridgeIsKept ==
    /\ []DeadlineIsThePlans /\ FrozenWhileCharging /\ EndsForAReason
    /\ RestsAMinute /\ ResultStays
=============================================================================
