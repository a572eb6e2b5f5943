--------------------------- MODULE ChargeSwitches --------------------------
(***************************************************************************)
(* The two automations that charge from the grid, in a daily window and by *)
(* the price.  Only one may be on (REQ-DYNAMIC-PRICE-CHARGE); a tariff     *)
(* that knows its prices decides which (REQ-VUE-ELECTRICITY-TARIFF).  A    *)
(* switch that would replace the other automation asks in a repair dialog, *)
(* which Home Assistant keeps open while the settings move on.  Options    *)
(* are changed by the options flow, whose listeners run later and in any   *)
(* order, and by the dashboard, which applies them itself.                 *)
(***************************************************************************)
EXTENDS Naturals

VARIABLES
    timedOn, priceOn,   \* _timed_charge_enabled, _price_charge_enabled
    tariff,             \* the tariff type in the coordinator's options
    entryTariff,        \* and in the entry's
    listeners,          \* async_update_options under way, with what they were called for
    phase,              \* "new", "boot" up to the end of the bootstrap, "up"
    asked,              \* the conflicts that are raised as an issue
    dialog,             \* the repair dialog somebody has open, or "none"
    leftOver,           \* history: conflicts raised before the entry was set up
    missed              \* history: the options changed while the entry was being set up

switchVars == <<timedOn, priceOn, tariff, entryTariff, listeners, phase, asked,
                dialog, leftOver, missed>>
switches == <<timedOn, priceOn>>
options == <<tariff, entryTariff, listeners, missed>>
repair == <<asked, leftOver>>

TariffTypes == {"plain", "timeOfUse", "dynamic"}
Conflicts == {"timed", "price"}     \* the automation that was to be switched on
NotSaid == "not said"               \* None, for "enabled"

-----------------------------------------------------------------------------
\* async_dismiss_charge_conflict.
Dismisses == asked' = {} /\ leftOver' = {}

Asks(k) == asked' = asked \cup {k} /\ leftOver' = leftOver \ {k} /\ UNCHANGED switches

\* A tariff leaves one of the two no choice: while the entry starts it stays
\* off, later the call is refused.
Refused(k, on) == on /\ tariff = (IF k = "timed" THEN "dynamic" ELSE "timeOfUse")

\* async_set_timed_charge_enabled, async_set_price_charge_enabled.
Switches(k, wanted, force) ==
    LET on == wanted /\ ~Refused(k, wanted)
        other == IF k = "timed" THEN priceOn ELSE timedOn
    IN  /\ Refused(k, wanted) => phase = "boot"
        /\ IF on /\ other /\ ~force THEN Asks(k)
           ELSE /\ timedOn' = IF k = "timed" THEN on ELSE timedOn /\ ~on
                /\ priceOn' = IF k = "price" THEN on ELSE priceOn /\ ~on
                /\ Dismisses

\* tariff_automation_controls.
\* A slip: the tariff before is not looked at.
Controls(t, before, enabled) ==
    IF t = "plain" THEN [timed |-> timedOn, price |-> priceOn]
    ELSE LET on == IF enabled # NotSaid THEN enabled = "on"
                   ELSE IF before \notin {NotSaid, t} THEN timedOn \/ priceOn
                   ELSE IF t = "timeOfUse" THEN timedOn ELSE priceOn
         IN  [timed |-> on /\ t = "timeOfUse", price |-> on /\ t = "dynamic"]

\* _apply_tariff_options, without an await.
\* A slip: the tariff before is the one just taken over.
AppliesLate(t, enabled) ==
    /\ tariff' = t
    /\ timedOn' = Controls(t, t, enabled).timed /\ priceOn' = Controls(t, t, enabled).price
    /\ IF enabled # NotSaid \/ t # tariff THEN Dismisses ELSE UNCHANGED repair
Applies(t, enabled) ==
    /\ tariff' = t
    /\ timedOn' = Controls(t, tariff, enabled).timed
    /\ priceOn' = Controls(t, tariff, enabled).price
    /\ IF enabled # NotSaid \/ t # tariff THEN Dismisses ELSE UNCHANGED repair

-----------------------------------------------------------------------------
(* The user                                                                 *)

\* A switch asks; the price switch's service does not; nor does the state an
\* entity had before there was a store.
UserSwitches ==
    /\ phase # "new"
    /\ \E k \in Conflicts, on, force \in BOOLEAN :
          (force => k = "price" \/ phase = "boot") /\ Switches(k, on, force)
    /\ UNCHANGED <<options, phase, dialog>>

OpensDialog ==
    /\ dialog = "none" /\ dialog' \in asked
    /\ UNCHANGED <<switches, options, phase, repair>>

\* async_step_confirm; a refused call leaves the dialog open.
ConfirmsDialog ==
    /\ dialog # "none" /\ dialog' = "none"
    /\ IF phase = "new"
       THEN /\ asked' = asked \ {dialog} /\ leftOver' = leftOver \ {dialog}
            /\ UNCHANGED switches
       ELSE Switches(dialog, TRUE, TRUE)
    /\ UNCHANGED <<options, phase>>

\* async_step_cancel; Home Assistant itself deletes the issue of the dialog.
CancelsDialog ==
    /\ dialog # "none" /\ dialog' = "none"
    /\ IF phase = "new"
       THEN asked' = asked \ {dialog} /\ leftOver' = leftOver \ {dialog}
       ELSE Dismisses
    /\ UNCHANGED <<switches, options, phase>>

\* The options flow.  The listener is registered when the setup is over.
\* A slip: at its beginning.
CalledEarly(t) == IF phase # "new" THEN listeners \cup {t} ELSE listeners
Called(t) == IF phase = "up" THEN listeners \cup {t} ELSE listeners

OptionsFlow(t) ==
    /\ t # entryTariff /\ entryTariff' = t
    /\ listeners' = Called(t)
    /\ missed' = (missed \/ phase = "boot")
    /\ UNCHANGED <<switches, tariff, phase, repair, dialog>>

\* _apply_dashboard_tariff_configuration; the listener finds it applied.
Dashboard(t, enabled) ==
    /\ phase = "up" /\ Applies(t, enabled)
    /\ entryTariff' = t /\ missed' = FALSE
    /\ listeners' = IF t # entryTariff THEN listeners \cup {t} ELSE listeners
    /\ UNCHANGED <<phase, dialog>>

\* async_update_options, after its await.
ReadAgain(t) == entryTariff

OptionsListener(t) ==
    /\ t \in listeners /\ listeners' = listeners \ {t}
    /\ IF tariff = ReadAgain(t) THEN UNCHANGED <<tariff, switches, repair>>
       ELSE Applies(ReadAgain(t), NotSaid)
    /\ missed' = FALSE
    /\ UNCHANGED <<entryTariff, phase, dialog>>

-----------------------------------------------------------------------------
(* Setup and unload                                                         *)

\* The options are taken when the coordinator is made, the settings loaded, or
\* left at their defaults; ControlConfig.sanitized has one automation at most.
SanitizedPrice(timed, price) == price /\ ~timed

SetsUp ==
    /\ phase = "new" /\ phase' = "boot" /\ tariff' = entryTariff /\ missed' = FALSE
    /\ timedOn' \in BOOLEAN /\ \E p \in BOOLEAN : priceOn' = SanitizedPrice(timedOn', p)
    /\ UNCHANGED <<entryTariff, listeners, repair, dialog>>

\* async_finish_bootstrap.
FinishesAsTariff ==
    /\ timedOn' = Controls(tariff, NotSaid, NotSaid).timed
    /\ priceOn' = Controls(tariff, NotSaid, NotSaid).price

IsSetUp ==
    /\ phase = "boot" /\ phase' = "up" /\ FinishesAsTariff /\ leftOver' = asked
    /\ UNCHANGED <<options, asked, dialog>>

\* Unloaded, or the setup failed: listeners find no entry any more.  A restart
\* of Home Assistant forgets issues and dialogs, too.
UnloadsSwitches ==
    /\ phase # "new" /\ phase' = "new" /\ listeners' = {} /\ missed' = FALSE
    /\ timedOn' = FALSE /\ priceOn' = FALSE
    /\ \/ leftOver' = asked /\ UNCHANGED <<asked, dialog>>
       \/ Dismisses /\ dialog' = "none"
    /\ UNCHANGED <<tariff, entryTariff>>

-----------------------------------------------------------------------------
SwitchInit ==
    /\ timedOn = FALSE /\ priceOn = FALSE
    /\ tariff = "plain" /\ entryTariff = "plain" /\ listeners = {}
    /\ phase = "new" /\ asked = {} /\ dialog = "none"
    /\ leftOver = {} /\ missed = FALSE

SwitchNext ==
    \/ UserSwitches \/ OpensDialog \/ ConfirmsDialog \/ CancelsDialog
    \/ \E t \in TariffTypes :
          \/ OptionsFlow(t) \/ OptionsListener(t)
          \/ \E enabled \in {"on", "off", NotSaid} : Dashboard(t, enabled)
    \/ SetsUp \/ IsSetUp \/ UnloadsSwitches

SwitchSpec == SwitchInit /\ [][SwitchNext]_switchVars

-----------------------------------------------------------------------------
\* The types; nobody listens to options before the entry is set up.
SwitchTypeOK ==
    /\ {timedOn, priceOn, missed} \subseteq BOOLEAN
    /\ {tariff, entryTariff} \cup listeners \subseteq TariffTypes
    /\ phase \in {"new", "boot", "up"} /\ (phase # "up" => listeners = {})
    /\ asked \cup leftOver \subseteq Conflicts /\ dialog \in Conflicts \cup {"none"}

\* Two automations never charge from the grid side by side, whichever of
\* switches, services, dialogs and tariffs was used last.
OneAutomation == ~(timedOn /\ priceOn)

\* Once the entry is set up, the automation that is on is the one the tariff
\* has prices for.
AutomationFitsTariff ==
    phase = "up" => /\ tariff = "dynamic" => ~timedOn
                    /\ tariff = "timeOfUse" => ~priceOn

\* A question that is asked once the entry is set up is asked only as long as it
\* can be answered: the other automation is on and the one it is about is off.
QuestionIsCurrent ==
    /\ "timed" \in asked \ leftOver => priceOn /\ ~timedOn
    /\ "price" \in asked \ leftOver => timedOn /\ ~priceOn

\* When no listener is under way the coordinator works with the entry's
\* options, whatever flow and dashboard changed in which order.
OptionsArrive == phase = "up" /\ listeners = {} /\ ~missed => tariff = entryTariff

\* Options alone do not stop the charging, and do not start it either.
AutomationSurvivesTariff ==
    [][phase = "up" /\ tariff' # tariff /\ listeners' # listeners /\ entryTariff' = entryTariff
        => (timedOn' \/ priceOn') = (timedOn \/ priceOn)]_switchVars

\* One automation, the one the tariff of the entry allows, and no question about
\* one that is gone, whichever of switches, dialogs, flows and reloads came last.
AutomationsAgree ==
    /\ []OneAutomation /\ []AutomationFitsTariff /\ []QuestionIsCurrent /\ []OptionsArrive
    /\ AutomationSurvivesTariff
=============================================================================
