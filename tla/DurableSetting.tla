---------------------------- MODULE DurableSetting --------------------------
(***************************************************************************)
(* What a settings store promises (anforderung.yaml,                       *)
(* REQ-CONTROL-CONFIG-BOOTSTRAP), without saying how: settings that were   *)
(* accepted are kept in the order of their acceptance, some perhaps never; *)
(* what is kept is never something older than before; it is only touched   *)
(* by a program that has read it, and not by one that could not; and a     *)
(* start begins with what is kept.                                         *)
(***************************************************************************)
EXTENDS Naturals, Sequences

CONSTANT Contents       \* what may be kept, nothing at all and rubbish included

VARIABLES
    kept,       \* what a start would find
    accepted,   \* what is kept, then every setting accepted after it
    use         \* "none", "read": by a program that has read it,
                \* "refused": by one that could not read it

durableVars == <<kept, accepted, use>>

DurableInit == kept \in Contents /\ accepted = <<kept>> /\ use = "none"

\* The start begins with what is kept, or with something made of it.
Opens(first) ==
    /\ use = "none" /\ use' = "read"
    /\ accepted' = IF first = kept THEN <<kept>> ELSE <<kept, first>>
    /\ UNCHANGED kept

Refused == use = "none" /\ use' = "refused" /\ UNCHANGED <<kept, accepted>>

Accepts(setting) ==
    /\ use = "read" /\ accepted' = Append(accepted, setting)
    /\ UNCHANGED <<kept, use>>

\* One of the settings accepted since replaces what is kept.
Keeps(i) ==
    /\ use = "read"
    /\ kept' = accepted[i]
    /\ accepted' = SubSeq(accepted, i, Len(accepted))
    /\ UNCHANGED use

\* The end of the program, clean or not: what was not kept is lost.
Closes == use # "none" /\ use' = "none" /\ accepted' = <<kept>> /\ UNCHANGED kept

\* Somebody repairs or replaces what is kept while no program uses it.
Replaced == use = "none" /\ UNCHANGED use /\ kept' \in Contents /\ accepted' = <<kept'>>

DurableNext ==
    \/ \E setting \in Contents : Opens(setting) \/ Accepts(setting)
    \/ \E i \in 2..Len(accepted) : Keeps(i)
    \/ Refused \/ Closes \/ Replaced

DurableSpec == DurableInit /\ [][DurableNext]_durableVars
=============================================================================
