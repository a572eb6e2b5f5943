---------------------------- MODULE MCMaxSocHold ----------------------------
(* Three states of charge, so that the battery can be below, at and above  *)
(* a target, with one target more to move to and back.                     *)
EXTENDS MaxSocHold

MCSocs == 1..3
MCTargets == {2, 3}
============================================================================
