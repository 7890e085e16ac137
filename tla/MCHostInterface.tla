--------------------------- MODULE MCHostInterface ---------------------------
(* Instances of HostInterface for TLC: one executable and one unit on      *)
(* either side, two controller images.                                     *)
EXTENDS HostInterface

CONSTANTS launcher, service, v2_script, v2_timer, v1, v2

Reconciling == {"stage", "bootstrap"}
MCAssets == <<launcher, service>>
MCRetired == <<v2_script, v2_timer>>
=============================================================================
