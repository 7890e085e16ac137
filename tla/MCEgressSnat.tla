---------------------------- MODULE MCEgressSnat ----------------------------
(* Instances of EgressSnat for TLC.                                        *)
EXTENDS EgressSnat

CONSTANTS docker, masquerade, old, new

(* No jump, one, two together, two apart, MaxJumps, one more than that.    *)
MCFirstRules ==
  {<<docker>>, <<Jump, docker>>, <<docker, Jump>>, <<Jump, Jump, docker>>,
   <<Jump, docker, Jump>>, <<Jump, Jump, docker, Jump>>,
   <<Jump, Jump, docker, Jump, Jump>>}
=============================================================================
