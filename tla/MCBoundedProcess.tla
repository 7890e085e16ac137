--------------------------- MODULE MCBoundedProcess ---------------------------
(* Instances of BoundedProcess for TLC: limits of one byte, so that a      *)
(* stream and both together can exceed theirs.                             *)
EXTENDS BoundedProcess

MCLimit == [s \in Streams |-> 1]
=============================================================================
