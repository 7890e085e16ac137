---------------------------- MODULE AtomicTarget ----------------------------
(***************************************************************************)
(* What the installation of a declared file promises about its target,     *)
(* whatever the descriptors, temporary files and syncs behind it: the name *)
(* always refers to something whole, and the installer takes away nothing  *)
(* but a file, a link or an empty directory.  A loss of power brings back  *)
(* something the target was since it was last on the disk.                 *)
(***************************************************************************)
EXTENDS Naturals

CONSTANTS
  Files,      (* whole files: their bytes with mode and owner               *)
  Absent, Link, EmptyDir,
  Linked,     (* a file that has another name as well                       *)
  FullDir     (* a directory with entries                                   *)

VARIABLES
  value,      (* what the target's name refers to                           *)
  survivors,  (* what it may refer to after a loss of power                 *)
  edits       (* how often somebody else has put something there            *)

targetVars == <<value, survivors, edits>>
Values == Files \union {Absent, Link, Linked, EmptyDir, FullDir}

Init ==
  /\ value \in Values
  /\ survivors = {value}
  /\ edits = 0

Show(v) ==
  /\ value' = v
  /\ survivors' = survivors \union {v}
  /\ UNCHANGED edits

Install(f) == value \in Files \union {Absent, Link, Linked} /\ Show(f)
Clear == value = EmptyDir /\ Show(Absent)

(* The disk catches up with some or all of what was shown.                 *)
Persist ==
  /\ survivors' \subseteq survivors
  /\ value \in survivors'
  /\ UNCHANGED <<value, edits>>

LosePower ==
  /\ value' \in survivors
  /\ survivors' = {value'}
  /\ UNCHANGED edits

Edit ==
  /\ value' \in Values
  /\ survivors' \subseteq survivors \union {value'}
  /\ edits' = edits + 1

Next ==
  \/ \E f \in Files : Install(f)
  \/ Clear \/ Persist \/ LosePower \/ Edit

Spec == Init /\ [][Next]_targetVars
=============================================================================
