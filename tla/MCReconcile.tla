----------------------------- MODULE MCReconcile -----------------------------
(* Instances of Reconcile for TLC.                                         *)
EXTENDS Reconcile, TLC

CONSTANTS r1, r2, main, p1, p2, o1, d1, d2

(* Both revisions declare the same mutable tag, as the shipped wrappers do *)
(* with `:main`: what it names can change between two pulls.               *)
MCReferences == {main}
MCRevisions == {r1, r2}
MCDeclares == (r1 :> main) @@ (r2 :> main)

(* Exchanging r1 and r2, or d1 and d2, turns a behavior into another one   *)
(* and every property into itself: one head and one digest to begin with   *)
(* stand for all.                                                          *)
LifecycleInit == Init /\ head = r1 /\ tags = (main :> d1)
LifecycleSpec == LifecycleInit /\ [][Next]_vars /\ Fairness
=============================================================================
