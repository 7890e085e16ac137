-------------------------- MODULE ConfigTreeProofs --------------------------
(***************************************************************************)
(* What the config trees of a run come to, for any declarations, hosts and *)
(* numbers of failures, kills and edits.                                   *)
(***************************************************************************)
EXTENDS ConfigTree, TLAPS

-----------------------------------------------------------------------------
(* The inductive invariant.                                                *)

(* A run: from the preflight that accepted the collection to its end.      *)
Running == pc \in {"between", "done"} \union Calling

(* While the stale pass goes on.                                           *)
SweepInv ==
  /\ \A p \in Files(Tree) : fs[p] = Tree.files[p]
  /\ \A q \in sweep : IsStrictPrefix(Tree.target, q)
  /\ \A q \in Paths : IsStrictPrefix(Tree.target, q) =>
       \/ q \in sweep \/ fs[q] = Absent
       \/ q \in Files(Tree) \/ q \in Directories(Tree)

(* The call at hand.  Nobody else acts during it; once its directories are *)
(* there they stay; the temporary file is of a file that needs it; the     *)
(* stale pass leaves only what the tree declares.                          *)
CallInv ==
  pc \in Calling =>
    /\ checkout = expected
    /\ next \in DOMAIN Trees[expected]
    /\ pc # "dirs" => \A q \in NeededDirectories(Tree) : fs[q] = Dir
    /\ \A p \in writing : p \in Outdated /\ fs[Temp[p]] = Partial
    /\ pc = "sweep" => SweepInv

(* A run that nobody disturbs.                                             *)
ApartInv ==
  /\ checkout = expected
  /\ \A i, j \in DOMAIN Trees[expected] :
       i # j => ~Overlap(Trees[expected][i].target, Trees[expected][j].target)

(* The trees of the calls that have returned are exact; those that are     *)
(* still to come can be written.                                           *)
BehindInv ==
  \A i \in DOMAIN Trees[expected] : i < next => Exact(Trees[expected][i])
AheadInv ==
  \A i \in DOMAIN Trees[expected] :
    i > next \/ (i = next /\ pc = "between") =>
      Trees[expected][i].sound /\ TargetAccepts(Trees[expected][i])

(* What has been reported so far lies in the trees that have been written; *)
(* in the one at hand it is what it should be.                             *)
ReportInv ==
  /\ \A q \in touched :
       \E i \in DOMAIN Trees[expected] :
         /\ i < next \/ (i = next /\ pc \in Calling \ {"dirs"})
         /\ IsStrictPrefix(Trees[expected][i].target, q)
  /\ pc \in Calling \ {"dirs"} =>
       \A q \in touched \ Range(Temp) :
         IsStrictPrefix(Tree.target, q) =>
           fs[q] = IF q \in Files(Tree) THEN Tree.files[q] ELSE Absent

(* A path is reported when it is a file, or was one, and differs.          *)
DiffersInv ==
  \A q \in Paths \ Range(Temp) : q \in touched <=> Differs(q)

RunInv ==
  undisturbed /\ Running =>
    ApartInv /\ BehindInv /\ AheadInv /\ ReportInv /\ DiffersInv

IInv ==
  /\ TypeOK /\ CallInv /\ RunInv
  /\ RefusesBeforeWriting
  /\ pc = "done" => next > Len(Trees[expected])

-----------------------------------------------------------------------------
(* Paths.                                                                  *)

(* A prefix, element by element.                                           *)
LEMMA PrefixPointwise ==
  ASSUME NEW S, NEW s \in Seq(S), NEW t \in Seq(S)
  PROVE  IsPrefix(s, t) <=>
           Len(s) <= Len(t) /\ \A i \in 1..Len(s) : s[i] = t[i]
<1>1. ASSUME Len(s) <= Len(t)
      PROVE  /\ SubSeq(t, 1, Len(s)) \in Seq(S)
             /\ Len(SubSeq(t, 1, Len(s))) = Len(s)
             /\ \A i \in 1..Len(s) : SubSeq(t, 1, Len(s))[i] = t[i]
  BY <1>1
<1>2. SubSeq(s, 1, Len(s)) = s
  OBVIOUS
<1>3. ASSUME Len(s) <= Len(t), \A i \in 1..Len(s) : s[i] = t[i]
      PROVE  s = SubSeq(t, 1, Len(s))
  BY <1>1, <1>3
<1> QED
  BY <1>1, <1>2, <1>3 DEF IsPrefix

(* Paths are ordered, and what is above one path is ordered in a line.     *)
LEMMA PathOrder ==
  /\ \A p \in Paths : IsPrefix(p, p) /\ ~IsStrictPrefix(p, p)
  /\ \A p, q \in Paths : IsPrefix(p, q) <=> p = q \/ IsStrictPrefix(p, q)
  /\ \A p, q \in Paths : IsStrictPrefix(p, q) => ~IsPrefix(q, p)
  /\ \A p, q, r \in Paths :
       IsPrefix(p, q) /\ IsPrefix(q, r) => IsPrefix(p, r)
  /\ \A p, q, r \in Paths :
       IsPrefix(p, r) /\ IsPrefix(q, r) => IsPrefix(p, q) \/ IsPrefix(q, p)
<1>1. \A p \in Paths : p \in Seq(STRING) /\ Len(p) \in Nat
  BY ConfigTreeAssumption
<1>2. ASSUME NEW p \in Paths PROVE IsPrefix(p, p)
  BY <1>1, PrefixPointwise
<1>3. ASSUME NEW p \in Paths, NEW q \in Paths, IsPrefix(p, q), IsPrefix(q, p)
      PROVE  p = q
  <2>1. Len(p) = Len(q) /\ \A i \in 1..Len(p) : p[i] = q[i]
    BY <1>1, <1>3, PrefixPointwise
  <2> QED
    BY <1>1, <2>1
<1>4. ASSUME NEW p \in Paths, NEW q \in Paths, NEW r \in Paths,
             IsPrefix(p, q), IsPrefix(q, r)
      PROVE  IsPrefix(p, r)
  <2>1. Len(p) <= Len(q) /\ \A i \in 1..Len(p) : p[i] = q[i]
    BY <1>1, <1>4, PrefixPointwise
  <2>2. Len(q) <= Len(r) /\ \A i \in 1..Len(q) : q[i] = r[i]
    BY <1>1, <1>4, PrefixPointwise
  <2>3. Len(p) <= Len(r) /\ \A i \in 1..Len(p) : p[i] = r[i]
    BY <1>1, <2>1, <2>2
  <2> QED
    BY <1>1, <2>3, PrefixPointwise
<1>5. ASSUME NEW p \in Paths, NEW q \in Paths, NEW r \in Paths,
             IsPrefix(p, r), IsPrefix(q, r)
      PROVE  IsPrefix(p, q) \/ IsPrefix(q, p)
  <2>1. Len(p) <= Len(r) /\ \A i \in 1..Len(p) : p[i] = r[i]
    BY <1>1, <1>5, PrefixPointwise
  <2>2. Len(q) <= Len(r) /\ \A i \in 1..Len(q) : q[i] = r[i]
    BY <1>1, <1>5, PrefixPointwise
  <2>3. \/ Len(p) <= Len(q) /\ \A i \in 1..Len(p) : p[i] = q[i]
        \/ Len(q) <= Len(p) /\ \A i \in 1..Len(q) : q[i] = p[i]
    BY <1>1, <2>1, <2>2
  <2> QED
    BY <1>1, <2>3, PrefixPointwise
<1> QED
  BY <1>2, <1>3, <1>4, <1>5 DEF IsStrictPrefix

(* What lies above or below one of two trees that do not overlap.          *)
LEMMA Apart ==
  ASSUME NEW a \in Paths, NEW b \in Paths, ~Overlap(a, b), NEW q \in Paths,
         IsPrefix(b, q)
  PROVE  ~IsPrefix(a, q) /\ ~IsPrefix(q, a)
BY PathOrder DEF Overlap

-----------------------------------------------------------------------------
(* Declared trees.                                                         *)

(* What a declaration may say.                                             *)
LEMMA Declared ==
  ASSUME NEW r \in Revisions, NEW i \in DOMAIN Trees[r],
         NEW tree, tree = Trees[r][i]
  PROVE  /\ tree \in Range(Trees[r])
         /\ tree.target \in Paths
         /\ Files(tree) \subseteq DOMAIN Temp /\ Files(tree) \subseteq Paths
         /\ \A p \in Files(tree) :
              /\ IsStrictPrefix(tree.target, p)
              /\ tree.files[p] \in Values
              /\ Temp[p] \notin Files(tree)
              /\ \A q \in Files(tree) : ~IsStrictPrefix(p, q)
<1>1. tree \in Range(Trees[r])
  BY DEF Range
<1> QED
  BY <1>1, ConfigTreeAssumption DEF Files

(* The trees of a revision are numbered.                                   *)
LEMMA Numbered ==
  ASSUME NEW r \in Revisions
  PROVE  \E last \in Nat : /\ last = Len(Trees[r])
                           /\ DOMAIN Trees[r] = 1..last
                           /\ Range(Trees[r]) = {Trees[r][i] : i \in 1..last}
<1>1. PICK S : Trees[r] \in Seq(S)
  BY ConfigTreeAssumption
<1>2. PICK last : last = Len(Trees[r])
  OBVIOUS
<1>3. last \in Nat /\ DOMAIN Trees[r] = 1..last
  BY <1>1, <1>2
<1> QED
  BY <1>2, <1>3 DEF Range

(* A tree has no file where it needs a directory, nor above one.           *)
LEMMA FilesApart ==
  ASSUME NEW r \in Revisions, NEW i \in DOMAIN Trees[r],
         NEW tree, tree = Trees[r][i], NEW p \in Files(tree)
  PROVE  /\ p \notin NeededDirectories(tree)
         /\ Temp[p] \in Paths /\ Temp[p] # p
         /\ IsStrictPrefix(tree.target, Temp[p])
<1>1. /\ tree.target \in Paths /\ p \in DOMAIN Temp /\ p \in Paths
      /\ IsStrictPrefix(tree.target, p) /\ Temp[p] \notin Files(tree)
      /\ \A q \in Files(tree) : ~IsStrictPrefix(p, q)
  BY Declared
<1>2. Temp[p] \in Paths /\ IsStrictPrefix(tree.target, Temp[p])
  BY <1>1, ConfigTreeAssumption
<1>3. ~IsStrictPrefix(p, tree.target)
  BY <1>1, PathOrder
<1> QED
  BY <1>1, <1>2, <1>3 DEF NeededDirectories, Directories

(* Directories lie at the target or below it.                              *)
LEMMA DirectoriesWhere ==
  ASSUME NEW tree, tree.target \in Paths, NEW q \in NeededDirectories(tree)
  PROVE  /\ q \in Paths
         /\ \/ IsPrefix(q, tree.target)
            \/ q \in Directories(tree) /\ IsStrictPrefix(tree.target, q)
BY PathOrder DEF NeededDirectories, Directories

(* What a call may write: its tree, and the directories above it.          *)
Touches(tree) ==
  \A q \in Paths : \/ fs'[q] = fs[q]
                   \/ IsPrefix(q, tree.target) /\ fs'[q] = Dir
                   \/ IsStrictPrefix(tree.target, q)

(* It leaves alone what is at another tree's target or below it.           *)
LEMMA OtherTreeStays ==
  ASSUME NEW mine, NEW other, mine.target \in Paths, other.target \in Paths,
         ~Overlap(mine.target, other.target), Touches(mine),
         NEW q \in Paths, IsPrefix(other.target, q)
  PROVE  fs'[q] = fs[q]
<1>1. ~IsPrefix(mine.target, q) /\ ~IsPrefix(q, mine.target)
  BY Apart
<1> QED
  BY <1>1 DEF Touches, IsStrictPrefix

(* A step inside one tree's target keeps a tree apart from it exact, and   *)
(* its target acceptable.                                                  *)
LEMMA OthersStay ==
  ASSUME NEW mine, NEW other, mine.target \in Paths, other.target \in Paths,
         ~Overlap(mine.target, other.target), Touches(mine)
  PROVE  /\ Exact(other) => Exact(other)'
         /\ TargetAccepts(other) => TargetAccepts(other)'
<1>1. \A q \in Paths : IsPrefix(other.target, q) => fs'[q] = fs[q]
  BY OtherTreeStays
<1>2. \A q \in Paths : IsStrictPrefix(other.target, q) => fs'[q] = fs[q]
  BY <1>1, PathOrder
<1>3. ASSUME Exact(other) PROVE Exact(other)'
  <2>1. \A q \in Directories(other) : fs'[q] = Dir
    BY <1>1, <1>3 DEF Exact, Directories
  <2> QED
    BY <1>2, <1>3, <2>1 DEF Exact
<1>4. ASSUME TargetAccepts(other) PROVE TargetAccepts(other)'
  <2>1. ASSUME NEW q \in Paths, IsPrefix(q, other.target)
        PROVE  fs'[q] \in {Absent, Dir}
    <3>1. ~IsStrictPrefix(mine.target, q)
      BY <2>1, PathOrder DEF Overlap
    <3>2. fs[q] \in {Absent, Dir}
      BY <1>4, <2>1 DEF TargetAccepts
    <3> QED
      BY <3>1, <3>2 DEF Touches
  <2> QED
    BY <1>2, <1>4, <2>1 DEF TargetAccepts
<1> QED
  BY <1>3, <1>4

-----------------------------------------------------------------------------
(* Types.                                                                  *)

(* Where a call is, and what its source says.                              *)
LEMMA Here ==
  ASSUME TypeOK, CallInv, pc \in Calling
  PROVE  /\ expected \in Revisions /\ checkout = expected
         /\ next \in DOMAIN Trees[expected] /\ next \in Nat
         /\ Tree.target \in Paths
         /\ \A p \in Files(Tree) : Source(p) = Tree.files[p]
<1>1. /\ expected \in Revisions /\ checkout = expected
      /\ next \in DOMAIN Trees[expected]
  BY DEF TypeOK, CallInv
<1>2. next \in Nat
  BY <1>1, Numbered
<1>3. Tree.target \in Paths
  BY <1>1, Declared DEF Tree
<1> QED
  BY <1>1, <1>2, <1>3 DEF Source, Tree

(* The trees of a revision are numbered from 1 to their number.            *)
LEMMA Bounds ==
  ASSUME NEW r \in Revisions
  PROVE  /\ Len(Trees[r]) \in Nat
         /\ \A i : i \in DOMAIN Trees[r] <=>
                     i \in Nat \ {0} /\ i <= Len(Trees[r])
<1>1. PICK last \in Nat : last = Len(Trees[r]) /\ DOMAIN Trees[r] = 1..last
  BY Numbered
<1> QED
  BY <1>1

(* Types are kept.                                                         *)
LEMMA TypeOKStep ==
  ASSUME TypeOK, CallInv, [Next]_vars
  PROVE  TypeOK'
<1> USE DEF TypeOK, outside, caller, Move, Kinds, Calling, Ended
<1>1. CASE \E r \in Revisions : Preflight(r)
  <2>1. PICK r \in Revisions : Preflight(r)
    BY <1>1
  <2>2. 1 \in 1..(Len(Trees[r]) + 1)
    BY Bounds
  <2> QED
    BY <2>1, <2>2 DEF Preflight
<1>2. CASE Materialize
  BY <1>2 DEF Materialize
<1>3. ASSUME NEW q \in Paths, MakeDirectory(q) PROVE TypeOK'
  BY <1>3 DEF MakeDirectory
<1>4. ASSUME NEW q \in Paths, Sweep(q) PROVE TypeOK'
  BY <1>4 DEF Sweep
<1>5. ASSUME NEW p \in DOMAIN Temp, WriteTemporary(p) PROVE TypeOK'
  BY <1>5 DEF WriteTemporary
<1>6. ASSUME NEW p \in DOMAIN Temp, ReplaceFile(p) PROVE TypeOK'
  <2>1. p \in Files(Tree) /\ pc \in Calling
    BY <1>6 DEF CallInv, ReplaceFile, Outdated
  <2>2. Source(p) \in Values
    BY <2>1, Here, Declared DEF Tree
  <2>3. /\ fs' = [fs EXCEPT ![p] = Source(p), ![Temp[p]] = Absent]
        /\ fs' \in [Paths -> Kinds]
    BY <1>6, <2>2 DEF ReplaceFile
  <2>4. p \in Paths
    BY ConfigTreeAssumption
  <2> QED
    BY <1>6, <2>3, <2>4 DEF ReplaceFile
<1>7. ASSUME NEW p \in DOMAIN Temp, TemporaryBlocked(p) PROVE TypeOK'
  BY <1>7 DEF TemporaryBlocked
<1>8. CASE DirectoriesMade
  BY <1>8 DEF DirectoriesMade
<1>9. CASE FilesWritten
  BY <1>9 DEF FilesWritten
<1>10. CASE Synchronized
  <2>1. next \in DOMAIN Trees[expected] /\ expected \in Revisions
    BY <1>10, Here DEF Synchronized
  <2>2. next + 1 \in 1..(Len(Trees[expected]) + 1)
    BY <2>1, Bounds
  <2> QED
    BY <1>10, <2>2 DEF Synchronized
<1>11. CASE Done
  BY <1>11 DEF Done
<1>12. CASE Fails
  <2>1. fs' \in [Paths -> Kinds]
    BY <1>12 DEF Fails
  <2>2. faults' \in 0..MaxFaults
    BY <1>12, ConfigTreeAssumption DEF Fails
  <2> QED
    BY <1>12, <2>1, <2>2 DEF Fails
<1>13. CASE Killed
  <2>1. faults' \in 0..MaxFaults
    BY <1>13, ConfigTreeAssumption DEF Killed
  <2> QED
    BY <1>13, <2>1 DEF Killed
<1>14. CASE Return
  BY <1>14 DEF Return
<1>15. ASSUME NEW q \in Paths, NEW kind \in Kinds \ {Partial}, Edit(q, kind)
       PROVE  TypeOK'
  <2>1. edits' \in 0..MaxEdits
    BY <1>15, ConfigTreeAssumption DEF Edit, Disturb
  <2>2. fs' \in [Paths -> Kinds]
    BY <1>15 DEF Edit
  <2> QED
    BY <1>15, <2>1, <2>2 DEF Edit, Disturb
<1>16. ASSUME NEW r \in Revisions \union {Dirty}, Checkout(r) PROVE TypeOK'
  <2>1. edits' \in 0..MaxEdits
    BY <1>16, ConfigTreeAssumption DEF Checkout, Disturb
  <2> QED
    BY <1>16, <2>1 DEF Checkout, Disturb
<1>17. CASE UNCHANGED vars
  BY <1>17 DEF vars
<1> HIDE DEF TypeOK
<1> QED
  BY <1>1, <1>2, <1>3, <1>4, <1>5, <1>6, <1>7, <1>8, <1>9, <1>10, <1>11, <1>12,
     <1>13, <1>14, <1>15, <1>16, <1>17 DEF Next

-----------------------------------------------------------------------------
(* The steps of a call.                                                    *)

(* A step that touches one tree leaves the others as they are.             *)
LEMMA RunStays ==
  ASSUME TypeOK, CallInv, RunInv, undisturbed, pc \in Calling, pc' \in Calling,
         Touches(Tree), UNCHANGED <<outside, caller, next>>
  PROVE  (ApartInv /\ BehindInv /\ AheadInv)'
<1> DEFINE trees == Trees[expected]
<1>1. ApartInv /\ BehindInv /\ AheadInv
  BY DEF RunInv, Running
<1>2. /\ expected \in Revisions /\ next \in DOMAIN trees
      /\ Tree = trees[next] /\ Tree.target \in Paths
  BY Here DEF Tree
<1>3. UNCHANGED <<checkout, expected, next>>
  BY DEF outside, caller
<1>4. ASSUME NEW i \in DOMAIN trees, i # next
      PROVE  /\ Exact(trees[i]) => Exact(trees[i])'
             /\ TargetAccepts(trees[i]) => TargetAccepts(trees[i])'
  <2>1. PICK other : other = trees[i]
    OBVIOUS
  <2>2. PICK mine : mine = Tree
    OBVIOUS
  <2>3. other.target \in Paths
    BY <1>2, <2>1, Declared
  <2>4. ~Overlap(mine.target, other.target)
    BY <1>1, <1>2, <1>4, <2>1, <2>2 DEF ApartInv
  <2>5. /\ Exact(other) => Exact(other)'
        /\ TargetAccepts(other) => TargetAccepts(other)'
    BY <1>2, <2>2, <2>3, <2>4, OthersStay
  <2>6. trees[i]' = other
    BY <1>3, <2>1
  <2> QED
    BY <2>1, <2>5, <2>6 DEF Exact, TargetAccepts
<1>5. \A i \in DOMAIN trees : i \in Nat
  BY <1>2, Bounds
<1>6. next \in Nat
  BY <1>2, <1>5
<1>7. ApartInv'
  BY <1>1, <1>3 DEF ApartInv
<1>8. BehindInv'
  <2>1. \A i \in DOMAIN trees : i < next => Exact(trees[i])'
    BY <1>1, <1>4, <1>5, <1>6 DEF BehindInv
  <2> QED
    BY <1>3, <2>1 DEF BehindInv
<1>9. AheadInv'
  <2>1. pc' # "between" /\ pc # "between"
    BY DEF Calling
  <2>2. \A i \in DOMAIN trees :
          i > next => trees[i].sound /\ TargetAccepts(trees[i])'
    BY <1>1, <1>4, <1>5, <1>6 DEF AheadInv
  <2> QED
    BY <1>3, <2>1, <2>2 DEF AheadInv
<1> QED
  BY <1>7, <1>8, <1>9

(* A path that neither is a file nor becomes one differs as it did.        *)
LEMMA DiffersAsBefore ==
  ASSUME NEW q, UNCHANGED before,
         fs'[q] = fs[q] \/ (~FileOf(fs[q]) /\ ~FileOf(fs'[q]))
  PROVE  Differs(q)' <=> Differs(q)
BY DEF Differs, FileOf

(* A directory that the tree needs is made.                                *)
LEMMA MakeDirectoryStep ==
  ASSUME TypeOK, CallInv, RunInv, NEW q \in Paths, MakeDirectory(q)
  PROVE  CallInv' /\ RunInv'
<1>1. /\ pc = "dirs" /\ pc' = "dirs" /\ q \in NeededDirectories(Tree)
      /\ fs[q] = Absent /\ fs' = [fs EXCEPT ![q] = Dir]
      /\ UNCHANGED <<outside, caller, next, writing, touched>>
  BY DEF MakeDirectory
<1>2. /\ UNCHANGED <<checkout, expected, before, undisturbed>>
      /\ writing = {} /\ DOMAIN fs = Paths
  BY <1>1 DEF outside, caller, TypeOK
<1>3. CallInv'
  BY <1>1, <1>2 DEF CallInv, Calling
<1>4. Touches(Tree)
  <2>1. Tree.target \in Paths
    BY <1>1, Here DEF Calling
  <2>2. IsPrefix(q, Tree.target) \/ IsStrictPrefix(Tree.target, q)
    BY <1>1, <2>1, DirectoriesWhere
  <2> QED
    BY <1>1, <1>2, <2>2 DEF Touches
<1>5. ASSUME undisturbed PROVE (ReportInv /\ DiffersInv)'
  <2>1. ReportInv /\ DiffersInv
    BY <1>1, <1>5 DEF RunInv, Running, Calling
  <2>2. ReportInv'
    BY <1>1, <1>2, <2>1 DEF ReportInv, Calling
  <2>3. ~FileOf(Absent) /\ ~FileOf(Dir)
    BY ConfigTreeAssumption DEF FileOf
  <2>4. \A other : Differs(other)' <=> Differs(other)
    BY <1>1, <1>2, <2>3, DiffersAsBefore
  <2> QED
    BY <1>1, <2>1, <2>2, <2>4 DEF DiffersInv
<1> QED
  BY <1>1, <1>2, <1>3, <1>4, <1>5, RunStays DEF RunInv, Calling

(* A temporary file beside an outdated one is written.                     *)
LEMMA WriteTemporaryStep ==
  ASSUME TypeOK, CallInv, RunInv, NEW p \in DOMAIN Temp, WriteTemporary(p)
  PROVE  CallInv' /\ RunInv'
<1>1. /\ pc = "files" /\ pc' = "temporary" /\ p \in Outdated
      /\ fs[Temp[p]] # Dir /\ fs' = [fs EXCEPT ![Temp[p]] = Partial]
      /\ writing' = {p}
      /\ UNCHANGED <<outside, caller, next, touched>>
  BY DEF WriteTemporary, Move
<1>2. /\ UNCHANGED <<checkout, expected, before, undisturbed>>
      /\ DOMAIN fs = Paths
  BY <1>1 DEF outside, caller, TypeOK
<1>3. PICK tree : tree = Tree
  OBVIOUS
<1>4. Tree' = tree
  BY <1>1, <1>2, <1>3 DEF Tree
<1>5. /\ p \in Files(tree) /\ Temp[p] \in Paths /\ Temp[p] # p
      /\ IsStrictPrefix(tree.target, Temp[p])
  <2>1. p \in Files(tree)
    BY <1>1, <1>3 DEF Outdated
  <2> QED
    BY <1>1, <1>3, <2>1, Here, FilesApart DEF Tree, Calling
<1>6. \A q \in Paths : q # Temp[p] => fs'[q] = fs[q]
  BY <1>1, <1>2
<1>7. p \in Outdated'
  <2>1. fs[p] # Source(p) /\ p \in Paths
    BY <1>1, ConfigTreeAssumption DEF Outdated
  <2>2. Source(p)' = Source(p)
    BY <1>1, <1>2, <1>3, <1>4 DEF Source
  <2> QED
    BY <1>4, <1>5, <1>6, <2>1, <2>2 DEF Outdated
<1>8. CallInv'
  <2>1. \A q \in NeededDirectories(tree) : fs[q] = Dir
    BY <1>1, <1>3 DEF CallInv, Calling
  <2>2. \A q \in NeededDirectories(tree) : fs'[q] = Dir
    BY <1>1, <1>6, <2>1 DEF NeededDirectories, Directories
  <2>3. checkout' = expected' /\ next' \in DOMAIN Trees[expected']
    BY <1>1, <1>2 DEF CallInv, Calling
  <2>4. fs'[Temp[p]] = Partial
    BY <1>1, <1>2, <1>5
  <2> QED
    BY <1>1, <1>4, <1>7, <2>2, <2>3, <2>4 DEF CallInv
<1>9. Touches(Tree)
  BY <1>3, <1>5, <1>6 DEF Touches
<1>10. ASSUME undisturbed PROVE (ReportInv /\ DiffersInv)'
  <2>1. ReportInv /\ DiffersInv
    BY <1>1, <1>10 DEF RunInv, Running, Calling
  <2>2. Temp[p] \in Range(Temp)
    BY DEF Range
  <2>3. \A q \in touched \ Range(Temp) : q \in Paths /\ fs'[q] = fs[q]
    BY <1>6, <2>2 DEF TypeOK
  <2>4. ReportInv'
    BY <1>1, <1>2, <1>3, <1>4, <2>1, <2>3 DEF ReportInv, Calling
  <2>5. \A q \in Paths \ Range(Temp) : Differs(q)' <=> Differs(q)
    BY <1>2, <1>6, <2>2, DiffersAsBefore
  <2> QED
    BY <1>1, <2>1, <2>4, <2>5 DEF DiffersInv
<1> QED
  BY <1>1, <1>2, <1>8, <1>9, <1>10, RunStays DEF RunInv, Calling

(* The temporary file replaces the outdated one.                           *)
LEMMA ReplaceFileStep ==
  ASSUME TypeOK, CallInv, RunInv, NEW p \in DOMAIN Temp, ReplaceFile(p)
  PROVE  CallInv' /\ RunInv'
<1>1. /\ pc = "temporary" /\ pc' = "files" /\ p \in writing
      /\ fs' = [fs EXCEPT ![p] = Source(p), ![Temp[p]] = Absent]
      /\ writing' = {} /\ touched' = touched \union {p}
      /\ UNCHANGED <<outside, caller, next>>
  BY DEF ReplaceFile, Move
<1>2. /\ UNCHANGED <<checkout, expected, before, undisturbed>>
      /\ DOMAIN fs = Paths
  BY <1>1 DEF outside, caller, TypeOK
<1>3. PICK tree : tree = Tree
  OBVIOUS
<1>4. Tree' = tree
  BY <1>1, <1>2, <1>3 DEF Tree
<1>5. p \in Outdated /\ fs[Temp[p]] = Partial
  BY <1>1 DEF CallInv, Calling
<1>6. /\ p \in Files(tree) /\ fs[p] # tree.files[p]
      /\ Source(p) = tree.files[p]
  BY <1>1, <1>3, <1>5, Here DEF Outdated, Calling
<1>7. /\ p \in Paths /\ IsStrictPrefix(tree.target, p)
      /\ tree.files[p] \in Values /\ p \notin NeededDirectories(tree)
      /\ Temp[p] \in Paths /\ Temp[p] # p
      /\ IsStrictPrefix(tree.target, Temp[p])
  BY <1>1, <1>3, <1>6, Here, Declared, FilesApart DEF Tree, Calling
<1>8. /\ fs'[p] = tree.files[p]
      /\ \A q \in Paths : q \notin {p, Temp[p]} => fs'[q] = fs[q]
  BY <1>1, <1>2, <1>6, <1>7
<1>9. CallInv'
  <2>1. \A q \in NeededDirectories(tree) : fs[q] = Dir
    BY <1>1, <1>3 DEF CallInv, Calling
  <2>2. Temp[p] \notin NeededDirectories(tree)
    BY <1>5, <2>1, ConfigTreeAssumption
  <2>3. \A q \in NeededDirectories(tree) : fs'[q] = Dir
    BY <1>7, <1>8, <2>1, <2>2 DEF NeededDirectories, Directories
  <2>4. checkout' = expected' /\ next' \in DOMAIN Trees[expected']
    BY <1>1, <1>2 DEF CallInv, Calling
  <2> QED
    BY <1>1, <1>4, <2>3, <2>4 DEF CallInv
<1>10. Touches(Tree)
  BY <1>3, <1>7, <1>8 DEF Touches
<1>11. ASSUME undisturbed PROVE (ReportInv /\ DiffersInv)'
  <2>1. ReportInv /\ DiffersInv
    BY <1>1, <1>11 DEF RunInv, Running, Calling
  <2>2. Temp[p] \in Range(Temp)
    BY DEF Range
  <2>3. \A q \in touched : q \in Paths
    BY DEF TypeOK
  <2>4. ReportInv'
    <3>1. ASSUME NEW q \in touched'
          PROVE  \E i \in DOMAIN Trees[expected] :
                   /\ i < next \/ i = next
                   /\ IsStrictPrefix(Trees[expected][i].target, q)
      <4>1. CASE q \in touched
        BY <2>1, <4>1 DEF ReportInv
      <4>2. CASE q = p
        BY <1>1, <1>3, <1>7, <4>2, Here DEF Tree, Calling
      <4> QED
        BY <1>1, <3>1, <4>1, <4>2
    <3>2. ASSUME NEW q \in touched' \ Range(Temp),
                 IsStrictPrefix(tree.target, q)
          PROVE  fs'[q] = IF q \in Files(tree) THEN tree.files[q] ELSE Absent
      <4>1. CASE q = p
        BY <1>6, <1>8, <4>1
      <4>2. CASE q # p
        <5>1. q \in touched /\ fs'[q] = fs[q]
          BY <1>1, <1>8, <2>2, <2>3, <3>2, <4>2
        <5> QED
          BY <1>1, <1>3, <2>1, <3>2, <5>1 DEF ReportInv, Calling
      <4> QED
        BY <4>1, <4>2
    <3> QED
      BY <1>1, <1>2, <1>4, <3>1, <3>2 DEF ReportInv, Calling
  <2>5. ASSUME p \notin Range(Temp) PROVE Differs(p)'
    <3>1. FileOf(fs'[p])
      BY <1>7, <1>8 DEF FileOf
    <3>2. p \notin touched
      BY <1>1, <1>3, <1>6, <1>7, <2>1, <2>5 DEF ReportInv, Calling
    <3>3. ~Differs(p)
      BY <1>7, <2>1, <2>5, <3>2 DEF DiffersInv
    <3>4. before[p] # fs'[p]
      <4>1. CASE before[p] = fs[p]
        BY <1>6, <1>8, <4>1
      <4>2. CASE before[p] # fs[p]
        BY <3>1, <3>3, <4>2 DEF Differs
      <4> QED
        BY <4>1, <4>2
    <3> QED
      BY <1>2, <3>1, <3>4 DEF Differs
  <2>6. \A q \in Paths \ Range(Temp) : q # p => (Differs(q)' <=> Differs(q))
    BY <1>2, <1>8, <2>2, DiffersAsBefore
  <2> QED
    BY <1>1, <2>1, <2>4, <2>5, <2>6 DEF DiffersInv
<1> QED
  BY <1>1, <1>2, <1>9, <1>10, <1>11, RunStays DEF RunInv, Calling

(* The stale pass takes one path away, or passes over it.                  *)
LEMMA SweepStep ==
  ASSUME TypeOK, CallInv, RunInv, NEW q \in Paths, Sweep(q)
  PROVE  CallInv' /\ RunInv'
<1>1. /\ pc = "sweep" /\ pc' = "sweep" /\ DeepestFirst(q)
      /\ fs' = IF Stale(q) THEN [fs EXCEPT ![q] = Absent] ELSE fs
      /\ sweep' = sweep \ {q}
      /\ touched' =
           touched \union (IF FileOf(fs[q]) /\ Stale(q) THEN {q} ELSE {})
      /\ UNCHANGED <<outside, caller, next, writing>>
  BY DEF Sweep
<1>2. /\ UNCHANGED <<checkout, expected, before, undisturbed>>
      /\ DOMAIN fs = Paths /\ writing = {}
  BY <1>1 DEF outside, caller, TypeOK
<1>3. PICK tree : tree = Tree
  OBVIOUS
<1>4. Tree' = tree
  BY <1>1, <1>2, <1>3 DEF Tree
<1>5. /\ \A p \in Files(tree) : /\ fs[p] = tree.files[p] /\ p \in Paths
                                /\ fs[p] \notin {Absent, Dir}
      /\ \A d \in NeededDirectories(tree) : fs[d] = Dir
      /\ \A other \in sweep : IsStrictPrefix(tree.target, other)
      /\ \A other \in Paths : IsStrictPrefix(tree.target, other) =>
           \/ other \in sweep \/ fs[other] = Absent
           \/ other \in Files(tree) \/ other \in Directories(tree)
  <2>1. \A p \in Files(tree) : tree.files[p] \in Values /\ p \in Paths
    BY <1>1, <1>3, Here, Declared DEF Tree, Calling
  <2>2. SweepInv /\ \A d \in NeededDirectories(tree) : fs[d] = Dir
    BY <1>1, <1>3 DEF CallInv, Calling
  <2> QED
    BY <1>3, <2>1, <2>2, ConfigTreeAssumption DEF SweepInv
<1>6. /\ IsStrictPrefix(tree.target, q) /\ tree.target \in Paths
      /\ \A other \in sweep : ~IsStrictPrefix(q, other)
  BY <1>1, <1>3, <1>5, Here DEF DeepestFirst, Calling
<1>7. \A other \in Paths : other # q => fs'[other] = fs[other]
  BY <1>1, <1>2
<1>8. ASSUME Stale(q)
      PROVE  /\ fs'[q] = Absent
             /\ q \notin Files(tree) /\ q \notin NeededDirectories(tree)
  <2>1. q \notin Files(tree)
    BY <1>3, <1>5, <1>8 DEF Stale
  <2>2. ASSUME q \in NeededDirectories(tree) PROVE FALSE
    <3>1. q \in Directories(tree) /\ fs[q] = Dir
      BY <1>5, <1>6, <2>2, DirectoriesWhere, PathOrder
    <3>2. PICK p \in Files(tree) : IsStrictPrefix(q, p)
      BY <3>1 DEF Directories
    <3> QED
      BY <1>5, <1>8, <3>1, <3>2 DEF Stale, Empty
  <2> QED
    BY <1>1, <1>2, <1>8, <2>1, <2>2
<1>9. ASSUME ~Stale(q)
      PROVE  /\ fs' = fs
             /\ fs[q] = Absent \/ q \in Files(tree) \/ q \in Directories(tree)
  <2>1. CASE fs[q] = Dir
    <3>1. PICK below \in Paths : IsStrictPrefix(q, below) /\ fs[below] # Absent
      BY <1>9, <2>1 DEF Stale, Empty
    <3>2. IsStrictPrefix(tree.target, below) /\ below \notin sweep
      BY <1>6, <3>1, PathOrder
    <3>3. below \in Files(tree) \/ below \in Directories(tree)
      BY <1>5, <3>1, <3>2
    <3>4. PICK p \in Files(tree) : p = below \/ IsStrictPrefix(below, p)
      BY <3>3 DEF Directories
    <3>5. IsStrictPrefix(q, p) /\ IsPrefix(tree.target, q)
      BY <1>5, <1>6, <3>1, <3>4, PathOrder
    <3> QED
      BY <1>1, <1>9, <3>5 DEF Directories
  <2>2. CASE fs[q] # Dir
    BY <1>1, <1>3, <1>9, <2>2 DEF Stale
  <2> QED
    BY <2>1, <2>2
<1>10. CallInv'
  <2>1. \A d \in NeededDirectories(tree) : fs'[d] = Dir
    BY <1>5, <1>7, <1>8, <1>9 DEF NeededDirectories, Directories
  <2>2. \A p \in Files(tree) : fs'[p] = tree.files[p]
    BY <1>5, <1>7, <1>8, <1>9
  <2>3. \A other \in Paths : IsStrictPrefix(tree.target, other) =>
           \/ other \in sweep' \/ fs'[other] = Absent
           \/ other \in Files(tree) \/ other \in Directories(tree)
    BY <1>1, <1>5, <1>7, <1>8, <1>9
  <2>4. SweepInv'
    BY <1>1, <1>4, <1>5, <2>2, <2>3 DEF SweepInv
  <2>5. checkout' = expected' /\ next' \in DOMAIN Trees[expected']
    BY <1>1, <1>2 DEF CallInv, Calling
  <2> QED
    BY <1>1, <1>2, <1>4, <2>1, <2>4, <2>5 DEF CallInv
<1>11. Touches(Tree)
  BY <1>3, <1>6, <1>7 DEF Touches
<1>12. ASSUME undisturbed PROVE (ReportInv /\ DiffersInv)'
  <2>1. ReportInv /\ DiffersInv
    BY <1>1, <1>12 DEF RunInv, Running, Calling
  <2>2. \A c \in touched : c \in Paths
    BY DEF TypeOK
  <2>3. ~FileOf(Absent)
    BY ConfigTreeAssumption DEF FileOf
  <2>4. ASSUME q \in touched \ Range(Temp), Stale(q) PROVE fs[q] = Absent
    BY <1>1, <1>3, <1>6, <1>8, <2>1, <2>4 DEF ReportInv, Calling
  <2>5. ReportInv'
    <3>1. ASSUME NEW c \in touched'
          PROVE  \E i \in DOMAIN Trees[expected] :
                   /\ i < next \/ i = next
                   /\ IsStrictPrefix(Trees[expected][i].target, c)
      <4>1. CASE c \in touched
        BY <2>1, <4>1 DEF ReportInv
      <4>2. CASE c = q
        BY <1>1, <1>3, <1>6, <4>2, Here DEF Tree, Calling
      <4> QED
        BY <1>1, <3>1, <4>1, <4>2
    <3>2. ASSUME NEW c \in touched' \ Range(Temp),
                 IsStrictPrefix(tree.target, c)
          PROVE  fs'[c] = IF c \in Files(tree) THEN tree.files[c] ELSE Absent
      <4>1. CASE c = q /\ Stale(q)
        BY <1>8, <4>1
      <4>2. CASE ~(c = q /\ Stale(q))
        <5>1. c \in touched /\ fs'[c] = fs[c]
          BY <1>1, <1>7, <1>9, <2>2, <3>2, <4>2
        <5> QED
          BY <1>1, <1>3, <2>1, <3>2, <5>1 DEF ReportInv, Calling
      <4> QED
        BY <4>1, <4>2
    <3> QED
      BY <1>1, <1>2, <1>4, <3>1, <3>2 DEF ReportInv, Calling
  <2>6. ASSUME q \notin Range(Temp), Stale(q), FileOf(fs[q]) PROVE Differs(q)'
    <3>1. ~Differs(q)
      BY <2>1, <2>3, <2>4, <2>6 DEF DiffersInv
    <3>2. before[q] = fs[q]
      BY <2>6, <3>1 DEF Differs
    <3> QED
      BY <1>2, <1>8, <2>3, <2>6, <3>2 DEF Differs
  <2>7. ASSUME NEW c \in Paths \ Range(Temp),
               ~(c = q /\ Stale(q) /\ FileOf(fs[q]))
        PROVE  Differs(c)' <=> Differs(c)
    <3>1. fs'[c] = fs[c] \/ (~FileOf(fs[c]) /\ ~FileOf(fs'[c]))
      BY <1>7, <1>8, <1>9, <2>3, <2>7
    <3> QED
      BY <1>2, <3>1, DiffersAsBefore
  <2> QED
    BY <1>1, <2>1, <2>5, <2>6, <2>7 DEF DiffersInv
<1> QED
  BY <1>1, <1>2, <1>10, <1>11, <1>12, RunStays DEF RunInv, Calling

-----------------------------------------------------------------------------
(* The steps between the calls and around them.                            *)

(* The preflight accepts: everything is ahead.                             *)
LEMMA PreflightStep ==
  ASSUME TypeOK, NEW r \in Revisions, Preflight(r)
  PROVE  CallInv' /\ RunInv' /\ RefusesBeforeWriting'
<1>1. /\ pc' = IF CollectionAccepted(r) THEN "between" ELSE "refused"
      /\ expected' = r /\ next' = 1 /\ touched' = {} /\ before' = fs
      /\ UNCHANGED <<fs, checkout>>
  BY DEF Preflight
<1>2. CASE ~CollectionAccepted(r)
  BY <1>1, <1>2 DEF CallInv, Calling, RunInv, Running, RefusesBeforeWriting
<1>3. CASE CollectionAccepted(r)
  <2>1. pc' = "between"
    BY <1>1, <1>3
  <2>2. ApartInv'
    BY <1>1, <1>3 DEF CollectionAccepted, VerifiedRoot, ApartInv
  <2>3. BehindInv'
    BY <1>1, Bounds DEF BehindInv
  <2>4. AheadInv'
    <3>1. \A i \in DOMAIN Trees[r] :
            Trees[r][i].sound /\ TargetAccepts(Trees[r][i])
      BY <1>3 DEF CollectionAccepted, Range
    <3>2. \A i \in DOMAIN Trees[r] : TargetAccepts(Trees[r][i])'
      BY <1>1, <3>1 DEF TargetAccepts
    <3> QED
      BY <1>1, <3>1, <3>2 DEF AheadInv
  <2>5. ReportInv' /\ DiffersInv'
    BY <1>1, <2>1 DEF ReportInv, DiffersInv, Differs, Calling
  <2> QED
    BY <2>1, <2>2, <2>3, <2>4, <2>5
       DEF CallInv, Calling, RunInv, RefusesBeforeWriting
<1> QED
  BY <1>2, <1>3

(* What stays of a run whose host is as it was.                            *)
LEMMA RunCarriedOn ==
  ASSUME RunInv, undisturbed, Running,
         UNCHANGED <<fs, outside, caller, next, touched>>
  PROVE  (ApartInv /\ BehindInv /\ DiffersInv)'
<1>1. ApartInv /\ BehindInv /\ DiffersInv
  BY DEF RunInv
<1>2. UNCHANGED <<fs, checkout, expected, before, next, touched>>
  BY DEF outside, caller
<1>3. ApartInv'
  BY <1>1, <1>2 DEF ApartInv
<1>4. BehindInv'
  BY <1>1, <1>2 DEF BehindInv, Exact
<1>5. DiffersInv'
  BY <1>1, <1>2 DEF DiffersInv, Differs
<1> QED
  BY <1>3, <1>4, <1>5

(* A call starts, unless somebody has disturbed the run.                   *)
LEMMA MaterializeStep ==
  ASSUME TypeOK, RunInv, Materialize
  PROVE  CallInv' /\ RunInv' /\ RefusesBeforeWriting'
<1>1. /\ pc = "between" /\ next <= Len(Trees[expected])
      /\ pc' = IF VerifiedRoot(expected) /\ Tree.sound /\ TargetAccepts(Tree)
                 THEN "dirs" ELSE "refused"
      /\ UNCHANGED <<fs, outside, caller, next, writing, touched>>
  BY DEF Materialize, Move
<1>2. /\ UNCHANGED <<checkout, expected, before, undisturbed>>
      /\ expected \in Revisions /\ next \in DOMAIN Trees[expected]
      /\ next \in Nat /\ writing = {}
  <2>1. expected \in Revisions /\ next \in Nat \ {0} /\ writing = {}
    BY <1>1, Bounds DEF TypeOK
  <2> QED
    BY <1>1, <2>1, Bounds DEF outside, caller
<1>3. CallInv'
  BY <1>1, <1>2 DEF CallInv, Calling, VerifiedRoot
<1>4. ASSUME undisturbed PROVE pc' = "dirs"
  BY <1>1, <1>2, <1>4 DEF RunInv, Running, ApartInv, AheadInv, VerifiedRoot,
     Tree
<1>5. ASSUME undisturbed PROVE (AheadInv /\ ReportInv)'
  <2>1. AheadInv /\ ReportInv
    BY <1>1, <1>5 DEF RunInv, Running
  <2>2. AheadInv'
    BY <1>1, <1>2, <1>4, <1>5, <2>1 DEF AheadInv, TargetAccepts
  <2>3. ReportInv'
    BY <1>1, <1>2, <1>4, <1>5, <2>1 DEF ReportInv, Calling
  <2> QED
    BY <2>2, <2>3
<1>6. RefusesBeforeWriting'
  BY <1>2, <1>4 DEF RefusesBeforeWriting
<1>7. RunInv'
  BY <1>1, <1>2, <1>5, RunCarriedOn DEF RunInv, Running
<1> QED
  BY <1>3, <1>6, <1>7

(* The directories of a tree are there.                                    *)
LEMMA DirectoriesMadeStep ==
  ASSUME TypeOK, CallInv, RunInv, DirectoriesMade
  PROVE  CallInv' /\ RunInv'
<1>1. /\ pc = "dirs" /\ pc' = "files"
      /\ \A q \in NeededDirectories(Tree) : fs[q] = Dir
      /\ UNCHANGED <<fs, outside, caller, next, writing, touched>>
  BY DEF DirectoriesMade, Move
<1>2. /\ UNCHANGED <<checkout, expected, before, undisturbed>> /\ writing = {}
  BY <1>1 DEF outside, caller, TypeOK
<1>3. Tree' = Tree
  BY <1>1, <1>2 DEF Tree
<1>4. CallInv'
  BY <1>1, <1>2, <1>3 DEF CallInv, Calling, NeededDirectories, Directories
<1>5. ASSUME undisturbed PROVE (AheadInv /\ ReportInv)'
  <2>1. ApartInv /\ AheadInv /\ ReportInv
    BY <1>1, <1>5 DEF RunInv, Running, Calling
  <2>2. AheadInv'
    BY <1>1, <1>2, <2>1 DEF AheadInv, TargetAccepts
  <2>3. ASSUME NEW q \in touched PROVE ~IsStrictPrefix(Tree.target, q)
    <3>1. PICK i \in DOMAIN Trees[expected] :
            i < next /\ IsStrictPrefix(Trees[expected][i].target, q)
      BY <1>1, <2>1 DEF ReportInv, Calling
    <3>2. /\ Tree.target \in Paths /\ Trees[expected][i].target \in Paths
          /\ next \in DOMAIN Trees[expected] /\ q \in Paths
      BY <1>1, Here, Declared DEF Calling, TypeOK
    <3>3. i # next
      BY <1>1, <3>1, Here DEF Calling
    <3>4. ~Overlap(Trees[expected][i].target, Tree.target)
      BY <2>1, <3>2, <3>3 DEF ApartInv, Tree
    <3> QED
      BY <3>1, <3>2, <3>4, Apart, PathOrder
  <2>4. ReportInv'
    BY <1>1, <1>2, <1>3, <2>1, <2>3 DEF ReportInv, Calling
  <2> QED
    BY <2>2, <2>4
<1>6. RunInv'
  BY <1>1, <1>2, <1>5, RunCarriedOn DEF RunInv, Running, Calling
<1> QED
  BY <1>4, <1>6

(* All files are there, and the stale pass begins.                         *)
LEMMA FilesWrittenStep ==
  ASSUME TypeOK, CallInv, RunInv, FilesWritten
  PROVE  CallInv' /\ RunInv'
<1>1. /\ pc = "files" /\ pc' = "sweep" /\ Outdated = {}
      /\ sweep' =
           {q \in Paths : IsStrictPrefix(Tree.target, q) /\ fs[q] # Absent}
      /\ UNCHANGED <<fs, outside, caller, next, writing, touched>>
  BY DEF FilesWritten, Move
<1>2. /\ UNCHANGED <<checkout, expected, before, undisturbed>> /\ writing = {}
  BY <1>1 DEF outside, caller, TypeOK
<1>3. Tree' = Tree
  BY <1>1, <1>2 DEF Tree
<1>4. \A p \in Files(Tree) : fs[p] = Tree.files[p]
  BY <1>1, Here DEF Outdated, Calling
<1>5. SweepInv'
  BY <1>1, <1>3, <1>4 DEF SweepInv, Files
<1>6. CallInv'
  <2>1. \A q \in NeededDirectories(Tree) : fs[q] = Dir
    BY <1>1 DEF CallInv, Calling
  <2>2. checkout' = expected' /\ next' \in DOMAIN Trees[expected']
    BY <1>1, <1>2 DEF CallInv, Calling
  <2> QED
    BY <1>1, <1>2, <1>3, <1>5, <2>1, <2>2
       DEF CallInv, NeededDirectories, Directories
<1>7. ASSUME undisturbed PROVE (AheadInv /\ ReportInv)'
  <2>1. AheadInv /\ ReportInv
    BY <1>1, <1>7 DEF RunInv, Running, Calling
  <2> QED
    BY <1>1, <1>2, <1>3, <2>1 DEF AheadInv, ReportInv, TargetAccepts, Calling
<1>8. RunInv'
  BY <1>1, <1>2, <1>7, RunCarriedOn DEF RunInv, Running, Calling
<1> QED
  BY <1>6, <1>8

(* When the stale pass is through, the tree is exact.                      *)
LEMMA SweptIsExact ==
  ASSUME TypeOK, CallInv, Synchronized
  PROVE  Exact(Tree)
<1>1. pc = "sweep" /\ sweep = {}
  BY DEF Synchronized, Move
<1>2. SweepInv /\ \A q \in NeededDirectories(Tree) : fs[q] = Dir
  BY <1>1 DEF CallInv, Calling
<1>3. Directories(Tree) \subseteq NeededDirectories(Tree)
  BY DEF NeededDirectories
<1> QED
  BY <1>1, <1>2, <1>3 DEF SweepInv, Exact

(* A call returns.                                                         *)
LEMMA SynchronizedStep ==
  ASSUME TypeOK, CallInv, RunInv, Synchronized
  PROVE  CallInv' /\ RunInv'
<1>1. /\ pc = "sweep" /\ pc' = "between" /\ next' = next + 1
      /\ UNCHANGED <<fs, outside, caller, touched>>
  BY DEF Synchronized, Move
<1>2. /\ UNCHANGED <<checkout, expected, before, undisturbed>>
      /\ next \in Nat /\ expected \in Revisions
  BY <1>1, Here DEF outside, caller, Calling
<1>3. \A i \in DOMAIN Trees[expected] : i \in Nat
  BY <1>2, Bounds
<1>4. CallInv'
  BY <1>1 DEF CallInv, Calling
<1>5. ASSUME undisturbed
      PROVE  (ApartInv /\ BehindInv /\ AheadInv /\ ReportInv /\ DiffersInv)'
  <2>1. ApartInv /\ BehindInv /\ AheadInv /\ ReportInv /\ DiffersInv
    BY <1>1, <1>5 DEF RunInv, Running, Calling
  <2>2. BehindInv'
    <3>1. \A i \in DOMAIN Trees[expected] : i < next' => i < next \/ i = next
      BY <1>1, <1>2, <1>3
    <3>2. \A i \in DOMAIN Trees[expected] :
            i < next' => Exact(Trees[expected][i])
      BY <2>1, <3>1, SweptIsExact DEF BehindInv, Tree
    <3> QED
      BY <1>1, <1>2, <3>2 DEF BehindInv, Exact
  <2>3. AheadInv'
    <3>1. \A i \in DOMAIN Trees[expected] : i > next' \/ i = next' => i > next
      BY <1>1, <1>2, <1>3
    <3> QED
      BY <1>1, <1>2, <2>1, <3>1 DEF AheadInv, TargetAccepts
  <2>4. ReportInv'
    <3>1. \A i \in DOMAIN Trees[expected] : i < next \/ i = next => i < next'
      BY <1>1, <1>2, <1>3
    <3> QED
      BY <1>1, <1>2, <2>1, <3>1 DEF ReportInv, Calling
  <2>5. ApartInv' /\ DiffersInv'
    BY <1>1, <1>2, <2>1 DEF ApartInv, DiffersInv, Differs
  <2> QED
    BY <2>2, <2>3, <2>4, <2>5
<1>6. RunInv'
  BY <1>1, <1>2, <1>5 DEF RunInv
<1> QED
  BY <1>4, <1>6

(* After the last tree the run is done.                                    *)
LEMMA DoneStep ==
  ASSUME TypeOK, RunInv, Done
  PROVE  CallInv' /\ RunInv'
<1>1. /\ pc = "between" /\ pc' = "done"
      /\ UNCHANGED <<fs, outside, caller, next, touched>>
  BY DEF Done, Move
<1>2. UNCHANGED <<checkout, expected, before, undisturbed>>
  BY <1>1 DEF outside, caller
<1>3. ASSUME undisturbed PROVE (AheadInv /\ ReportInv)'
  <2>1. AheadInv /\ ReportInv
    BY <1>1, <1>3 DEF RunInv, Running
  <2> QED
    BY <1>1, <1>2, <2>1 DEF AheadInv, ReportInv, TargetAccepts, Calling
<1>4. RunInv'
  BY <1>1, <1>2, <1>3, RunCarriedOn DEF RunInv, Running
<1> QED
  BY <1>1, <1>4 DEF CallInv, Calling

(* A run ends, or somebody disturbs it.                                    *)
LEMMA RunEnds ==
  ASSUME pc' \in {"failed", "idle"} \/ (pc' \notin Calling /\ ~undisturbed')
  PROVE  CallInv' /\ RunInv'
BY DEF CallInv, RunInv, Running, Calling

(* Nothing happens.                                                        *)
LEMMA UnchangedStep ==
  ASSUME IInv, UNCHANGED vars
  PROVE  IInv'
<1>1. Tree' = Tree
  BY DEF vars, Tree
<1>2. TypeOK'
  BY TypeOKStep DEF IInv
<1>3. CallInv'
  BY <1>1 DEF IInv, vars, CallInv, SweepInv, Outdated, Source, Files,
              NeededDirectories, Directories
<1>4. RunInv'
  BY <1>1 DEF IInv, vars, RunInv, Running, ApartInv, BehindInv, AheadInv,
              ReportInv, DiffersInv, Differs, Exact, TargetAccepts, Files
<1> QED
  BY <1>2, <1>3, <1>4 DEF IInv, vars, RefusesBeforeWriting

-----------------------------------------------------------------------------
(* The invariant.                                                          *)

(* It holds on the host as a caller finds it.                              *)
LEMMA InitIInv == Init => IInv
<1> SUFFICES ASSUME Init PROVE IInv
  OBVIOUS
<1>1. TypeOK
  <2>1. expected \in Revisions
    BY DEF Init
  <2>2. 1 \in 1..(Len(Trees[expected]) + 1)
    BY <2>1, Bounds
  <2>3. 0 \in 0..MaxFaults /\ 0 \in 0..MaxEdits
    BY ConfigTreeAssumption
  <2> QED
    BY <2>1, <2>2, <2>3 DEF Init, TypeOK, Kinds
<1> QED
  BY <1>1 DEF Init, IInv, CallInv, RunInv, Running, Calling,
     RefusesBeforeWriting

(* Every step keeps every part of it.                                      *)
LEMMA IInvStep == IInv /\ [Next]_vars => IInv'
<1> SUFFICES ASSUME IInv, [Next]_vars PROVE IInv'
  OBVIOUS
<1>1. TypeOK /\ CallInv /\ RunInv /\ RefusesBeforeWriting /\ TypeOK'
  BY TypeOKStep DEF IInv
<1>2. CASE \E r \in Revisions : Preflight(r)
  <2>1. pc' # "done"
    BY <1>2 DEF Preflight
  <2> QED
    BY <1>1, <1>2, <2>1, PreflightStep DEF IInv
<1>3. CASE Materialize
  <2>1. pc' # "done"
    BY <1>3 DEF Materialize, Move
  <2> QED
    BY <1>1, <1>3, <2>1, MaterializeStep DEF IInv
<1>4. CASE Done
  <2>1. pc' # "refused" /\ (next > Len(Trees[expected]))'
    BY <1>4 DEF Done, Move, caller
  <2> QED
    BY <1>1, <1>4, <2>1, DoneStep DEF IInv, RefusesBeforeWriting
<1>5. ASSUME CallInv' /\ RunInv', pc' \notin {"done", "refused"} PROVE IInv'
  BY <1>1, <1>5 DEF IInv, RefusesBeforeWriting
<1>6. ASSUME NEW q \in Paths, MakeDirectory(q) \/ Sweep(q) PROVE IInv'
  <2>1. pc' \notin {"done", "refused"}
    BY <1>6 DEF MakeDirectory, Sweep
  <2> QED
    BY <1>1, <1>5, <1>6, <2>1, MakeDirectoryStep, SweepStep
<1>7. ASSUME NEW p \in DOMAIN Temp, WriteTemporary(p) \/ ReplaceFile(p)
      PROVE  IInv'
  <2>1. pc' \notin {"done", "refused"}
    BY <1>7 DEF WriteTemporary, ReplaceFile, Move
  <2> QED
    BY <1>1, <1>5, <1>7, <2>1, WriteTemporaryStep, ReplaceFileStep
<1>8. CASE DirectoriesMade
  <2>1. pc' \notin {"done", "refused"}
    BY <1>8 DEF DirectoriesMade, Move
  <2> QED
    BY <1>1, <1>5, <1>8, <2>1, DirectoriesMadeStep
<1>9. CASE FilesWritten
  <2>1. pc' \notin {"done", "refused"}
    BY <1>9 DEF FilesWritten, Move
  <2> QED
    BY <1>1, <1>5, <1>9, <2>1, FilesWrittenStep
<1>10. CASE Synchronized
  <2>1. pc' \notin {"done", "refused"}
    BY <1>10 DEF Synchronized, Move
  <2> QED
    BY <1>1, <1>5, <1>10, <2>1, SynchronizedStep
<1>11. ASSUME \/ \E p \in DOMAIN Temp : TemporaryBlocked(p)
              \/ Fails \/ Killed \/ Return
       PROVE  IInv'
  <2>1. pc' \in {"failed", "idle"}
    BY <1>11 DEF TemporaryBlocked, Fails, Killed, Return, Move
  <2> QED
    BY <1>5, <2>1, RunEnds
<1>12. ASSUME \/ \E q \in Paths, kind \in Kinds \ {Partial} : Edit(q, kind)
              \/ \E r \in Revisions \union {Dirty} : Checkout(r)
       PROVE  IInv'
  <2>1. pc' \notin Calling \union {"done", "refused"} /\ ~undisturbed'
    BY <1>12 DEF Edit, Checkout, Disturb, Calling
  <2> QED
    BY <1>5, <2>1, RunEnds
<1> QED
  BY <1>2, <1>3, <1>4, <1>6, <1>7, <1>8, <1>9, <1>10, <1>11, <1>12,
     UnchangedStep DEF Next

(* What a synchronization may rely on holds whatever edits, kills and      *)
(* earlier runs left behind.                                               *)
THEOREM Invariance == Spec => []IInv
BY InitIInv, IInvStep, PTL DEF Spec

(* Every variable of a run stays in its type.                              *)
THEOREM TypeCorrect == Spec => []TypeOK
<1>1. IInv => TypeOK
  BY DEF IInv
<1> QED
  BY <1>1, Invariance, PTL

-----------------------------------------------------------------------------
(* An undisturbed run leaves all its trees whole, side by side             *)
(* (_synchronize_tree, preflight_config_trees).                            *)
THEOREM AllTrees == Spec => []TreesTogether
<1>1. IInv => TreesTogether
  <2> SUFFICES ASSUME IInv, pc = "done", undisturbed,
                      NEW tree \in Range(Trees[expected])
               PROVE  Exact(tree)
    BY DEF TreesTogether
  <2>1. BehindInv /\ next > Len(Trees[expected])
    BY DEF IInv, RunInv, Running
  <2>2. expected \in Revisions /\ next \in Nat
    BY Bounds DEF IInv, TypeOK
  <2>3. PICK i \in DOMAIN Trees[expected] : tree = Trees[expected][i]
    BY DEF Range
  <2>4. i < next
    BY <2>1, <2>2, Bounds
  <2> QED
    BY <2>1, <2>3, <2>4 DEF BehindInv
<1> QED
  BY <1>1, Invariance, PTL

(* An undisturbed run is refused before anything is written, or not at all *)
(* (preflight_config_trees).                                               *)
THEOREM RefusedInTime == Spec => []RefusesBeforeWriting
<1>1. IInv => RefusesBeforeWriting
  BY DEF IInv
<1> QED
  BY <1>1, Invariance, PTL

(* What an undisturbed run reports are the files that it has changed       *)
(* (ConfigTreeResult.changed_paths).                                       *)
THEOREM ReportsTruly == Spec => []ReportsWhatChanged
<1>1. IInv => ReportsWhatChanged
  <2> SUFFICES ASSUME IInv, pc = "done", undisturbed
               PROVE  ReportsWhatChanged
    BY DEF ReportsWhatChanged
  <2>1. DiffersInv /\ touched \subseteq Paths
    BY DEF IInv, RunInv, Running, TypeOK
  <2>2. ASSUME NEW q \in Paths \ Range(Temp), Differs(q)
        PROVE  Reported(q) \in changed_paths
    BY <2>1, <2>2 DEF DiffersInv, changed_paths
  <2>3. ASSUME NEW name \in changed_paths
        PROVE  \E q \in Paths :
                 name = Reported(q) /\ (Differs(q) \/ q \in Range(Temp))
    <3>1. PICK q \in touched : name = Reported(q)
      BY DEF changed_paths
    <3>2. q \in Paths /\ (q \in Range(Temp) \/ Differs(q))
      BY <2>1 DEF DiffersInv
    <3> QED
      BY <3>1, <3>2
  <2> QED
    BY <2>2, <2>3 DEF ReportsWhatChanged
<1> QED
  BY <1>1, Invariance, PTL

(* A call that returns leaves its target with the declared tree, exactly,  *)
(* whatever was there (materialize_config_tree).                           *)
THEOREM ExactOnReturn == Spec => ReturnsExactTree
<1>1. IInv => (Synchronized => Exact(Tree))
  BY SweptIsExact DEF IInv
<1> QED
  BY <1>1, Invariance, PTL DEF Spec, ReturnsExactTree
=============================================================================
