------------------------------ MODULE EgressSnat ------------------------------
(***************************************************************************)
(* reconcile_egress_snat and restore_egress_snat (egress_snat.py): the     *)
(* controller's own iptables chain, INFRALINK_EGRESS_SNAT, and the jumps   *)
(* to it in POSTROUTING, changed one iptables command at a time.  Every    *)
(* command may fail, and Docker edits POSTROUTING between two of them.     *)
(* Exit status 1 is what iptables says of a chain that is there already,   *)
(* is missing, or is in use - and of most other failures.                  *)
(*                                                                         *)
(* Abstracted: the contents of the chain is one value, Nothing when it is  *)
(* empty; rule validation and parsing are left out.                        *)
(***************************************************************************)
EXTENDS Integers, FiniteSets, Sequences, SequencesExt

CONSTANTS
  Contents,     (* the lists of SNAT rules a chain may hold                 *)
  Nothing,      (* the empty one                                            *)
  NoChain,
  Jump,         (* -j INFRALINK_EGRESS_SNAT                                 *)
  Foreign,      (* Docker's own POSTROUTING rules                           *)
  FirstRules,   (* POSTROUTING as the first call finds it                   *)
  MaxJumps,     (* _MAX_JUMPS                                               *)
  MaxFailures,  (* bound on failing commands                                *)
  MaxEdits      (* bound on Docker's edits                                  *)

ASSUME EgressSnatAssumption ==
  /\ Nothing \in Contents
  /\ NoChain \notin Contents
  /\ Jump \notin Foreign
  /\ FirstRules \subseteq Seq(Foreign \union {Jump})
  /\ MaxJumps \in Nat \ {0, 1}
  /\ MaxFailures \in Nat /\ MaxEdits \in Nat

VARIABLES
  rules,        (* the nat table's POSTROUTING                              *)
  chain,        (* what the owned chain holds                               *)
  phase,        (* the command whose turn it is                             *)
  wanted,       (* the rules of this call                                   *)
  snapshot,     (* the chain and the jump positions before it               *)
  attempts,     (* of the loop in _remove_jumps                             *)
  toInsert,     (* the jump positions still to be restored                  *)
  before,       (* history: POSTROUTING at the capture                      *)
  undisturbed,  (* history: it was right, no edit since, no failed command  *)
                (* restoring                                                *)
  failed,       (* history: the commands that failed in this call           *)
  failures, edits

call == <<wanted, snapshot, before>>
nat == <<rules, chain>>
(* What no command to iptables changes by itself.                          *)
memory == <<call, undisturbed, failed, failures, edits>>
snatVars == <<rules, chain, phase, wanted, snapshot, attempts, toInsert,
              before, undisturbed, failed, failures, edits>>

Forward == {"create", "fill", "unjump", "jump",
            "drop_jumps", "drop_flush", "drop_delete"}
Restoring == {"r_unjump", "r_flush", "r_delete",
              "r_create", "r_fill", "r_jump"}
Ended == {"ok", "restored", "broken", "uncaptured"}

POSTROUTING == Seq(Foreign \union {Jump})
Jumps(seq) == {i \in DOMAIN seq : seq[i] = Jump}
Foreigns(seq) == DOMAIN seq \ Jumps(seq)

SnatTypeOK ==
  /\ rules \in POSTROUTING
  /\ chain \in Contents \union {NoChain}
  /\ phase \in {"idle"} \union Forward \union Restoring \union Ended
  /\ wanted \in Contents
  /\ snapshot \in [chain     : Contents \union {NoChain},
                   positions : SUBSET (Nat \ {0})]
  /\ attempts \in 0..(MaxJumps - 1)
  /\ toInsert \in SUBSET (Nat \ {0})
  /\ before \in POSTROUTING
  /\ undisturbed \in BOOLEAN
  /\ failed \subseteq {"idle"} \union Forward \union Restoring
  /\ failures \in 0..MaxFailures /\ edits \in 0..MaxEdits

(* Only a chain that is there can be jumped to.                            *)
SnatInit ==
  /\ rules \in FirstRules
  /\ chain \in Contents \union {NoChain}
  /\ Jumps(rules) # {} => chain # NoChain
  /\ phase = "idle"
  /\ wanted = Nothing
  /\ snapshot = [chain |-> NoChain, positions |-> {}]
  /\ attempts = 0
  /\ toInsert = {}
  /\ before = <<>>
  /\ undisturbed = FALSE /\ failed = {}
  /\ failures = 0 /\ edits = 0

Proceed(from, to) == phase = from /\ phase' = to

-----------------------------------------------------------------------------
(* iptables.                                                               *)

(* Variant: the rule is deleted by its number.                             *)
DeleteFirst == rules' = Tail(rules)
(* -D deletes the first jump; without one it exits non-zero.               *)
DeleteJump ==
  \E i \in Jumps(rules) :
    /\ \A j \in Jumps(rules) : i <= j
    /\ rules' = RemoveAt(rules, i)
(* -I is refused beyond the end of POSTROUTING.                            *)
InsertJump(position) == rules' = InsertAt(rules, position, Jump)
(* -X refuses a chain a jump still names, and one that is not empty.       *)
InUse == Jumps(rules) # {}

-----------------------------------------------------------------------------
(* capture_egress_snat, before the try: too many jumps are refused.        *)

Took(contents, found) ==
  /\ phase = "idle"
  /\ wanted' = contents
  /\ snapshot' = [chain |-> found, positions |-> Jumps(rules)]
  /\ attempts' = 0
  /\ before' = rules
  /\ UNCHANGED <<nat, toInsert, edits>>
First(contents) == IF contents = Nothing THEN "drop_jumps" ELSE "create"

Capture(contents) ==
  /\ Took(contents, chain)
  /\ phase' = IF Cardinality(Jumps(rules)) > MaxJumps THEN "uncaptured"
              ELSE First(contents)
  /\ undisturbed' = TRUE /\ failed' = {}
  /\ UNCHANGED failures

FailOnce == failures < MaxFailures /\ failures' = failures + 1

(* A listing that fails ends the call before it began; but exit status 1   *)
(* of the owned chain's reads as a chain that is missing, which only jumps *)
(* to it contradict.                                                       *)
CaptureFails(contents) ==
  /\ Took(contents, NoChain)
  /\ phase' \in {"uncaptured"} \union
                (IF Jumps(rules) = {} THEN {First(contents)} ELSE {})
  /\ FailOnce
  /\ undisturbed' = FALSE /\ failed' = {"idle"}

(* Variant: a chain that is there is flushed first.                        *)
CreateEmpty ==
  /\ Proceed("create", "fill")
  /\ chain' = Nothing
  /\ UNCHANGED <<rules, memory, attempts, toInsert>>

(* -N exits with 1 when the chain is there: that will do.                  *)
Create ==
  /\ Proceed("create", "fill")
  /\ chain' = IF chain = NoChain THEN Nothing ELSE chain
  /\ UNCHANGED <<rules, memory, attempts, toInsert>>

(* iptables-restore replaces the contents in one commit, of a chain that   *)
(* is there.                                                               *)
BeginRestore == phase' = "r_unjump" /\ attempts' = 0
Fill ==
  /\ phase = "fill"
  /\ IF chain = NoChain THEN BeginRestore /\ UNCHANGED chain
       ELSE phase' = "unjump" /\ attempts' = 0 /\ chain' = wanted
  /\ UNCHANGED <<rules, memory, toInsert>>

(* Variant: one deletion is taken to be enough.                            *)
UnjumpOnce(from, to, beyond) ==
  /\ phase = from
  /\ IF Jumps(rules) = {} THEN UNCHANGED rules ELSE DeleteJump
  /\ phase' = to
  /\ UNCHANGED <<chain, memory, attempts, toInsert>>

(* _remove_jumps: -D until it fails, and give up at the last attempt even  *)
(* when it was the last jump.                                              *)
Unjump(from, to, beyond) ==
  /\ phase = from
  /\ IF Jumps(rules) = {}
     THEN phase' = to /\ UNCHANGED <<rules, attempts>>
     ELSE /\ DeleteJump
          /\ phase' = IF attempts + 1 = MaxJumps THEN beyond ELSE from
          /\ attempts' = IF attempts + 1 = MaxJumps THEN 0 ELSE attempts + 1
  /\ UNCHANGED <<chain, memory, toInsert>>

Install ==
  /\ Proceed("jump", "ok")
  /\ InsertJump(1)
  /\ UNCHANGED <<chain, memory, attempts, toInsert>>

(* -F, or exit status 1 without a chain.                                   *)
Flush(from, to) ==
  /\ Proceed(from, to)
  /\ chain' = IF chain = NoChain THEN NoChain ELSE Nothing
  /\ UNCHANGED <<rules, memory, attempts, toInsert>>

(* -X, or exit status 1 for a chain that is missing, in use or not empty.  *)
Delete(from, to) ==
  /\ Proceed(from, to)
  /\ chain' = IF chain = Nothing /\ ~InUse THEN NoChain ELSE chain
  /\ UNCHANGED <<rules, memory, attempts, toInsert>>

-----------------------------------------------------------------------------
(* restore_egress_snat, its own failures swallowed.                        *)

(* Here a chain that is still there is an error.                           *)
RestoreCreate ==
  /\ phase = "r_create"
  /\ phase' = IF snapshot.chain = NoChain THEN "restored"
           ELSE IF chain # NoChain THEN "broken" ELSE "r_fill"
  /\ chain' = IF phase' = "r_fill" THEN Nothing ELSE chain
  /\ UNCHANGED <<rules, memory, attempts, toInsert>>

(* Variant: the chain is created again and left empty.                     *)
RestoreEmpty ==
  /\ Proceed("r_fill", "r_jump")
  /\ toInsert' = snapshot.positions
  /\ UNCHANGED <<rules, chain, memory, attempts>>

RestoreFill ==
  /\ Proceed("r_fill", "r_jump")
  /\ chain' = snapshot.chain
  /\ toInsert' = snapshot.positions
  /\ UNCHANGED <<rules, memory, attempts>>

(* `reversed`: the last position first.                                    *)
RestoreJump ==
  /\ phase = "r_jump"
  /\ \E position \in toInsert :
       /\ \A other \in toInsert : other <= position
       /\ toInsert' = toInsert \ {position}
       /\ IF position <= Len(rules) + 1
          THEN InsertJump(position) /\ UNCHANGED phase
          ELSE UNCHANGED rules /\ phase' = "broken"
  /\ UNCHANGED <<chain, memory, attempts>>

RestoreEnd ==
  /\ toInsert = {}
  /\ Proceed("r_jump", "restored")
  /\ UNCHANGED <<nat, memory, attempts, toInsert>>

-----------------------------------------------------------------------------
(* A command fails and says so.  In _remove_jumps that reads as "no jump   *)
(* is left".                                                               *)
Told ==
  \/ phase \in {"create", "fill", "jump", "drop_flush", "drop_delete"}
     /\ BeginRestore
  \/ Proceed("unjump", "jump") /\ UNCHANGED attempts
  \/ Proceed("drop_jumps", "drop_flush") /\ UNCHANGED attempts
  \/ Proceed("r_unjump", "r_flush") /\ UNCHANGED attempts
  \/ /\ phase \in Restoring \ {"r_unjump"}
     /\ phase' = "broken" /\ UNCHANGED attempts

(* It fails with exit status 1 where that is allowed for: of -N it reads   *)
(* as "the chain is there", of -F and -X as "there is none".               *)
Tolerated ==
  /\ \/ Proceed("create", "fill")
     \/ Proceed("drop_flush", "drop_delete") \/ Proceed("drop_delete", "ok")
     \/ Proceed("r_flush", "r_delete") \/ Proceed("r_delete", "r_create")
  /\ UNCHANGED attempts

CommandFails ==
  /\ Told \/ Tolerated
  /\ FailOnce
  /\ failed' = failed \union {phase}
  /\ undisturbed' = (undisturbed /\ phase \notin Restoring)
  /\ UNCHANGED <<nat, call, toInsert, edits>>

(* Docker adds a rule of its own anywhere, or removes one.                 *)
Edit ==
  /\ edits < MaxEdits
  /\ edits' = edits + 1
  /\ \/ \E f \in Foreign, i \in 1..(Len(rules) + 1) :
          rules' = InsertAt(rules, i, f)
     \/ \E i \in Foreigns(rules) : rules' = RemoveAt(rules, i)
  /\ undisturbed' = FALSE
  /\ UNCHANGED <<chain, phase, call, attempts, toInsert, failed, failures>>

Return ==
  /\ phase \in Ended
  /\ phase' = "idle"
  /\ toInsert' = {}
  /\ undisturbed' = FALSE /\ failed' = {}
  /\ UNCHANGED <<nat, call, attempts, failures, edits>>

Command ==
  \/ \E contents \in Contents : Capture(contents)
  \/ Create \/ Fill \/ Install
  \/ Unjump("unjump", "jump", "r_unjump")
  \/ Unjump("drop_jumps", "drop_flush", "r_unjump")
  \/ Flush("drop_flush", "drop_delete") \/ Delete("drop_delete", "ok")
  \/ Unjump("r_unjump", "r_flush", "broken")
  \/ Flush("r_flush", "r_delete") \/ Delete("r_delete", "r_create")
  \/ RestoreCreate \/ RestoreFill \/ RestoreJump \/ RestoreEnd
  \/ Return

SnatNext ==
  \/ Command \/ CommandFails \/ Edit
  \/ \E contents \in Contents : CaptureFails(contents)

SnatSpec == SnatInit /\ [][SnatNext]_snatVars
-----------------------------------------------------------------------------
(* Properties.                                                             *)

(* Both tables have the same foreign rules in the same order.              *)
SameForeign(old, new) ==
  \E place \in [Foreigns(old) -> Foreigns(new)] :
    /\ \A i \in Foreigns(old) : new[place[i]] = old[i]
    /\ \A i, j \in Foreigns(old) : i < j => place[i] < place[j]
    /\ \A k \in Foreigns(new) : \E i \in Foreigns(old) : place[i] = k

(* The controller never deletes, adds or reorders a rule it does not own,  *)
(* whatever fails and whatever Docker does meanwhile (the tests' "removes  *)
(* only owned chain").                                                     *)
KeepsForeign == edits' = edits => SameForeign(rules, rules')
ForeignRulesKept == [][KeepsForeign]_snatVars

(* While a replacement or a removal goes forward, a jump that is in place  *)
(* leads to the old rules or to the new ones, never to a partial list.     *)
LiveChainIsWhole ==
  phase \in Forward /\ Jumps(rules) # {} => chain \in {snapshot.chain, wanted}

(* A replacement that succeeds has its rules in force, also after a        *)
(* deletion that failed and was read as "no jump left".  So has a removal, *)
(* which then leaves no rule in force, but for two failures that both pass *)
(* for "there is none": a deletion of jumps and a flush.  When no command  *)
(* of the call failed there is exactly one jump however many there were,   *)
(* for no rules none, and no chain.                                        *)
SuccessApplies ==
  phase = "ok" =>
    /\ wanted # Nothing => chain = wanted /\ Jumps(rules) # {}
    /\ wanted = Nothing => \/ Jumps(rules) = {}
                           \/ chain \in {NoChain, Nothing}
                           \/ {"drop_jumps", "drop_flush"} \subseteq failed
    /\ failed = {} =>
         IF wanted = Nothing THEN Jumps(rules) = {} /\ chain = NoChain
         ELSE \E i \in DOMAIN rules : Jumps(rules) = {i}

Undone == phase = "restored" /\ rules = before /\ chain = snapshot.chain

(* A failed call over at most one jump puts back exactly what it found,    *)
(* unless the listing misread it, Docker edits the table or a command of   *)
(* the restoration fails.                                                  *)
RestoresOneJump ==
  /\ phase \in {"restored", "broken"} /\ undisturbed
  /\ Cardinality(snapshot.positions) <= 1
  => Undone

(* restore_egress_snat, "Restore a transient snapshot of the               *)
(* controller-owned SNAT chain": the same for any snapshot it accepts.     *)
RestoresSnapshot ==
  phase \in {"restored", "broken"} /\ undisturbed => Undone
=============================================================================
