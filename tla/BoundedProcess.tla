---------------------------- MODULE BoundedProcess ----------------------------
(***************************************************************************)
(* run_bounded_process (bounded_process.py): one command in a process      *)
(* group of its own, its two pipes drained up to their limits, and a       *)
(* bounded teardown: SIGTERM to the group, a grace, SIGKILL, a grace.      *)
(*                                                                         *)
(* The command is the leader of its group.  It may start one helper, which *)
(* inherits the pipes, may leave the group (setsid) and may outlive it.    *)
(* Every call of the operating system may fail, an interruption may be     *)
(* raised anywhere, where it is caught and where it is not, and time       *)
(* passes between any two steps.                                           *)
(*                                                                         *)
(* Abstracted: bytes are counted, not kept; the logical and the real clock *)
(* are one; one attempt of a cleanup phase (drain, poll, probe) is a step; *)
(* what is written during the cleanup, which reads it and throws it away,  *)
(* is left out; the number of the group is not given to another one.       *)
(***************************************************************************)
EXTENDS Integers, FiniteSets

CONSTANTS
  Limit,         (* stdout_limit and stderr_limit, by stream                *)
  Aggregate,     (* aggregate_limit                                         *)
  PipeSize,      (* what a pipe holds, and one read returns at most         *)
  Deadline, TermGrace, KillGrace,
  MaxAttempts,   (* _MAX_PHASE_ATTEMPTS                                     *)
  MaxFaults      (* bound on failing calls and interruptions                *)

Streams == {"stdout", "stderr"}
Total(bytes) == bytes["stdout"] + bytes["stderr"]

(* _validate.                                                              *)
ASSUME BoundedProcessAssumption ==
  /\ Limit \in [Streams -> Nat \ {0}]
  /\ Aggregate \in Nat /\ Aggregate <= Total(Limit)
  /\ \A s \in Streams : Limit[s] <= Aggregate
  /\ PipeSize \in Nat \ {0}
  /\ Deadline \in Nat /\ TermGrace \in Nat /\ KillGrace \in Nat
  /\ MaxAttempts \in Nat \ {0}
  /\ MaxFaults \in Nat

VARIABLES
  leader,        (* the command: "zombie" until poll() reaps it             *)
  helper,        (* its descendant: in the group, escaped, or gone          *)
  writers,       (* who holds the write end of each stream                  *)
  pipe,          (* the unread bytes of each stream                         *)
  doomed,        (* the processes SIGKILL was sent to                       *)
  pc,
  registered,    (* the streams in the selector                             *)
  ready,         (* those select() returned and the drain has yet to read   *)
  got,           (* the bytes retained of each stream                       *)
  reason,        (* why it fails, "none" so far                             *)
  attempts,      (* of a cleanup phase                                      *)
  termEnd, killEnd,
  now,
  lost,          (* history: bytes were read and not retained               *)
  killRefused,   (* history: SIGKILL could not be sent                      *)
  abandoned,     (* history: an interruption went past the teardown         *)
  faults

os == <<leader, helper, writers, doomed>>
output == <<pipe, registered, ready, got, lost>>
ends == <<termEnd, killEnd>>
past == <<killRefused, abandoned>>
vars == <<leader, helper, writers, pipe, doomed, pc, registered, ready, got,
          reason, attempts, termEnd, killEnd, now, lost, killRefused,
          abandoned, faults>>

Processes == {"leader", "helper"}
MainLoop == {"register", "loop", "drain", "poll", "probe"}
Cleanup == {"term", "term_wait", "kill", "kill_wait", "close", "reap"}
Returned == {"ok", "raised"}
MaxTime == Deadline + TermGrace + KillGrace

TypeOK ==
  /\ leader \in {"none", "alive", "zombie", "reaped"}
  /\ helper \in {"none", "member", "escaped", "gone"}
  /\ writers \in [Streams -> SUBSET Processes]
  /\ pipe \in [Streams -> 0..PipeSize]
  /\ doomed \in SUBSET Processes
  /\ pc \in {"start"} \union MainLoop \union Cleanup \union Returned
  /\ registered \in SUBSET Streams /\ ready \in SUBSET registered
  /\ DOMAIN got = Streams
  /\ \A s \in Streams : got[s] \in 0..(Limit[s] + 1)
  /\ Total(got) <= Aggregate + 1
  /\ reason \in {"none", "spawn", "timeout", "output", "io", "teardown",
                 "interrupted"}
  /\ attempts \in 0..MaxAttempts
  /\ termEnd \in 0..MaxTime /\ killEnd \in 0..MaxTime
  /\ now \in 0..MaxTime
  /\ lost \in BOOLEAN /\ killRefused \in BOOLEAN /\ abandoned \in BOOLEAN
  /\ faults \in 0..MaxFaults

Init ==
  /\ leader = "none" /\ helper = "none"
  /\ writers = [s \in Streams |-> {}]
  /\ pipe = [s \in Streams |-> 0]
  /\ doomed = {}
  /\ pc = "start"
  /\ registered = {} /\ ready = {}
  /\ got = [s \in Streams |-> 0]
  /\ reason = "none"
  /\ attempts = 0
  /\ termEnd = 0 /\ killEnd = 0
  /\ now = 0
  /\ lost = FALSE /\ killRefused = FALSE /\ abandoned = FALSE
  /\ faults = 0

Fault == faults < MaxFaults /\ faults' = faults + 1
(* killpg finds a zombie, too.                                             *)
GroupGone == leader = "reaped" /\ helper # "member"
Eof(s) == writers[s] = {} /\ pipe[s] = 0

-----------------------------------------------------------------------------
(* The command and its helper, while the call lasts.                       *)

Alive(m) == IF m = "leader" THEN leader = "alive" ELSE helper \in {"member", "escaped"}
Runs(m) == Alive(m) /\ m \notin doomed

WriteOut(m, s) ==
  /\ pc \in MainLoop
  /\ Runs(m) /\ m \in writers[s]
  /\ pipe[s] < PipeSize
  /\ pipe' = [pipe EXCEPT ![s] = @ + 1]
  /\ UNCHANGED <<os, registered, ready, got, lost, pc, reason, attempts, ends, now,
                 past, faults>>

CloseOut(m, s) ==
  /\ pc \in MainLoop
  /\ Runs(m) /\ m \in writers[s]
  /\ writers' = [writers EXCEPT ![s] = @ \ {m}]
  /\ UNCHANGED <<leader, helper, doomed, output, pc, reason, attempts, ends, now,
                 past, faults>>

Fork ==
  /\ Runs("leader") /\ helper = "none"
  /\ helper' = "member"
  /\ writers' = [s \in Streams |-> IF "leader" \in writers[s] THEN Processes ELSE {}]
  /\ UNCHANGED <<leader, doomed, output, pc, reason, attempts, ends, now,
                 past, faults>>

Escape ==
  /\ Runs("helper") /\ helper = "member"
  /\ helper' = "escaped"
  /\ UNCHANGED <<leader, writers, doomed, output, pc, reason, attempts, ends, now,
                 past, faults>>

Exit(m) ==
  /\ Alive(m)
  /\ IF m = "leader" THEN leader' = "zombie" /\ UNCHANGED helper
     ELSE helper' = "gone" /\ UNCHANGED leader
  /\ writers' = [s \in Streams |-> writers[s] \ {m}]
  /\ UNCHANGED <<doomed, output, pc, reason, attempts, ends, now, past,
                 faults>>

(* Nothing looks at a later time than these.                               *)
Clock ==
  /\ now < IF pc \in Cleanup THEN killEnd ELSE Deadline
  /\ pc \notin Returned
  /\ now' = now + 1
  /\ UNCHANGED <<os, output, pc, reason, attempts, ends, past, faults>>

-----------------------------------------------------------------------------
(* The main loop.                                                          *)

Raise(why) == pc' = "raised" /\ reason' = why
CleanUp(why) ==
  /\ pc' = "term"
  /\ reason' = why
  /\ termEnd' = now + TermGrace
  /\ killEnd' = now + TermGrace + KillGrace

Spawn ==
  /\ pc = "start" /\ now < Deadline
  /\ pc' = "register"
  /\ leader' = "alive"
  /\ writers' = [s \in Streams |-> {"leader"}]
  /\ UNCHANGED <<helper, doomed, output, reason, attempts, ends, now, past,
                 faults>>

NotSpawned ==
  /\ pc = "start"
  /\ \/ now >= Deadline /\ Raise("timeout") /\ UNCHANGED faults
     \/ now < Deadline /\ Raise("spawn") /\ Fault
  /\ UNCHANGED <<os, output, attempts, ends, now, past>>

Register ==
  /\ pc = "register"
  /\ pc' = "loop"
  /\ registered' = Streams
  /\ UNCHANGED <<os, pipe, ready, got, lost, reason, attempts, ends, now,
                 past, faults>>

(* Variant: the deadline is looked at only while the command runs.         *)
ExpiredWhileRunning == now >= Deadline /\ leader = "alive"
Expired == now >= Deadline

TimesOut ==
  /\ pc = "loop" /\ Expired
  /\ CleanUp("timeout")
  /\ UNCHANGED <<os, output, attempts, now, past, faults>>

Select ==
  /\ pc = "loop" /\ ~Expired
  /\ pc' = "drain"
  /\ ready' = {s \in registered : pipe[s] > 0 \/ Eof(s)}
  /\ UNCHANGED <<os, pipe, registered, got, lost, reason, attempts, ends, now,
                 past, faults>>

Smaller(a, b) == IF a < b THEN a ELSE b
(* Variant: the room a stream has is its own limit's alone.                *)
RoomOfStream(s) == Limit[s] - got[s]
Room(s) == Smaller(Limit[s] - got[s], Aggregate - Total(got))

(* One read.  One byte more than the room is kept, to tell.                *)
Read(s) ==
  /\ pc = "drain" /\ s \in ready
  /\ got' = [got EXCEPT ![s] = @ + Smaller(pipe[s], Room(s) + 1)]
  /\ lost' = (lost \/ pipe[s] > Room(s) + 1)
  /\ pipe' = [pipe EXCEPT ![s] = 0]
  /\ registered' = IF Eof(s) THEN registered \ {s} ELSE registered
  /\ IF got'[s] > Limit[s] \/ Total(got') > Aggregate
     THEN CleanUp("output") /\ ready' = {}
     ELSE ready' = ready \ {s} /\ UNCHANGED <<pc, reason, ends>>
  /\ UNCHANGED <<os, attempts, now, past, faults>>

Drained ==
  /\ pc = "drain" /\ ready = {}
  /\ pc' = "poll"
  /\ UNCHANGED <<os, output, reason, attempts, ends, now, past, faults>>

Reaped == IF leader = "zombie" THEN "reaped" ELSE leader

(* Variant: the exit of the command is the end of its output.              *)
PollExitOnly ==
  /\ pc = "poll"
  /\ leader' = Reaped
  /\ pc' = IF leader' = "reaped" THEN "probe" ELSE "loop"
  /\ UNCHANGED <<helper, writers, doomed, output, reason, attempts, ends, now,
                 past, faults>>

(* It exited and both pipes are at their end; or another round.            *)
Poll ==
  /\ pc = "poll"
  /\ leader' = Reaped
  /\ pc' = IF leader' = "reaped" /\ registered = {} THEN "probe" ELSE "loop"
  /\ UNCHANGED <<helper, writers, doomed, output, reason, attempts, ends, now,
                 past, faults>>

Probe ==
  /\ pc = "probe"
  /\ IF GroupGone THEN pc' = "ok" /\ UNCHANGED <<reason, ends>>
     ELSE CleanUp("teardown")
  /\ UNCHANGED <<os, output, attempts, now, past, faults>>

(* A call raises, or the caller is interrupted.                            *)
Breaks ==
  /\ pc \in MainLoop
  /\ CleanUp("interrupted") \/ CleanUp(IF pc = "probe" THEN "teardown" ELSE "io")
  /\ ready' = {}
  /\ Fault
  /\ UNCHANGED <<os, pipe, registered, got, lost, attempts, now, past>>

(* The caller is interrupted where nothing catches it: the command runs    *)
(* and the try has not begun, or between two attempts of _cleanup.         *)
Slips ==
  /\ pc \in {"register"} \union Cleanup
  /\ Raise("interrupted")
  /\ abandoned' = TRUE
  /\ Fault
  /\ UNCHANGED <<os, output, attempts, ends, now, killRefused>>

-----------------------------------------------------------------------------
(* _cleanup.  Nothing that an attempt meets stops it.                      *)

SendTerm ==
  /\ pc = "term"
  /\ \/ pc' = (IF GroupGone THEN "close" ELSE "term_wait") /\ UNCHANGED faults
     \/ pc' = "term_wait" /\ Fault
  /\ attempts' = 0
  /\ UNCHANGED <<os, output, reason, ends, now, past>>

(* The command is reaped and the group probed, until the grace or the      *)
(* attempts are over.                                                      *)
Wait(phase, end, next) ==
  /\ pc = phase
  /\ IF attempts = MaxAttempts \/ now >= end
     THEN pc' = next /\ attempts' = 0 /\ UNCHANGED <<leader, faults>>
     ELSE /\ leader' = Reaped
          /\ attempts' = attempts + 1
          /\ \/ /\ pc' = IF leader' = "reaped" /\ helper # "member" THEN "close" ELSE pc
                /\ UNCHANGED faults
             \/ UNCHANGED pc /\ Fault
  /\ UNCHANGED <<helper, writers, doomed, output, reason, ends, now, past>>

(* Variant: the signal goes to the command, not to its group.              *)
KillLeader ==
  /\ pc = "kill"
  /\ pc' = IF GroupGone THEN "close" ELSE "kill_wait"
  /\ doomed' = IF leader = "alive" THEN {"leader"} ELSE {}
  /\ attempts' = 0
  /\ UNCHANGED <<leader, helper, writers, output, reason, ends, now, past,
                 faults>>

SendKill ==
  /\ pc = "kill"
  /\ \/ /\ pc' = IF GroupGone THEN "close" ELSE "kill_wait"
        /\ doomed' = {m \in Processes : Alive(m) /\ (m = "helper" => helper = "member")}
        /\ UNCHANGED <<killRefused, faults>>
     \/ /\ pc' = "kill_wait" /\ killRefused' = TRUE /\ Fault
        /\ UNCHANGED doomed
  /\ attempts' = 0
  /\ UNCHANGED <<leader, helper, writers, output, reason, ends, now, abandoned>>

Close ==
  /\ pc = "close"
  /\ pc' = "reap"
  /\ registered' = {}
  /\ attempts' = 0
  /\ UNCHANGED <<os, pipe, ready, got, lost, reason, ends, now, past, faults>>

Reap ==
  /\ pc = "reap"
  /\ leader' = Reaped
  /\ IF leader' = "reaped" \/ now >= killEnd \/ attempts + 1 = MaxAttempts
     THEN pc' = "raised" /\ UNCHANGED attempts
     ELSE pc' = pc /\ attempts' = attempts + 1
  /\ UNCHANGED <<helper, writers, doomed, output, reason, ends, now, past,
                 faults>>

Return == pc \in Returned /\ UNCHANGED vars

Step ==
  \/ Spawn \/ NotSpawned \/ Register
  \/ TimesOut \/ Select \/ Drained \/ Poll \/ Probe
  \/ \E s \in Streams : Read(s)
  \/ SendTerm \/ SendKill \/ Close \/ Reap
  \/ Wait("term_wait", termEnd, "kill")
  \/ Wait("kill_wait", killEnd, "close")

Command ==
  \/ \E m \in Processes, s \in Streams : WriteOut(m, s) \/ CloseOut(m, s)
  \/ Fork \/ Escape
  \/ \E m \in Processes : Exit(m)

Next ==
  Step \/ Breaks \/ Slips \/ (pc \notin Returned /\ Command) \/ Clock \/ Return

Spec == Init /\ [][Next]_vars

(* The caller runs and time passes; the command owes nobody anything.      *)
FairSpec == Spec /\ WF_vars(Step) /\ WF_vars(Clock)
-----------------------------------------------------------------------------
(* Properties.                                                             *)

(* A result is returned only for a command that is over with all of its    *)
(* group, and it is everything any process ever wrote to the two pipes, an *)
(* escaped helper included: nothing is unread, cut off or still to come.   *)
SuccessIsComplete ==
  pc = "ok" =>
    /\ GroupGone
    /\ ~lost
    /\ \A s \in Streams : pipe[s] = 0 /\ writers[s] = {}

(* However a call ends ("bounded best-effort group teardown"), whatever    *)
(* failed in it and whoever forked meanwhile, no process is left in the    *)
(* group that has not been killed, unless SIGKILL itself was refused or an *)
(* interruption went past the teardown.                                    *)
Left(m) == m \notin doomed /\ Alive(m) /\ (m = "helper" => helper = "member")
NobodyLeftBehind ==
  pc \in Returned /\ ~killRefused /\ ~abandoned =>
    \A m \in Processes : ~Left(m)

(* "Run one command or fail": every call returns, also for a command that  *)
(* never exits, never stops writing or ignores every signal, and for a     *)
(* helper that keeps the pipes open outside the group.                     *)
AlwaysReturns == <>(pc \in Returned)
=============================================================================
