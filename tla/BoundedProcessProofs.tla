------------------------ MODULE BoundedProcessProofs ------------------------
(***************************************************************************)
(* A bounded process keeps no more than its limits, returns nothing less   *)
(* than everything its command wrote and leaves nobody alive in the group, *)
(* for any limits, graces and number of failing calls.                     *)
(***************************************************************************)
EXTENDS BoundedProcess, TLAPS


-----------------------------------------------------------------------------
(* The inductive invariant.                                                *)

(* Before the cleanup the deadline has not passed, and what has been kept  *)
(* is within its limits and all there was.                                 *)
WithinInv ==
  pc \in {"start"} \union MainLoop =>
    /\ now <= Deadline
    /\ \A s \in Streams : got[s] <= Limit[s]
    /\ Total(got) <= Aggregate
    /\ ~lost

(* Only a drain has streams to read; the last wait has attempts left.      *)
PhaseInv ==
  /\ pc # "drain" => ready = {}
  /\ pc = "reap" => attempts < MaxAttempts

(* A stream that is no longer watched is at its end and stays there.       *)
EofInv ==
  /\ pc \in {"loop", "drain", "poll", "probe"} =>
       \A s \in Streams \ registered : Eof(s)
  /\ pc = "probe" => leader = "reaped" /\ registered = {}
  /\ pc = "ok" => GroupGone /\ ~lost /\ \A s \in Streams : Eof(s)

(* Before the call has started anything, nothing runs; after SIGKILL, who  *)
(* is left in the group is dying, and who is dying forks no more.          *)
KilledInv ==
  /\ pc = "start" => leader = "none" /\ helper = "none"
  /\ pc \in {"kill_wait", "close", "reap"} \union Returned /\ ~killRefused /\ ~abandoned =>
       /\ leader = "alive" => "leader" \in doomed
       /\ helper = "member" => "helper" \in doomed

IInv == TypeOK /\ WithinInv /\ PhaseInv /\ EofInv /\ KilledInv


(* It holds before the command is started.                                 *)
LEMMA InitIInv == Init => IInv
<1> SUFFICES ASSUME Init PROVE IInv
  OBVIOUS
<1> USE BoundedProcessAssumption DEF Init, Streams, MainLoop, Cleanup, Returned
<1>1. TypeOK
  <2>1. /\ writers \in [Streams -> SUBSET Processes]
        /\ pipe \in [Streams -> 0..PipeSize]
        /\ doomed \in SUBSET Processes
    OBVIOUS
  <2>2. /\ DOMAIN got = Streams
        /\ \A s \in Streams : got[s] \in 0..(Limit[s] + 1)
        /\ Total(got) <= Aggregate + 1
    BY DEF Total
  <2>3. /\ attempts \in 0..MaxAttempts /\ faults \in 0..MaxFaults
        /\ termEnd \in 0..MaxTime /\ killEnd \in 0..MaxTime
        /\ now \in 0..MaxTime
    BY DEF MaxTime
  <2> QED
    BY <2>1, <2>2, <2>3 DEF TypeOK
<1>2. WithinInv
  BY DEF WithinInv, Total
<1>3. PhaseInv /\ EofInv /\ KilledInv
  BY DEF PhaseInv, EofInv, KilledInv
<1> QED
  BY <1>1, <1>2, <1>3 DEF IInv

(* One read exceeds a limit by at most the byte that tells, and it does    *)
(* exceed one whenever it cuts something off.                              *)
LEMMA ReadBounded ==
  ASSUME TypeOK, WithinInv, NEW s \in Streams, Read(s)
  PROVE  /\ DOMAIN got' = Streams
         /\ \A t \in Streams : got'[t] \in 0..(Limit[t] + 1)
         /\ Total(got') <= Aggregate + 1
         /\ \A t \in Streams \ {s} : got'[t] = got[t]
         /\ lost' => got'[s] > Limit[s] \/ Total(got') > Aggregate
<1> USE BoundedProcessAssumption DEF Streams
<1> DEFINE kept == Smaller(pipe[s], Room(s) + 1)
<1>1. /\ \A t \in Streams : Limit[t] \in Nat /\ got[t] \in Nat
      /\ pipe[s] \in Nat /\ Aggregate \in Nat
  BY DEF TypeOK
<1>2. /\ \A t \in Streams : got[t] <= Limit[t]
      /\ Total(got) <= Aggregate /\ ~lost
  BY DEF Read, WithinInv, MainLoop
<1>3. Total(got) \in Nat
  BY <1>1 DEF Total
<1>4. /\ Room(s) \in Nat
      /\ Room(s) <= Limit[s] - got[s] /\ Room(s) <= Aggregate - Total(got)
      /\ Room(s) = Limit[s] - got[s] \/ Room(s) = Aggregate - Total(got)
  BY <1>1, <1>2, <1>3 DEF Room, Smaller
<1>5. /\ kept \in Nat /\ kept <= Room(s) + 1
      /\ pipe[s] > Room(s) + 1 => kept = Room(s) + 1
  BY <1>1, <1>4 DEF Smaller
<1>6. /\ got' = [got EXCEPT ![s] = @ + kept]
      /\ lost' = (lost \/ pipe[s] > Room(s) + 1)
  BY DEF Read
<1> HIDE DEF kept
<1>7. /\ DOMAIN got' = Streams
      /\ got'[s] = got[s] + kept
      /\ \A t \in Streams \ {s} : got'[t] = got[t]
  BY <1>6 DEF TypeOK
<1>8. Total(got') = Total(got) + kept
  <2>1. CASE s = "stdout"
    BY <1>1, <1>5, <1>7, <2>1 DEF Total
  <2>2. CASE s = "stderr"
    BY <1>1, <1>5, <1>7, <2>2 DEF Total
  <2> QED
    BY <2>1, <2>2
<1>9. \A t \in Streams : got'[t] \in 0..(Limit[t] + 1)
  <2>1. got'[s] \in 0..(Limit[s] + 1)
    BY <1>1, <1>2, <1>4, <1>5, <1>7
  <2>2. \A t \in Streams \ {s} : got'[t] \in 0..(Limit[t] + 1)
    BY <1>1, <1>2, <1>7
  <2> QED
    BY <2>1, <2>2
<1>10. Total(got') <= Aggregate + 1
  BY <1>1, <1>2, <1>3, <1>4, <1>5, <1>8
<1>11. ASSUME lost' PROVE got'[s] > Limit[s] \/ Total(got') > Aggregate
  <2>1. kept = Room(s) + 1
    BY <1>2, <1>5, <1>6, <1>11
  <2> QED
    BY <1>1, <1>3, <1>4, <1>7, <1>8, <2>1
<1> QED
  BY <1>7, <1>9, <1>10, <1>11

-----------------------------------------------------------------------------
(* One step, conjunct by conjunct.                                         *)

(* Types are kept, and with them the bounds of what is retained.           *)
LEMMA TypeOKStep ==
  ASSUME TypeOK, WithinInv, PhaseInv, [Next]_vars PROVE TypeOK'
<1> USE BoundedProcessAssumption DEF TypeOK, WithinInv, PhaseInv, MaxTime,
        Streams, Processes, Total, Reaped, os, output, ends, past, Fault, CleanUp,
        Raise, MainLoop, Cleanup, Returned
<1>1. ASSUME NEW m \in Processes, NEW s \in Streams, WriteOut(m, s)
      PROVE  TypeOK'
  BY <1>1 DEF WriteOut
<1>2. ASSUME NEW m \in Processes, NEW s \in Streams, CloseOut(m, s)
      PROVE  TypeOK'
  BY <1>2 DEF CloseOut
<1>3. CASE Fork
  BY <1>3 DEF Fork
<1>4. CASE Escape
  BY <1>4 DEF Escape
<1>5. ASSUME NEW m \in Processes, Exit(m) PROVE TypeOK'
  BY <1>5 DEF Exit
<1>6. CASE Spawn
  BY <1>6 DEF Spawn
<1>7. CASE NotSpawned
  BY <1>7 DEF NotSpawned
<1>8. CASE Register
  BY <1>8 DEF Register
<1>9. CASE TimesOut
  BY <1>9 DEF TimesOut, Expired
<1>10. CASE Select
  BY <1>10 DEF Select, Expired
<1>11. CASE Drained
  BY <1>11 DEF Drained
<1>12. CASE Poll
  BY <1>12 DEF Poll
<1>13. CASE Probe
  BY <1>13 DEF Probe
<1>14. ASSUME NEW s \in Streams, Read(s) PROVE TypeOK'
  <2>1. /\ DOMAIN got' = Streams
        /\ \A t \in Streams : got'[t] \in 0..(Limit[t] + 1)
        /\ Total(got') <= Aggregate + 1
    BY <1>14, ReadBounded
  <2>2. lost' \in BOOLEAN /\ pipe' \in [Streams -> 0..PipeSize]
    BY <1>14 DEF Read
  <2>3. registered' \in SUBSET Streams /\ ready' \in SUBSET registered'
    BY <1>14 DEF Read
  <2>4. termEnd' \in 0..MaxTime /\ killEnd' \in 0..MaxTime
    BY <1>14 DEF Read
  <2> QED
    BY <1>14, <2>1, <2>2, <2>3, <2>4 DEF Read
<1>15. CASE SendTerm
  BY <1>15 DEF SendTerm
<1>16. CASE SendKill
  <2>1. doomed' \in SUBSET Processes
    BY <1>16 DEF SendKill
  <2>2. \/ UNCHANGED <<killRefused, faults>>
        \/ killRefused' = TRUE /\ faults < MaxFaults /\ faults' = faults + 1
    BY <1>16 DEF SendKill
  <2>3. pc' \in {"close", "kill_wait"}
    BY <1>16 DEF SendKill
  <2>4. killRefused' \in BOOLEAN
    BY <2>2, Zenon
  <2>5. faults' \in 0..MaxFaults
    BY <2>2
  <2> QED
    BY <1>16, <2>1, <2>3, <2>4, <2>5 DEF SendKill
<1>17. CASE Close
  BY <1>17 DEF Close
<1>18. CASE Reap
  BY <1>18 DEF Reap
<1>19. CASE Wait("term_wait", termEnd, "kill")
  BY <1>19 DEF Wait
<1>20. CASE Wait("kill_wait", killEnd, "close")
  BY <1>20 DEF Wait
<1>21. CASE Breaks
  BY <1>21 DEF Breaks
<1>22. CASE Clock
  BY <1>22 DEF Clock
<1>23. CASE Return
  BY <1>23 DEF Return, vars
<1>24. CASE UNCHANGED vars
  BY <1>24 DEF vars
<1>25. CASE Slips
  BY <1>25 DEF Slips
<1> QED
  BY <1>1, <1>2, <1>3, <1>4, <1>5, <1>6, <1>7, <1>8, <1>9, <1>10, <1>11,
     <1>12, <1>13, <1>14, <1>15, <1>16, <1>17, <1>18, <1>19, <1>20, <1>21,
     <1>22, <1>23, <1>24, <1>25
     DEF Next, Step, Command, Return, vars

(* Whatever goes over a limit, or is cut off, ends the main loop.          *)
LEMMA WithinInvStep ==
  ASSUME TypeOK, WithinInv, [Next]_vars PROVE WithinInv'
<1> USE BoundedProcessAssumption DEF TypeOK, WithinInv, Streams,
        os, output, ends, past, Fault, CleanUp, Raise, MainLoop, Cleanup, Returned
<1>1. ASSUME NEW m \in Processes, NEW s \in Streams, WriteOut(m, s)
      PROVE  WithinInv'
  BY <1>1 DEF WriteOut
<1>2. ASSUME NEW m \in Processes, NEW s \in Streams, CloseOut(m, s)
      PROVE  WithinInv'
  BY <1>2 DEF CloseOut
<1>3. CASE Fork
  BY <1>3 DEF Fork
<1>4. CASE Escape
  BY <1>4 DEF Escape
<1>5. ASSUME NEW m \in Processes, Exit(m) PROVE WithinInv'
  BY <1>5 DEF Exit
<1>6. CASE Spawn
  BY <1>6 DEF Spawn
<1>7. CASE NotSpawned
  BY <1>7 DEF NotSpawned
<1>8. CASE Register
  BY <1>8 DEF Register
<1>9. CASE TimesOut
  BY <1>9 DEF TimesOut, Expired
<1>10. CASE Select
  BY <1>10 DEF Select, Expired
<1>11. CASE Drained
  BY <1>11 DEF Drained
<1>12. CASE Poll
  BY <1>12 DEF Poll
<1>13. CASE Probe
  BY <1>13 DEF Probe
<1>14. ASSUME NEW s \in Streams, Read(s) PROVE WithinInv'
  <2>1. /\ DOMAIN got' = Streams
        /\ \A t \in Streams : got'[t] \in 0..(Limit[t] + 1)
        /\ \A t \in Streams \ {s} : got'[t] = got[t]
        /\ lost' => got'[s] > Limit[s] \/ Total(got') > Aggregate
    BY <1>14, ReadBounded
  <2>2. CASE got'[s] > Limit[s] \/ Total(got') > Aggregate
    BY <1>14, <2>2 DEF Read
  <2>3. CASE ~(got'[s] > Limit[s] \/ Total(got') > Aggregate)
    <3>1. got'[s] <= Limit[s] /\ Total(got') <= Aggregate
      BY <2>1, <2>3 DEF Total
    <3> QED
      BY <1>14, <2>1, <2>3, <3>1 DEF Read
  <2> QED
    BY <2>2, <2>3
<1>15. CASE SendTerm
  BY <1>15 DEF SendTerm
<1>16. CASE SendKill
  BY <1>16 DEF SendKill
<1>17. CASE Close
  BY <1>17 DEF Close
<1>18. CASE Reap
  BY <1>18 DEF Reap
<1>19. CASE Wait("term_wait", termEnd, "kill")
  BY <1>19 DEF Wait
<1>20. CASE Wait("kill_wait", killEnd, "close")
  BY <1>20 DEF Wait
<1>21. CASE Breaks
  BY <1>21 DEF Breaks
<1>22. CASE Clock
  BY <1>22 DEF Clock
<1>23. CASE Return
  BY <1>23 DEF Return, vars
<1>24. CASE UNCHANGED vars
  BY <1>24 DEF vars
<1>25. CASE Slips
  BY <1>25 DEF Slips
<1> QED
  BY <1>1, <1>2, <1>3, <1>4, <1>5, <1>6, <1>7, <1>8, <1>9, <1>10, <1>11,
     <1>12, <1>13, <1>14, <1>15, <1>16, <1>17, <1>18, <1>19, <1>20, <1>21,
     <1>22, <1>23, <1>24, <1>25
     DEF Next, Step, Command, Return, vars

(* A phase starts with what it needs.                                      *)
LEMMA PhaseInvStep ==
  ASSUME TypeOK, PhaseInv, [Next]_vars PROVE PhaseInv'
<1> USE BoundedProcessAssumption DEF TypeOK, PhaseInv,
        os, output, ends, past, Fault, CleanUp, Raise, MainLoop, Cleanup, Returned
<1>1. ASSUME NEW m \in Processes, NEW s \in Streams, WriteOut(m, s)
      PROVE  PhaseInv'
  BY <1>1 DEF WriteOut
<1>2. ASSUME NEW m \in Processes, NEW s \in Streams, CloseOut(m, s)
      PROVE  PhaseInv'
  BY <1>2 DEF CloseOut
<1>3. CASE Fork
  BY <1>3 DEF Fork
<1>4. CASE Escape
  BY <1>4 DEF Escape
<1>5. ASSUME NEW m \in Processes, Exit(m) PROVE PhaseInv'
  BY <1>5 DEF Exit
<1>6. CASE Spawn
  BY <1>6 DEF Spawn
<1>7. CASE NotSpawned
  BY <1>7 DEF NotSpawned
<1>8. CASE Register
  BY <1>8 DEF Register
<1>9. CASE TimesOut
  BY <1>9 DEF TimesOut, Expired
<1>10. CASE Select
  BY <1>10 DEF Select, Expired
<1>11. CASE Drained
  BY <1>11 DEF Drained
<1>12. CASE Poll
  BY <1>12 DEF Poll
<1>13. CASE Probe
  BY <1>13 DEF Probe
<1>14. ASSUME NEW s \in Streams, Read(s) PROVE PhaseInv'
  BY <1>14 DEF Read
<1>15. CASE SendTerm
  BY <1>15 DEF SendTerm
<1>16. CASE SendKill
  BY <1>16 DEF SendKill
<1>17. CASE Close
  BY <1>17 DEF Close
<1>18. CASE Reap
  BY <1>18 DEF Reap
<1>19. CASE Wait("term_wait", termEnd, "kill")
  BY <1>19 DEF Wait
<1>20. CASE Wait("kill_wait", killEnd, "close")
  BY <1>20 DEF Wait
<1>21. CASE Breaks
  BY <1>21 DEF Breaks
<1>22. CASE Clock
  BY <1>22 DEF Clock
<1>23. CASE Return
  BY <1>23 DEF Return, vars
<1>24. CASE UNCHANGED vars
  BY <1>24 DEF vars
<1>25. CASE Slips
  BY <1>25 DEF Slips
<1> QED
  BY <1>1, <1>2, <1>3, <1>4, <1>5, <1>6, <1>7, <1>8, <1>9, <1>10, <1>11,
     <1>12, <1>13, <1>14, <1>15, <1>16, <1>17, <1>18, <1>19, <1>20, <1>21,
     <1>22, <1>23, <1>24, <1>25
     DEF Next, Step, Command, Return, vars

(* The end of a stream is final: nobody is left to write to it.            *)
LEMMA EofInvStep ==
  ASSUME TypeOK, WithinInv, EofInv, [Next]_vars PROVE EofInv'
<1> USE BoundedProcessAssumption DEF TypeOK, WithinInv, EofInv, Streams,
        GroupGone, Eof, Reaped, os, output, ends, past, Fault, CleanUp, Raise,
        MainLoop, Cleanup, Returned
<1>1. ASSUME NEW m \in Processes, NEW s \in Streams, WriteOut(m, s)
      PROVE  EofInv'
  BY <1>1 DEF WriteOut
<1>2. ASSUME NEW m \in Processes, NEW s \in Streams, CloseOut(m, s)
      PROVE  EofInv'
  BY <1>2 DEF CloseOut
<1>3. CASE Fork
  BY <1>3 DEF Fork, Runs, Alive
<1>4. CASE Escape
  BY <1>4 DEF Escape, Runs, Alive
<1>5. ASSUME NEW m \in Processes, Exit(m) PROVE EofInv'
  BY <1>5 DEF Exit, Alive
<1>6. CASE Spawn
  BY <1>6 DEF Spawn
<1>7. CASE NotSpawned
  BY <1>7 DEF NotSpawned
<1>8. CASE Register
  BY <1>8 DEF Register
<1>9. CASE TimesOut
  BY <1>9 DEF TimesOut, Expired
<1>10. CASE Select
  BY <1>10 DEF Select, Expired
<1>11. CASE Drained
  BY <1>11 DEF Drained
<1>12. CASE Poll
  BY <1>12 DEF Poll
<1>13. CASE Probe
  BY <1>13 DEF Probe
<1>14. ASSUME NEW s \in Streams, Read(s) PROVE EofInv'
  BY <1>14 DEF Read
<1>15. CASE SendTerm
  BY <1>15 DEF SendTerm
<1>16. CASE SendKill
  BY <1>16 DEF SendKill
<1>17. CASE Close
  BY <1>17 DEF Close
<1>18. CASE Reap
  BY <1>18 DEF Reap
<1>19. CASE Wait("term_wait", termEnd, "kill")
  BY <1>19 DEF Wait
<1>20. CASE Wait("kill_wait", killEnd, "close")
  BY <1>20 DEF Wait
<1>21. CASE Breaks
  BY <1>21 DEF Breaks
<1>22. CASE Clock
  BY <1>22 DEF Clock
<1>23. CASE Return
  BY <1>23 DEF Return, vars
<1>24. CASE UNCHANGED vars
  BY <1>24 DEF vars
<1>25. CASE Slips
  BY <1>25 DEF Slips
<1> QED
  BY <1>1, <1>2, <1>3, <1>4, <1>5, <1>6, <1>7, <1>8, <1>9, <1>10, <1>11,
     <1>12, <1>13, <1>14, <1>15, <1>16, <1>17, <1>18, <1>19, <1>20, <1>21,
     <1>22, <1>23, <1>24, <1>25
     DEF Next, Step, Command, Return, vars

(* The group is gone, or it was killed, before the cleanup goes on.        *)
LEMMA KilledInvStep ==
  ASSUME TypeOK, KilledInv, EofInv, [Next]_vars PROVE KilledInv'
<1> USE DEF TypeOK, KilledInv, EofInv, GroupGone, Processes, Runs, Alive,
        Reaped, os, output, ends, past, Fault, CleanUp, Raise, MainLoop, Cleanup,
        Returned
<1>1. ASSUME NEW m \in Processes, NEW s \in Streams, WriteOut(m, s)
      PROVE  KilledInv'
  BY <1>1 DEF WriteOut
<1>2. ASSUME NEW m \in Processes, NEW s \in Streams, CloseOut(m, s)
      PROVE  KilledInv'
  BY <1>2 DEF CloseOut
<1>3. CASE Fork
  BY <1>3 DEF Fork
<1>4. CASE Escape
  BY <1>4 DEF Escape
<1>5. ASSUME NEW m \in Processes, Exit(m) PROVE KilledInv'
  BY <1>5 DEF Exit
<1>6. CASE Spawn
  BY <1>6 DEF Spawn
<1>7. CASE NotSpawned
  BY <1>7 DEF NotSpawned
<1>8. CASE Register
  BY <1>8 DEF Register
<1>9. CASE TimesOut
  BY <1>9 DEF TimesOut, Expired
<1>10. CASE Select
  BY <1>10 DEF Select, Expired
<1>11. CASE Drained
  BY <1>11 DEF Drained
<1>12. CASE Poll
  BY <1>12 DEF Poll
<1>13. CASE Probe
  BY <1>13 DEF Probe
<1>14. ASSUME NEW s \in Streams, Read(s) PROVE KilledInv'
  BY <1>14 DEF Read
<1>15. CASE SendTerm
  BY <1>15 DEF SendTerm
<1>16. CASE SendKill
  BY <1>16 DEF SendKill
<1>17. CASE Close
  BY <1>17 DEF Close
<1>18. CASE Reap
  BY <1>18 DEF Reap
<1>19. CASE Wait("term_wait", termEnd, "kill")
  BY <1>19 DEF Wait
<1>20. CASE Wait("kill_wait", killEnd, "close")
  BY <1>20 DEF Wait
<1>21. CASE Breaks
  BY <1>21 DEF Breaks
<1>22. CASE Clock
  BY <1>22 DEF Clock
<1>23. CASE Return
  BY <1>23 DEF Return, vars
<1>24. CASE UNCHANGED vars
  BY <1>24 DEF vars
<1>25. CASE Slips
  BY <1>25 DEF Slips
<1> QED
  BY <1>1, <1>2, <1>3, <1>4, <1>5, <1>6, <1>7, <1>8, <1>9, <1>10, <1>11,
     <1>12, <1>13, <1>14, <1>15, <1>16, <1>17, <1>18, <1>19, <1>20, <1>21,
     <1>22, <1>23, <1>24, <1>25
     DEF Next, Step, Command, Return, vars

(* Every step keeps every part of it.                                      *)
LEMMA IInvStep == IInv /\ [Next]_vars => IInv'
BY TypeOKStep, WithinInvStep, PhaseInvStep, EofInvStep, KilledInvStep DEF IInv

(* What each phase of a call may rely on.                                  *)
THEOREM Invariance == Spec => []IInv
BY InitIInv, IInvStep, PTL DEF Spec

-----------------------------------------------------------------------------
(* What a call promises.                                                   *)

(* Types, and with them the limits: of each stream and of both together no *)
(* more is ever retained than one byte beyond the limit.                   *)
THEOREM TypeCorrect == Spec => []TypeOK
<1>1. IInv => TypeOK
  BY DEF IInv
<1> QED
  BY <1>1, Invariance, PTL

(* A result is returned only for a whole output and a group that is gone,  *)
(* and nothing can be written any more.                                    *)
THEOREM Complete == Spec => []SuccessIsComplete
<1>1. IInv => SuccessIsComplete
  BY DEF IInv, EofInv, Eof, SuccessIsComplete
<1> QED
  BY <1>1, Invariance, PTL

(* No call, however it ends, leaves a process in the group that was not    *)
(* killed, unless SIGKILL itself was refused or an interruption went past  *)
(* the teardown.                                                           *)
THEOREM GroupTornDown == Spec => []NobodyLeftBehind
<1>1. IInv => NobodyLeftBehind
  BY DEF IInv, KilledInv, NobodyLeftBehind, Left, Alive, Processes
<1> QED
  BY <1>1, Invariance, PTL
=============================================================================
