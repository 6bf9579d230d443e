----------------------------- MODULE AppProofs -----------------------------
(***************************************************************************)
(* Proofs about App, for any set of repositories and any number of retries:*)
(* the type invariant, ExitStatus, FailureMeansExhausted, CyclesDoNotOverlap*)
(* and AttemptsBounded.                                                    *)
(*                                                                         *)
(* The invariant has a part per goroutine: where it stands says how many   *)
(* attempts it has made (Counted), and its result says whether it won      *)
(* (Verdict).  The part about the command says which goroutines may still  *)
(* move (Quiet) and what is known of the schedule (ScheduleKnown).         *)
(***************************************************************************)
EXTENDS App, TLAPS

(* The loop counter and the attempts made. *)
Counted(r) ==
  /\ repo[r].pc = "ready" => tried[r] = repo[r].attempt /\ tried[r] <= Retries
  /\ repo[r].pc \in {"lock", "work", "pause"} =>
       tried[r] = repo[r].attempt + 1 /\ repo[r].attempt <= Retries
  /\ repo[r].pc = "pause" => repo[r].attempt < Retries

(* Success and failure exclude each other, and both end the goroutine. *)
Verdict(r) ==
  /\ repo[r].pc # "done" => r \notin won /\ ~repo[r].err
  /\ repo[r].pc = "done" => (repo[r].err <=> r \notin won)

(* Without a signal, a failure took all the retries. *)
Exhausted(r) ==
  repo[r].pc = "done" /\ repo[r].err /\ ~cancelled => tried[r] = Retries + 1

Goroutine(r) == Counted(r) /\ Verdict(r) /\ Exhausted(r)

(* Outside a cycle no goroutine is at work. *)
Quiet ==
  /\ main # "cycle" => \A r \in Repos : repo[r].pc \in {"done", "ready"}
  /\ main \in {"schedule", "wait"} => \A r \in Repos : repo[r].pc = "done"

ScheduleKnown ==
  /\ main = "start" => ~started
  /\ main \in {"schedule", "wait"} => command = "run" /\ schedule # "none"
  /\ main = "wait" => schedule = "good"
  /\ main = "cycle" /\ command = "run" => schedule # "none"
  /\ main = "cycle" /\ started => schedule = "good"

IInv ==
  /\ TypeOK
  /\ \A r \in Repos : Goroutine(r)
  /\ Quiet /\ ScheduleKnown /\ ExitStatus

-----------------------------------------------------------------------------
(* Lemmas. *)

(* No command retries more often than it is configured to. *)
LEMMA RetriesType == Retries \in 0..RepositoryRetries
BY AppAssumption DEF Retries

LEMMA InitInv == Init => IInv
<1> SUFFICES ASSUME Init PROVE IInv
  OBVIOUS
<1>1. TypeOK
  <2>1. Ready \in [pc : {"ready", "lock", "work", "pause", "done"},
                  attempt : 0..RepositoryRetries, err : BOOLEAN]
    BY AppAssumption DEF Ready
  <2>2. 0 \in 0..(RepositoryRetries + 1)
    BY AppAssumption
  <2> QED BY <2>1, <2>2 DEF Init, TypeOK
<1>2. ASSUME NEW r \in Repos PROVE Goroutine(r)
  BY RetriesType, AppAssumption DEF Init, Ready, Goroutine, Counted, Verdict, Exhausted
<1>3. Quiet /\ ScheduleKnown /\ ExitStatus
  BY DEF Init, Ready, Quiet, ScheduleKnown, ExitStatus
<1> QED BY <1>1, <1>2, <1>3 DEF IInv

(* A cycle begins with every goroutine before its first attempt. *)
LEMMA NewCycleGoroutines ==
  ASSUME NewCycle
  PROVE  /\ repo' \in [Repos -> [pc : {"ready", "lock", "work", "pause", "done"},
                                 attempt : 0..RepositoryRetries, err : BOOLEAN]]
         /\ tried' \in [Repos -> 0..(RepositoryRetries + 1)]
         /\ \A r \in Repos : Goroutine(r)'
<1>1. repo' \in [Repos -> [pc : {"ready", "lock", "work", "pause", "done"},
                           attempt : 0..RepositoryRetries, err : BOOLEAN]]
  BY AppAssumption DEF NewCycle, Ready
<1>2. tried' \in [Repos -> 0..(RepositoryRetries + 1)]
  BY AppAssumption DEF NewCycle
<1>3. Retries' \in 0..RepositoryRetries
  BY AppAssumption DEF Retries
<1>4. ASSUME NEW r \in Repos PROVE Goroutine(r)'
  <2>1. repo'[r] = Ready /\ tried'[r] = 0 /\ r \notin won'
    BY DEF NewCycle
  <2>2. Ready.pc = "ready" /\ Ready.attempt = 0 /\ Ready.err = FALSE
    BY DEF Ready
  <2>3. 0 <= Retries'
    BY <1>3, AppAssumption
  <2> QED BY <2>1, <2>2, <2>3 DEF Goroutine, Counted, Verdict, Exhausted
<1> QED BY <1>1, <1>2, <1>4

(* What a step of the command has to show, once the goroutines are right. *)
LEMMA StartInv ==
  ASSUME IInv, Start
  PROVE  IInv'
<1>1. CASE command = "run" /\ schedule = "none" /\ Exit("err")
           /\ UNCHANGED <<started, repo, tried, won>>
  <2>1. TypeOK'
    BY <1>1 DEF IInv, TypeOK, Start, Exit
  <2>2. ASSUME NEW r \in Repos PROVE Goroutine(r)'
    BY <1>1 DEF IInv, Start, Goroutine, Counted, Verdict, Exhausted, Retries
  <2>3. Quiet' /\ ScheduleKnown' /\ ExitStatus'
    BY <1>1 DEF IInv, Start, Exit, Quiet, ScheduleKnown, ExitStatus
  <2> QED BY <2>1, <2>2, <2>3 DEF IInv
<1>2. CASE ~(command = "run" /\ schedule = "none") /\ NewCycle /\ UNCHANGED <<started, status>>
  <2>1. TypeOK'
    BY <1>2, NewCycleGoroutines DEF IInv, TypeOK, Start, NewCycle
  <2>2. Quiet' /\ ScheduleKnown' /\ ExitStatus'
    BY <1>2 DEF IInv, Start, NewCycle, Quiet, ScheduleKnown, ExitStatus
  <2> QED BY <1>2, <2>1, <2>2, NewCycleGoroutines DEF IInv
<1> QED BY <1>1, <1>2 DEF Start

LEMMA CycleEndsInv ==
  ASSUME IInv, CycleEnds
  PROVE  IInv'
<1>1. TypeOK'
  BY DEF IInv, TypeOK, CycleEnds, Exit
<1>2. ASSUME NEW r \in Repos PROVE Goroutine(r)'
  BY DEF IInv, CycleEnds, Goroutine, Counted, Verdict, Exhausted, Retries
<1>3. Quiet' /\ ScheduleKnown'
  BY DEF IInv, CycleEnds, Exit, Quiet, ScheduleKnown
<1>4. (\E r \in Repos : repo[r].err) <=> won # Repos
  BY DEF IInv, CycleEnds, TypeOK, Goroutine, Verdict
<1>5. ExitStatus'
  BY <1>4 DEF IInv, CycleEnds, Exit, ExitStatus
<1> QED BY <1>1, <1>2, <1>3, <1>5 DEF IInv

LEMMA MakeScheduleInv ==
  ASSUME IInv, MakeSchedule
  PROVE  IInv'
<1>1. TypeOK'
  BY DEF IInv, TypeOK, MakeSchedule, Exit
<1>2. ASSUME NEW r \in Repos PROVE Goroutine(r)'
  BY DEF IInv, MakeSchedule, Goroutine, Counted, Verdict, Exhausted, Retries
<1>3. Quiet' /\ ScheduleKnown' /\ ExitStatus'
  BY DEF IInv, MakeSchedule, Exit, Quiet, ScheduleKnown, ExitStatus
<1> QED BY <1>1, <1>2, <1>3 DEF IInv

LEMMA TickInv ==
  ASSUME IInv, Tick
  PROVE  IInv'
<1>1. TypeOK'
  BY NewCycleGoroutines DEF IInv, TypeOK, Tick, NewCycle
<1>2. Quiet' /\ ScheduleKnown' /\ ExitStatus'
  BY DEF IInv, Tick, NewCycle, Quiet, ScheduleKnown, ExitStatus
<1> QED BY <1>1, <1>2, NewCycleGoroutines DEF IInv, Tick

LEMMA StopWaitingInv ==
  ASSUME IInv, StopWaiting
  PROVE  IInv'
<1>1. TypeOK'
  BY DEF IInv, TypeOK, StopWaiting, Exit
<1>2. ASSUME NEW r \in Repos PROVE Goroutine(r)'
  BY DEF IInv, StopWaiting, Goroutine, Counted, Verdict, Exhausted, Retries
<1>3. Quiet' /\ ScheduleKnown' /\ ExitStatus'
  BY DEF IInv, StopWaiting, Exit, Quiet, ScheduleKnown, ExitStatus
<1> QED BY <1>1, <1>2, <1>3 DEF IInv

LEMMA CancelInv ==
  ASSUME IInv, Cancel
  PROVE  IInv'
<1>1. TypeOK'
  BY DEF IInv, TypeOK, Cancel, goroutines
<1>2. ASSUME NEW r \in Repos PROVE Goroutine(r)'
  BY DEF IInv, Cancel, goroutines, Goroutine, Counted, Verdict, Exhausted, Retries
<1>3. Quiet' /\ ScheduleKnown' /\ ExitStatus'
  BY DEF IInv, Cancel, goroutines, Quiet, ScheduleKnown, ExitStatus
<1> QED BY <1>1, <1>2, <1>3 DEF IInv

(* A step that leaves the command alone, during a cycle, is right when the *)
(* goroutine it moves is and the others do not notice.                     *)
LEMMA GoroutineStep ==
  ASSUME IInv, TypeOK', NEW r \in Repos, main = "cycle",
         UNCHANGED <<command, schedule, cancelled, main, started, status>>,
         Goroutine(r)',
         \A x \in Repos \ {r} :
           repo'[x] = repo[x] /\ tried'[x] = tried[x] /\ (x \in won' <=> x \in won)
  PROVE  IInv'
<1>1. ASSUME NEW x \in Repos \ {r} PROVE Goroutine(x)'
  BY DEF IInv, Goroutine, Counted, Verdict, Exhausted, Retries
<1>2. Quiet' /\ ScheduleKnown' /\ ExitStatus'
  BY DEF IInv, Quiet, ScheduleKnown, ExitStatus
<1> QED BY <1>1, <1>2 DEF IInv

(* Only in a cycle is a goroutine past its start and not done. *)
LEMMA AtWork ==
  ASSUME IInv, NEW r \in Repos, repo[r].pc \in {"lock", "work", "pause"}
  PROVE  main = "cycle"
BY DEF IInv, Quiet

LEMMA AttemptInv ==
  ASSUME IInv, NEW r \in Repos, Attempt(r)
  PROVE  IInv'
<1> USE RetriesType, AppAssumption
<1>1. TypeOK'
  <2>1. tried[r] + 1 \in 0..(RepositoryRetries + 1)
    BY DEF IInv, Attempt, TypeOK, Goroutine, Counted
  <2> QED BY <2>1 DEF IInv, TypeOK, Attempt, Fail, GoTo
<1>2. Goroutine(r)'
  BY DEF IInv, TypeOK, Attempt, Fail, GoTo, Goroutine, Counted, Verdict, Exhausted, Retries
<1>3. \A x \in Repos \ {r} :
        repo'[x] = repo[x] /\ tried'[x] = tried[x] /\ (x \in won' <=> x \in won)
  BY DEF IInv, TypeOK, Attempt, Fail, GoTo
<1> QED BY <1>1, <1>2, <1>3, GoroutineStep DEF Attempt

LEMMA EnterInv ==
  ASSUME IInv, NEW r \in Repos, Enter(r)
  PROVE  IInv'
<1> USE RetriesType, AppAssumption
<1>1. TypeOK'
  BY DEF IInv, TypeOK, Enter, GoTo
<1>2. Goroutine(r)'
  BY DEF IInv, TypeOK, Enter, GoTo, Goroutine, Counted, Verdict, Exhausted, Retries
<1>3. \A x \in Repos \ {r} :
        repo'[x] = repo[x] /\ tried'[x] = tried[x] /\ (x \in won' <=> x \in won)
  BY DEF IInv, TypeOK, Enter, GoTo
<1> QED BY <1>1, <1>2, <1>3, AtWork, GoroutineStep DEF Enter

LEMMA SucceedInv ==
  ASSUME IInv, NEW r \in Repos, Succeed(r)
  PROVE  IInv'
<1> USE RetriesType, AppAssumption
<1>1. TypeOK'
  BY DEF IInv, TypeOK, Succeed, GoTo
<1>2. Goroutine(r)'
  BY DEF IInv, TypeOK, Succeed, GoTo, Goroutine, Counted, Verdict, Exhausted, Retries
<1>3. \A x \in Repos \ {r} :
        repo'[x] = repo[x] /\ tried'[x] = tried[x] /\ (x \in won' <=> x \in won)
  BY DEF IInv, TypeOK, Succeed, GoTo
<1> QED BY <1>1, <1>2, <1>3, AtWork, GoroutineStep DEF Succeed

LEMMA FailAttemptInv ==
  ASSUME IInv, NEW r \in Repos, FailAttempt(r)
  PROVE  IInv'
<1> USE RetriesType, AppAssumption
<1>1. TypeOK'
  BY DEF IInv, TypeOK, FailAttempt, Fail, GoTo
<1>2. Goroutine(r)'
  BY DEF IInv, TypeOK, FailAttempt, Fail, GoTo, Goroutine, Counted, Verdict, Exhausted, Retries
<1>3. \A x \in Repos \ {r} :
        repo'[x] = repo[x] /\ tried'[x] = tried[x] /\ (x \in won' <=> x \in won)
  BY DEF IInv, TypeOK, FailAttempt, Fail, GoTo
<1> QED BY <1>1, <1>2, <1>3, AtWork, GoroutineStep DEF FailAttempt

LEMMA ResumeInv ==
  ASSUME IInv, NEW r \in Repos, Resume(r)
  PROVE  IInv'
<1> USE RetriesType, AppAssumption
<1>1. TypeOK'
  <2>1. repo[r].attempt + 1 \in 0..RepositoryRetries
    BY DEF IInv, Resume, TypeOK, Goroutine, Counted
  <2> QED BY <2>1 DEF IInv, TypeOK, Resume
<1>2. Goroutine(r)'
  BY DEF IInv, TypeOK, Resume, Goroutine, Counted, Verdict, Exhausted, Retries
<1>3. \A x \in Repos \ {r} :
        repo'[x] = repo[x] /\ tried'[x] = tried[x] /\ (x \in won' <=> x \in won)
  BY DEF IInv, TypeOK, Resume
<1> QED BY <1>1, <1>2, <1>3, AtWork, GoroutineStep DEF Resume

LEMMA StopPauseInv ==
  ASSUME IInv, NEW r \in Repos, StopPause(r)
  PROVE  IInv'
<1> USE RetriesType, AppAssumption
<1>1. TypeOK'
  BY DEF IInv, TypeOK, StopPause, Fail
<1>2. Goroutine(r)'
  BY DEF IInv, TypeOK, StopPause, Fail, Goroutine, Counted, Verdict, Exhausted, Retries
<1>3. \A x \in Repos \ {r} :
        repo'[x] = repo[x] /\ tried'[x] = tried[x] /\ (x \in won' <=> x \in won)
  BY DEF IInv, TypeOK, StopPause, Fail
<1> QED BY <1>1, <1>2, <1>3, AtWork, GoroutineStep DEF StopPause

(* Other processes touch nothing but their locks. *)
LEMMA ForeignInv ==
  ASSUME IInv, NEW r \in Repos, ForeignLocks(r) \/ ForeignUnlocks(r)
  PROVE  IInv'
<1>1. TypeOK'
  BY DEF IInv, TypeOK, ForeignLocks, ForeignUnlocks, goroutines
<1>2. ASSUME NEW x \in Repos PROVE Goroutine(x)'
  BY DEF IInv, ForeignLocks, ForeignUnlocks, goroutines, Goroutine, Counted, Verdict,
     Exhausted, Retries
<1>3. Quiet' /\ ScheduleKnown' /\ ExitStatus'
  BY DEF IInv, ForeignLocks, ForeignUnlocks, goroutines, Quiet, ScheduleKnown, ExitStatus
<1> QED BY <1>1, <1>2, <1>3 DEF IInv

LEMMA StutterInv ==
  ASSUME IInv, UNCHANGED vars
  PROVE  IInv'
<1>1. TypeOK'
  BY DEF IInv, TypeOK, vars, goroutines
<1>2. ASSUME NEW x \in Repos PROVE Goroutine(x)'
  BY DEF IInv, vars, goroutines, Goroutine, Counted, Verdict, Exhausted, Retries
<1>3. Quiet' /\ ScheduleKnown' /\ ExitStatus'
  BY DEF IInv, vars, goroutines, Quiet, ScheduleKnown, ExitStatus
<1> QED BY <1>1, <1>2, <1>3 DEF IInv

LEMMA NextInv == IInv /\ [Next]_vars => IInv'
<1> SUFFICES ASSUME IInv, [Next]_vars PROVE IInv'
  OBVIOUS
<1>1. CASE Start
  BY <1>1, StartInv
<1>2. CASE CycleEnds
  BY <1>2, CycleEndsInv
<1>3. CASE MakeSchedule
  BY <1>3, MakeScheduleInv
<1>4. CASE Tick
  BY <1>4, TickInv
<1>5. CASE StopWaiting
  BY <1>5, StopWaitingInv
<1>6. CASE Cancel
  BY <1>6, CancelInv
<1>7. ASSUME NEW r \in Repos, Attempt(r) PROVE IInv'
  BY <1>7, AttemptInv
<1>8. ASSUME NEW r \in Repos, Enter(r) PROVE IInv'
  BY <1>8, EnterInv
<1>9. ASSUME NEW r \in Repos, Succeed(r) PROVE IInv'
  BY <1>9, SucceedInv
<1>10. ASSUME NEW r \in Repos, FailAttempt(r) PROVE IInv'
  BY <1>10, FailAttemptInv
<1>11. ASSUME NEW r \in Repos, Resume(r) PROVE IInv'
  BY <1>11, ResumeInv
<1>12. ASSUME NEW r \in Repos, StopPause(r) PROVE IInv'
  BY <1>12, StopPauseInv
<1>13. ASSUME NEW r \in Repos, ForeignLocks(r) \/ ForeignUnlocks(r) PROVE IInv'
  BY <1>13, ForeignInv
<1>14. CASE UNCHANGED vars
  BY <1>14, StutterInv
<1> QED
  BY <1>1, <1>2, <1>3, <1>4, <1>5, <1>6, <1>7, <1>8, <1>9, <1>10, <1>11, <1>12, <1>13, <1>14
  DEF Next, Done

-----------------------------------------------------------------------------
(* Theorems. *)

(* IInv holds in every reachable state. *)
THEOREM Invariance == Spec => []IInv
BY InitInv, NextInv, PTL DEF Spec

(* Every variable keeps its type, for any repositories and retries. *)
THEOREM TypeCorrect == Spec => []TypeOK
<1>1. IInv => TypeOK
  BY DEF IInv
<1> QED BY <1>1, Invariance, PTL

(* A one-shot command succeeds exactly when every repository did; run ends *)
(* well only on a signal.                                                  *)
THEOREM ExitStatusCorrect == Spec => []ExitStatus
<1>1. IInv => ExitStatus
  BY DEF IInv
<1> QED BY <1>1, Invariance, PTL

(* Whatever the other repositories do, one fails only after all its        *)
(* retries, unless a signal arrived.                                       *)
THEOREM RetriesUsed == Spec => []FailureMeansExhausted
<1>1. IInv => FailureMeansExhausted
  BY DEF IInv, FailureMeansExhausted, Goroutine, Exhausted
<1> QED BY <1>1, Invariance, PTL

(* No goroutine of a cycle outlives it. *)
THEOREM NoOverlap == Spec => []CyclesDoNotOverlap
<1>1. IInv => CyclesDoNotOverlap
  BY DEF IInv, Quiet, CyclesDoNotOverlap
<1> QED BY <1>1, Invariance, PTL

(* No attempt follows a success, the last retry or a signal. *)
THEOREM RetriesBounded == Spec => AttemptsBounded
<1> DEFINE Bounded ==
      \A r \in Repos : repo'[r].pc = "lock" /\ repo[r].pc # "lock" =>
        r \notin won /\ tried[r] <= Retries /\ (cancelled => command = "plan")
<1>1. IInv /\ [Next]_vars => [Bounded]_vars
  <2> SUFFICES ASSUME IInv, Next, NEW r \in Repos,
                      repo'[r].pc = "lock", repo[r].pc # "lock"
               PROVE  r \notin won /\ tried[r] <= Retries /\ (cancelled => command = "plan")
    OBVIOUS
  <2>1. Attempt(r)
    <3>1. ~(Start \/ Tick)
      BY DEF Start, Tick, NewCycle, Ready
    <3>2. ~(CycleEnds \/ MakeSchedule \/ StopWaiting \/ Cancel \/ Done)
      BY DEF CycleEnds, MakeSchedule, StopWaiting, Cancel, Done, vars, goroutines
    <3>3. ASSUME NEW x \in Repos,
                 Enter(x) \/ Succeed(x) \/ FailAttempt(x) \/ Resume(x) \/ StopPause(x)
          PROVE  FALSE
      BY <3>3 DEF IInv, TypeOK, Enter, Succeed, FailAttempt, Resume, StopPause, Fail, GoTo
    <3>4. ASSUME NEW x \in Repos, ForeignLocks(x) \/ ForeignUnlocks(x) PROVE FALSE
      BY <3>4 DEF ForeignLocks, ForeignUnlocks, goroutines
    <3>5. ASSUME NEW x \in Repos, Attempt(x) PROVE x = r
      BY <3>5 DEF IInv, TypeOK, Attempt, Fail, GoTo
    <3> QED BY <3>1, <3>2, <3>3, <3>4, <3>5 DEF Next
  <2>2. (cancelled => command = "plan")
    BY <2>1 DEF IInv, TypeOK, Attempt, Fail, GoTo
  <2> QED BY <2>1, <2>2 DEF IInv, Attempt, Goroutine, Counted, Verdict
<1>2. [][Bounded]_vars => AttemptsBounded
  BY PTL DEF AttemptsBounded
<1> QED BY <1>1, <1>2, Invariance, PTL DEF Spec
=============================================================================
