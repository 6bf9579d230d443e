-------------------------------- MODULE App --------------------------------
(***************************************************************************)
(* The commands of mirrorsync above the repositories (internal/app): a     *)
(* cycle runs one goroutine per repository, which retries a failed sync    *)
(* after a pause; run repeats cycles on a schedule until it is stopped.    *)
(*                                                                         *)
(* An attempt is one operation of a repository (modules ApkRepository and  *)
(* AptRepository): it may wait for the repository's lock, which another    *)
(* process may hold, then it works and returns.                            *)
(***************************************************************************)
EXTENDS Integers

CONSTANTS
  Repos,              (* the configured repositories                           *)
  RepositoryRetries   (* sync.repository_retries                               *)

ASSUME AppAssumption == RepositoryRetries \in Nat

Commands == {"plan", "sync", "verify", "prune", "run"}

VARIABLES
  command,    (* the command of this process                                  *)
  schedule,   (* sync.schedule: "none", "good", or "bad" (it is configured,   *)
              (* but scheduler.New rejects it)                                *)
  cancelled,  (* SIGINT or SIGTERM has arrived                                *)
  main,       (* the goroutine of the command                                 *)
  started,    (* the startup sync of run is over                              *)
  status,     (* what the command returned                                    *)
  repo,       (* the goroutine of each repository in the current cycle        *)
  foreign,    (* the repositories whose lock another process holds            *)
  tried,      (* history: attempts of each repository in this cycle           *)
  won         (* history: the repositories that succeeded in this cycle       *)

goroutines == <<main, started, status, repo>>
vars == <<command, schedule, cancelled, goroutines, foreign, tried, won>>

(* eachRepo gets the retries of a sync only. *)
Retries == IF command \in {"sync", "run"} THEN RepositoryRetries ELSE 0

Ready == [pc |-> "ready", attempt |-> 0, err |-> FALSE]

TypeOK ==
  /\ command \in Commands
  /\ schedule \in {"none", "good", "bad"}
  /\ cancelled \in BOOLEAN
  /\ main \in {"start", "cycle", "schedule", "wait", "exit"}
  /\ started \in BOOLEAN
  /\ status \in {"none", "ok", "err"}
  /\ repo \in [Repos -> [pc : {"ready", "lock", "work", "pause", "done"},
                         attempt : 0..RepositoryRetries, err : BOOLEAN]]
  /\ foreign \in SUBSET Repos
  /\ tried \in [Repos -> 0..(RepositoryRetries + 1)]
  /\ won \in SUBSET Repos

Init ==
  /\ command \in Commands
  /\ schedule \in {"none", "good", "bad"}
  /\ cancelled \in BOOLEAN
  /\ main = "start"
  /\ started = FALSE
  /\ status = "none"
  /\ repo = [r \in Repos |-> Ready]
  /\ foreign \in SUBSET Repos
  /\ tried = [r \in Repos |-> 0]
  /\ won = {}

-----------------------------------------------------------------------------
(* The command. *)

NewCycle ==
  /\ main' = "cycle"
  /\ repo' = [r \in Repos |-> Ready]
  /\ tried' = [r \in Repos |-> 0]
  /\ won' = {}

Exit(code) == main' = "exit" /\ status' = code

(* run refuses a configuration without a schedule; else the first cycle.   *)
Start ==
  /\ main = "start"
  /\ \/ /\ command = "run" /\ schedule = "none"
        /\ Exit("err")
        /\ UNCHANGED <<started, repo, tried, won>>
     \/ /\ ~(command = "run" /\ schedule = "none")
        /\ NewCycle
        /\ UNCHANGED <<started, status>>
  /\ UNCHANGED <<command, schedule, cancelled, foreign>>

(* wg.Wait() returns.  A one-shot command joins the errors; run drops them. *)
CycleEnds ==
  /\ main = "cycle"
  /\ \A r \in Repos : repo[r].pc = "done"
  /\ IF command = "run"
     THEN /\ main' = IF started THEN "wait" ELSE "schedule"
          /\ started' = TRUE /\ UNCHANGED status
     ELSE /\ Exit(IF \E r \in Repos : repo[r].err THEN "err" ELSE "ok")
          /\ UNCHANGED started
  /\ UNCHANGED <<command, schedule, cancelled, repo, foreign, tried, won>>

\* Mutant of MakeSchedule: run gives up when the startup sync has failed.
MakeScheduleOnSuccess ==
  /\ main = "schedule"
  /\ \/ (schedule = "bad" \/ \E r \in Repos : repo[r].err) /\ Exit("err")
     \/ schedule = "good" /\ (\A r \in Repos : ~repo[r].err) /\ main' = "wait" /\ UNCHANGED status
  /\ UNCHANGED <<command, schedule, cancelled, started, repo, foreign, tried, won>>

(* scheduler.New, after the startup sync. *)
MakeSchedule ==
  /\ main = "schedule"
  /\ \/ schedule = "bad" /\ Exit("err")
     \/ schedule = "good" /\ main' = "wait" /\ UNCHANGED status
  /\ UNCHANGED <<command, schedule, cancelled, started, repo, foreign, tried, won>>

(* The timer of the next cycle fires, perhaps when the context is done too. *)
Tick ==
  /\ main = "wait"
  /\ NewCycle
  /\ UNCHANGED <<command, schedule, cancelled, started, status, foreign>>

StopWaiting ==
  /\ main = "wait" /\ cancelled
  /\ Exit("ok")
  /\ UNCHANGED <<command, schedule, cancelled, started, repo, foreign, tried, won>>

-----------------------------------------------------------------------------
(* runRepoWithRetries, or the goroutine of collectPlans. *)

GoTo(r, pc) == repo' = [repo EXCEPT ![r].pc = pc]

Fail(r) == repo' = [repo EXCEPT ![r].pc = "done", ![r].err = TRUE]

\* Mutant of Attempt: the goroutine that finds the context done skips wg.Done.
AttemptNotDone(r) ==
  /\ repo[r].pc = "ready" /\ main = "cycle"
  /\ ~cancelled \/ command = "plan"
  /\ tried' = [tried EXCEPT ![r] = @ + 1]
  /\ GoTo(r, "lock")
  /\ UNCHANGED <<command, schedule, cancelled, main, started, status, foreign, won>>

\* Mutant of Attempt: the context is not checked at the head of the loop.
AttemptUnchecked(r) ==
  /\ repo[r].pc = "ready" /\ main = "cycle"
  /\ tried' = [tried EXCEPT ![r] = @ + 1]
  /\ GoTo(r, "lock")
  /\ UNCHANGED <<command, schedule, cancelled, main, started, status, foreign, won>>

(* The next attempt, unless the context is done; a plan does not check.    *)
Attempt(r) ==
  /\ repo[r].pc = "ready" /\ main = "cycle"
  /\ \/ /\ cancelled /\ command # "plan"
        /\ Fail(r) /\ UNCHANGED tried
     \/ /\ ~cancelled \/ command = "plan"
        /\ tried' = [tried EXCEPT ![r] = @ + 1]
        /\ GoTo(r, "lock")
  /\ UNCHANGED <<command, schedule, cancelled, main, started, status, foreign, won>>

(* The runner gets the lock, or needs none (an APK plan or prune). *)
Enter(r) ==
  /\ repo[r].pc = "lock"
  /\ r \notin foreign \/ command \in {"plan", "prune"}
  /\ GoTo(r, "work")
  /\ UNCHANGED <<command, schedule, cancelled, main, started, status, foreign, tried, won>>

Succeed(r) ==
  /\ repo[r].pc = "work"
  /\ GoTo(r, "done")
  /\ won' = won \cup {r}
  /\ UNCHANGED <<command, schedule, cancelled, main, started, status, foreign, tried>>

\* Mutant of FailAttempt: the first attempt is counted as a retry.
FailAttemptEarly(r) ==
  /\ repo[r].pc \in {"lock", "work"}
  /\ \/ (cancelled \/ repo[r].attempt + 1 >= Retries) /\ Fail(r)
     \/ ~cancelled /\ repo[r].attempt + 1 < Retries /\ GoTo(r, "pause")
  /\ UNCHANGED <<command, schedule, cancelled, main, started, status, foreign, tried, won>>

\* Mutant of FailAttempt: the errors of earlier attempts are not looked at.
FailAttemptSwallowed(r) ==
  /\ repo[r].pc \in {"lock", "work"}
  /\ \/ (cancelled \/ repo[r].attempt = Retries) /\ GoTo(r, "done")
     \/ ~cancelled /\ repo[r].attempt < Retries /\ GoTo(r, "pause")
  /\ UNCHANGED <<command, schedule, cancelled, main, started, status, foreign, tried, won>>

(* The attempt returns an error: with the context done or no retry left,   *)
(* so does the repository; else a pause.  Taking the lock may fail, too.   *)
FailAttempt(r) ==
  /\ repo[r].pc \in {"lock", "work"}
  /\ \/ (cancelled \/ repo[r].attempt = Retries) /\ Fail(r)
     \/ ~cancelled /\ repo[r].attempt < Retries /\ GoTo(r, "pause")
  /\ UNCHANGED <<command, schedule, cancelled, main, started, status, foreign, tried, won>>

(* The pause is over, by the timer or by the context. *)
Resume(r) ==
  /\ repo[r].pc = "pause"
  /\ repo' = [repo EXCEPT ![r].pc = "ready", ![r].attempt = @ + 1]
  /\ UNCHANGED <<command, schedule, cancelled, main, started, status, foreign, tried, won>>

StopPause(r) ==
  /\ repo[r].pc = "pause" /\ cancelled
  /\ Fail(r)
  /\ UNCHANGED <<command, schedule, cancelled, main, started, status, foreign, tried, won>>

-----------------------------------------------------------------------------
(* The environment. *)

Cancel ==
  /\ ~cancelled /\ main # "exit"
  /\ cancelled' = TRUE
  /\ UNCHANGED <<command, schedule, goroutines, foreign, tried, won>>

(* Another process takes the lock of a repository, or lets it go. *)
ForeignLocks(r) ==
  /\ r \notin foreign
  /\ repo[r].pc # "work" \/ command \in {"plan", "prune"}
  /\ foreign' = foreign \cup {r}
  /\ UNCHANGED <<command, schedule, cancelled, goroutines, tried, won>>

ForeignUnlocks(r) ==
  /\ r \in foreign
  /\ foreign' = foreign \ {r}
  /\ UNCHANGED <<command, schedule, cancelled, goroutines, tried, won>>

Done == main = "exit" /\ UNCHANGED vars

Next ==
  \/ Start \/ CycleEnds \/ MakeSchedule \/ Tick \/ StopWaiting \/ Cancel \/ Done
  \/ \E r \in Repos :
       \/ Attempt(r) \/ Enter(r) \/ Succeed(r) \/ FailAttempt(r)
       \/ Resume(r) \/ StopPause(r)
       \/ ForeignLocks(r) \/ ForeignUnlocks(r)

Spec == Init /\ [][Next]_vars

(* Goroutines run when they can and timers fire; a select that finds both  *)
(* the timer and the context ready again and again takes the context some  *)
(* time; a waiter gets a lock that is free again and again; an operation   *)
(* that works ends once the context is done.  Nothing makes one end before *)
(* that, and the context does not end the wait for a lock.                 *)
Fairness ==
  /\ WF_vars(Start \/ CycleEnds \/ MakeSchedule)
  /\ WF_vars(Tick \/ StopWaiting) /\ SF_vars(StopWaiting)
  /\ \A r \in Repos :
       /\ WF_vars(Attempt(r) \/ Resume(r) \/ StopPause(r))
       /\ SF_vars(Enter(r))
       /\ WF_vars(cancelled /\ repo[r].pc = "work" /\ (Succeed(r) \/ FailAttempt(r)))

LiveSpec == Spec /\ Fairness

-----------------------------------------------------------------------------
(* Properties. *)

(* spec.md:712-714, 755-756: a one-shot command waits for every repository *)
(* and succeeds only when each of them did; run ends only when it is told  *)
(* to, or when it has no usable schedule.                                  *)
ExitStatus ==
  main = "exit" =>
    IF command = "run" THEN IF schedule = "good" THEN cancelled /\ status = "ok"
                                                 ELSE status = "err"
                       ELSE status = IF won = Repos THEN "ok" ELSE "err"

(* spec.md:715-722: a repository that succeeded is not run again in its    *)
(* cycle, only a sync is retried, and after a signal no attempt begins.    *)
AttemptsBounded ==
  [][\A r \in Repos : repo'[r].pc = "lock" /\ repo[r].pc # "lock" =>
       r \notin won /\ tried[r] <= Retries /\ (cancelled => command = "plan")]_vars

(* Without a signal a repository fails only after it used all its retries, *)
(* whatever the others do.                                                 *)
FailureMeansExhausted ==
  \A r \in Repos : repo[r].pc = "done" /\ repo[r].err /\ ~cancelled => tried[r] = Retries + 1

(* spec.md:355: the goroutines of a cycle are over before the next one, or *)
(* the end of the command.                                                 *)
CyclesDoNotOverlap ==
  main \in {"schedule", "wait", "exit"} => \A r \in Repos : repo[r].pc \in {"done", "ready"}

(* After a signal the command returns, if no other process keeps a lock    *)
(* for ever.                                                               *)
CancelStops ==
  (\A r \in Repos : []<>(r \notin foreign)) => (cancelled ~> main = "exit")

(* spec.md:362-363: as long as operations end, run goes from cycle to      *)
(* cycle, whatever fails, until a signal arrives.                          *)
CyclesGoOn ==
  (\A r \in Repos : []<>(repo[r].pc \notin {"lock", "work"})) =>
    (command = "run" /\ schedule = "good" =>
       <>cancelled \/ ([]<>(main = "cycle") /\ []<>(main = "wait")))
=============================================================================
