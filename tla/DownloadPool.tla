---------------------------- MODULE DownloadPool ----------------------------
(***************************************************************************)
(* The worker pool of internal/download/download.go: ResolveExact (which   *)
(* asks for optional files and reports the ones that exist) and ensureMany *)
(* (EnsureSynced, EnsureRepaired and their payload variants).              *)
(*                                                                         *)
(* One producer hands files to the workers over an unbuffered channel and  *)
(* stops early when the errgroup's context is done; every worker looks for *)
(* a reusable local copy, then asks the sources in order.  The context is  *)
(* done once the caller cancels it or a worker returns an error.           *)
(*                                                                         *)
(* Left out: what a transfer writes (module FileTransfer) and the request  *)
(* limits.  Files are fed in any order, which is what Go's map iteration   *)
(* does for payloads; for the slices the order is fixed but the files are  *)
(* interchangeable.                                                        *)
(***************************************************************************)
EXTENDS Integers, FiniteSets, Functions

CONSTANTS
  Files,        (* the expected files of one call                            *)
  Reusable,     (* those ResolveExact may take from disk (reusableLocal)     *)
  NSources,     (* number of clients; the last one is the authoritative one  *)
  Limits,       (* MaxInFlightRequests of each client, as configured         *)
  NoFile        (* what an idle worker holds                                 *)

ASSUME PoolAssumption ==
  /\ IsFiniteSet(Files) /\ Files # {}
  /\ Reusable \subseteq Files
  /\ NSources \in Nat \ {0}
  /\ Limits \in [1..NSources -> Int]
  /\ NoFile \notin Files

(* workerCount: a limit that is not positive counts as one, and there are  *)
(* never more workers than files.                                          *)
WorkerCount ==
  LET share == [i \in 1..NSources |-> IF Limits[i] <= 0 THEN 1 ELSE Limits[i]]
      total == FoldFunction(+, 0, share)
      files == Cardinality(Files)
  IN  IF total > files THEN files ELSE total

Workers == 1..WorkerCount

Ops      == {"resolve", "ensure"}
Answers  == {"ok", "404", "fail"}
Outcomes == {"none", "present", "missing", "failed"}

VARIABLES
  op,         (* which of the two functions is running                       *)
  cancelled,  (* the caller's context is cancelled                           *)
  feeder,     (* the producer: "feeding", "waiting" (in g.Wait) or "returned" *)
  pending,    (* files not yet handed to a worker                            *)
  abandoned,  (* the producer left its loop through ctx.Done()               *)
  worker,     (* [st, file, src] of every goroutine of the group             *)
  groupErr,   (* a worker returned an error                                  *)
  outcome,    (* what the worker of each file decided                        *)
  answer,     (* history: what each source answered for each file            *)
  result      (* what the call returned: an error flag and the resolved set  *)

vars == <<op, cancelled, feeder, pending, abandoned, worker, groupErr,
          outcome, answer, result>>

ctxDone == cancelled \/ groupErr

NoResult == [err |-> FALSE, resolved |-> {}]

TypeOK ==
  /\ op \in Ops
  /\ cancelled \in BOOLEAN
  /\ feeder \in {"feeding", "waiting", "returned"}
  /\ pending \in SUBSET Files
  /\ abandoned \in BOOLEAN
  /\ worker \in [Workers -> [st   : {"idle", "check", "ask", "await", "exit"},
                             file : Files \cup {NoFile},
                             src  : 1..NSources]]
  /\ groupErr \in BOOLEAN
  /\ outcome \in [Files -> Outcomes]
  /\ answer \in [Files -> [1..NSources -> Answers \cup {"unasked"}]]
  /\ result \in [err : BOOLEAN, resolved : SUBSET Files]

Init ==
  /\ op \in Ops
  /\ cancelled \in BOOLEAN
  /\ feeder = "feeding"
  /\ pending = Files
  /\ abandoned = FALSE
  /\ worker = [w \in Workers |-> [st |-> "idle", file |-> NoFile, src |-> 1]]
  /\ groupErr = FALSE
  /\ outcome = [f \in Files |-> "none"]
  /\ answer = [f \in Files |-> [s \in 1..NSources |-> "unasked"]]
  /\ result = NoResult

-----------------------------------------------------------------------------
(* The producer. *)

\* Mutant of Hand: the job is not taken off the list.
HandTwice(w, f) ==
  /\ feeder = "feeding"
  /\ f \in pending
  /\ worker[w].st = "idle"
  /\ worker' = [worker EXCEPT ![w] = [st |-> "check", file |-> f, src |-> 1]]
  /\ UNCHANGED <<op, cancelled, feeder, pending, abandoned, groupErr, outcome, answer, result>>

(* `case jobs <- exp`: the unbuffered send meets a worker in its range loop. *)
Hand(w, f) ==
  /\ feeder = "feeding"
  /\ f \in pending
  /\ worker[w].st = "idle"
  /\ pending' = pending \ {f}
  /\ worker' = [worker EXCEPT ![w] = [st |-> "check", file |-> f, src |-> 1]]
  /\ UNCHANGED <<op, cancelled, feeder, abandoned, groupErr, outcome, answer, result>>

(* All files are handed over: close(jobs), then g.Wait(). *)
Close ==
  /\ feeder = "feeding"
  /\ pending = {}
  /\ feeder' = "waiting"
  /\ UNCHANGED <<op, cancelled, pending, abandoned, worker, groupErr, outcome, answer, result>>

\* Mutant of Abandon: the producer watches the caller's context, not the group's.
AbandonOnCancelOnly ==
  /\ feeder = "feeding"
  /\ pending # {}
  /\ cancelled
  /\ feeder' = "waiting"
  /\ abandoned' = TRUE
  /\ UNCHANGED <<op, cancelled, pending, worker, groupErr, outcome, answer, result>>

(* `case <-ctx.Done()`: the rest of the files is dropped. *)
Abandon ==
  /\ feeder = "feeding"
  /\ pending # {}
  /\ ctxDone
  /\ feeder' = "waiting"
  /\ abandoned' = TRUE
  /\ UNCHANGED <<op, cancelled, pending, worker, groupErr, outcome, answer, result>>

(* g.Wait() returns once every goroutine has; ResolveExact collects the    *)
(* files that were found only when its loop ran to the end.                *)
Return ==
  /\ feeder = "waiting"
  /\ \A w \in Workers : worker[w].st = "exit"
  /\ feeder' = "returned"
  /\ result' = [err      |-> groupErr,
                resolved |-> IF op = "resolve" /\ ~groupErr /\ ~abandoned
                             THEN {f \in Files : outcome[f] = "present"}
                             ELSE {}]
  /\ UNCHANGED <<op, cancelled, pending, abandoned, worker, groupErr, outcome, answer>>

-----------------------------------------------------------------------------
(* The workers. *)

(* The range loop ends when the channel is closed. *)
Exit(w) ==
  /\ worker[w].st = "idle"
  /\ feeder = "waiting"
  /\ worker' = [worker EXCEPT ![w].st = "exit"]
  /\ UNCHANGED <<op, cancelled, feeder, pending, abandoned, groupErr, outcome, answer, result>>

(* The worker decided its file and goes back to the range loop. *)
Settle(w, verdict) ==
  /\ outcome' = [outcome EXCEPT ![worker[w].file] = verdict]
  /\ worker' = [worker EXCEPT ![w] = [st |-> "idle", file |-> NoFile, src |-> 1]]
  /\ UNCHANGED groupErr

\* Mutant of Fail: the worker ends without returning its error.
FailSwallowed(w) ==
  /\ outcome' = [outcome EXCEPT ![worker[w].file] = "failed"]
  /\ worker' = [worker EXCEPT ![w] = [st |-> "exit", file |-> NoFile, src |-> 1]]
  /\ UNCHANGED groupErr

(* The worker returns an error: errgroup keeps it and cancels the context. *)
Fail(w) ==
  /\ outcome' = [outcome EXCEPT ![worker[w].file] = "failed"]
  /\ worker' = [worker EXCEPT ![w] = [st |-> "exit", file |-> NoFile, src |-> 1]]
  /\ groupErr' = TRUE

(* publish.Verify of the staged and published copies; it never looks at    *)
(* the context.                                                            *)
CheckLocal(w) ==
  /\ worker[w].st = "check"
  /\ \/ /\ op = "ensure" \/ worker[w].file \in Reusable
        /\ Settle(w, "present")
     \/ /\ op = "ensure" \/ worker[w].file \in Reusable
        /\ Fail(w)
     \/ /\ worker' = [worker EXCEPT ![w].st = "ask"]
        /\ UNCHANGED <<outcome, groupErr>>
  /\ UNCHANGED <<op, cancelled, feeder, pending, abandoned, answer, result>>

(* client.Do: a request is sent only while the context is live. *)
Ask(w) ==
  /\ worker[w].st = "ask"
  /\ ~ctxDone
  /\ worker' = [worker EXCEPT ![w].st = "await"]
  /\ UNCHANGED <<op, cancelled, feeder, pending, abandoned, groupErr, outcome, answer, result>>

\* Mutant of React: a 404 of any source, not only the last, means missing.
ReactAnyMissing(w, a) ==
  LET s == worker[w].src
  IN  /\ answer' = [answer EXCEPT ![worker[w].file][s] = a]
      /\ \/ a = "ok" /\ Settle(w, "present")
         \/ /\ a = "fail" /\ s < NSources
            /\ worker' = [worker EXCEPT ![w].st = "ask", ![w].src = s + 1]
            /\ UNCHANGED <<outcome, groupErr>>
         \/ a = "404" /\ Settle(w, "missing")
         \/ a = "fail" /\ s = NSources /\ Fail(w)

(* What a worker does with the answer a of its current source: a failure   *)
(* moves on to the next source; after the last one ResolveExact reports a  *)
(* 404 as missing, and everything else is an error.  A complete transfer   *)
(* that PublishFile cannot put in place is an error at once.               *)
React(w, a) ==
  LET s == worker[w].src
  IN  /\ answer' = [answer EXCEPT ![worker[w].file][s] = a]
      /\ \/ a = "ok" /\ Settle(w, "present")
         \/ a = "ok" /\ op = "ensure" /\ Fail(w)
         \/ /\ a # "ok" /\ s < NSources
            /\ worker' = [worker EXCEPT ![w].st = "ask", ![w].src = s + 1]
            /\ UNCHANGED <<outcome, groupErr>>
         \/ /\ a = "404" /\ s = NSources /\ op = "resolve"
            /\ Settle(w, "missing")
         \/ /\ a # "ok" /\ s = NSources
            /\ ~(a = "404" /\ op = "resolve")
            /\ Fail(w)

(* A source answers; the transfer may already be complete when the context *)
(* is cancelled.                                                           *)
Answer(w) ==
  /\ worker[w].st = "await"
  /\ \E a \in Answers : React(w, a)
  /\ UNCHANGED <<op, cancelled, feeder, pending, abandoned, result>>

(* The context ends a request that is out, or keeps it from being sent. *)
Abort(w) ==
  /\ worker[w].st \in {"ask", "await"}
  /\ ctxDone
  /\ React(w, "fail")
  /\ UNCHANGED <<op, cancelled, feeder, pending, abandoned, result>>

(* The caller cancels: SIGINT or SIGTERM reached the command. *)
Cancel ==
  /\ ~cancelled
  /\ feeder # "returned"
  /\ cancelled' = TRUE
  /\ UNCHANGED <<op, feeder, pending, abandoned, worker, groupErr, outcome, answer, result>>

(* The call is over. *)
Done == feeder = "returned" /\ UNCHANGED vars

Next ==
  \/ Close \/ Abandon \/ Return \/ Cancel \/ Done
  \/ \E w \in Workers :
       \/ \E f \in Files : Hand(w, f)
       \/ Exit(w) \/ CheckLocal(w) \/ Ask(w) \/ Answer(w) \/ Abort(w)

Spec == Init /\ [][Next]_vars

(* Goroutines run when they can and a cancelled context ends a request.    *)
(* Nothing is assumed of the sources: the http.Client has no timeout.      *)
Running(w) ==
  \/ \E f \in Files : Hand(w, f)
  \/ Exit(w) \/ CheckLocal(w) \/ Ask(w) \/ Abort(w)

Fairness ==
  /\ WF_vars(Close \/ Abandon \/ Return)
  /\ \A w \in Workers : WF_vars(Running(w))

LiveSpec == Spec /\ Fairness

-----------------------------------------------------------------------------
(* Properties. *)

AuthoritativelyMissing(f) ==
  /\ answer[f][NSources] = "404"
  /\ \A s \in 1..(NSources - 1) : answer[f][s] \in {"404", "fail"}

(* A call whose context the caller did not cancel and that reports no      *)
(* error has dealt with every file: ensureMany left each one present, and  *)
(* ResolveExact leaves out only files whose last source answered 404 after *)
(* all the others failed -- however workers, errors and the producer's     *)
(* early exit interleave.                                                  *)
OkMeansComplete ==
  feeder = "returned" /\ ~result.err /\ ~cancelled =>
    \A f \in Files :
      \/ op = "ensure" /\ outcome[f] = "present"
      \/ op = "resolve" /\ f \in result.resolved
      \/ op = "resolve" /\ AuthoritativelyMissing(f)

(* The found slice is shared without a lock: no two goroutines ever hold   *)
(* the same file, and none holds one that is still to be handed out.       *)
OneWorkerPerFile ==
  \A w \in Workers : worker[w].file # NoFile =>
    /\ worker[w].file \notin pending
    /\ outcome[worker[w].file] = "none"
    /\ \A v \in Workers \ {w} : worker[v].file # worker[w].file

(* A file that failed is never forgotten: the call returns an error even   *)
(* when the failure and the caller's cancellation race.                    *)
FailureIsReported ==
  feeder = "returned" /\ (\E f \in Files : outcome[f] = "failed") => result.err

(* Once the context is done, by cancellation or by another worker's error, *)
(* the call returns, even if no source ever answers again: the producer is *)
(* never left blocked on a channel nobody reads.                           *)
CancelEndsCall == ctxDone ~> feeder = "returned"
=============================================================================
