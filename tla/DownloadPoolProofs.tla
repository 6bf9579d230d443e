------------------------- MODULE DownloadPoolProofs -------------------------
(***************************************************************************)
(* Proofs about DownloadPool, for any set of files, any number of sources  *)
(* and any limits: the type invariant, OneWorkerPerFile, FailureIsReported *)
(* and OkMeansComplete.                                                    *)
(*                                                                         *)
(* OkMeansComplete speaks of the state after the return, so the inductive  *)
(* invariant has to follow each file through the pool: it is still to be   *)
(* handed out, held by exactly one worker, or decided (Covered); a worker  *)
(* asks source s only after all earlier ones failed (EarlierFailed); and   *)
(* the producer drops files only when the context is done (FeederFacts).   *)
(***************************************************************************)
EXTENDS DownloadPool, TLAPS

Failures == {"404", "fail"}

(* A worker holds a file exactly while it works on one. *)
WorkerShape ==
  \A w \in Workers :
    worker[w].file = NoFile <=> worker[w].st \in {"idle", "exit"}

(* No file is lost between the producer and the verdicts. *)
Covered ==
  \A f \in Files :
    \/ f \in pending
    \/ outcome[f] # "none"
    \/ \E w \in Workers : worker[w].file = f

(* A file that is still to be handed out is undecided. *)
PendingUndecided ==
  \A f \in pending : outcome[f] = "none"

(* What a worker knows about the sources before the current one. *)
EarlierFailed ==
  \A w \in Workers : worker[w].file # NoFile =>
    \A s \in 1..NSources : s < worker[w].src =>
      answer[worker[w].file][s] \in Failures

(* What each verdict rests on. *)
Verdicts ==
  \A f \in Files :
    /\ outcome[f] = "failed" => groupErr
    /\ outcome[f] = "missing" => op = "resolve" /\ AuthoritativelyMissing(f)

(* The producer leaves its loop with nothing pending or through ctx.Done(). *)
FeederFacts ==
  /\ feeder # "feeding" => pending = {} \/ abandoned
  /\ abandoned => ctxDone

(* The result is what Return computed, and nothing moves afterwards. *)
ResultFacts ==
  feeder = "returned" =>
    /\ \A w \in Workers : worker[w].st = "exit"
    /\ result.err = groupErr
    /\ op = "resolve" /\ ~groupErr /\ ~abandoned =>
         result.resolved = {f \in Files : outcome[f] = "present"}

IInv ==
  /\ TypeOK /\ WorkerShape /\ OneWorkerPerFile
  /\ Covered /\ PendingUndecided /\ EarlierFailed /\ Verdicts
  /\ FeederFacts /\ ResultFacts

-----------------------------------------------------------------------------
(* The initial states. *)
LEMMA InitInv == Init => IInv
<1> SUFFICES ASSUME Init PROVE IInv
  OBVIOUS
<1>1. TypeOK
  <2>1. worker \in [Workers -> [st : {"idle", "check", "ask", "await", "exit"},
                              file : Files \cup {NoFile}, src : 1..NSources]]
    BY PoolAssumption DEF Init
  <2>2. answer \in [Files -> [1..NSources -> Answers \cup {"unasked"}]]
    BY DEF Init
  <2>3. result \in [err : BOOLEAN, resolved : SUBSET Files]
    BY DEF Init, NoResult
  <2> QED BY <2>1, <2>2, <2>3 DEF Init, TypeOK, Ops, Outcomes
<1>2. WorkerShape
  BY PoolAssumption DEF Init, WorkerShape
<1>3. OneWorkerPerFile
  BY PoolAssumption DEF Init, OneWorkerPerFile
<1>4. Covered
  BY PoolAssumption DEF Init, Covered
<1>5. PendingUndecided
  BY PoolAssumption DEF Init, PendingUndecided
<1>6. EarlierFailed
  BY PoolAssumption DEF Init, EarlierFailed, Failures
<1>7. Verdicts
  BY PoolAssumption DEF Init, Verdicts, AuthoritativelyMissing
<1>8. FeederFacts
  BY PoolAssumption DEF Init, FeederFacts, ctxDone
<1>9. ResultFacts
  BY PoolAssumption DEF Init, ResultFacts
<1> QED BY <1>1, <1>2, <1>3, <1>4, <1>5, <1>6, <1>7, <1>8, <1>9 DEF IInv

(* The producer has handed out every file. *)
LEMMA CloseInv ==
  ASSUME IInv, Close
  PROVE  IInv'
<1>1. TypeOK'
  BY DEF IInv, Close, TypeOK, Ops, Answers, Outcomes, WorkerShape
<1>2. WorkerShape'
  BY DEF IInv, Close, WorkerShape, TypeOK
<1>3. OneWorkerPerFile'
  BY DEF IInv, Close, OneWorkerPerFile, TypeOK,
     WorkerShape, PendingUndecided
<1>4. Covered'
  BY DEF IInv, Close, Covered, TypeOK, WorkerShape,
     OneWorkerPerFile
<1>5. PendingUndecided'
  BY DEF IInv, Close, PendingUndecided, TypeOK,
     OneWorkerPerFile
<1>6. EarlierFailed'
  BY DEF IInv, Close, EarlierFailed, Failures, TypeOK, WorkerShape, OneWorkerPerFile
<1>7. Verdicts'
  BY DEF IInv, Close, Verdicts, AuthoritativelyMissing, TypeOK, OneWorkerPerFile, EarlierFailed, Failures
<1>8. FeederFacts'
  BY DEF IInv, Close, FeederFacts, ctxDone, TypeOK
<1>9. ResultFacts'
  BY DEF IInv, Close, ResultFacts, TypeOK,
     WorkerShape
<1> QED BY <1>1, <1>2, <1>3, <1>4, <1>5, <1>6, <1>7, <1>8, <1>9 DEF IInv

(* The producer drops the rest. *)
LEMMA AbandonInv ==
  ASSUME IInv, Abandon
  PROVE  IInv'
<1>1. TypeOK'
  BY DEF IInv, Abandon, TypeOK, Ops, Answers, Outcomes, WorkerShape
<1>2. WorkerShape'
  BY DEF IInv, Abandon, WorkerShape, TypeOK
<1>3. OneWorkerPerFile'
  BY DEF IInv, Abandon, OneWorkerPerFile, TypeOK,
     WorkerShape, PendingUndecided
<1>4. Covered'
  BY DEF IInv, Abandon, Covered, TypeOK,
     WorkerShape, OneWorkerPerFile
<1>5. PendingUndecided'
  BY DEF IInv, Abandon, PendingUndecided, TypeOK,
     OneWorkerPerFile
<1>6. EarlierFailed'
  BY DEF IInv, Abandon, EarlierFailed, Failures, TypeOK, WorkerShape, OneWorkerPerFile
<1>7. Verdicts'
  BY DEF IInv, Abandon, Verdicts, AuthoritativelyMissing, TypeOK, OneWorkerPerFile, EarlierFailed, Failures
<1>8. FeederFacts'
  BY DEF IInv, Abandon, FeederFacts, ctxDone, TypeOK
<1>9. ResultFacts'
  BY DEF IInv, Abandon, ResultFacts, TypeOK,
     WorkerShape
<1> QED BY <1>1, <1>2, <1>3, <1>4, <1>5, <1>6, <1>7, <1>8, <1>9 DEF IInv

(* The call returns. *)
LEMMA ReturnInv ==
  ASSUME IInv, Return
  PROVE  IInv'
<1>1. TypeOK'
  BY DEF IInv, Return, TypeOK, Ops, Answers, Outcomes, WorkerShape
<1>2. WorkerShape'
  BY DEF IInv, Return, WorkerShape, TypeOK
<1>3. OneWorkerPerFile'
  BY DEF IInv, Return, OneWorkerPerFile, TypeOK,
     WorkerShape, PendingUndecided
<1>4. Covered'
  BY DEF IInv, Return, Covered, TypeOK, WorkerShape,
     OneWorkerPerFile
<1>5. PendingUndecided'
  BY DEF IInv, Return, PendingUndecided, TypeOK,
     OneWorkerPerFile
<1>6. EarlierFailed'
  BY DEF IInv, Return, EarlierFailed, Failures, TypeOK, WorkerShape, OneWorkerPerFile
<1>7. Verdicts'
  BY DEF IInv, Return, Verdicts, AuthoritativelyMissing, TypeOK, OneWorkerPerFile, EarlierFailed, Failures
<1>8. FeederFacts'
  BY DEF IInv, Return, FeederFacts, ctxDone, TypeOK
<1>9. ResultFacts'
  BY DEF IInv, Return, ResultFacts, TypeOK,
     WorkerShape
<1> QED BY <1>1, <1>2, <1>3, <1>4, <1>5, <1>6, <1>7, <1>8, <1>9 DEF IInv

(* The caller cancels. *)
LEMMA CancelInv ==
  ASSUME IInv, Cancel
  PROVE  IInv'
<1>1. TypeOK'
  BY DEF IInv, Cancel, TypeOK, Ops, Answers, Outcomes, WorkerShape
<1>2. WorkerShape'
  BY DEF IInv, Cancel, WorkerShape, TypeOK
<1>3. OneWorkerPerFile'
  BY DEF IInv, Cancel, OneWorkerPerFile, TypeOK,
     WorkerShape, PendingUndecided
<1>4. Covered'
  BY DEF IInv, Cancel, Covered, TypeOK, WorkerShape,
     OneWorkerPerFile
<1>5. PendingUndecided'
  BY DEF IInv, Cancel, PendingUndecided, TypeOK,
     OneWorkerPerFile
<1>6. EarlierFailed'
  BY DEF IInv, Cancel, EarlierFailed, Failures, TypeOK, WorkerShape, OneWorkerPerFile
<1>7. Verdicts'
  BY DEF IInv, Cancel, Verdicts, AuthoritativelyMissing, TypeOK, OneWorkerPerFile, EarlierFailed, Failures
<1>8. FeederFacts'
  BY DEF IInv, Cancel, FeederFacts, ctxDone, TypeOK
<1>9. ResultFacts'
  BY DEF IInv, Cancel, ResultFacts, TypeOK,
     WorkerShape
<1> QED BY <1>1, <1>2, <1>3, <1>4, <1>5, <1>6, <1>7, <1>8, <1>9 DEF IInv

(* A worker takes a file. *)
LEMMA HandInv ==
  ASSUME IInv, NEW w \in Workers, NEW f \in Files, Hand(w, f)
  PROVE  IInv'
<1>1. TypeOK'
  BY PoolAssumption DEF IInv, Hand, TypeOK, Ops, Answers, Outcomes,
     WorkerShape
<1>2. WorkerShape'
  BY PoolAssumption DEF IInv, Hand, WorkerShape, TypeOK
<1>3. OneWorkerPerFile'
  BY PoolAssumption DEF IInv, Hand, OneWorkerPerFile, TypeOK, WorkerShape, PendingUndecided
<1>4. Covered'
  BY PoolAssumption DEF IInv, Hand, Covered, TypeOK,
     WorkerShape, OneWorkerPerFile
<1>5. PendingUndecided'
  BY PoolAssumption DEF IInv, Hand, PendingUndecided, TypeOK, OneWorkerPerFile
<1>6. EarlierFailed'
  BY PoolAssumption DEF IInv, Hand, EarlierFailed, Failures, TypeOK, WorkerShape, OneWorkerPerFile
<1>7. Verdicts'
  BY PoolAssumption DEF IInv, Hand, Verdicts, AuthoritativelyMissing,
     TypeOK, OneWorkerPerFile, EarlierFailed,
     Failures
<1>8. FeederFacts'
  BY PoolAssumption DEF IInv, Hand, FeederFacts, ctxDone, TypeOK
<1>9. ResultFacts'
  BY PoolAssumption DEF IInv, Hand, ResultFacts, TypeOK, WorkerShape
<1> QED BY <1>1, <1>2, <1>3, <1>4, <1>5, <1>6, <1>7, <1>8, <1>9 DEF IInv

(* A worker's range loop ends. *)
LEMMA ExitInv ==
  ASSUME IInv, NEW w \in Workers, Exit(w)
  PROVE  IInv'
<1>1. TypeOK'
  BY DEF IInv, Exit, TypeOK, Ops, Answers, Outcomes, WorkerShape
<1>2. WorkerShape'
  BY DEF IInv, Exit, WorkerShape, TypeOK
<1>3. OneWorkerPerFile'
  BY DEF IInv, Exit, OneWorkerPerFile, TypeOK,
     WorkerShape, PendingUndecided
<1>4. Covered'
  BY DEF IInv, Exit, Covered, TypeOK, WorkerShape,
     OneWorkerPerFile
<1>5. PendingUndecided'
  BY DEF IInv, Exit, PendingUndecided, TypeOK,
     OneWorkerPerFile
<1>6. EarlierFailed'
  BY DEF IInv, Exit, EarlierFailed, Failures, TypeOK, WorkerShape, OneWorkerPerFile
<1>7. Verdicts'
  BY DEF IInv, Exit, Verdicts, AuthoritativelyMissing, TypeOK, OneWorkerPerFile, EarlierFailed, Failures
<1>8. FeederFacts'
  BY DEF IInv, Exit, FeederFacts, ctxDone, TypeOK
<1>9. ResultFacts'
  BY DEF IInv, Exit, ResultFacts, TypeOK,
     WorkerShape
<1> QED BY <1>1, <1>2, <1>3, <1>4, <1>5, <1>6, <1>7, <1>8, <1>9 DEF IInv

(* A request is sent. *)
LEMMA AskInv ==
  ASSUME IInv, NEW w \in Workers, Ask(w)
  PROVE  IInv'
<1>1. TypeOK'
  BY DEF IInv, Ask, TypeOK, Ops, Answers, Outcomes, WorkerShape
<1>2. WorkerShape'
  BY DEF IInv, Ask, WorkerShape, TypeOK
<1>3. OneWorkerPerFile'
  BY DEF IInv, Ask, OneWorkerPerFile, TypeOK,
     WorkerShape, PendingUndecided
<1>4. Covered'
  BY DEF IInv, Ask, Covered, TypeOK, WorkerShape,
     OneWorkerPerFile
<1>5. PendingUndecided'
  BY DEF IInv, Ask, PendingUndecided, TypeOK,
     OneWorkerPerFile
<1>6. EarlierFailed'
  BY DEF IInv, Ask, EarlierFailed, Failures, TypeOK,
     WorkerShape, OneWorkerPerFile
<1>7. Verdicts'
  BY DEF IInv, Ask, Verdicts, AuthoritativelyMissing, TypeOK, OneWorkerPerFile, EarlierFailed, Failures
<1>8. FeederFacts'
  BY DEF IInv, Ask, FeederFacts, ctxDone, TypeOK
<1>9. ResultFacts'
  BY DEF IInv, Ask, ResultFacts, TypeOK, WorkerShape
<1> QED BY <1>1, <1>2, <1>3, <1>4, <1>5, <1>6, <1>7, <1>8, <1>9 DEF IInv

(* A worker decides its file g, whatever it wrote in g's own answers. *)
LEMMA SettleInv ==
  ASSUME IInv, NEW w \in Workers, NEW g \in Files, worker[w].file = g,
         NEW v \in {"present", "missing"}, Settle(w, v),
         v = "missing" => op = "resolve" /\ AuthoritativelyMissing(g)',
         UNCHANGED <<op, cancelled, feeder, pending, abandoned, result>>,
         answer' \in [Files -> [1..NSources -> Answers \cup {"unasked"}]],
         \A f \in Files \ {g} : answer'[f] = answer[f]
  PROVE  IInv'
<1>1. TypeOK'
  <2>1. worker' \in [Workers -> [st : {"idle", "check", "ask", "await", "exit"},
                              file : Files \cup {NoFile}, src : 1..NSources]]
    BY PoolAssumption DEF IInv, TypeOK, Settle
  <2>2. outcome' \in [Files -> Outcomes] /\ groupErr' \in BOOLEAN
    BY DEF IInv, TypeOK, Settle, Outcomes
  <2> QED BY <2>1, <2>2 DEF IInv, TypeOK
<1>2. WorkerShape'
  BY PoolAssumption DEF IInv, Settle, WorkerShape, TypeOK
<1>3. OneWorkerPerFile'
  BY PoolAssumption DEF IInv, Settle, OneWorkerPerFile, TypeOK, WorkerShape, PendingUndecided
<1>4. Covered'
  BY PoolAssumption DEF IInv, Settle, Covered, TypeOK, WorkerShape, OneWorkerPerFile
<1>5. PendingUndecided'
  BY PoolAssumption DEF IInv, Settle, PendingUndecided, TypeOK, OneWorkerPerFile
<1>6. EarlierFailed'
  BY PoolAssumption DEF IInv, Settle, EarlierFailed, Failures, TypeOK, WorkerShape, OneWorkerPerFile
<1>7. Verdicts'
  BY PoolAssumption DEF IInv, Settle, Verdicts, AuthoritativelyMissing,
     TypeOK, OneWorkerPerFile, EarlierFailed,
     Failures
<1>8. FeederFacts'
  BY PoolAssumption DEF IInv, Settle, FeederFacts, ctxDone, TypeOK
<1>9. ResultFacts'
  BY PoolAssumption DEF IInv, Settle, ResultFacts, TypeOK, WorkerShape
<1> QED BY <1>1, <1>2, <1>3, <1>4, <1>5, <1>6, <1>7, <1>8, <1>9 DEF IInv

(* A worker gives up on its file g and returns an error. *)
LEMMA FailInv ==
  ASSUME IInv, NEW w \in Workers, NEW g \in Files, worker[w].file = g,
         Fail(w),
         UNCHANGED <<op, cancelled, feeder, pending, abandoned, result>>,
         answer' \in [Files -> [1..NSources -> Answers \cup {"unasked"}]],
         \A f \in Files \ {g} : answer'[f] = answer[f]
  PROVE  IInv'
<1>1. TypeOK'
  <2>1. worker' \in [Workers -> [st : {"idle", "check", "ask", "await", "exit"},
                              file : Files \cup {NoFile}, src : 1..NSources]]
    BY PoolAssumption DEF IInv, TypeOK, Fail
  <2>2. outcome' \in [Files -> Outcomes] /\ groupErr' \in BOOLEAN
    BY DEF IInv, TypeOK, Fail, Outcomes
  <2> QED BY <2>1, <2>2 DEF IInv, TypeOK
<1>2. WorkerShape'
  BY PoolAssumption DEF IInv, Fail, WorkerShape, TypeOK
<1>3. OneWorkerPerFile'
  BY PoolAssumption DEF IInv, Fail, OneWorkerPerFile, TypeOK, WorkerShape, PendingUndecided
<1>4. Covered'
  BY PoolAssumption DEF IInv, Fail, Covered, TypeOK,
     WorkerShape, OneWorkerPerFile
<1>5. PendingUndecided'
  BY PoolAssumption DEF IInv, Fail, PendingUndecided, TypeOK, OneWorkerPerFile
<1>6. EarlierFailed'
  BY PoolAssumption DEF IInv, Fail, EarlierFailed, Failures, TypeOK, WorkerShape, OneWorkerPerFile
<1>7. Verdicts'
  BY PoolAssumption DEF IInv, Fail, Verdicts, AuthoritativelyMissing,
     TypeOK, OneWorkerPerFile, EarlierFailed,
     Failures
<1>8. FeederFacts'
  BY PoolAssumption DEF IInv, Fail, FeederFacts, ctxDone, TypeOK
<1>9. ResultFacts'
  BY PoolAssumption DEF IInv, Fail, ResultFacts, TypeOK, WorkerShape
<1> QED BY <1>1, <1>2, <1>3, <1>4, <1>5, <1>6, <1>7, <1>8, <1>9 DEF IInv

(* A worker looks at the disk. *)
LEMMA CheckLocalInv ==
  ASSUME IInv, NEW w \in Workers, CheckLocal(w)
  PROVE  IInv'
<1> DEFINE g == worker[w].file
<1>1. g \in Files
  BY DEF IInv, TypeOK, WorkerShape, CheckLocal
<1>2. answer' \in [Files -> [1..NSources -> Answers \cup {"unasked"}]]
  BY DEF IInv, TypeOK, CheckLocal
<1>3. CASE Settle(w, "present")
  BY <1>1, <1>2, <1>3, SettleInv DEF CheckLocal
<1>4. CASE Fail(w)
  BY <1>1, <1>2, <1>4, FailInv DEF CheckLocal
<1>5. CASE /\ worker' = [worker EXCEPT ![w].st = "ask"]
           /\ UNCHANGED <<outcome, groupErr>>
  <2>1. TypeOK'
    BY <1>5 DEF IInv, CheckLocal, TypeOK, Ops, Answers, Outcomes,
       WorkerShape
  <2>2. WorkerShape'
    BY <1>5 DEF IInv, CheckLocal, WorkerShape, TypeOK
  <2>3. OneWorkerPerFile'
    BY <1>5 DEF IInv, CheckLocal, OneWorkerPerFile, TypeOK, WorkerShape, PendingUndecided
  <2>4. Covered'
    BY <1>5 DEF IInv, CheckLocal, Covered, TypeOK,
       WorkerShape, OneWorkerPerFile
  <2>5. PendingUndecided'
    BY <1>5 DEF IInv, CheckLocal, PendingUndecided, TypeOK, OneWorkerPerFile
  <2>6. EarlierFailed'
    BY <1>5 DEF IInv, CheckLocal, EarlierFailed, Failures, TypeOK, WorkerShape, OneWorkerPerFile
  <2>7. Verdicts'
    BY <1>5 DEF IInv, CheckLocal, Verdicts, AuthoritativelyMissing, TypeOK, OneWorkerPerFile, EarlierFailed, Failures
  <2>8. FeederFacts'
    BY <1>5 DEF IInv, CheckLocal, FeederFacts, ctxDone, TypeOK
  <2>9. ResultFacts'
    BY <1>5 DEF IInv, CheckLocal, ResultFacts, TypeOK, WorkerShape
  <2> QED BY <2>1, <2>2, <2>3, <2>4, <2>5, <2>6, <2>7, <2>8, <2>9 DEF IInv
<1> QED BY <1>3, <1>4, <1>5 DEF CheckLocal

(* A worker reacts to an answer, or to the end of the context. *)
LEMMA ReactInv ==
  ASSUME IInv, NEW w \in Workers, NEW a \in Answers,
         worker[w].st \in {"ask", "await"}, React(w, a),
         UNCHANGED <<op, cancelled, feeder, pending, abandoned, result>>
  PROVE  IInv'
<1>0. /\ worker[w].file \in Files
      /\ worker[w].src \in 1..NSources
  BY DEF IInv, TypeOK, WorkerShape
<1> PICK g \in Files, s \in 1..NSources : g = worker[w].file /\ s = worker[w].src
  BY <1>0
<1>1. /\ worker \in [Workers -> [st : {"idle", "check", "ask", "await", "exit"},
                                 file : Files \cup {NoFile}, src : 1..NSources]]
      /\ answer \in [Files -> [1..NSources -> Answers \cup {"unasked"}]]
  BY DEF IInv, TypeOK, WorkerShape
<1>2. /\ answer' = [answer EXCEPT ![g][s] = a]
      /\ answer' \in [Files -> [1..NSources -> Answers \cup {"unasked"}]]
      /\ \A f \in Files \ {g} : answer'[f] = answer[f]
      /\ answer'[g][s] = a
      /\ \A r \in 1..NSources \ {s} : answer'[g][r] = answer[g][r]
  BY <1>1 DEF React
<1>3. \A r \in 1..NSources : r < s => answer[g][r] \in Failures
  BY <1>1, PoolAssumption DEF IInv, EarlierFailed
<1>4. CASE Settle(w, "present")
  BY <1>1, <1>2, <1>4, SettleInv
<1>5. CASE Fail(w)
  BY <1>1, <1>2, <1>5, FailInv
<1>6. CASE a = "404" /\ s = NSources /\ op = "resolve" /\ Settle(w, "missing")
  <2>1. AuthoritativelyMissing(g)'
    BY <1>1, <1>2, <1>3, <1>6, PoolAssumption DEF AuthoritativelyMissing, Failures
  <2> QED BY <1>1, <1>2, <1>6, <2>1, SettleInv
<1>7. CASE /\ a # "ok" /\ s < NSources
           /\ worker' = [worker EXCEPT ![w].st = "ask", ![w].src = s + 1]
           /\ UNCHANGED <<outcome, groupErr>>
  <2>1. TypeOK'
    <3>1. worker[w] \in [st : {"idle", "check", "ask", "await", "exit"},
                         file : Files \cup {NoFile}, src : 1..NSources]
      BY <1>1
    <3>2. s + 1 \in 1..NSources
      BY <1>7, PoolAssumption
    <3>3. [worker[w] EXCEPT !.st = "ask", !.src = s + 1] \in
            [st : {"idle", "check", "ask", "await", "exit"},
             file : Files \cup {NoFile}, src : 1..NSources]
      BY <3>1, <3>2
    <3>4. worker' = [worker EXCEPT ![w] = [worker[w] EXCEPT !.st = "ask", !.src = s + 1]]
      BY <1>1, <1>7
    <3>5. worker' \in [Workers -> [st : {"idle", "check", "ask", "await", "exit"},
                              file : Files \cup {NoFile}, src : 1..NSources]]
      BY <1>1, <3>3, <3>4
    <3> QED BY <1>2, <1>7, <3>5 DEF IInv, TypeOK
  <2>2. WorkerShape'
    BY <1>1, <1>2, <1>3, <1>7, PoolAssumption DEF IInv, WorkerShape, TypeOK
  <2>3. OneWorkerPerFile'
    BY <1>1, <1>2, <1>3, <1>7, PoolAssumption DEF IInv, OneWorkerPerFile, TypeOK, WorkerShape,
       PendingUndecided
  <2>4. Covered'
    <3>1. \A v \in Workers : worker'[v].file = worker[v].file
      BY <1>1, <1>7
    <3> QED BY <1>7, <3>1 DEF IInv, Covered
  <2>5. PendingUndecided'
    BY <1>1, <1>2, <1>3, <1>7, PoolAssumption DEF IInv, PendingUndecided, TypeOK, OneWorkerPerFile
  <2>6. EarlierFailed'
    BY <1>1, <1>2, <1>3, <1>7, PoolAssumption DEF IInv, Answers, EarlierFailed, Failures, TypeOK, WorkerShape,
       OneWorkerPerFile
  <2>7. Verdicts'
    BY <1>1, <1>2, <1>3, <1>7, PoolAssumption DEF IInv, Answers, Verdicts,
       AuthoritativelyMissing, TypeOK,
       OneWorkerPerFile, EarlierFailed, Failures
  <2>8. FeederFacts'
    BY <1>1, <1>2, <1>3, <1>7, PoolAssumption DEF IInv, FeederFacts, ctxDone, TypeOK
  <2>9. ResultFacts'
    BY <1>1, <1>2, <1>3, <1>7, PoolAssumption DEF IInv, ResultFacts, TypeOK, WorkerShape
  <2> QED BY <2>1, <2>2, <2>3, <2>4, <2>5, <2>6, <2>7, <2>8, <2>9 DEF IInv
<1> QED BY <1>4, <1>5, <1>6, <1>7 DEF React

LEMMA NextInv == IInv /\ [Next]_vars => IInv'
<1> SUFFICES ASSUME IInv, [Next]_vars PROVE IInv'
  OBVIOUS
<1>1. CASE Close
  BY <1>1, CloseInv
<1>2. CASE Abandon
  BY <1>2, AbandonInv
<1>3. CASE Return
  BY <1>3, ReturnInv
<1>4. CASE Cancel
  BY <1>4, CancelInv
<1>5. ASSUME NEW w \in Workers, NEW f \in Files, Hand(w, f) PROVE IInv'
  BY <1>5, HandInv
<1>6. ASSUME NEW w \in Workers, Exit(w) PROVE IInv'
  BY <1>6, ExitInv
<1>7. ASSUME NEW w \in Workers, CheckLocal(w) PROVE IInv'
  BY <1>7, CheckLocalInv
<1>8. ASSUME NEW w \in Workers, Ask(w) PROVE IInv'
  BY <1>8, AskInv
<1>9. ASSUME NEW w \in Workers, Answer(w) PROVE IInv'
  BY <1>9, ReactInv DEF Answer
<1>10. ASSUME NEW w \in Workers, Abort(w) PROVE IInv'
  BY <1>10, ReactInv DEF Abort, Answers
<1>11. CASE UNCHANGED vars
  BY <1>11 DEF vars, IInv, TypeOK, WorkerShape, OneWorkerPerFile, Covered,
     PendingUndecided, EarlierFailed, Verdicts, AuthoritativelyMissing,
     FeederFacts, ctxDone, ResultFacts
<1> QED
  BY <1>1, <1>2, <1>3, <1>4, <1>5, <1>6, <1>7, <1>8, <1>9, <1>10, <1>11
  DEF Next, Done

(* IInv holds in every reachable state. *)
THEOREM Invariance == Spec => []IInv
BY InitInv, NextInv, PTL DEF Spec

(* Every variable keeps its type, for any files, sources and limits. *)
THEOREM TypeCorrect == Spec => []TypeOK
<1>1. IInv => TypeOK
  BY DEF IInv
<1> QED BY <1>1, Invariance, PTL

(* No two goroutines ever write the verdict of the same file. *)
THEOREM NoSharedFile == Spec => []OneWorkerPerFile
<1>1. IInv => OneWorkerPerFile
  BY DEF IInv
<1> QED BY <1>1, Invariance, PTL

(* A failed file makes the call return an error, cancelled or not. *)
THEOREM FailuresReported == Spec => []FailureIsReported
<1>1. IInv => FailureIsReported
  BY DEF IInv, Verdicts, ResultFacts, FailureIsReported
<1> QED BY <1>1, Invariance, PTL

(* Unless the caller cancelled, an error-free call dealt with every file. *)
THEOREM Completeness == Spec => []OkMeansComplete
<1>1. IInv => OkMeansComplete
  <2> SUFFICES ASSUME IInv, feeder = "returned", ~result.err, ~cancelled,
                      NEW f \in Files
               PROVE  \/ op = "ensure" /\ outcome[f] = "present"
                      \/ op = "resolve" /\ f \in result.resolved
                      \/ op = "resolve" /\ AuthoritativelyMissing(f)
    BY DEF OkMeansComplete
  <2>1. ~groupErr /\ ~abandoned /\ pending = {}
    BY DEF IInv, ResultFacts, FeederFacts, ctxDone
  <2>2. \A w \in Workers : worker[w].file = NoFile
    BY DEF IInv, ResultFacts, WorkerShape
  <2>3. outcome[f] \in {"present", "missing"}
    BY <2>1, <2>2, PoolAssumption DEF IInv, Covered, Verdicts, TypeOK, Outcomes
  <2>4. CASE outcome[f] = "missing"
    BY <2>4 DEF IInv, Verdicts
  <2>5. CASE outcome[f] = "present"
    BY <2>1, <2>5 DEF IInv, ResultFacts, TypeOK, Ops
  <2> QED BY <2>3, <2>4, <2>5
<1> QED BY <1>1, Invariance, PTL
=============================================================================
