-------------------------- MODULE FileTransferProofs --------------------------
(***************************************************************************)
(* Proofs about FileTransfer, for any number of sources, retries, power    *)
(* losses and damaged files: the type invariant, PublishedIsDurable,       *)
(* RejectedIsRemoved and AllSourcesTried, and the action properties        *)
(* OnlyVerifiedPublished and OkIsInPlace.                                  *)
(*                                                                         *)
(* IInv says what each program counter has established: of the disk        *)
(* (OnDisk), of the requests sent so far (Counts) and of the result        *)
(* (Returned).                                                             *)
(***************************************************************************)
EXTENDS FileTransfer, TLAPS

Pcs == {"idle", "check", "staged", "open", "request", "backoff", "fsync", "accept", "verify",
        "publish", "syncdir"}

Calls == [op : Ops, pc : Pcs, reuse : BOOLEAN, client : Clients, attempt : 0..Retries,
          cancelled : BOOLEAN, io : BOOLEAN]

(* TypeOK, with names for its parts.                                        *)
CallTypes ==
  run \in Calls /\ spent \in [Clients -> 0..(Retries + 1)] /\ refused \in SUBSET Clients
OutcomeTypes == kind \in {"apt", "apk"} /\ result \in Results /\ mishaps \in 0..MaxMishaps
DiskTypes    == {partial, staged, final, durable} \subseteq Contents /\ volatile \subseteq Files

Types == CallTypes /\ OutcomeTypes /\ DiskTypes

(* Only the partial file is ever written without a sync, and it is synced   *)
(* before it is accepted; nothing is staged while a client is being tried;  *)
(* what is published passed its checks.                                     *)
OnDisk ==
  /\ volatile \subseteq {"partial"}
  /\ run.pc \in {"accept", "verify"} => volatile = {}
  /\ run.pc \in {"open", "request", "backoff", "fsync", "accept"} => staged = "none"
  /\ run.pc = "request" /\ run.attempt = 0 => partial = "none"
  /\ run.pc = "publish" => staged = "good"
  /\ run.pc = "syncdir" => final = "good"
  /\ run.op = "resolve" => kind = "apt" /\ run.pc \notin {"staged", "verify", "publish", "syncdir"}

(* The client had its chance, or the call is excused.                       *)
Settled(c) == c \in refused \/ spent[c] = Retries + 1 \/ run.cancelled \/ run.io

(* The clients before the current one are settled, those after it were not  *)
(* asked, and the current one was asked once per attempt.                   *)
Counts ==
  run.pc # "idle" =>
    /\ \A c \in Clients : c > run.client => spent[c] = 0
    /\ \A c \in Clients : c < run.client => Settled(c)
    /\ run.pc \in {"check", "staged", "open"} => spent[run.client] = 0
    /\ run.pc = "request" => spent[run.client] = run.attempt
    /\ run.pc \in {"backoff", "fsync", "accept", "verify"} => spent[run.client] = run.attempt + 1
    /\ run.pc = "backoff" => run.attempt < Retries

Returned ==
  /\ run.pc # "idle" => result = "none"
  /\ result = "err" => \A c \in Clients : Settled(c)
  /\ result = "published" => durable = final

IInv == Types /\ OnDisk /\ Counts /\ Returned

-----------------------------------------------------------------------------
(* The invariant. *)

LEMMA TypesOK == Types <=> TypeOK
BY DEF Types, CallTypes, OutcomeTypes, DiskTypes, TypeOK, Calls, Pcs

LEMMA IdleCall == Idle \in Calls
<1>1. 1 \in Clients /\ 0 \in 0..Retries
  BY TransferAssumption DEF Clients
<1> QED BY <1>1 DEF Idle, Calls, Ops, Pcs

LEMMA NextInReach ==
  ASSUME run \in Calls, run.client < NClients
  PROVE  run.client + 1 \in Clients
BY TransferAssumption DEF Calls, Clients

LEMMA CallUpdates ==
  ASSUME run \in Calls
  PROVE  /\ \A p \in Pcs : [run EXCEPT !.pc = p] \in Calls
         /\ \A p \in Pcs, n \in 0..Retries : [run EXCEPT !.pc = p, !.attempt = n] \in Calls
         /\ \A p \in Pcs, c \in Clients : [run EXCEPT !.client = c, !.pc = p] \in Calls
BY DEF Calls

(* The same, where an error of the disk is noted. *)
LEMMA CallUpdatesIO ==
  ASSUME run \in Calls
  PROVE  /\ \A p \in Pcs : [run EXCEPT !.pc = p, !.io = TRUE] \in Calls
         /\ \A p \in Pcs, c \in Clients :
              [run EXCEPT !.client = c, !.pc = p, !.io = TRUE] \in Calls
BY DEF Calls

LEMMA InitInv == Init => IInv
<1> SUFFICES ASSUME Init PROVE IInv
  OBVIOUS
<1>1. 1 \in Clients /\ 0 \in 0..Retries
  BY TransferAssumption DEF Clients
<1>2. Idle \in Calls
  BY <1>1 DEF Idle, Calls, Ops, Pcs
<1>3. Types
  BY <1>2, TransferAssumption
     DEF Init, Types, CallTypes, OutcomeTypes, DiskTypes, Contents, Files, Results, Clients
<1>4. OnDisk /\ Counts /\ Returned
  BY DEF Init, OnDisk, Counts, Returned, Idle
<1> QED BY <1>3, <1>4 DEF IInv

LEMMA BeginInv ==
  ASSUME IInv, NEW op \in Ops, Begin(op)
  PROVE  IInv'
<1>1. 1 \in Clients /\ 0 \in 0..Retries
  BY TransferAssumption DEF Clients
<1>2. PICK reuse \in BOOLEAN : run' = [Idle EXCEPT !.op = op, !.pc = "check", !.reuse = reuse]
  BY DEF Begin
<1>3. run' \in Calls
  BY <1>1, <1>2 DEF Calls, Idle, Pcs
<1>4. Types'
  BY <1>3, TransferAssumption
     DEF IInv, Types, CallTypes, OutcomeTypes, DiskTypes, Begin, disk, Results
<1>5. OnDisk'
  BY <1>2 DEF IInv, OnDisk, Begin, Idle, disk
<1>6. Counts' /\ Returned'
  BY <1>1, <1>2 DEF Counts, Returned, Begin, Idle, Clients
<1> QED BY <1>4, <1>5, <1>6 DEF IInv

(* The current client is done with: the next one begins, or the call fails. *)
LEMMA ClientEnds ==
  ASSUME IInv, run.pc # "idle", run' \in Calls, result' \in Results,
         \/ run.client < NClients /\ run'.client = run.client + 1 /\ run'.pc = "open"
            /\ result' = result
         \/ run.client = NClients /\ run'.pc = "idle" /\ result' = "err",
         run.cancelled => run'.cancelled, run.io => run'.io,
         \A c \in Clients : c # run.client => spent'[c] = spent[c],
         refused \subseteq refused',
         \/ run.client \in refused' \/ spent'[run.client] = Retries + 1
         \/ run'.cancelled \/ run'.io
  PROVE  Counts' /\ Returned'
<1> USE TransferAssumption DEF IInv, Types, CallTypes, Calls, Clients, Counts, Settled
<1>1. \A c \in Clients : c <= run.client => Settled(c)'
  OBVIOUS
<1>2. CASE run'.pc = "open"
  <2>1. \A c \in Clients : c > run.client => spent'[c] = 0
    OBVIOUS
  <2>2. run'.client \in Clients /\ run'.client = run.client + 1
    BY <1>2
  <2>3. Counts'
    BY <1>1, <1>2, <2>1, <2>2
  <2> QED BY <1>2, <2>3 DEF Returned
<1>3. CASE run'.pc = "idle"
  BY <1>1, <1>3 DEF Returned
<1> QED BY <1>2, <1>3

LEMMA NextClientEnds ==
  ASSUME IInv, run.pc # "idle", NextClient,
         \A c \in Clients : c # run.client => spent'[c] = spent[c],
         refused \subseteq refused',
         run.client \in refused' \/ spent'[run.client] = Retries + 1 \/ run.cancelled
  PROVE  run' \in Calls /\ result' \in Results /\ Counts' /\ Returned'
<1>1. run \in Calls /\ result \in Results /\ result = "none"
  BY DEF IInv, Types, CallTypes, OutcomeTypes, Returned
<1>2. run' \in Calls
  <2>1. CASE run.client < NClients /\ run' = [run EXCEPT !.client = @ + 1, !.pc = "open"]
    BY <1>1, <2>1, NextInReach, CallUpdates DEF Pcs
  <2>2. CASE run' = [run EXCEPT !.pc = "idle"]
    BY <1>1, <2>2, CallUpdates DEF Pcs
  <2> QED BY <2>1, <2>2 DEF NextClient, Return, Goto
<1>3. result' \in Results
  BY <1>1 DEF NextClient, Return, Results
<1>4. /\ \/ run.client < NClients /\ run'.client = run.client + 1 /\ run'.pc = "open"
            /\ result' = result
         \/ run.client = NClients /\ run'.pc = "idle" /\ result' = "err"
      /\ run.cancelled => run'.cancelled
      /\ run.io => run'.io
  BY <1>1 DEF NextClient, Return, Goto, Calls
<1> QED BY <1>2, <1>3, <1>4, ClientEnds

LEMMA RetryEnds ==
  ASSUME IInv, NEW x, Retry(x), run.pc \in {"request", "fsync"}, refused' = refused,
         \A c \in Clients : c # run.client => spent'[c] = spent[c],
         spent'[run.client] = run.attempt + 1
  PROVE  run' \in Calls /\ result' \in Results /\ Counts' /\ Returned'
<1>1. run \in Calls /\ result \in Results /\ result = "none"
  BY DEF IInv, Types, CallTypes, OutcomeTypes, Returned
<1>2. CASE run.attempt < Retries /\ Goto("backoff") /\ result' = result
  <2>1. run' \in Calls
    BY <1>1, <1>2, CallUpdates DEF Goto, Pcs
  <2>2. Counts' /\ Returned'
    BY <1>1, <1>2 DEF IInv, Types, CallTypes, Calls, Counts, Returned, Settled, Goto, Clients
  <2> QED BY <1>1, <1>2, <2>1, <2>2
<1>3. CASE run.attempt = Retries /\ NextClient
  BY <1>3, NextClientEnds
<1> QED BY <1>2, <1>3 DEF Retry

LEMMA CheckFinalInv ==
  ASSUME IInv, CheckFinal
  PROVE  IInv'
<1> USE TransferAssumption DEF IInv, CheckFinal, At, Goto, Return
<1>1. Types'
  <2>1. CallTypes'
    BY DEF Types, CallTypes, Calls, Pcs, Clients
  <2>2. OutcomeTypes'
    BY DEF Types, OutcomeTypes, Results
  <2>3. DiskTypes'
    BY DEF Types, DiskTypes, Contents, Files
  <2> QED BY <2>1, <2>2, <2>3 DEF Types
<1>2. OnDisk'
  BY DEF Types, CallTypes, Calls, OnDisk
<1>3. Counts'
  BY DEF Types, CallTypes, Calls, Counts, Settled, Clients
<1>4. Returned'
  BY DEF Types, CallTypes, Calls, OnDisk, Counts, Returned, Settled, Clients
<1> QED BY <1>1, <1>2, <1>3, <1>4

LEMMA CheckStagedInv ==
  ASSUME IInv, CheckStaged
  PROVE  IInv'
<1> USE TransferAssumption DEF IInv, CheckStaged, At, Goto
<1>1. Types'
  <2>1. CallTypes'
    BY DEF Types, CallTypes, Calls, Pcs, Clients
  <2>2. OutcomeTypes'
    BY DEF Types, OutcomeTypes, Results
  <2>3. DiskTypes'
    BY DEF Types, DiskTypes, Contents, Files
  <2> QED BY <2>1, <2>2, <2>3 DEF Types
<1>2. OnDisk'
  BY DEF Types, CallTypes, Calls, OnDisk
<1>3. Counts'
  BY DEF Types, CallTypes, Calls, Counts, Settled, Clients
<1>4. Returned'
  BY DEF Types, CallTypes, Calls, OnDisk, Counts, Returned, Settled, Clients
<1> QED BY <1>1, <1>2, <1>3, <1>4

LEMMA CheckResolvedInv ==
  ASSUME IInv, CheckResolved
  PROVE  IInv'
<1> USE TransferAssumption DEF IInv, CheckResolved, At, Goto, Return
<1>1. Types'
  <2>1. CallTypes'
    BY DEF Types, CallTypes, Calls, Pcs, Clients
  <2>2. OutcomeTypes'
    BY DEF Types, OutcomeTypes, Results
  <2>3. DiskTypes'
    BY DEF Types, DiskTypes, Contents, Files
  <2> QED BY <2>1, <2>2, <2>3 DEF Types
<1>2. OnDisk'
  BY DEF Types, CallTypes, Calls, OnDisk
<1>3. Counts'
  BY DEF Types, CallTypes, Calls, Counts, Settled, Clients
<1>4. Returned'
  BY DEF Types, CallTypes, Calls, OnDisk, Counts, Returned, Settled, Clients
<1> QED BY <1>1, <1>2, <1>3, <1>4

LEMMA OpenInv ==
  ASSUME IInv, Open
  PROVE  IInv'
<1> USE DEF IInv, Open, At
<1>1. CallTypes'
  <2>1. 0 \in 0..Retries
    BY TransferAssumption
  <2> QED BY <2>1, CallUpdates DEF Types, CallTypes, Pcs
<1>2. Types'
  BY <1>1 DEF Types, OutcomeTypes, DiskTypes, Contents
<1>3. OnDisk'
  BY DEF Types, CallTypes, Calls, OnDisk
<1>4. Counts' /\ Returned'
  BY DEF Types, CallTypes, Calls, Counts, Returned, Settled, Clients
<1> QED BY <1>2, <1>3, <1>4

LEMMA BackoffInv ==
  ASSUME IInv, Backoff
  PROVE  IInv'
<1> USE TransferAssumption DEF IInv, Backoff, At, disk
<1>1. CallTypes'
  <2>1. run.attempt + 1 \in 0..Retries
    BY DEF Types, CallTypes, Calls, Counts
  <2> QED BY <2>1, CallUpdates DEF Types, CallTypes, Pcs
<1>2. Types'
  BY <1>1 DEF Types, OutcomeTypes, DiskTypes
<1>3. OnDisk'
  BY DEF Types, CallTypes, Calls, OnDisk
<1>4. Counts' /\ Returned'
  BY DEF Types, CallTypes, Calls, Counts, Returned, Settled, Clients
<1> QED BY <1>2, <1>3, <1>4

LEMMA AbortInv ==
  ASSUME IInv, Abort
  PROVE  IInv'
<1> USE DEF IInv, Abort, At
<1>1. run' \in Calls /\ result' \in Results /\ Counts' /\ Returned'
  BY NextClientEnds
<1>2. Types'
  BY <1>1 DEF Types, CallTypes, OutcomeTypes, DiskTypes, Contents
<1>3. OnDisk'
  BY DEF Types, CallTypes, Calls, OnDisk, NextClient, Return, Goto
<1> QED BY <1>1, <1>2, <1>3

LEMMA FsyncInv ==
  ASSUME IInv, Fsync
  PROVE  IInv'
<1> USE TransferAssumption DEF IInv, Fsync, At, Goto
<1>1. Types'
  <2>1. CallTypes'
    BY DEF Types, CallTypes, Calls, Pcs, Clients
  <2>2. OutcomeTypes'
    BY DEF Types, OutcomeTypes, Results
  <2>3. DiskTypes'
    BY DEF Types, DiskTypes, Contents, Files
  <2> QED BY <2>1, <2>2, <2>3 DEF Types
<1>2. OnDisk'
  BY DEF Types, CallTypes, Calls, OnDisk
<1>3. Counts'
  BY DEF Types, CallTypes, Calls, Counts, Settled, Clients
<1>4. Returned'
  BY DEF Types, CallTypes, Calls, OnDisk, Counts, Returned, Settled, Clients
<1> QED BY <1>1, <1>2, <1>3, <1>4

LEMMA AcceptInv ==
  ASSUME IInv, Accept
  PROVE  IInv'
<1> DEFINE passes == SizeOK(partial) /\ (kind = "apt" => partial = "good")
<1> USE DEF IInv, Accept, At
<1>1. CASE passes
  <2> USE <1>1 DEF Return, Goto
  <2>1. CallTypes'
    BY CallUpdates DEF Types, CallTypes, Pcs
  <2>2. Types'
    BY <2>1 DEF Types, OutcomeTypes, DiskTypes, Move, Contents, Files, Results
  <2>3. OnDisk'
    BY DEF Types, CallTypes, Calls, OnDisk, Move
  <2>4. Counts' /\ Returned'
    BY DEF Types, CallTypes, Calls, Counts, Returned, Settled, Clients
  <2> QED BY <2>2, <2>3, <2>4
<1>2. CASE ~passes
  <2> USE <1>2
  <2>1. run' \in Calls /\ result' \in Results /\ Counts' /\ Returned'
    BY NextClientEnds
  <2>2. Types'
    BY <2>1 DEF Types, CallTypes, Calls, OutcomeTypes, DiskTypes, Contents
  <2>3. OnDisk'
    BY DEF Types, CallTypes, Calls, OnDisk, NextClient, Return, Goto
  <2> QED BY <2>1, <2>2, <2>3
<1> QED BY <1>1, <1>2

LEMMA VerifyStagedInv ==
  ASSUME IInv, VerifyStaged
  PROVE  IInv'
<1> USE DEF IInv, VerifyStaged, At
<1>1. CASE staged = "good"
  <2> USE <1>1 DEF Goto
  <2>1. CallTypes'
    BY CallUpdates DEF Types, CallTypes, Pcs
  <2>2. Types'
    BY <2>1 DEF Types, OutcomeTypes, DiskTypes
  <2>3. OnDisk' /\ Counts' /\ Returned'
    BY DEF Types, CallTypes, Calls, OnDisk, Counts, Returned, Settled, Clients
  <2> QED BY <2>2, <2>3
<1>2. CASE staged # "good"
  <2> USE <1>2
  <2>1. run' \in Calls /\ result' \in Results /\ Counts' /\ Returned'
    BY NextClientEnds
  <2>2. Types'
    BY <2>1 DEF Types, CallTypes, Calls, OutcomeTypes, DiskTypes, Contents
  <2>3. OnDisk'
    BY DEF Types, CallTypes, Calls, OnDisk, NextClient, Return, Goto
  <2> QED BY <2>1, <2>2, <2>3
<1> QED BY <1>1, <1>2

LEMMA PublishInv ==
  ASSUME IInv, Publish
  PROVE  IInv'
<1> USE TransferAssumption DEF IInv, Publish, At, Goto, Move
<1>1. Types'
  <2>1. CallTypes'
    BY DEF Types, CallTypes, Calls, Pcs, Clients
  <2>2. OutcomeTypes'
    BY DEF Types, OutcomeTypes, Results
  <2>3. DiskTypes'
    BY DEF Types, DiskTypes, Contents, Files
  <2> QED BY <2>1, <2>2, <2>3 DEF Types
<1>2. OnDisk'
  BY DEF Types, CallTypes, Calls, OnDisk
<1>3. Counts'
  BY DEF Types, CallTypes, Calls, Counts, Settled, Clients
<1>4. Returned'
  BY DEF Types, CallTypes, Calls, OnDisk, Counts, Returned, Settled, Clients
<1> QED BY <1>1, <1>2, <1>3, <1>4

LEMMA SyncDirInv ==
  ASSUME IInv, SyncDir
  PROVE  IInv'
<1> USE TransferAssumption DEF IInv, SyncDir, At, Goto, Return
<1>1. Types'
  <2>1. CallTypes'
    BY DEF Types, CallTypes, Calls, Pcs, Clients
  <2>2. OutcomeTypes'
    BY DEF Types, OutcomeTypes, Results
  <2>3. DiskTypes'
    BY DEF Types, DiskTypes, Contents, Files
  <2> QED BY <2>1, <2>2, <2>3 DEF Types
<1>2. OnDisk'
  BY DEF Types, CallTypes, Calls, OnDisk
<1>3. Counts'
  BY DEF Types, CallTypes, Calls, Counts, Settled, Clients
<1>4. Returned'
  BY DEF Types, CallTypes, Calls, OnDisk, Counts, Returned, Settled, Clients
<1> QED BY <1>1, <1>2, <1>3, <1>4

LEMMA BreakInv ==
  ASSUME IInv, Break
  PROVE  IInv'
<1> USE DEF IInv, Break, At, Sent
<1>1. PICK x \in {partial, "short"} : Retry(x)
  OBVIOUS
<1>2. run' \in Calls /\ result' \in Results /\ Counts' /\ Returned'
  BY <1>1, RetryEnds DEF Types, CallTypes, Calls, Counts
<1>3. spent' \in [Clients -> 0..(Retries + 1)]
  BY TransferAssumption DEF Types, CallTypes, Calls, Counts
<1>4. Types'
  BY <1>1, <1>2, <1>3 DEF Types, CallTypes, OutcomeTypes, DiskTypes, Contents, Retry
<1>5. OnDisk'
  BY <1>1 DEF Types, CallTypes, Calls, OnDisk, Retry, NextClient, Return, Goto
<1> QED BY <1>2, <1>4, <1>5

LEMMA FsyncFailsInv ==
  ASSUME IInv, FsyncFails
  PROVE  IInv'
<1> USE DEF IInv, FsyncFails, At
<1>1. run' \in Calls /\ result' \in Results /\ Counts' /\ Returned'
  BY RetryEnds DEF Types, CallTypes, Calls, Counts
<1>2. Types'
  BY <1>1 DEF Types, CallTypes, OutcomeTypes, DiskTypes, Contents, Retry
<1>3. OnDisk'
  BY DEF Types, CallTypes, Calls, OnDisk, Retry, NextClient, Return, Goto
<1> QED BY <1>1, <1>2, <1>3

LEMMA DiskFailsInv ==
  ASSUME IInv, DiskFails
  PROVE  IInv'
<1> USE TransferAssumption DEF IInv, DiskFails, disk
<1>1. Types'
  <2>1. CallTypes'
    BY DEF Types, CallTypes, Calls, Pcs, Clients
  <2>2. OutcomeTypes'
    BY DEF Types, OutcomeTypes, Results
  <2>3. DiskTypes'
    BY DEF Types, DiskTypes, Contents, Files
  <2> QED BY <2>1, <2>2, <2>3 DEF Types
<1>2. OnDisk'
  BY DEF Types, CallTypes, Calls, OnDisk
<1>3. Counts'
  BY DEF Types, CallTypes, Calls, Counts, Settled, Clients
<1>4. Returned'
  BY DEF Types, CallTypes, Calls, OnDisk, Counts, Returned, Settled, Clients
<1> QED BY <1>1, <1>2, <1>3, <1>4

LEMMA StagingFailsInv ==
  ASSUME IInv, StagingFails
  PROVE  IInv'
<1> USE DEF IInv, StagingFails, At
<1>1. run \in Calls /\ result \in Results /\ result = "none"
  BY DEF Types, CallTypes, OutcomeTypes, Returned
<1>2. run' \in Calls
  <2>1. CASE run.client < NClients /\ run' = [run EXCEPT !.client = @ + 1, !.pc = "open", !.io = TRUE]
    BY <1>1, <2>1, NextInReach, CallUpdatesIO DEF Pcs
  <2>2. CASE run' = [run EXCEPT !.pc = "idle", !.io = TRUE]
    BY <1>1, <2>2, CallUpdatesIO DEF Pcs
  <2> QED BY <2>1, <2>2
<1>3. result' \in Results
  BY <1>1 DEF Results
<1>4. Counts' /\ Returned'
  BY <1>1, <1>2, <1>3, ClientEnds DEF Calls
<1>5. Types'
  BY <1>2, <1>3 DEF Types, CallTypes, OutcomeTypes, DiskTypes, Contents
<1>6. OnDisk'
  BY DEF Types, CallTypes, Calls, OnDisk
<1> QED BY <1>4, <1>5, <1>6

LEMMA CancelInv ==
  ASSUME IInv, Cancel
  PROVE  IInv'
<1> USE TransferAssumption DEF IInv, Cancel, At, disk
<1>1. Types'
  <2>1. CallTypes'
    BY DEF Types, CallTypes, Calls, Pcs, Clients
  <2>2. OutcomeTypes'
    BY DEF Types, OutcomeTypes, Results
  <2>3. DiskTypes'
    BY DEF Types, DiskTypes, Contents, Files
  <2> QED BY <2>1, <2>2, <2>3 DEF Types
<1>2. OnDisk'
  BY DEF Types, CallTypes, Calls, OnDisk
<1>3. Counts'
  BY DEF Types, CallTypes, Calls, Counts, Settled, Clients
<1>4. Returned'
  BY DEF Types, CallTypes, Calls, OnDisk, Counts, Returned, Settled, Clients
<1> QED BY <1>1, <1>2, <1>3, <1>4

LEMMA CrashInv ==
  ASSUME IInv, Crash
  PROVE  IInv'
<1> USE DEF IInv, Crash, disk
<1>1. Types'
  BY IdleCall, TransferAssumption
     DEF Types, CallTypes, OutcomeTypes, DiskTypes, Results, Contents, Files
<1>2. OnDisk' /\ Counts' /\ Returned'
  BY DEF OnDisk, Counts, Returned, Idle
<1> QED BY <1>1, <1>2

LEMMA PowerLossInv ==
  ASSUME IInv, PowerLoss
  PROVE  IInv'
<1> USE DEF IInv, PowerLoss
<1>1. Types'
  BY IdleCall, TransferAssumption
     DEF Types, CallTypes, OutcomeTypes, DiskTypes, Results, Contents, Files
<1>2. OnDisk' /\ Counts' /\ Returned'
  BY DEF OnDisk, Counts, Returned, Idle
<1> QED BY <1>1, <1>2

LEMMA RotInv ==
  ASSUME IInv, Rot
  PROVE  IInv'
<1> USE TransferAssumption DEF IInv, Rot, At
<1>1. Types'
  <2>1. CallTypes'
    BY DEF Types, CallTypes, Calls, Pcs, Clients
  <2>2. OutcomeTypes'
    BY DEF Types, OutcomeTypes, Results
  <2>3. DiskTypes'
    BY DEF Types, DiskTypes, Contents, Files
  <2> QED BY <2>1, <2>2, <2>3 DEF Types
<1>2. OnDisk'
  BY DEF Types, CallTypes, Calls, OnDisk
<1>3. Counts'
  BY DEF Types, CallTypes, Calls, Counts, Settled, Clients
<1>4. Returned'
  BY DEF Types, CallTypes, Calls, OnDisk, Counts, Returned, Settled, Clients
<1> QED BY <1>1, <1>2, <1>3, <1>4

LEMMA RefuseInv ==
  ASSUME IInv, NEW status \in {"404", "denied"}, Refuse(status)
  PROVE  IInv'
<1> USE DEF IInv, Refuse, At, Sent
<1>1. spent' \in [Clients -> 0..(Retries + 1)] /\ refused' \in SUBSET Clients
  BY TransferAssumption DEF Types, CallTypes, Calls, Counts
<1>2. CASE Return("missing")
  <2> USE <1>2 DEF Return, Goto
  <2>1. CallTypes'
    BY <1>1, CallUpdates DEF Types, CallTypes, Pcs
  <2>2. Types'
    BY <2>1 DEF Types, OutcomeTypes, DiskTypes, Contents, Results
  <2>3. OnDisk' /\ Counts' /\ Returned'
    BY DEF Types, CallTypes, Calls, OnDisk, Counts, Returned
  <2> QED BY <2>2, <2>3
<1>3. CASE NextClient
  <2> USE <1>3
  <2>1. run' \in Calls /\ result' \in Results /\ Counts' /\ Returned'
    BY NextClientEnds DEF Types, CallTypes, Calls
  <2>2. Types'
    BY <1>1, <2>1 DEF Types, CallTypes, OutcomeTypes, DiskTypes, Contents
  <2>3. OnDisk'
    BY DEF Types, CallTypes, Calls, OnDisk, NextClient, Return, Goto
  <2> QED BY <2>1, <2>2, <2>3
<1> QED BY <1>2, <1>3

LEMMA ReceiveInv ==
  ASSUME IInv, NEW x \in Contents \ {"none"}, Receive(x)
  PROVE  IInv'
<1> USE DEF IInv, Receive, At, Sent, Goto
<1>1. spent' \in [Clients -> 0..(Retries + 1)]
  BY TransferAssumption DEF Types, CallTypes, Calls, Counts
<1>2. CallTypes'
  BY <1>1, CallUpdates DEF Types, CallTypes, Pcs
<1>3. Types'
  BY <1>2 DEF Types, OutcomeTypes, DiskTypes, Files
<1>4. OnDisk'
  BY DEF Types, CallTypes, Calls, OnDisk
<1>5. Counts' /\ Returned'
  BY DEF Types, CallTypes, Calls, Counts, Returned, Settled, Clients
<1> QED BY <1>3, <1>4, <1>5

LEMMA NextInv == IInv /\ [Next]_vars => IInv'
<1> SUFFICES ASSUME IInv, [Next]_vars PROVE IInv'
  OBVIOUS
<1>1. ASSUME NEW op \in Ops, Begin(op) PROVE IInv'
  BY <1>1, BeginInv
<1>2. CASE Progress
  BY <1>2, CheckFinalInv, CheckStagedInv, CheckResolvedInv, OpenInv, BackoffInv, AbortInv,
     FsyncInv, AcceptInv, VerifyStagedInv, PublishInv, SyncDirInv DEF Progress
<1>3. ASSUME NEW status \in {"404", "denied"}, Refuse(status) PROVE IInv'
  BY <1>3, RefuseInv
<1>4. ASSUME NEW x \in Contents \ {"none"}, Receive(x) PROVE IInv'
  BY <1>4, ReceiveInv
<1>5. CASE Break \/ FsyncFails \/ DiskFails \/ StagingFails
  BY <1>5, BreakInv, FsyncFailsInv, DiskFailsInv, StagingFailsInv
<1>6. CASE Cancel \/ Crash \/ PowerLoss \/ Rot
  BY <1>6, CancelInv, CrashInv, PowerLossInv, RotInv
<1>7. CASE UNCHANGED vars
  BY <1>7 DEF vars, disk, IInv, Types, CallTypes, OutcomeTypes, DiskTypes, OnDisk, Counts,
              Returned, Settled
<1> QED BY <1>1, <1>2, <1>3, <1>4, <1>5, <1>6, <1>7 DEF Next

LEMMA Invariance == Spec => []IInv
BY InitInv, NextInv, PTL DEF Spec

-----------------------------------------------------------------------------
(* The results. *)

(* Every variable keeps its type; no client is asked more often than the    *)
(* retries allow.                                                           *)
THEOREM TypeCorrect == Spec => []TypeOK
<1>1. IInv => TypeOK
  BY TypesOK DEF IInv
<1> QED BY <1>1, Invariance, PTL

(* What a call reported as published, a power loss does not take back.      *)
THEOREM ReportedIsDurable == Spec => []PublishedIsDurable
<1>1. IInv => PublishedIsDurable
  BY DEF IInv, Returned, PublishedIsDurable
<1> QED BY <1>1, Invariance, PTL

(* A source is asked with nothing of the source before it under staging.    *)
THEOREM StagingIsClean == Spec => []RejectedIsRemoved
<1>1. IInv => RejectedIsRemoved
  BY DEF IInv, OnDisk, RejectedIsRemoved, At
<1> QED BY <1>1, Invariance, PTL

(* A call that fails has settled every source, for any number of them.      *)
THEOREM EverySourceTried == Spec => []AllSourcesTried
<1>1. IInv => AllSourcesTried
  BY DEF IInv, Returned, Settled, AllSourcesTried
<1> QED BY <1>1, Invariance, PTL

(* The published file is only replaced by one that passed its checks.       *)
THEOREM VerifiedBeforePublished == Spec => OnlyVerifiedPublished
<1>1. IInv /\ [Next]_vars =>
        [final' # final => final' = "good" \/ Rot \/ (PowerLoss /\ final' = durable)]_vars
  <2> SUFFICES ASSUME IInv, Next, final' # final, ~Rot
               PROVE  final' = "good" \/ (PowerLoss /\ final' = durable)
    BY DEF vars
  <2>1. CASE Publish
    BY <2>1 DEF Publish, At, IInv, OnDisk
  <2>2. CASE PowerLoss
    BY <2>2 DEF PowerLoss, IInv, OnDisk
  <2>3. CASE ~Publish /\ ~PowerLoss
    <3>1. ~Progress
      BY <2>3 DEF Progress, CheckFinal, CheckStaged, CheckResolved, Open, Backoff, Abort, Fsync,
                  Accept, VerifyStaged, SyncDir, disk
    <3>2. ~\E op \in Ops : Begin(op)
      BY DEF Begin, disk
    <3>3. ~\E status \in {"404", "denied"} : Refuse(status)
      BY DEF Refuse
    <3>4. ~\E x \in Contents \ {"none"} : Receive(x)
      BY DEF Receive
    <3>5. ~(Break \/ FsyncFails \/ DiskFails \/ StagingFails \/ Cancel \/ Crash)
      BY DEF Break, FsyncFails, DiskFails, StagingFails, Cancel, Crash, disk
    <3> QED BY <2>3, <3>1, <3>2, <3>3, <3>4, <3>5 DEF Next
  <2> QED BY <2>1, <2>2, <2>3
<1> QED BY <1>1, Invariance, PTL DEF Spec, OnlyVerifiedPublished

(* A call that returns without an error left the file as its operation      *)
(* needs it, in every interleaving of retries and cancellation.             *)
THEOREM OkMeansInPlace == Spec => OkIsInPlace
<1>1. IInv /\ [Next]_vars =>
        [~At("idle") /\ result' \in {"reused", "published", "resolved"} => InPlace(run.op)]_vars
  <2> SUFFICES ASSUME IInv, Next, ~At("idle"), result' \in {"reused", "published", "resolved"}
               PROVE  InPlace(run.op)
    BY DEF vars
  <2>1. result = "none"
    BY DEF IInv, Returned, At
  <2>2. CASE CheckFinal
    BY <2>1, <2>2 DEF CheckFinal, InPlace, Return, IInv, Types, CallTypes, Calls, Ops
  <2>3. CASE CheckResolved
    BY <2>1, <2>3 DEF CheckResolved, InPlace, Return
  <2>4. CASE Accept
    BY <2>1, <2>4 DEF Accept, At, InPlace, Return, NextClient, IInv, OnDisk
  <2>5. CASE SyncDir
    BY <2>5 DEF SyncDir, At, InPlace, IInv, OnDisk, SizeOK, Types, CallTypes, Calls, Ops
  <2>6. CASE ~(CheckFinal \/ CheckResolved \/ Accept \/ SyncDir)
    <3> USE <2>1 DEF NextClient, Return, Retry
    <3>1. ~Progress
      BY <2>6 DEF Progress, CheckStaged, Open, Backoff, Abort, Fsync, VerifyStaged, Publish
    <3>2. ~\E op \in Ops : Begin(op)
      BY DEF Begin
    <3>3. ~\E status \in {"404", "denied"} : Refuse(status)
      BY DEF Refuse
    <3>4. ~\E x \in Contents \ {"none"} : Receive(x)
      BY DEF Receive
    <3>5. ~(Break \/ FsyncFails \/ DiskFails \/ StagingFails)
      BY DEF Break, FsyncFails, DiskFails, StagingFails
    <3>6. ~(Cancel \/ Crash \/ PowerLoss \/ Rot)
      BY DEF Cancel, Crash, PowerLoss, Rot
    <3> QED BY <2>6, <3>1, <3>2, <3>3, <3>4, <3>5, <3>6 DEF Next
  <2> QED BY <2>2, <2>3, <2>4, <2>5, <2>6
<1> QED BY <1>1, Invariance, PTL DEF Spec, OkIsInPlace
=============================================================================
