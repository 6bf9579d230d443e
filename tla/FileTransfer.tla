---------------------------- MODULE FileTransfer ----------------------------
(***************************************************************************)
(* One file of a repository on its way to the published tree               *)
(* (internal/download: resolveExactOne, ensureSyncedOne, ensureRepairedOne *)
(* and below; httpx.Client.Do; publish.PublishFile): the .partial file a   *)
(* response is written to, the staged file it becomes once it passed its   *)
(* checks, and the published file.  Calls follow each other under the      *)
(* repository lock; a crash, a power loss or a damaged disk comes between  *)
(* any two steps, and what they leave under staging is what the next call  *)
(* finds.                                                                  *)
(*                                                                         *)
(* A content is "good", "rotten" (the right size, wrong checksum) or       *)
(* "short" (the wrong size).  Left out: the request limits, and the        *)
(* alternative source paths of a file, since no caller sets                *)
(* Expected.Sources.                                                       *)
(***************************************************************************)
EXTENDS Integers

CONSTANTS
  NClients,    (* the sources, in the order they are tried                     *)
  Retries,     (* sync.download.retries                                        *)
  MaxMishaps   (* bound on power losses and damaged files                      *)

ASSUME TransferAssumption ==
  /\ NClients \in Nat \ {0}
  /\ Retries \in Nat
  /\ MaxMishaps \in Nat

Clients  == 1..NClients
Contents == {"none", "good", "rotten", "short"}
Files    == {"partial", "staged", "final"}
Ops      == {"sync", "repair", "resolve"}
Results  == {"none", "reused", "published", "resolved", "missing", "err"}

VARIABLES
  kind,      (* "apt": the expected file has a checksum; "apk": it has a      *)
             (* Verify function                                               *)
  partial,   (* the content of <staged>.partial                               *)
  staged,    (* the content of the file under staging/payloads                *)
  final,     (* the content of the published file                             *)
  volatile,  (* the files whose bytes have not reached the disk               *)
  durable,   (* the published content a power loss cannot take away           *)
  run,       (* the call in progress                                          *)
  result,    (* what the last call returned                                   *)
  spent,     (* history: the requests this call sent to each client           *)
  refused,   (* history: clients whose answer this call may not ask again     *)
  mishaps    (* number of power losses and damaged files                      *)

disk == <<partial, staged, final, volatile, durable>>
vars == <<kind, disk, run, result, spent, refused, mishaps>>

Idle == [op |-> "sync", pc |-> "idle", reuse |-> FALSE, client |-> 1,
         attempt |-> 0, cancelled |-> FALSE, io |-> FALSE]

TypeOK ==
  /\ kind \in {"apt", "apk"}
  /\ {partial, staged, final, durable} \subseteq Contents
  /\ volatile \subseteq Files
  /\ run \in [op : Ops,
              pc : {"idle", "check", "staged", "open", "request", "backoff", "fsync",
                    "accept", "verify", "publish", "syncdir"},
              reuse : BOOLEAN, client : Clients, attempt : 0..Retries,
              cancelled : BOOLEAN, io : BOOLEAN]
  /\ result \in Results
  /\ spent \in [Clients -> 0..(Retries + 1)]
  /\ refused \in SUBSET Clients
  /\ mishaps \in 0..MaxMishaps

(* Whatever an earlier run left behind. *)
Init ==
  /\ kind \in {"apt", "apk"}
  /\ partial \in Contents
  /\ staged \in Contents
  /\ final \in Contents
  /\ volatile = {}
  /\ durable = final
  /\ run = Idle
  /\ result = "none"
  /\ spent = [c \in Clients |-> 0]
  /\ refused = {}
  /\ mishaps = 0

-----------------------------------------------------------------------------
(* Helpers. *)

SizeOK(x) == x \in {"good", "rotten"}

At(pc) == run.pc = pc

Goto(pc) == run' = [run EXCEPT !.pc = pc]

(* The call returns; op, cancelled and io stay for the properties. *)
Return(r) == Goto("idle") /\ result' = r

(* A renamed file takes its unwritten bytes along. *)
Move(from, to) ==
  volatile' = (volatile \ {from, to}) \cup (IF from \in volatile THEN {to} ELSE {})

(* The client failed this file: the next one, or the call fails. *)
NextClient ==
  \/ /\ run.client < NClients
     /\ run' = [run EXCEPT !.client = @ + 1, !.pc = "open"]
     /\ UNCHANGED result
  \/ /\ run.client = NClients
     /\ Return("err")

\* Mutant of Retry: the first attempt is counted as a retry.
RetryOneFewer(x) ==
  \/ /\ run.attempt + 1 < Retries
     /\ Goto("backoff")
     /\ partial' = x
     /\ UNCHANGED result
  \/ /\ run.attempt + 1 >= Retries
     /\ partial' = "none"
     /\ NextClient

(* Do: a retryable failure, which left x in the partial file, is retried   *)
(* after a pause; after the last retry downloadOne removes the partial     *)
(* file and the client has failed.                                         *)
Retry(x) ==
  \/ /\ run.attempt < Retries
     /\ Goto("backoff")
     /\ partial' = x
     /\ UNCHANGED result
  \/ /\ run.attempt = Retries
     /\ partial' = "none"
     /\ NextClient

-----------------------------------------------------------------------------
(* Looking for a local copy. *)

Begin(op) ==
  /\ At("idle")
  /\ op = "resolve" => kind = "apt"
  /\ \E reuse \in BOOLEAN :
       /\ reuse => op = "resolve"
       /\ run' = [Idle EXCEPT !.op = op, !.pc = "check", !.reuse = reuse]
  /\ result' = "none"
  /\ spent' = [c \in Clients |-> 0]
  /\ refused' = {}
  /\ UNCHANGED <<kind, disk, mishaps>>

\* Mutant of CheckFinal: a repair looks at the size only, like sync.
CheckFinalBySize ==
  /\ At("check")
  /\ run.op # "resolve"
  /\ \/ SizeOK(final) /\ Return("reused") /\ UNCHANGED staged
     \/ /\ ~SizeOK(final) /\ run.op = "sync"
        /\ staged' = "none" /\ Goto("open") /\ UNCHANGED result
     \/ /\ ~SizeOK(final) /\ run.op = "repair"
        /\ Goto("staged") /\ UNCHANGED <<staged, result>>
  /\ UNCHANGED <<kind, partial, final, volatile, durable, spent, refused, mishaps>>

(* publish.Verify of the published file: sync is content with its size, a  *)
(* repair wants its checksum.                                              *)
CheckFinal ==
  LET fits == IF run.op = "sync" THEN SizeOK(final) ELSE final = "good"
  IN  /\ At("check")
      /\ run.op # "resolve"
      /\ \/ fits /\ Return("reused") /\ UNCHANGED staged
         \/ /\ ~fits /\ run.op = "sync"
            /\ staged' = "none" /\ Goto("open") /\ UNCHANGED result
         \/ /\ ~fits /\ run.op = "repair"
            /\ Goto("staged") /\ UNCHANGED <<staged, result>>
      /\ UNCHANGED <<kind, partial, final, volatile, durable, spent, refused, mishaps>>

(* A repair publishes a staged file that passes every check. *)
CheckStaged ==
  /\ At("staged")
  /\ \/ staged = "good" /\ Goto("publish") /\ UNCHANGED staged
     \/ staged # "good" /\ Goto("open") /\ staged' = "none"
  /\ UNCHANGED <<kind, partial, final, volatile, durable, result, spent, refused, mishaps>>

(* resolveExactOne: an index that was resolved before may be on disk, in   *)
(* either place; else the staged file is removed.                          *)
CheckResolved ==
  /\ At("check")
  /\ run.op = "resolve"
  /\ \/ /\ run.reuse /\ staged = "good"
        /\ Return("resolved") /\ UNCHANGED staged
     \/ /\ run.reuse /\ staged # "good" /\ final = "good"
        /\ staged' = "none" /\ Return("resolved")
     \/ /\ ~run.reuse \/ (staged # "good" /\ final # "good")
        /\ staged' = "none" /\ Goto("open") /\ UNCHANGED result
  /\ UNCHANGED <<kind, partial, final, volatile, durable, spent, refused, mishaps>>

-----------------------------------------------------------------------------
(* downloadOne from the current client. *)

Open ==
  /\ At("open")
  /\ partial' = "none"
  /\ run' = [run EXCEPT !.pc = "request", !.attempt = 0]
  /\ UNCHANGED <<kind, staged, final, volatile, durable, result, spent, refused, mishaps>>

Sent == spent' = [spent EXCEPT ![run.client] = @ + 1]

(* A status that is not retried ends the client; a 404 of the last one     *)
(* means that the index ResolveExact looks for does not exist.             *)
Refuse(status) ==
  /\ At("request")
  /\ Sent
  /\ refused' = refused \cup {run.client}
  /\ partial' = "none"
  /\ IF status = "404" /\ run.op = "resolve" /\ run.client = NClients
     THEN Return("missing")
     ELSE NextClient
  /\ UNCHANGED <<kind, staged, final, volatile, durable, mishaps>>

(* No connection, a 5xx, or a body that breaks off. *)
Break ==
  /\ At("request")
  /\ Sent
  /\ \E x \in {partial, "short"} : Retry(x)
  /\ UNCHANGED <<kind, staged, final, volatile, durable, refused, mishaps>>

(* A whole response was written to the partial file; it may have been     *)
(* complete when the context was cancelled.                                *)
Receive(x) ==
  /\ At("request")
  /\ Sent
  /\ partial' = x
  /\ volatile' = volatile \cup {"partial"}
  /\ Goto("fsync")
  /\ UNCHANGED <<kind, staged, final, durable, result, refused, mishaps>>

\* Mutant of Backoff: the retry and the loop both advance the attempt.
BackoffTwice ==
  /\ At("backoff")
  /\ run' = [run EXCEPT !.pc = "request", !.attempt = @ + 2]
  /\ UNCHANGED <<kind, disk, result, spent, refused, mishaps>>

Backoff ==
  /\ At("backoff")
  /\ run' = [run EXCEPT !.pc = "request", !.attempt = @ + 1]
  /\ UNCHANGED <<kind, disk, result, spent, refused, mishaps>>

\* Mutant of Abort: only the pause between two attempts watches the context.
AbortPause ==
  /\ At("backoff")
  /\ run.cancelled
  /\ partial' = "none"
  /\ NextClient
  /\ UNCHANGED <<kind, staged, final, volatile, durable, spent, refused, mishaps>>

(* The context ends a request or the pause before the next one. *)
Abort ==
  /\ At("request") \/ At("backoff")
  /\ run.cancelled
  /\ partial' = "none"
  /\ NextClient
  /\ UNCHANGED <<kind, staged, final, volatile, durable, spent, refused, mishaps>>

\* Mutant of Fsync: the file is closed without out.Sync().
FsyncSkipped ==
  /\ At("fsync")
  /\ Goto("accept")
  /\ UNCHANGED <<kind, disk, result, spent, refused, mishaps>>

Fsync ==
  /\ At("fsync")
  /\ volatile' = volatile \ {"partial"}
  /\ Goto("accept")
  /\ UNCHANGED <<kind, partial, staged, final, durable, result, spent, refused, mishaps>>

(* The write or the sync fails inside Do's callback: retried like a broken *)
(* body.                                                                   *)
FsyncFails ==
  /\ At("fsync")
  /\ Retry(partial)
  /\ UNCHANGED <<kind, staged, final, volatile, durable, spent, refused, mishaps>>

(* Size and checksum decide; the file is renamed or removed.  An APK file  *)
(* has no checksum that can be computed on the way.                        *)
Accept ==
  LET passes == SizeOK(partial) /\ (kind = "apt" => partial = "good")
  IN  /\ At("accept")
      /\ partial' = "none"
      /\ \/ /\ passes
            /\ staged' = partial
            /\ Move("partial", "staged")
            /\ \/ run.op = "resolve" /\ Return("resolved")
               \/ run.op # "resolve" /\ Goto("verify") /\ UNCHANGED result
            /\ UNCHANGED refused
         \/ /\ ~passes
            /\ refused' = refused \cup {run.client}
            /\ NextClient
            /\ UNCHANGED <<staged, volatile>>
      /\ UNCHANGED <<kind, final, durable, spent, mishaps>>

\* Mutant of VerifyStaged: a package that fails Verify is left under staging.
VerifyStagedKeeps ==
  /\ At("verify")
  /\ \/ staged = "good" /\ Goto("publish") /\ UNCHANGED <<result, refused>>
     \/ /\ staged # "good"
        /\ refused' = refused \cup {run.client}
        /\ NextClient
  /\ UNCHANGED <<kind, disk, spent, mishaps>>

(* downloadAndPublish: the Verify function of an APK package. *)
VerifyStaged ==
  /\ At("verify")
  /\ \/ staged = "good" /\ Goto("publish") /\ UNCHANGED <<staged, result, refused>>
     \/ /\ staged # "good"
        /\ staged' = "none"
        /\ refused' = refused \cup {run.client}
        /\ NextClient
  /\ UNCHANGED <<kind, partial, final, volatile, durable, spent, mishaps>>

-----------------------------------------------------------------------------
(* PublishFile. *)

\* Mutant of Publish: the directory is not synced after the rename.
PublishNoSync ==
  /\ At("publish")
  /\ final' = staged
  /\ staged' = "none"
  /\ Move("staged", "final")
  /\ Return("published")
  /\ UNCHANGED <<kind, partial, durable, spent, refused, mishaps>>

Publish ==
  /\ At("publish")
  /\ final' = staged
  /\ staged' = "none"
  /\ Move("staged", "final")
  /\ Goto("syncdir")
  /\ UNCHANGED <<kind, partial, durable, result, spent, refused, mishaps>>

SyncDir ==
  /\ At("syncdir")
  /\ durable' = final
  /\ Return("published")
  /\ UNCHANGED <<kind, partial, staged, final, volatile, spent, refused, mishaps>>

(* A stat, a chmod, a rename or a directory sync fails: the call returns.  *)
DiskFails ==
  /\ run.pc \in {"check", "staged", "publish", "syncdir"}
  /\ run' = [run EXCEPT !.pc = "idle", !.io = TRUE]
  /\ result' = "err"
  /\ UNCHANGED <<kind, disk, spent, refused, mishaps>>

(* The staging directory or the rename into it fails: so does the client.  *)
StagingFails ==
  /\ At("open") \/ At("accept")
  /\ partial' = IF At("open") THEN partial ELSE "none"
  /\ \/ /\ run.client < NClients
        /\ run' = [run EXCEPT !.client = @ + 1, !.pc = "open", !.io = TRUE]
        /\ UNCHANGED result
     \/ /\ run.client = NClients
        /\ run' = [run EXCEPT !.pc = "idle", !.io = TRUE]
        /\ result' = "err"
  /\ UNCHANGED <<kind, staged, final, volatile, durable, spent, refused, mishaps>>

-----------------------------------------------------------------------------
(* The environment. *)

Cancel ==
  /\ ~At("idle")
  /\ ~run.cancelled
  /\ run' = [run EXCEPT !.cancelled = TRUE]
  /\ UNCHANGED <<kind, disk, result, spent, refused, mishaps>>

(* The process is killed; what it wrote stays visible. *)
Crash ==
  /\ ~At("idle")
  /\ run' = Idle
  /\ result' = "none"
  /\ UNCHANGED <<kind, disk, spent, refused, mishaps>>

(* The machine stops.  Nothing syncs the staging directories, so whatever  *)
(* was there before may be back; a published file whose bytes were not     *)
(* written is torn; a rename that was not synced may not have happened.    *)
PowerLoss ==
  /\ mishaps < MaxMishaps
  /\ mishaps' = mishaps + 1
  /\ partial' \in Contents
  /\ staged' \in Contents
  /\ final' \in {durable, IF "final" \in volatile THEN "short" ELSE final}
  /\ durable' = final'
  /\ volatile' = {}
  /\ run' = Idle
  /\ result' = "none"
  /\ UNCHANGED <<kind, spent, refused>>

(* The published file is damaged, with its size unchanged, between calls. *)
Rot ==
  /\ mishaps < MaxMishaps
  /\ mishaps' = mishaps + 1
  /\ At("idle")
  /\ final = "good"
  /\ final' = "rotten"
  /\ durable' = IF durable = "good" THEN "rotten" ELSE durable
  /\ result' = "none"
  /\ UNCHANGED <<kind, partial, staged, volatile, run, spent, refused>>

Progress ==
  \/ CheckFinal \/ CheckStaged \/ CheckResolved \/ Open \/ Backoff \/ Abort
  \/ Fsync \/ Accept \/ VerifyStaged \/ Publish \/ SyncDir

Next ==
  \/ \E op \in Ops : Begin(op)
  \/ Progress
  \/ \E status \in {"404", "denied"} : Refuse(status)
  \/ Break
  \/ \E x \in Contents \ {"none"} : Receive(x)
  \/ FsyncFails \/ DiskFails \/ StagingFails
  \/ Cancel \/ Crash \/ PowerLoss \/ Rot

Spec == Init /\ [][Next]_vars

(* The goroutine runs when it can, timers fire, a cancelled context ends a *)
(* request.  Nothing is assumed of the sources.                            *)
LiveSpec == Spec /\ WF_vars(Progress)

-----------------------------------------------------------------------------
(* Properties. *)

(* spec.md:916 "Corrupt partial downloads are never accepted": the         *)
(* published file is only ever replaced by one that passed its checksum,   *)
(* whatever earlier crashes left under staging; a power loss gives back    *)
(* the old file or keeps the new one, never a torn one.                    *)
OnlyVerifiedPublished ==
  [][final' # final => final' = "good" \/ Rot \/ (PowerLoss /\ final' = durable)]_vars

(* Once a call reports that it published the file, a power loss does not   *)
(* take it back: that is what lets the metadata that names it go next.     *)
PublishedIsDurable == result = "published" => durable = final

(* spec.md:495 "A checksum-invalid, size-invalid, incomplete, or otherwise *)
(* rejected payload is removed from staging before the next source is      *)
(* attempted."                                                             *)
RejectedIsRemoved ==
  At("request") /\ run.attempt = 0 => partial = "none" /\ staged = "none"

(* A call fails only after every source had its chance: each refused the   *)
(* file for good, sent a wrong one, or used up all its attempts.           *)
AllSourcesTried ==
  result = "err" /\ ~run.cancelled /\ ~run.io =>
    \A c \in Clients : c \in refused \/ spent[c] = Retries + 1

InPlace(op) ==
  \/ op = "sync" /\ SizeOK(final')
  \/ op = "repair" /\ final' = "good"
  \/ op = "resolve" /\ "good" \in {staged', final'}

(* A call that returns without an error has left the file where the rest   *)
(* of the operation looks for it, as good as that operation requires.      *)
OkIsInPlace ==
  [][~At("idle") /\ result' \in {"reused", "published", "resolved"} => InPlace(run.op)]_vars

(* A cancelled call returns, though a source that stopped sending never    *)
(* ends a response (the http.Client has no timeout for the body).          *)
CancelEndsTransfer == run.cancelled ~> At("idle")
=============================================================================
