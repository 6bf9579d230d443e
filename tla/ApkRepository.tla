---------------------------- MODULE ApkRepository ----------------------------
(***************************************************************************)
(* One APK repository (internal/apk/apk.go): the sync, verify and prune    *)
(* operations of several mirrorsync processes on one published tree, with  *)
(* the repository lock (internal/publish), an upstream that changes while  *)
(* it is read, failing transfers, cancellation and crashes.                *)
(*                                                                         *)
(* A process runs one operation at a time.  Its steps are the ones another *)
(* process can interleave with: one index fetched, one payload renamed     *)
(* into place, one index replaced, one file unlinked.  The files of one    *)
(* download pool call are in any order (module DownloadPool); a package    *)
(* path always names the same package, as in an Alpine repository.         *)
(***************************************************************************)
EXTENDS Integers, FiniteSets

CONSTANTS
  Procs,       (* the mirrorsync processes                                     *)
  NoProc,      (* the holder of a free lock                                    *)
  NIndexes,    (* versions x repositories x architectures, in path order       *)
  MaxVersion,  (* bound on how often upstream changes an index                 *)
  Payloads,    (* the package paths                                            *)
  Refs(_, _),  (* Refs(i, v): the packages version v of index i names          *)
  PruneOnSync, (* sync.prune                                                   *)
  MaxRot       (* bound on how many payloads are damaged on disk               *)

Indexes  == 1..NIndexes
Versions == 1..MaxVersion
Absent   == 0

ASSUME ApkAssumption ==
  /\ NoProc \notin Procs
  /\ NIndexes \in Nat \ {0}
  /\ MaxVersion \in Nat \ {0}
  /\ \A i \in Indexes, v \in Versions : Refs(i, v) \subseteq Payloads
  /\ PruneOnSync \in BOOLEAN
  /\ MaxRot \in Nat

VARIABLES
  up,         (* the version of each index upstream serves now                *)
  index,      (* the version of each published index, or Absent               *)
  file,       (* each payload on disk: "none", "good", or "rotten" (damaged   *)
              (* with its size unchanged)                                     *)
  lock,       (* who holds the flock of the repository                        *)
  proc,       (* the state of each process                                    *)
  rot,        (* number of payloads damaged so far                            *)
  abandoned,  (* history: a cancelled sync dropped payloads without an error  *)
  overlapped  (* history: the prune command ran while a sync held the lock    *)

vars == <<up, index, file, lock, proc, rot, abandoned, overlapped>>

IdleProc == [op |-> "none", pc |-> "idle", at |-> 1,
             got |-> [i \in Indexes |-> Absent],
             todo |-> {}, keep |-> {}, cancelled |-> FALSE, rotted |-> FALSE]

(* The operation a process runs, its program counter, the index it is at,   *)
(* the versions it fetched, the files left to do, the files to keep, and    *)
(* whether it was cancelled and whether a file was damaged meanwhile.       *)
ProcState ==
  [op        : {"none", "sync", "verify", "prune"},
   pc        : {"idle", "lock", "fetch", "ensure", "publish", "read", "repair", "walk"},
   at        : Indexes,
   got       : [Indexes -> Versions \cup {Absent}],
   todo      : SUBSET Payloads,
   keep      : SUBSET Payloads,
   cancelled : BOOLEAN,
   rotted    : BOOLEAN]

TypeOK ==
  /\ up \in [Indexes -> Versions]
  /\ index \in [Indexes -> Versions \cup {Absent}]
  /\ file \in [Payloads -> {"none", "good", "rotten"}]
  /\ lock \in Procs \cup {NoProc}
  /\ proc \in [Procs -> ProcState]
  /\ rot \in 0..MaxRot
  /\ abandoned \in BOOLEAN
  /\ overlapped \in BOOLEAN

(* The tree is empty, or an earlier sync left it complete. *)
Init ==
  /\ up = [i \in Indexes |-> 1]
  /\ \/ /\ index = [i \in Indexes |-> Absent]
        /\ file = [f \in Payloads |-> "none"]
     \/ /\ index = [i \in Indexes |-> 1]
        /\ file = [f \in Payloads |->
                     IF \E i \in Indexes : f \in Refs(i, 1) THEN "good" ELSE "none"]
  /\ lock = NoProc
  /\ proc = [p \in Procs |-> IdleProc]
  /\ rot = 0
  /\ abandoned = FALSE
  /\ overlapped = FALSE

-----------------------------------------------------------------------------
(* Helpers. *)

Named(ix) == UNION {Refs(i, ix[i]) : i \in {j \in Indexes : ix[j] # Absent}}

Present == {f \in Payloads : file[f] # "none"}

Step(p, r) == proc' = [proc EXCEPT ![p] = r]

(* The operation returns; the deferred lock.Close releases the lock.  The  *)
(* prune command never had it.                                             *)
Finish(p) ==
  /\ Step(p, IdleProc)
  /\ lock' = IF lock = p THEN NoProc ELSE lock

(* The prune command and a sync that holds the lock run at the same time. *)
Overlap ==
  \E p, q \in Procs :
    /\ proc[p].op = "prune"
    /\ proc[q].op = "sync" /\ lock = q

-----------------------------------------------------------------------------
(* Starting an operation. *)

(* Sync and Verify begin with AcquireLock; Prune does not. *)
Start(p, op) ==
  /\ proc[p].pc = "idle"
  /\ Step(p, [IdleProc EXCEPT !.op = op,
                              !.pc = IF op = "prune" THEN "read" ELSE "lock"])
  /\ UNCHANGED <<up, index, file, lock, rot, abandoned>>
  /\ overlapped' = (overlapped \/ Overlap')

\* Mutant of Acquire: a shared lock instead of an exclusive one.
AcquireShared(p) ==
  /\ proc[p].pc = "lock"
  /\ lock' = p
  /\ Step(p, [proc[p] EXCEPT !.pc = IF proc[p].op = "sync" THEN "fetch" ELSE "read"])
  /\ UNCHANGED <<up, index, file, rot, abandoned>>
  /\ overlapped' = (overlapped \/ Overlap')

(* flock(LOCK_EX) blocks until the holder is gone and ignores the context. *)
Acquire(p) ==
  /\ proc[p].pc = "lock"
  /\ lock = NoProc
  /\ lock' = p
  /\ Step(p, [proc[p] EXCEPT !.pc = IF proc[p].op = "sync" THEN "fetch" ELSE "read"])
  /\ UNCHANGED <<up, index, file, rot, abandoned>>
  /\ overlapped' = (overlapped \/ Overlap')

-----------------------------------------------------------------------------
(* Sync. *)

(* GetBytes of the next APKINDEX from the primary source, verified and     *)
(* parsed; after the last one the payload pool starts.                     *)
Fetch(p) ==
  LET r   == proc[p]
      got == [r.got EXCEPT ![r.at] = up[r.at]]
  IN  /\ r.pc = "fetch"
      /\ ~r.cancelled
      /\ \/ /\ r.at < NIndexes
            /\ Step(p, [r EXCEPT !.got = got, !.at = @ + 1])
         \/ /\ r.at = NIndexes
            /\ Step(p, [r EXCEPT !.got = got, !.at = 1, !.pc = "ensure",
                                 !.todo = Named(got)])
      /\ UNCHANGED <<up, index, file, lock, rot, abandoned, overlapped>>

(* A download error, a bad signature, a cancelled request, a full disk:    *)
(* the operation returns the error.                                        *)
OpFails(p) ==
  /\ proc[p].pc \in {"fetch", "ensure", "publish", "read", "repair", "walk"}
  /\ Finish(p)
  /\ UNCHANGED <<up, index, file, rot, abandoned, overlapped>>

\* Mutant of EnsureSynced: a failed download is logged and the file skipped.
EnsureSyncedSkips(p, f) ==
  /\ proc[p].pc = "ensure"
  /\ f \in proc[p].todo
  /\ Step(p, [proc[p] EXCEPT !.todo = @ \ {f}])
  /\ UNCHANGED <<up, index, file, lock, rot, abandoned, overlapped>>

(* ensureSyncedOne: a file of the right size is kept as it is, any other   *)
(* is downloaded, verified and renamed into place.                         *)
EnsureSynced(p, f) ==
  LET r == proc[p]
  IN  /\ r.pc = "ensure"
      /\ f \in r.todo
      /\ Step(p, [r EXCEPT !.todo = @ \ {f}])
      /\ file' = [file EXCEPT ![f] = IF @ = "none" THEN "good" ELSE @]
      /\ UNCHANGED <<up, index, lock, rot, abandoned, overlapped>>

(* The pool call returns nil: every file is done, or the cancelled producer *)
(* dropped the rest (DownloadPool!Abandon).                                 *)
EnsureReturns(p) ==
  LET r == proc[p]
  IN  /\ r.pc = "ensure"
      /\ r.todo = {} \/ r.cancelled
      /\ abandoned' = (abandoned \/ r.todo # {})
      /\ Step(p, [r EXCEPT !.pc = "publish", !.todo = {}])
      /\ UNCHANGED <<up, index, file, lock, rot, overlapped>>

(* AtomicWrite of the next index, in path order; after the last one Sync   *)
(* prunes, still under its lock, or returns.                               *)
PublishIndex(p) ==
  LET r == proc[p]
  IN  /\ r.pc = "publish"
      /\ index' = [index EXCEPT ![r.at] = r.got[r.at]]
      /\ \/ /\ r.at < NIndexes
            /\ Step(p, [r EXCEPT !.at = @ + 1])
            /\ UNCHANGED lock
         \/ /\ r.at = NIndexes /\ PruneOnSync
            /\ Step(p, [r EXCEPT !.at = 1, !.pc = "read"])
            /\ UNCHANGED lock
         \/ /\ r.at = NIndexes /\ ~PruneOnSync
            /\ Finish(p)
      /\ UNCHANGED <<up, file, rot, abandoned, overlapped>>

-----------------------------------------------------------------------------
\* Mutant of ReadIndex: the keep set holds the last index read only.
ReadIndexLastOnly(p) ==
  LET r    == proc[p]
      keep == Refs(r.at, index[r.at])
  IN  /\ r.pc = "read"
      /\ index[r.at] # Absent
      /\ IF r.at < NIndexes
         THEN Step(p, [r EXCEPT !.at = @ + 1])
         ELSE Step(p, [r EXCEPT !.at = 1, !.pc = "walk", !.keep = keep])
      /\ UNCHANGED <<up, index, file, lock, rot, abandoned, overlapped>>

(* Verify and Prune read the published state, index by index; a missing     *)
(* index ends the operation before anything was changed (OpFails).          *)
ReadIndex(p) ==
  LET r    == proc[p]
      keep == r.keep \cup Refs(r.at, index[r.at])
  IN  /\ r.pc = "read"
      /\ index[r.at] # Absent
      /\ \/ /\ r.at < NIndexes
            /\ Step(p, [r EXCEPT !.keep = keep, !.at = @ + 1])
         \/ /\ r.at = NIndexes /\ r.op = "verify"
            /\ Step(p, [r EXCEPT !.at = 1, !.pc = "repair", !.todo = keep, !.keep = {}])
         \/ /\ r.at = NIndexes /\ r.op # "verify"
            /\ Step(p, [r EXCEPT !.at = 1, !.pc = "walk", !.keep = keep])
      /\ UNCHANGED <<up, index, file, lock, rot, abandoned, overlapped>>

\* Mutant of EnsureRepaired: verify looks at the size only, like sync.
EnsureRepairedBySize(p, f) ==
  /\ proc[p].pc = "repair"
  /\ f \in proc[p].todo
  /\ Step(p, [proc[p] EXCEPT !.todo = @ \ {f}])
  /\ file' = [file EXCEPT ![f] = IF @ = "none" THEN "good" ELSE @]
  /\ UNCHANGED <<up, index, lock, rot, abandoned, overlapped>>

(* ensureRepairedOne: the checksum decides, not only the size. *)
EnsureRepaired(p, f) ==
  LET r == proc[p]
  IN  /\ r.pc = "repair"
      /\ f \in r.todo
      /\ Step(p, [r EXCEPT !.todo = @ \ {f}])
      /\ file' = [file EXCEPT ![f] = "good"]
      /\ UNCHANGED <<up, index, lock, rot, abandoned, overlapped>>

VerifyReturns(p) ==
  /\ proc[p].pc = "repair"
  /\ proc[p].todo = {}
  /\ Finish(p)
  /\ UNCHANGED <<up, index, file, rot, abandoned, overlapped>>

(* The same pool cuts a cancelled verify short, without an error. *)
VerifyAbandoned(p) ==
  /\ proc[p].pc = "repair"
  /\ proc[p].todo # {}
  /\ proc[p].cancelled
  /\ Finish(p)
  /\ UNCHANGED <<up, index, file, rot, abandoned, overlapped>>

(* WalkDir unlinks one file that is not in the keep set. *)
PruneFile(p, f) ==
  /\ proc[p].pc = "walk"
  /\ file[f] # "none"
  /\ f \notin proc[p].keep
  /\ file' = [file EXCEPT ![f] = "none"]
  /\ UNCHANGED <<up, index, lock, proc, rot, abandoned, overlapped>>

(* The walk has seen every file. *)
PruneReturns(p) ==
  /\ proc[p].pc = "walk"
  /\ Present \subseteq proc[p].keep
  /\ Finish(p)
  /\ UNCHANGED <<up, index, file, rot, abandoned, overlapped>>

-----------------------------------------------------------------------------
(* The environment. *)

(* Upstream publishes a new version of an index. *)
UpstreamAdvances(i) ==
  /\ up[i] < MaxVersion
  /\ up' = [up EXCEPT ![i] = @ + 1]
  /\ UNCHANGED <<index, file, lock, proc, rot, abandoned, overlapped>>

(* SIGTERM: the context of the running operation is cancelled. *)
Cancel(p) ==
  /\ proc[p].pc # "idle"
  /\ ~proc[p].cancelled
  /\ Step(p, [proc[p] EXCEPT !.cancelled = TRUE])
  /\ UNCHANGED <<up, index, file, lock, rot, abandoned, overlapped>>

(* The process dies; the kernel releases its flock, the disk stays. *)
Crash(p) ==
  /\ proc[p].pc # "idle"
  /\ Finish(p)
  /\ UNCHANGED <<up, index, file, rot, abandoned, overlapped>>

(* A payload is damaged on disk without changing its size. *)
Rot(f) ==
  /\ rot < MaxRot
  /\ file[f] = "good"
  /\ file' = [file EXCEPT ![f] = "rotten"]
  /\ rot' = rot + 1
  /\ proc' = [p \in Procs |-> [proc[p] EXCEPT !.rotted = proc[p].pc # "idle"]]
  /\ UNCHANGED <<up, index, lock, abandoned, overlapped>>

Next ==
  \/ \E p \in Procs :
       \/ \E op \in {"sync", "verify", "prune"} : Start(p, op)
       \/ Acquire(p) \/ Fetch(p) \/ OpFails(p) \/ EnsureReturns(p)
       \/ PublishIndex(p) \/ ReadIndex(p) \/ VerifyReturns(p)
       \/ VerifyAbandoned(p) \/ PruneReturns(p) \/ Cancel(p) \/ Crash(p)
       \/ \E f \in Payloads : EnsureSynced(p, f) \/ EnsureRepaired(p, f) \/ PruneFile(p, f)
  \/ \E i \in Indexes : UpstreamAdvances(i)
  \/ \E f \in Payloads : Rot(f)

Spec == Init /\ [][Next]_vars
-----------------------------------------------------------------------------
(* Properties. *)

Mirror == INSTANCE PublishedMirror WITH present <- Present

Exempt == abandoned \/ overlapped

(* At every moment, also between two processes, after a failed sync and    *)
(* after a crash in the middle of anything, a client finds every package   *)
(* that a published index names -- unless a cancelled sync dropped files   *)
(* or the lock-free prune command ran beside a sync.                       *)
PublishedComplete == Exempt \/ Mirror!Complete(index, Present)

(* With the same exemption every step is one the abstract mirror allows:   *)
(* an index advances only to a version whose packages are there, and only  *)
(* an unreferenced package is removed.                                     *)
RefinesMirror ==
  Mirror!Init /\ [][Mirror!Next \/ Exempt']_(Mirror!mirror)

(* A published index is never replaced by an older one, however many       *)
(* processes sync the repository: fetching and publishing are under one    *)
(* lock.                                                                   *)
NoRollback == [][\A i \in Indexes : index'[i] >= index[i]]_index

(* When verify reports success without having been cut short, every        *)
(* package of the published indexes is there with the right checksum,      *)
(* unless it was damaged while verify ran.                                 *)
VerifyHeals ==
  [][\A p \in Procs :
       VerifyReturns(p) /\ ~proc[p].rotted /\ ~Exempt =>
         \A f \in Named(index) : file[f] = "good"]_vars

(* spec.md:922 "Prune keeps all files referenced by current metadata."     *)
PruneKeepsReferenced ==
  [][\A p \in Procs, f \in Payloads : PruneFile(p, f) => f \notin Named(index)]_vars
=============================================================================
