---------------------------- MODULE AptRepository ----------------------------
(***************************************************************************)
(* One APT repository of one suite (internal/apt): plan, sync, verify and  *)
(* prune, with the files they leave on disk -- the signed Release in its   *)
(* two forms, the index files, their by-hash copies, the packages -- and   *)
(* the two manifests kept under staging: which index files of a Release    *)
(* were resolved (resolved_state.go) and which by-hash generations to      *)
(* retain (byhash.go).                                                     *)
(*                                                                         *)
(* The configuration selects some of the indexes a Release names (its      *)
(* components and architectures), and may change between two operations.   *)
(*                                                                         *)
(* Every operation holds the repository lock from its first step to its    *)
(* last, so one runs at a time and `run` is its state; what interleaves    *)
(* with it is upstream, cancellation and the crash of the process.  The    *)
(* checksum algorithms of an index are one: a by-hash file is the pair of  *)
(* its index and its content.  Staged files are used after a check against *)
(* the verified Release only, so they are not part of the state.           *)
(***************************************************************************)
EXTENDS Integers, Sequences, FiniteSets

CONSTANTS
  MaxVersion,    (* upstream publishes the Releases 1..MaxVersion in order     *)
  Canon,         (* the canonical index paths of the suite                     *)
  Configs,       (* the selections of them that a configuration may make       *)
  NoContent,     (* an index that is not on disk, or not in a Release          *)
  Content(_, _), (* Content(c, v): the content Release v names for index c     *)
  Provided(_),   (* the indexes of Release v that upstream really serves       *)
  Upstreams,     (* the upstreams to consider: [forms, byhash], how each       *)
                 (* Release is signed and whether it has Acquire-By-Hash       *)
  Payloads,      (* the package paths                                          *)
  Refs(_, _),    (* Refs(c, x): the packages content x of index c names        *)
  PruneOnSync,   (* sync.prune                                                 *)
  MayCancel,     (* whether operations may be cancelled                        *)
  MaxMishaps     (* bound on how often staging is emptied or damaged, or the   *)
                 (* configuration changed                                      *)

Versions == 1..MaxVersion
Absent   == 0

Contents == {Content(c, v) : c \in Canon, v \in Versions} \ {NoContent}

Advertised(v) == {c \in Canon : Content(c, v) # NoContent}

ASSUME AptAssumption ==
  /\ MaxVersion \in Nat \ {0}
  /\ IsFiniteSet(Canon)
  /\ Configs \subseteq SUBSET Canon
  /\ \A v \in Versions : Provided(v) \subseteq Advertised(v)
  /\ Upstreams \subseteq [forms  : [Versions -> SUBSET {"inline", "detached"}],
                          byhash : [Versions -> BOOLEAN]]
  /\ \A c \in Canon, x \in Contents : Refs(c, x) \subseteq Payloads
  /\ PruneOnSync \in BOOLEAN
  /\ MayCancel \in BOOLEAN
  /\ MaxMishaps \in Nat

VARIABLES
  upstream,   (* the upstream of this behaviour                               *)
  config,     (* the indexes that the configuration selects                   *)
  seen,       (* the newest Release upstream has served                       *)
  inRelease,  (* the Release in the published InRelease, or Absent            *)
  release,    (* the Release in the published Release file, or Absent         *)
  sig,        (* the Release that the published Release.gpg signs, or Absent  *)
  canon,      (* the content of each published index                          *)
  byhash,     (* the published by-hash files                                  *)
  pool,       (* the published packages                                       *)
  manifest,   (* resolved-release-state: [st, known, selected, resolved], the *)
              (* Releases on record, which indexes of each were asked for     *)
              (* and which of those upstream had                              *)
  history,    (* by-hash history: [st, gens]                                  *)
  mishaps,    (* how often any of that happened                               *)
  run,        (* the operation that holds the repository lock                 *)
  offered,    (* history: the indexes that the published Release was          *)
              (* published with, as far as they are still selected            *)
  past,       (* history: the latest three contents of each index that        *)
              (* clients were sent to by hash                                 *)
  abandoned,  (* history: a cancelled operation dropped files silently        *)
  amnesia,    (* history: staging was emptied and no sync has committed since *)
  lapse       (* history: a sync ended after publishing and before it wrote   *)
              (* the by-hash history, and so did the one before it: what is   *)
              (* on record is not what clients were sent to                   *)

served == <<inRelease, release, sig>>
disk   == <<canon, byhash, pool>>
state  == <<manifest, history, mishaps>>
ghosts == <<offered, past, abandoned, amnesia, lapse>>
vars   == <<upstream, config, seen, served, disk, state, run, ghosts>>

NoGens  == [c \in Canon |-> <<>>]
Nothing == [v \in Versions |-> {}]

NoManifest(st) == [st |-> st, known |-> {}, selected |-> Nothing, resolved |-> Nothing]

Idle == [op |-> "none", pc |-> "idle", v |-> Absent, inl |-> FALSE, det |-> FALSE,
         files |-> {}, todo |-> {}, pkgs |-> {}, oldv |-> Absent, oldfiles |-> {},
         gens |-> NoGens, protect |-> FALSE, lost |-> FALSE]

(* validateByHashHistory: at most three generations, with distinct digests. *)
GensOK(gens) ==
  \A c \in Canon :
    /\ gens[c] \in Seq(Contents) /\ Len(gens[c]) <= 3
    /\ \A i, j \in 1..Len(gens[c]) : i # j => gens[c][i] # gens[c][j]

RunState ==
  [op : {"none", "plan", "sync", "verify", "prune"},
   pc : {"idle", "fetch", "resolve", "preserve", "payloads", "indexes", "byhash",
         "prepare", "release", "inline", "signature", "commit", "history",
         "reread", "repair", "walk"},
   v : Versions \cup {Absent}, inl : BOOLEAN, det : BOOLEAN,
   files : SUBSET Canon, todo : SUBSET Canon, pkgs : SUBSET Payloads,
   oldv : Versions \cup {Absent}, oldfiles : SUBSET Canon,
   gens : [Canon -> Seq(Contents)], protect : BOOLEAN, lost : BOOLEAN]

TypeOK ==
  /\ upstream \in Upstreams
  /\ config \in Configs
  /\ seen \in Versions
  /\ {inRelease, release, sig} \subseteq Versions \cup {Absent}
  /\ canon \in [Canon -> Contents \cup {NoContent}]
  /\ byhash \in SUBSET (Canon \X Contents)
  /\ pool \in SUBSET Payloads
  /\ manifest \in [st : {"missing", "valid", "corrupt"}, known : SUBSET Versions,
                   selected : [Versions -> SUBSET Canon], resolved : [Versions -> SUBSET Canon]]
  /\ \A v \in Versions : manifest.resolved[v] \subseteq manifest.selected[v]
  /\ history \in [st : {"missing", "valid", "corrupt"}, gens : [Canon -> Seq(Contents)]]
  /\ GensOK(history.gens)
  /\ mishaps \in 0..MaxMishaps
  /\ run \in RunState /\ GensOK(run.gens)
  /\ offered \in SUBSET Canon
  /\ past \in [Canon -> Seq(Contents)] /\ GensOK(past)
  /\ abandoned \in BOOLEAN
  /\ amnesia \in BOOLEAN
  /\ lapse \in BOOLEAN

Init ==
  /\ upstream \in Upstreams
  /\ config \in Configs
  /\ seen = 1
  /\ inRelease = Absent /\ release = Absent /\ sig = Absent
  /\ canon = [c \in Canon |-> NoContent]
  /\ byhash = {}
  /\ pool = {}
  /\ manifest = NoManifest("missing")
  /\ offered = {}
  /\ history = [st |-> "missing", gens |-> NoGens]
  /\ mishaps \in 0..MaxMishaps   (* how much of the bound a behaviour may use *)
  /\ run = Idle
  /\ past = NoGens
  /\ abandoned = FALSE
  /\ amnesia = FALSE
  /\ lapse = FALSE

-----------------------------------------------------------------------------
(* Releases. *)

ByHash(v) == upstream.byhash[v]
Forms(v)  == upstream.forms[v]

(* selectReleaseForms: a valid InRelease drives; the detached pair counts  *)
(* when both its parts are of one Release, and beside an InRelease when    *)
(* that is the same Release.                                               *)
Selected(in, rel, sg) ==
  LET pair == rel # Absent /\ rel = sg
  IN  [v   |-> IF in # Absent THEN in ELSE IF pair THEN rel ELSE Absent,
       inl |-> in # Absent,
       det |-> pair /\ (in # Absent => rel = in)]

(* The Release that clients, and readPublishedSuiteRelease, find. *)
Served == Selected(inRelease, release, sig).v

Named(v, files) == UNION {Refs(c, Content(c, v)) : c \in files}

ByHashFiles(v, files) ==
  IF ByHash(v) THEN {<<c, Content(c, v)>> : c \in files} ELSE {}

(* selectReleaseFiles. *)
Selection(v) == config \cap Advertised(v)

\* Mutant of Readable: a manifest that cannot be decoded is read as missing.
ReadableCorrupt == Served # Absent /\ (manifest.st = "valid" => Served \in manifest.known)

(* readPublishedReleaseState: the published Release has to verify, and a   *)
(* manifest, when there is one, has to be whole and to know it.            *)
Readable ==
  /\ Served # Absent
  /\ manifest.st # "corrupt"
  /\ manifest.st = "valid" => Served \in manifest.known

PublishedFiles ==
  IF manifest.st = "valid" THEN Selection(Served) \cap manifest.resolved[Served]
  ELSE Selection(Served)

Newest(n, gens) == [i \in 1..(IF Len(gens) < n THEN Len(gens) ELSE n) |-> gens[i]]

\* Mutant of Remember: the digests already retained are not skipped.
RememberDuplicates(gens, x) == Newest(3, <<x>> \o gens)

Has(gens, x) == \E i \in 1..Len(gens) : gens[i] = x

(* The newest three distinct generations: those before x move back by one. *)
Remember(gens, x) ==
  LET n == IF Has(gens, x) \/ Len(gens) >= 3 THEN Len(gens) ELSE Len(gens) + 1
  IN  [i \in 1..n |-> IF i = 1 THEN x
                      ELSE IF \A j \in 1..(i - 1) : gens[j] # x THEN gens[i - 1] ELSE gens[i]]

(* updateByHashHistory: the record of an index that Release v does not     *)
(* serve by hash is dropped.                                               *)
UpdateHistory(gens, v, files) ==
  [c \in Canon |-> IF ByHash(v) /\ c \in files THEN Remember(gens[c], Content(c, v)) ELSE <<>>]

-----------------------------------------------------------------------------
(* Beginning and end of an operation. *)

\* Mutant of BeginSync: the history is not brought up to date with what is published.
BeginSyncForgets ==
  /\ run.pc = "idle"
  /\ run' = [Idle EXCEPT !.op = "sync", !.pc = "fetch", !.gens = history.gens,
                         !.oldv = IF Readable THEN Served ELSE Absent,
                         !.oldfiles = IF Readable THEN PublishedFiles ELSE {},
                         !.protect = \/ history.st = "corrupt"
                                     \/ ~Readable /\ (inRelease # Absent \/ release # Absent),
                         !.lost = history.st = "corrupt"]
  /\ UNCHANGED <<upstream, config, seen, served, disk, state, ghosts>>

(* Sync reads the published Release, if there is one, and the history;     *)
(* unknown by-hash files are protected when either cannot be read.         *)
BeginSync ==
  /\ run.pc = "idle"
  /\ run' = [Idle EXCEPT !.op = "sync", !.pc = "fetch",
                         !.gens = IF Readable
                                  THEN UpdateHistory(history.gens, Served, PublishedFiles)
                                  ELSE history.gens,
                         !.oldv = IF Readable THEN Served ELSE Absent,
                         !.oldfiles = IF Readable THEN PublishedFiles ELSE {},
                         !.protect = \/ history.st = "corrupt"
                                     \/ ~Readable /\ (inRelease # Absent \/ release # Absent),
                         !.lost = history.st = "corrupt"]
  /\ UNCHANGED <<upstream, config, seen, served, disk, state, ghosts>>

BeginPlan ==
  /\ run.pc = "idle"
  /\ run' = [Idle EXCEPT !.op = "plan", !.pc = "fetch"]
  /\ UNCHANGED <<upstream, config, seen, served, disk, state, ghosts>>

BeginVerify ==
  /\ run.pc = "idle"
  /\ Readable
  /\ run' = [Idle EXCEPT !.op = "verify", !.pc = "indexes", !.v = Served,
                         !.files = PublishedFiles, !.todo = PublishedFiles]
  /\ UNCHANGED <<upstream, config, seen, served, disk, state, ghosts>>

(* Prune needs every index of the published Release on disk; a missing     *)
(* history is rebuilt from the published Release and written.              *)
BeginPrune ==
  LET form  == Selected(inRelease, release, sig)
      fresh == [st |-> "valid", gens |-> UpdateHistory(NoGens, Served, PublishedFiles)]
      hist  == IF history.st = "missing" THEN fresh ELSE history
  IN  /\ run.pc = "idle"
      /\ Readable
      /\ \A c \in PublishedFiles : canon[c] = Content(c, Served)
      /\ history' = hist
      /\ run' = [Idle EXCEPT !.op = "prune", !.pc = "walk", !.v = Served,
                             !.inl = form.inl, !.det = form.det, !.files = PublishedFiles,
                             !.gens = hist.gens, !.protect = hist.st = "corrupt"]
      /\ UNCHANGED <<upstream, config, seen, served, disk, manifest, mishaps, ghosts>>

(* What clients were sent to is what the generations on record begin with,  *)
(* once the latest is put in front.                                         *)
Recalls(gens, sent) ==
  \A c \in Canon :
    sent[c] # <<>> => sent[c] = Newest(Len(sent[c]), Remember(gens[c], sent[c][1]))

(* The operation returns; after a sync that replaced a corrupt history,    *)
(* only as many generations as the new one has are still owed to clients.  *)
Finish ==
  /\ run' = Idle
  /\ past' = IF run.lost /\ history.st = "valid"
             THEN [c \in Canon |-> Newest(Len(history.gens[c]), past[c])] ELSE past
  /\ lapse' = (lapse \/ (history.st # "corrupt" /\ ~Recalls(history.gens, past')))

(* A request, a signature, a checksum, the disk: an error ends the         *)
(* operation at any point; so does a crash, which leaves the same disk.    *)
OpFails ==
  /\ run.pc # "idle"
  /\ Finish
  /\ UNCHANGED <<upstream, config, seen, served, disk, state, offered, abandoned, amnesia>>

-----------------------------------------------------------------------------
(* fetchState. *)

\* Mutant of ToResolve: an index selected since is taken for one upstream lacks.
ToResolveKnown(v) ==
  {c \in Selection(v) : v \in manifest.known => c \in manifest.resolved[v]}

(* releaseFilesToResolve: of a Release resolved before, not the indexes    *)
(* that were asked for and found missing.                                  *)
ToResolve(v) ==
  {c \in Selection(v) : v \in manifest.known =>
                          c \in manifest.resolved[v] \/ c \notin manifest.selected[v]}

(* fetchRelease: InRelease, Release and Release.gpg are three requests, and *)
(* upstream may publish between them.  The manifest has to be readable.     *)
FetchRelease(a, b, d) ==
  LET form == Selected(IF "inline" \in Forms(a) THEN a ELSE Absent,
                       IF "detached" \in Forms(b) THEN b ELSE Absent,
                       IF "detached" \in Forms(d) THEN d ELSE Absent)
      v    == form.v
  IN  /\ run.pc = "fetch"
      /\ manifest.st # "corrupt"
      /\ seen <= a /\ a <= b /\ b <= d
      /\ seen' = d
      /\ v # Absent
      /\ run' = [run EXCEPT !.pc = "resolve", !.v = v, !.inl = form.inl, !.det = form.det,
                            !.todo = ToResolve(v)]
      /\ UNCHANGED <<upstream, config, served, disk, state, ghosts>>

(* ResolveExact finds the index on disk or at a source. *)
ResolveFound(c) ==
  /\ run.pc = "resolve"
  /\ c \in run.todo
  /\ c \in Provided(run.v)
  /\ run' = [run EXCEPT !.todo = @ \ {c}, !.files = @ \cup {c}]
  /\ UNCHANGED <<upstream, config, seen, served, disk, state, ghosts>>

(* The authoritative source answers 404, now or after it has moved on.  It *)
(* is not asked for an index on record whose published file is whole.      *)
ResolveMissing(c) ==
  /\ run.pc = "resolve"
  /\ c \in run.todo
  /\ ~(c \in manifest.resolved[run.v] /\ canon[c] = Content(c, run.v))
  /\ \E u \in seen..MaxVersion : u >= run.v /\ c \notin Provided(u) /\ seen' = u
  /\ run' = [run EXCEPT !.todo = @ \ {c}]
  /\ UNCHANGED <<upstream, config, served, disk, state, ghosts>>

(* ResolveExact returns; when the producer was cancelled it returns no file *)
(* at all, and no error (DownloadPool!Return).                              *)
ResolveReturns ==
  LET dropped == run.todo # {}
  IN  /\ run.pc = "resolve"
      /\ dropped => MayCancel
      /\ abandoned' = (abandoned \/ dropped)
      /\ run' = [run EXCEPT !.pc = IF run.op = "plan" THEN "prepare" ELSE "preserve",
                            !.todo = {}, !.files = IF dropped THEN {} ELSE @]
      /\ UNCHANGED <<upstream, config, seen, served, disk, state, offered, past, amnesia, lapse>>

-----------------------------------------------------------------------------
(* Sync and Verify on disk. *)

(* preserveByHash: whatever by-hash file of the old Release is missing and *)
(* can still be made from its index is made; errors are ignored.           *)
Preserve ==
  /\ run.pc = "preserve"
  /\ byhash' = IF run.oldv = Absent THEN byhash
               ELSE byhash \cup {h \in ByHashFiles(run.oldv, run.oldfiles) : canon[h[1]] = h[2]}
  /\ run' = [run EXCEPT !.pc = "payloads", !.pkgs = Named(run.v, run.files)]
  /\ UNCHANGED <<upstream, config, seen, served, canon, pool, state, ghosts>>

\* Mutant of EnsurePayload: a failed download is logged and the file skipped.
EnsurePayloadSkips(p) ==
  /\ run.pc \in {"payloads", "repair"}
  /\ p \in run.pkgs
  /\ pool' \in {pool, pool \cup {p}}
  /\ run' = [run EXCEPT !.pkgs = @ \ {p}]
  /\ UNCHANGED <<upstream, config, seen, served, canon, byhash, state, ghosts>>

(* ensureSyncedOne and ensureRepairedOne of one package. *)
EnsurePayload(p) ==
  /\ run.pc \in {"payloads", "repair"}
  /\ p \in run.pkgs
  /\ pool' = pool \cup {p}
  /\ run' = [run EXCEPT !.pkgs = @ \ {p}]
  /\ UNCHANGED <<upstream, config, seen, served, canon, byhash, state, ghosts>>

(* The pool call returns nil, also when the producer was cancelled. *)
PayloadsReturn ==
  /\ run.pc = "payloads"
  /\ run.pkgs # {} => MayCancel
  /\ abandoned' = (abandoned \/ run.pkgs # {})
  /\ run' = [run EXCEPT !.pc = "indexes", !.pkgs = {}, !.todo = run.files]
  /\ UNCHANGED <<upstream, config, seen, served, disk, state, offered, past, amnesia, lapse>>

(* EnsureRepaired of one index: the checksum decides whether it stays. *)
EnsureIndex(c) ==
  /\ run.pc = "indexes"
  /\ c \in run.todo
  /\ canon' = [canon EXCEPT ![c] = Content(c, run.v)]
  /\ run' = [run EXCEPT !.todo = @ \ {c}]
  /\ UNCHANGED <<upstream, config, seen, served, byhash, pool, state, ghosts>>

IndexesReturn ==
  /\ run.pc = "indexes"
  /\ run.todo # {} => MayCancel
  /\ abandoned' = (abandoned \/ (run.op = "sync" /\ run.todo # {}))
  /\ run' = [run EXCEPT !.pc = "byhash",
                        !.todo = IF ByHash(run.v) THEN run.files ELSE {}]
  /\ UNCHANGED <<upstream, config, seen, served, disk, state, offered, past, amnesia, lapse>>

\* Mutant of Materialize: a failed link is taken for "already there".
MaterializeSkips(c) ==
  /\ run.pc = "byhash"
  /\ c \in run.todo
  /\ byhash' \in {byhash, byhash \cup {<<c, Content(c, run.v)>>}}
  /\ run' = [run EXCEPT !.todo = @ \ {c}]
  /\ UNCHANGED <<upstream, config, seen, served, canon, pool, state, ghosts>>

(* MaterializeByHash: the copy is there, or is made from the index if that *)
(* has the content (else the operation fails).                             *)
Materialize(c) ==
  LET h == <<c, Content(c, run.v)>>
  IN  /\ run.pc = "byhash"
      /\ c \in run.todo
      /\ h \in byhash \/ canon[c] = h[2]
      /\ byhash' = byhash \cup {h}
      /\ run' = [run EXCEPT !.todo = @ \ {c}]
      /\ UNCHANGED <<upstream, config, seen, served, canon, pool, state, ghosts>>

ByHashDone ==
  /\ run.pc = "byhash"
  /\ run.todo = {}
  /\ run' = [run EXCEPT !.pc = IF run.op = "verify" THEN "reread" ELSE "prepare"]
  /\ UNCHANGED <<upstream, config, seen, served, disk, state, ghosts>>

(* Verify parses the indexes it has repaired; one that is still wrong is   *)
(* an error (a cancelled pool may have left it so).                        *)
Reread ==
  /\ run.pc = "reread"
  /\ \A c \in run.files : canon[c] = Content(c, run.v)
  /\ run' = [run EXCEPT !.pc = "repair", !.pkgs = Named(run.v, run.files)]
  /\ UNCHANGED <<upstream, config, seen, served, disk, state, ghosts>>

VerifyReturns ==
  /\ run.pc = "repair"
  /\ run.pkgs # {} => MayCancel
  /\ Finish
  /\ UNCHANGED <<upstream, config, seen, served, disk, state, offered, abandoned, amnesia>>

-----------------------------------------------------------------------------
(* Publishing. *)

(* mergeResolvedReleaseRecords: what this operation asked for is as it     *)
(* found it, the rest of the record stays.                                 *)
Recorded ==
  [st       |-> "valid",
   known    |-> manifest.known \cup {run.v},
   selected |-> [manifest.selected EXCEPT ![run.v] = @ \cup Selection(run.v)],
   resolved |-> [manifest.resolved EXCEPT ![run.v] = (@ \ Selection(run.v)) \cup run.files]]

\* Mutant of Prepare: the manifest is replaced before the Release is published.
PrepareReplaces ==
  /\ run.pc = "prepare"
  /\ manifest' = [Recorded EXCEPT !.known = {run.v}]
  /\ run' = IF run.op = "plan" THEN Idle ELSE [run EXCEPT !.pc = "release"]
  /\ UNCHANGED <<upstream, config, seen, served, disk, history, mishaps, ghosts>>

(* prepareResolvedReleaseState: the record of the new Release is merged in, *)
(* those of the others stay, since one of them is still published.  Plan    *)
(* ends here.  After staging was emptied, an index of the published Release *)
(* that upstream no longer has is recorded as not there: it is given up.    *)
Prepare ==
  LET gone == IF amnesia /\ run.v = Served THEN Selection(run.v) \ run.files ELSE {}
  IN  /\ run.pc = "prepare"
      /\ manifest' = Recorded
      /\ run' = IF run.op = "plan" THEN Idle ELSE [run EXCEPT !.pc = "release"]
      /\ offered' = offered \ gone
      /\ past' = [c \in Canon |-> IF c \in gone THEN <<>> ELSE past[c]]
      /\ UNCHANGED <<upstream, config, seen, served, disk, history, mishaps, abandoned, amnesia, lapse>>

(* What clients are sent to once the Release of this operation is served. *)
RecordServed ==
  LET published == Served' = run.v /\ run.op = "sync"
  IN  /\ offered' = IF published THEN run.files ELSE IF Served' = Absent THEN {} ELSE offered
      /\ past' = IF published THEN UpdateHistory(past, run.v, run.files) ELSE past

(* PublishMetadata: Release before the signed files, InRelease before      *)
(* Release.gpg.                                                            *)
PublishRelease ==
  /\ run.pc = "release"
  /\ release' = IF run.det THEN run.v ELSE release
  /\ run' = [run EXCEPT !.pc = "inline"]
  /\ UNCHANGED <<upstream, config, seen, inRelease, sig, disk, state, abandoned, amnesia, lapse>>
  /\ RecordServed

PublishInRelease ==
  /\ run.pc = "inline"
  /\ inRelease' = IF run.inl THEN run.v ELSE inRelease
  /\ run' = [run EXCEPT !.pc = "signature"]
  /\ UNCHANGED <<upstream, config, seen, release, sig, disk, state, abandoned, amnesia, lapse>>
  /\ RecordServed

PublishSignature ==
  /\ run.pc = "signature"
  /\ sig' = IF run.det THEN run.v ELSE sig
  /\ run' = [run EXCEPT !.pc = "commit"]
  /\ UNCHANGED <<upstream, config, seen, inRelease, release, disk, state, abandoned, amnesia, lapse>>
  /\ RecordServed

(* commitResolvedReleaseState: only the new Release is kept. *)
Commit ==
  /\ run.pc = "commit"
  /\ manifest' = [st |-> "valid", known |-> {run.v},
                  selected |-> [Nothing EXCEPT ![run.v] = Selection(run.v)],
                  resolved |-> [Nothing EXCEPT ![run.v] = run.files]]
  /\ run' = [run EXCEPT !.pc = "history"]
  /\ amnesia' = FALSE
  /\ UNCHANGED <<upstream, config, seen, served, disk, history, mishaps, offered, past, abandoned, lapse>>

WriteHistory ==
  LET gens == UpdateHistory(run.gens, run.v, run.files)
  IN  /\ run.pc = "history"
      /\ history' = [st |-> "valid", gens |-> gens]
      /\ run' = [run EXCEPT !.pc = "walk", !.gens = gens]
      /\ UNCHANGED <<upstream, config, seen, served, disk, manifest, mishaps, ghosts>>

-----------------------------------------------------------------------------
(* pruneStateWithHistory, one removed file at a time. *)

Pruning == run.pc = "walk" /\ (run.op = "prune" \/ PruneOnSync)

StaleForm == (~run.inl /\ inRelease # Absent) \/ (~run.det /\ (release # Absent \/ sig # Absent))

StaleIndexes == {c \in Canon \ run.files : canon[c] # NoContent}

StaleByHash ==
  {h \in byhash \ ByHashFiles(run.v, run.files) :
     ~run.protect /\ \A i \in 1..Len(run.gens[h[1]]) : run.gens[h[1]][i] # h[2]}

StalePayloads == pool \ Named(run.v, run.files)

(* The alternate form of the Release that this one does not have. *)
PruneForm ==
  /\ Pruning /\ StaleForm
  /\ inRelease' = IF run.inl THEN inRelease ELSE Absent
  /\ release' = IF run.det THEN release ELSE Absent
  /\ sig' = IF run.det THEN sig ELSE Absent
  /\ UNCHANGED <<upstream, config, seen, disk, state, run, abandoned, amnesia, lapse>>
  /\ RecordServed

PruneIndex(c) ==
  /\ Pruning /\ c \in StaleIndexes
  /\ canon' = [canon EXCEPT ![c] = NoContent]
  /\ UNCHANGED <<upstream, config, seen, served, byhash, pool, state, run, ghosts>>

PruneByHash(h) ==
  /\ Pruning /\ h \in StaleByHash
  /\ byhash' = byhash \ {h}
  /\ UNCHANGED <<upstream, config, seen, served, canon, pool, state, run, ghosts>>

PrunePayload(p) ==
  /\ Pruning /\ p \in StalePayloads
  /\ pool' = pool \ {p}
  /\ UNCHANGED <<upstream, config, seen, served, canon, byhash, state, run, ghosts>>

PruneReturns ==
  /\ run.pc = "walk"
  /\ Pruning => ~StaleForm /\ StaleIndexes = {} /\ StaleByHash = {} /\ StalePayloads = {}
  /\ Finish
  /\ UNCHANGED <<upstream, config, seen, served, disk, state, offered, abandoned, amnesia>>

-----------------------------------------------------------------------------
(* The environment. *)

(* The staging directory is emptied between two operations: both manifests *)
(* are gone, and of the by-hash generations only the served one is owed.   *)
StagingLost ==
  /\ run.pc = "idle" /\ mishaps < MaxMishaps
  /\ mishaps' = mishaps + 1
  /\ manifest' = NoManifest("missing")
  /\ history' = [st |-> "missing", gens |-> NoGens]
  /\ past' = [c \in Canon |-> Newest(1, past[c])]
  /\ amnesia' = TRUE
  /\ UNCHANGED <<upstream, config, seen, served, disk, run, offered, abandoned, lapse>>

(* The history manifest is damaged; loadByHashHistory reads it as empty. *)
HistoryDamaged ==
  /\ run.pc = "idle" /\ history.st = "valid" /\ mishaps < MaxMishaps
  /\ mishaps' = mishaps + 1
  /\ history' = [st |-> "corrupt", gens |-> NoGens]
  /\ UNCHANGED <<upstream, config, seen, served, disk, manifest, run, ghosts>>

(* The resolved-release manifest is damaged; nothing repairs it. *)
ManifestDamaged ==
  /\ run.pc = "idle" /\ manifest.st = "valid" /\ mishaps < MaxMishaps
  /\ mishaps' = mishaps + 1
  /\ manifest' = NoManifest("corrupt")
  /\ UNCHANGED <<upstream, config, seen, served, disk, history, run, ghosts>>

(* upgradeResolvedReleaseStateV1: a manifest of an older program does not   *)
(* know which indexes were asked for and not found.                         *)
ManifestUpgraded ==
  /\ run.pc = "idle" /\ manifest.st = "valid" /\ mishaps < MaxMishaps
  /\ mishaps' = mishaps + 1
  /\ manifest' = [manifest EXCEPT !.selected = manifest.resolved]
  /\ UNCHANGED <<upstream, config, seen, served, disk, history, run, ghosts>>

(* The program is restarted with another configuration: what is no longer   *)
(* selected is no longer promised.                                          *)
Reconfigure(selection) ==
  /\ run.pc = "idle" /\ selection # config /\ mishaps < MaxMishaps
  /\ mishaps' = mishaps + 1
  /\ config' = selection
  /\ offered' = offered \cap selection
  /\ past' = [c \in Canon |-> IF c \in selection THEN past[c] ELSE <<>>]
  /\ UNCHANGED <<upstream, seen, served, disk, manifest, history, run, abandoned, amnesia, lapse>>

Next ==
  \/ BeginSync \/ BeginPlan \/ BeginVerify \/ BeginPrune \/ OpFails
  \/ \E a, b, d \in Versions : FetchRelease(a, b, d)
  \/ \E c \in Canon : ResolveFound(c) \/ ResolveMissing(c) \/ EnsureIndex(c) \/ Materialize(c)
  \/ \E p \in Payloads : EnsurePayload(p) \/ PrunePayload(p)
  \/ ResolveReturns \/ Preserve \/ PayloadsReturn \/ IndexesReturn \/ ByHashDone
  \/ Reread \/ VerifyReturns \/ Prepare
  \/ PublishRelease \/ PublishInRelease \/ PublishSignature \/ Commit \/ WriteHistory
  \/ PruneForm \/ PruneReturns
  \/ \E c \in Canon : PruneIndex(c)
  \/ \E h \in Canon \X Contents : PruneByHash(h)
  \/ StagingLost \/ HistoryDamaged \/ ManifestDamaged \/ ManifestUpgraded
  \/ \E selection \in Configs : Reconfigure(selection)

Spec == Init /\ [][Next]_vars

-----------------------------------------------------------------------------
(* Properties. *)

(* While index files are replaced, and after a crash at any point, a client *)
(* of the published Release finds by hash every index that came with it:    *)
(* the new copies are made before the Release, the old ones outlive it,     *)
(* also when the configuration or the manifest has changed since.           *)
ByHashServed ==
  abandoned \/ Served = Absent \/ ByHashFiles(Served, offered) \subseteq byhash

(* At every moment the manifest knows the Release that is published, so a   *)
(* crash between any two steps of a sync leaves a repository that verify    *)
(* and prune can read -- unless staging was emptied, when a plan or a sync  *)
(* that crashes writes a manifest of the new Release only.                  *)
PublishedIsKnown ==
  Served # Absent /\ manifest.st = "valid" /\ ~amnesia => Served \in manifest.known

Retained == \A c \in Canon : \A i \in 1..Len(past[c]) : <<c, past[c][i]>> \in byhash

(* The by-hash copies of the last three distinct contents clients were sent *)
(* to survive pruning, a damaged history, and a crash between publishing    *)
(* a Release and recording it -- but not two such crashes in a row.         *)
ThreeGenerations == abandoned \/ lapse \/ Retained

(* The indexes of Release v that upstream has served ever since. *)
Steady(v) == {c \in Canon : \A u \in v..seen : c \in Provided(u)}

(* spec.md:115-117: a sync that reports success has published the Release   *)
(* it fetched, with every index that the configuration now selects and      *)
(* upstream has had all the time -- whatever the manifest says of an earlier *)
(* selection.                                                               *)
SyncPublishes ==
  [][PruneReturns /\ run.op = "sync" /\ ~abandoned =>
       /\ Served = run.v
       /\ config \cap Steady(run.v) \subseteq run.files
       /\ \A c \in run.files : canon[c] = Content(c, run.v)]_vars

(* While the manifest cannot be decoded, no operation touches the published *)
(* tree: which files the published Release needs is not guessed.            *)
UnreadableManifestIsSafe == [][manifest.st = "corrupt" => UNCHANGED <<served, disk>>]_vars

NamedBy(i, x) == Named(x[1], x[2])

Mirror == INSTANCE PublishedMirror WITH
            Indexes <- {"suite"}, Versions <- Versions \X SUBSET Canon, Refs <- NamedBy,
            Absent <- <<Absent, {}>>,
            index <- [i \in {"suite"} |-> <<Served, offered>>], present <- pool

(* The packages of the published Release, as far as its indexes are         *)
(* mirrored, are there at every moment, and each step is one of the         *)
(* abstract mirror, when every Release has an InRelease and no cancelled    *)
(* operation dropped files.                                                 *)
RefinesMirror ==
  /\ Mirror!Init
  /\ [][Mirror!Next \/ abandoned' \/ \E v \in Versions : "inline" \notin Forms(v)]_(Mirror!mirror)

(* spec.md:922 "Prune keeps all files referenced by current metadata."      *)
PruneKeepsReferenced ==
  [][\A p \in Payloads : PrunePayload(p) => Served = Absent \/ p \notin Named(Served, config \cap Steady(Served))]_vars
=============================================================================
