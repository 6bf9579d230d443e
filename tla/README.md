# mirror-sync in TLA+

`mirrorsync` mirrors APT and Alpine APK repositories: it reads signed metadata
from several sources, downloads what the metadata names, and publishes the
packages first and the metadata that names them last, so that a client of the
mirror never reads an index whose packages are missing. This directory holds
TLA+ models of the parts of the program that make that true, TLC
configurations that check them on small instances, and TLAPS proofs of the
results that hold for every instance. Paths below are relative to the
repository root (`internal/...`, `spec.md`); line numbers are in
`PROJECT.json`, where `map` gives the lines each definition stands for.

    tlasany M.tla                                  parse a module
    tlc -workers 2 -config X.cfg M                 check a configuration
    tlapm MProofs.tla                              check the proofs of a module

## 1. Inventory

### 1.1 Components

| component | state it keeps | operations | modelled in |
|---|---|---|---|
| download: worker pool (`internal/download/download.go`) | an unbuffered job channel, an errgroup with its context, the `found` slice | `ResolveExact`, `EnsureSynced`, `EnsureRepaired` and the payload variants | `DownloadPool` |
| download + httpx: one file (`download.go`, `internal/httpx/httpx.go`, `PublishFile`) | `<staged>.partial`, the staged file, the published file | `resolveExactOne`, `ensureSyncedOne`, `ensureRepairedOne`, `downloadOne`, the retry loop of `Client.Do`, `PublishFile` | `FileTransfer` |
| apk repository (`internal/apk/apk.go`) | published packages and `APKINDEX.tar.gz` files, the repository lock | `Plan`, `Sync`, `Verify`, `Prune` | `ApkRepository` |
| apk formats (`apk.go`) | none | split signed gzip members, RSA check, parse the index | not modelled |
| apt repository (`internal/apt/apt.go`, `resolved_state.go`, `byhash.go`) | published `InRelease`, `Release`, `Release.gpg`, indexes, by-hash files, packages; under staging, the resolved-release manifest and the by-hash history | `Plan`, `Sync`, `Verify`, `Prune` | `AptRepository` |
| apt: a changed configuration | the same manifests | reuse of a manifest written for another selection | `AptRepository` |
| apt: several suites | the same manifests | the same operations, suite after suite | not modelled |
| apt formats (`apt.go`) | none | OpenPGP, Deb822, Release and index parsing | not modelled |
| publish (`internal/publish/publish.go`) | the lock file, temporary files, directories | `AcquireLock`, `AtomicWrite`, `PublishMetadata`, `PublishFile`, `MaterializeByHash`, `Verify`, `Prune` | `PublishTree`; as single steps in `ApkRepository`, `AptRepository`, `FileTransfer` |
| httpx clients and limits (`httpx.go`, `internal/limit/limit.go`) | one semaphore per source, one global | `Factory.Client`, `Do` | `HttpClient` |
| app (`internal/app/app.go`) | one goroutine per repository, retry counters | `Plan`, `Sync`, `Verify`, `Prune`, `Run` | `App` |
| scheduler (`internal/scheduler/scheduler.go`, the loop of `App.Run`) | a parsed cron expression, a timer | `New`, `Next`, the wait | `CronSchedule` |
| config (`internal/config/config.go`) | the configuration | parse, default, validate | not modelled |
| safe, model, logging, `cmd/mirrorsync` | none that matters | path cleaning, records, output, flags and signals | not modelled |

### 1.2 How they interact

`cmd/mirrorsync` turns SIGINT and SIGTERM into the cancellation of one
context. `app` runs every repository of a cycle in a goroutine of its own and
retries one that fails. A repository operation takes the repository's `flock`
(the APK `Prune` does not), reads the signed metadata, and hands sets of
expected files to the worker pool of `download`. A worker looks for a local
copy, then asks the sources in their order through an `httpx` client, whose
requests pass a source semaphore and a global one. A file moves from
`.partial` to staged to published by renames; signed metadata goes out through
`AtomicWrite` after the pool has returned; pruning walks the tree last. Two
processes on one configuration share the tree and meet only at the lock.

### 1.3 What is hard, and what correctness means

**Worker pool.** Producer, workers, the group's context and the caller's
cancellation interleave; the producer may leave its loop with files unsent
and `g.Wait()` then returns nil. Correct: no file is lost, worked on twice or
silently failed; "missing" only on the authority of the last source; a done
context always ends the call.

**One file.** A response may break off, be wrong or never end; the process
dies or the machine loses power between any two steps; what is left under
staging is found by the next call. Correct: only a verified file is ever
published; once published it survives a power loss; every source gets all its
attempts before the call fails.

**APK repository.** Several processes, an upstream that changes between two
index requests, damaged files, cancellation, a `Prune` without the lock.
Correct: at every moment each published index has its packages; indexes never
go back; a verify that completes leaves every package whole.

**APT repository.** Two forms of one Release in three files, indexes replaced
in place before the Release that names them, by-hash copies of three
generations, two manifests written before and after the metadata; a crash
between any of those. Correct: a client that follows the published Release by
hash finds every index; verify and prune can always read what is published;
three generations survive; a sync that succeeds has published what it fetched
and all that the configuration selects, whatever an earlier one selected.

**publish.** Bytes, modes and directory entries reach the disk separately; a
by-hash file and its index may be one inode; an interrupted call leaves files
in the way of the next. Correct: what a name of the published tree leads to is
whole, also after a power loss; by-hash bytes never change; leftovers are
harmless; the Release that is served keeps its by-hash files.

**httpx and limits.** A request that waits for the global permit holds its
source permit. Correct: neither limit is exceeded, both permits are back on
every error path and during the pause between attempts.

**app.** Repositories fail and are retried independently. Correct: every error
is reported, no repository runs again after it succeeded, a cancelled cycle
ends.

**scheduler.** Local time has gaps and repeats, the wall clock may be set while
the timer counts on, and a cycle may be shorter than a minute or longer than
the schedule's period. Correct: a cycle is scheduled for a minute that matches,
never twice for one, and none that matches passes by during the wait.

**config.** Correct: publish paths are isolated from each other; the source
order is mirrors first, the primary last.

`PROJECT.json` lists the hazards line by line with the property that catches
each; section 7 says which have none yet and why.

## 2. The modules

### 2.1 DownloadPool: the worker pool

`ResolveExact` asks for optional files (indexes) and returns the ones that
exist; `ensureMany` makes a set of files be there. Both are one producer, a
number of workers (`WorkerCount` translates `workerCount`: limits that are not
positive count as one, and there are never more workers than files), and an
errgroup. `op` says which of the two runs.

| code | model |
|---|---|
| the loop `select { case jobs <- exp; case <-ctx.Done() }` | `Hand(w, f)` (a send meets a waiting worker), `Abandon` |
| `close(jobs)`, `g.Wait()`, the return value | `Close`, `Return` |
| `for job := range jobs`: local copy, sources in order, verdict | `CheckLocal`, `Ask`, `Answer` (with `React`, `Settle`, `Fail`), `Exit` |
| a request ended by the context | `Abort` |
| the caller cancels | `Cancel` |

`ctxDone` is the group's context: done when the caller cancels or a worker has
returned an error. Files are handed out in any order. What a source answers is
chosen freely among success, 404 and failure; `answer` records it for the
properties.

### 2.2 FileTransfer: one file, from `.partial` to the published tree

One call at a time (the repository lock and the pool guarantee that one call
works on a file) finds whatever contents earlier calls, crashes and power
losses left in the three places of the file. Contents are *good*, *rotten*
(right size, wrong checksum), *short* or *none*. `kind` tells an APT file,
whose checksum is computed while it streams, from an APK package, which is
staged and then verified.

`CheckFinal`, `CheckStaged` and `CheckResolved` look for a reusable copy as the
three per-file functions do; `Open`, `Refuse`, `Break`, `Receive`, `Backoff`,
`Abort` are `Client.Do` with its retries, driven by `downloadOne`; `Fsync`,
`Accept`, `VerifyStaged` decide what becomes of a complete response;
`Publish` and `SyncDir` are `PublishFile`. `DiskFails`, `FsyncFails` and
`StagingFails` are the error returns of the file operations.

*Durability.* `volatile` holds the files whose bytes have not been synced and
`durable` the published content that survives a power loss. `PowerLoss` takes
the published file back to `durable`, or keeps the rename; a file renamed with
bytes still volatile comes back torn. Nothing syncs the staging directories,
so they come back with anything. `Crash` kills the process only: what it wrote
stays.

### 2.3 ApkRepository: several processes on one tree

Each process runs one operation at a time; the lock is taken by `Sync` and
`Verify` and not by `Prune`, as in the code. The steps are the ones another
process can see: `Fetch` (one index from upstream, which may change between
two of them), `EnsureSynced(p, f)` and `EnsureRepaired(p, f)` (one package
renamed into place), `PublishIndex`, `ReadIndex` (verify and prune read the
published indexes in turn), `PruneFile`. `EnsureReturns` and `VerifyAbandoned`
carry over what `DownloadPool` shows: a cancelled pool call returns no error
with files left out. `OpFails` is every error return; `Crash` frees the lock,
as the kernel does; `Rot` damages a package with its size unchanged.

### 2.4 AptRepository: the published Release and the two manifests

Every operation holds the lock from beginning to end, so `run` is the state of
the one that runs and the lock is implied. `FetchRelease(a, b, d)` reads
`InRelease`, `Release` and `Release.gpg` of three moments of upstream and
selects the form (`Selected` is `selectReleaseForms`); `ResolveFound`,
`ResolveMissing` and `ResolveReturns` are `ResolveExact` on the indexes;
then, in the order of `Sync`: `Preserve`, `EnsurePayload`/`PayloadsReturn`,
`EnsureIndex`/`IndexesReturn`, `Materialize`/`ByHashDone`, `Prepare`, the
three metadata writes, `Commit`, `WriteHistory`, and the prune walk, a file at
a time. `Verify` goes through the same index and by-hash steps with the
published Release, then `Reread`. `BeginPrune` includes the rebuilding of a
missing history. `OpFails` may come at any point and stands for an error
return and for a crash: both leave the disk as it is.

`manifest.known` and `manifest.resolved` are the Releases recorded in
`resolved-release-state` with the indexes found for each; `history` is the
by-hash history, which may be missing or unreadable. `StagingLost` empties the
staging directory between two operations; `HistoryDamaged` corrupts the
history.

The configuration is `config`, the indexes it selects; `Reconfigure` changes it
between two operations. The manifest therefore records, for each Release,
which indexes were asked for and which of them upstream had (`SelectedPaths`
and `ResolvedPaths`); `ToResolve` is `releaseFilesToResolve`, which skips only
what was asked for and missing, and `Recorded` merges two operations on one
Release. `ManifestDamaged` makes the manifest undecodable, `ManifestUpgraded`
replaces it by what the program reads from version 1 of its format. The history
variable `offered` is the set of indexes that the served Release was published
with, as far as they are still selected: what clients may ask for. `past` holds
the latest three contents of each index that clients were sent to by hash.
Both follow what the program can know: when staging was emptied, an index of
the published Release that upstream no longer has is given up (`Prepare`), and
after a damaged history only the generations of the new one are owed
(`Finish`).

### 2.5 PublishedMirror: what clients are promised

A package appears; an index is replaced in one step by one whose packages are
there; a package goes when no index names it. `ApkRepository` implements it
with `index` and the packages on disk; `AptRepository` with one index whose
version is the Release clients find (`Served`) together with `offered`.

### 2.6 HttpClient: permits of requests

Each caller of `Client.Do` is idle, waits for its source's permit, waits for
the global one while it holds the first, sends, reads the body, or pauses
between attempts.

| code | model |
|---|---|
| `Factory.Client`, the call of `Do` | `Begin(w, s, c)` (the context may be done already) |
| `sourceLimiter.Acquire`, `globalLimiter.Acquire` | `AcquireSource`, `AcquireGlobal`; ended by the context: `GiveUpSource`, `GiveUpGlobal` |
| `c.client.Do(req)` | `Respond`, `Fail` |
| the closure with its three `defer`s | `Consume`, `Break(w, retryable)`, with `ReleaseBoth` |
| `attempt < c.retries`, `retryableHTTPError` | `AfterFailure` |
| the `select` on the timer and the context | `Resume`, `StopPause` |

`sourceTaken` and `globalTaken` are what the channels of `limit.Limiter` hold;
the properties compare them with the states of the calls. A source of the model
is an entry of the client cache, whose key is the URL with its settings: two
repositories with equal settings share one, so the model's callers may belong
to any repositories. `FileTransfer` has the same loop for one call, without
limits, and says what a response does to the file.

### 2.7 App: the commands

`main` is the goroutine of the command and `repo[r]` the one of a repository in
the current cycle. `Start` is the check of `Run` and the first cycle,
`CycleEnds` the return of `wg.Wait()` with the joined error (`Run` drops it),
`MakeSchedule` is `scheduler.New` after the startup sync, `Tick` and
`StopWaiting` the `select` of `Run`. In a cycle, `Attempt`, `Succeed`,
`FailAttempt`, `Resume` and `StopPause` are `runRepoWithRetries`;
with no retries they are the goroutine of `collectPlans` too, which does not
look at the context first. An attempt is abstract: it waits for the
repository's lock (`Enter`), works, and returns with or without an error. The
lock may be held by another process (`foreign`), and the wait for it does not
end with the context, because `flock` knows none. `tried` and `won` are history
for the properties.

### 2.8 PublishTree: one index, system call by system call

The state is a small file system: `inode` (data, mode, and which of the two is
on disk), `entry` (names to inodes), `onDisk` (what a directory would hold
after a power loss), and the directories likewise. A sync of Release *v* calls,
in the order of `Runner.Sync`, `EnsureRepaired` for the index, `MaterializeByHash`,
`AtomicWrite` for the Release, and `Prune`; each call is a sequence of steps in
`run.todo`:

| code | steps |
|---|---|
| `PublishFile` | `FileSteps`: `MkdirAll`, `Chmod`, `Rename`, `SyncDir` |
| `AtomicWrite` | `PreserveMeta`, or `WriteSteps`: `CreateTmp`, `Fsync`, `Chmod`, then as above |
| `MaterializeByHash`, file present | `PresentSteps`: `MkdirAll`, `Chmod`, `Fsync` |
| `MaterializeByHash`, otherwise | `LinkSteps`: `Clean`, `Link` or `LinkRefused`, `VerifyStaged`, `Chmod`, `Fsync`, `FileSteps` |
| `copyByHash` | `CopySteps`: `Copy`, `FsyncCopy`, `MoveCopy` |
| `Prune`, `pruneEmptyDirs` | `PruneFile`, `PruneDirs` |

`DiskFails` makes any call return an error and runs its deferred removals
(`Cleanup`); `Kill` runs none. `PowerLoss` keeps or loses, independently, every
directory, entry, content and mode that has not been synced; `Writeback` is the
kernel catching up between two syncs. A directory that `ensurePublishedDirs`
makes anew after the prune removed it is not on disk, whatever the earlier one
of its name was. Versions are chosen freely, so a Release
may come back, and one without by-hash files may follow one that has them. The
chmod of `AtomicWrite` and `PublishFile` comes after the last fsync, so a power
loss may leave a published file with the mode it was created with (0600 for
the temporary file of a Release); `PreserveMeta` puts a Release right, and
`ReturnMeansPublished` does not ask it of an index that is reused.

### 2.9 CronSchedule: when cycles begin

`Values`, `Weekdays`, `Matches` and `NextTime` translate `parseField`,
`matches` and `Next`; the actions are the loop of `Run` with its two readings
of the clock (`Ask`, `SetTimer`), the timer, and a cycle of any length. A
minute is two ticks, so that the clock can stand inside one. `Elapse` moves the
wall clock and the timer together, `SetClock` the wall clock alone (Go timers
are monotonic). `Local` adds the offset of the zone, which changes once.
`Denotes`, from the text of spec.md:258-269, says what an expression means, and
is written independently of the code's sets.

The module opens up two steps of `App`: `MakeSchedule`, where a schedule
is accepted or `Run` ends, and `Tick`.

### 2.10 Composition

`DownloadPool` calls, per file, what `FileTransfer` models; the two repository
modules use both in the form of their results: a file is put in place whole
(`OnlyVerifiedPublished`, `OkIsInPlace`), the call returns an error if one
failed (`FailureIsReported`), and a call that was not cancelled and returns
none has dealt with every file (`OkMeansComplete`), while a cancelled one may
have dropped some (`abandoned`). The repository modules in turn are shown to
implement `PublishedMirror`.
What `FileTransfer` shows of a single file, `PublishTree` shows of files that
share an inode and of the files of one Release among each other.
`App` runs operations of them, each attempt of which takes the lock first;
`HttpClient` stands below `DownloadPool` and the metadata requests: what it
shows of termination (`NoStarvation`, `CancelEndsRequest`) is why a worker's
`Abort` is fair in `DownloadPool` and why waiting for permits need not appear
there.

## 3. The runs

Twelve configurations: eight pass, four show a disagreement (section 5).

| run | module, configuration | question | distinct states |
|---|---|---|---|
| `pool` | `MCDownloadPool`, `DownloadPool.cfg` | is every file accounted for, whatever workers, errors and cancellation do? | 70,329 |
| `transfer` | `FileTransfer`, `FileTransfer.cfg` | is only a verified file published, durably, after every source had its chance? | 50,040 |
| `apk` | `MCApkRepository`, `ApkRepository.cfg` | are published indexes complete and monotone with two processes? | 814,882 |
| `publish` | `MCPublishTree`, `PublishTree.cfg` | is the tree whole, complete and never in the way of the next sync, after an error, kill or power loss at any system call? | 470,237 |
| `apt` | `MCAptRepository`, `AptRepository.cfg` | do Release, indexes, by-hash files and manifests stay consistent? | 3,514,298 |
| `http` | `MCHttpClient`, `HttpClient.cfg` | do permits balance, limits hold and waits end? | 34,861 |
| `app` | `MCApp`, `App.cfg` | are failures reported, retries used and bounded, and does a signal end the command? | 9,278 |
| `cron` | `MCCronSchedule`, `CronSchedule.cfg` | is every cycle scheduled for a matching minute, and none missed during the wait? | 1,867,818 |
| `apk_prune`, `apt_cancel`, `apt_switch`, `cron_dst` | `*_prune.cfg`, `*_cancel.cfg`, `*_switch.cfg`, `*_dst.cfg` | findings | stop at a violation |

### 3.1 What the properties say

- `pool`: **OkMeansComplete** (an uncancelled call without an error dealt with
  every file, and leaves out only those the last source answered 404 for after
  all others failed); **OneWorkerPerFile** (`found[job.index]` is written
  without a lock); **FailureIsReported**; **CancelEndsCall** (liveness: the
  producer is never left on a channel nobody reads).
- `transfer`: **OnlyVerifiedPublished**; **PublishedIsDurable** (what lets the
  metadata go next); **RejectedIsRemoved** (spec.md:495); **AllSourcesTried**
  (exact retry budget of every source); **OkIsInPlace**;
  **CancelEndsTransfer** (liveness).
- `apk`: **PublishedComplete** and **RefinesMirror** at every moment, so also
  after a crash anywhere; **NoRollback** (two processes cannot publish in the
  opposite order of fetching); **VerifyHeals**.
- `apt`: **ByHashServed** (a client of the published Release finds its indexes
  by hash while they are being replaced and after a crash);
  **PublishedIsKnown** (verify and prune can always read what is published);
  **ThreeGenerations**; **SyncPublishes** (a successful sync has what the
  present configuration selects and upstream has, whatever the manifest says of
  an earlier selection); **UnreadableManifestIsSafe** (nothing published
  changes while the manifest cannot be decoded); **RefinesMirror**.
- `publish`: **WholeFiles** (no torn file under a published name, also after a
  power loss); **ByHashImmutable** (a hard link shares its inode with an index
  that is later replaced); **ReturnMeansPublished**; **LeftoversHarmless**
  (only the disk makes a call fail, never what an interrupted one left);
  **ServedSurvives** (the by-hash file of the served Release is there, now and
  after whatever a power loss would take back).
- `cron`: **ScheduledAtMatches** (against `Denotes`; never twice for one
  minute, however short the cycle); **NoMatchMissed** (while `run` waits, no
  matching minute passes by, also when the clock is set).
- `http`: **InFlightBounded**; **PermitsBalanced** (none leaks on an error
  path or stays held during a pause); **NoStarvation** (liveness: the two
  limiters are always taken in one order); **CancelEndsRequest** (liveness,
  even while bodies that never end hold every permit).
- `app`: **ExitStatus** (a one-shot command succeeds exactly when every
  repository did; `run` ends well only on a signal); **FailureMeansExhausted**
  (one repository's failure takes no retry from another);
  **AttemptsBounded** (no attempt after a success, the last retry or a
  signal); **CancelStops** and **CyclesGoOn** (liveness).

The type invariants of `DownloadPool`, `ApkRepository`, `HttpClient` and `App`,
and `App!CyclesDoNotOverlap`, are proved (section 4) and not repeated in the
runs.

Each property of a passing run has a mutant in `PROJECT.json`: an operator
beside the definition it changes (`HandTwice`, `PublishNoSync`,
`ReadIndexLastOnly`, `PrepareReplaces`, ...), marked *Mutant* in its comment,
that breaks the property the way a plausible slip in the code would. No
specification uses these operators.

### 3.2 The bounds and why they are enough

- `DownloadPool.cfg`: three files, two sources, two workers. A worker takes a
  second file, the producer waits while both are busy, one worker fails while
  the other goes on, one file is left when the context ends; a 404 or an error
  comes from a mirror and from the last source. The limits are 0 and 1, so the
  clamp of a limit that is not positive decides the number of workers.
- `FileTransfer.cfg`: two sources, one retry, one mishap. Every content in all
  three places at the start, both kinds, all three operations. One retry
  gives a first and a last attempt; two sources have a last one and one before
  it; a power loss leads back to contents that `Init` has already, so a second
  one adds nothing.
- `ApkRepository.cfg`: two processes (symmetric), two indexes that share a
  package, two versions each, one damaged package. Upstream replaces the only
  package of the first index, so a fetched and a published index disagree.
  `MaxVersion` bounds `UpstreamAdvances` and `MaxRot` bounds `Rot`.
- `AptRepository.cfg`: three Releases with a new package index each, so that
  three generations come to be retained (a fourth would only add the removal of
  the first; the limit itself is tested by the type invariant and the mutants
  of `Remember`); a source index that every Release names and upstream serves
  with the second only, so it can be missing, asked for again, found, and lost
  again; an upstream that drops the detached form and brings it back and pauses
  Acquire-By-Hash, and one that has the detached form only. `MaxMishaps` = 2
  counts changes of the configuration, lost, damaged and old manifests: with
  the first upstream the configuration is widened to the source index and
  narrowed again, or widened beside another mishap; with the detached one it
  begins wide and one mishap strikes.
  `MayCancel` is FALSE there: a cancelled operation sets `abandoned`, after
  which most properties say nothing; the run `apt_cancel` is about it.
- `PublishTree.cfg`: two Releases, of which the first has a by-hash file; two
  mishaps, so that a call can meet what two interrupted ones left, and a power
  loss can follow a kill. File systems with and without hard links, a tree with
  and without directories. `Numbers` only has to suffice for the inodes in use.
- `CronSchedule.cfg`: hours of two minutes, days of three hours, a week of
  seven days, years of two months with four or five days; the search covers
  five days, so that a day of the longer year is out of its reach in some
  years and an expression without any match falls back to a day. Thirteen
  schedules (lists, ranges, steps, both day fields, Sunday written as 0 and 7,
  an invalid range, two intervals), and zones with no change, a skipped hour
  and a repeated hour. `MaxClock` is the length of eight days, `MaxSettings`
  one jump of a minute and a tick, forward or back.
- `HttpClient.cfg`: three callers, a mirror with one permit, a primary with as
  many as the process (two), one retry. A caller can wait for its source while
  the other source is free, or hold its source's permit and wait for the
  global one; a third one is there to be starved. There is no counter to
  bound: calls begin again and again.
- `App.cfg`: two repositories, one retry, every command and every kind of
  schedule. One repository can fail, pause or wait for its lock while the
  other goes on; `run` repeats its cycles without a bound.

### 3.3 Fairness

Six properties are temporal and need it; the others are safety properties.
`DownloadPool!LiveSpec` has weak fairness of the
producer's own steps and of each worker's own steps, and `FileTransfer!LiveSpec`
of `Progress`: goroutines are scheduled, timers fire, local file operations
return, and a request made with a context ends when the context does
(`http.NewRequestWithContext`; the pause between attempts selects on
`ctx.Done()`). Nothing is assumed of
the sources: `Answer`, `Refuse`, `Break` and `Receive` are in neither, because
the `http.Client` has no timeout for a body.

`HttpClient!LiveSpec` adds strong fairness of the two acquisitions: a sender on
a full Go channel is queued first come, first served, so a permit that is free
again and again is obtained. A request is only assumed to end once its context
is done; `NoStarvation` has "every request ends" as its premise instead.

`App!LiveSpec` has weak fairness of the command and of each goroutine; strong
fairness of `StopWaiting`, since `select` picks at random among what is ready
and a timer that is due at every round does not always win; strong fairness of
`Enter`, since the kernel gives a free lock to a waiter; and an operation that
works ends once the context is done (the liveness properties of the modules
below). Two premises stand in the properties: `CancelStops` holds if other
processes let go of each lock again and again, `CyclesGoOn` if operations end.

### 3.4 The exemptions

Some invariants have a disjunct naming a history variable. It marks a
behaviour that a violation run shows, so that the passing run can say what
holds otherwise:

- `abandoned`: a cancelled pool call dropped files without an error (run
  `apt_cancel`);
- `overlapped` (APK): the prune command ran beside a sync (run `apk_prune`);
- `setBack` (cron): the wall clock was set back, after which a minute may come
  twice;
- `lapse` (APT): an operation ended with a history from which what clients
  were sent to cannot be told, even with the published generation put in front
  (`Recalls`): two syncs in a row stopped between publishing a Release and
  writing the by-hash history. The generation between them is then in no
  history, and the next prune removes it although spec.md:649 wants it
  retained. One such stop is covered;
- `amnesia` (APT): staging was emptied and no sync has committed since; a
  manifest written by a plan, or by a sync that then fails, knows the new
  Release only. Documents do not promise more: staging is the program's own
  state;
- `inherited` (publish): a sync relied on a directory entry, or on a directory,
  that an earlier call had made and not synced: a file renamed just before a
  kill is reused as it is, and `ensurePublishedDirs` does not sync the parents
  of what it creates. A power loss may then take back what a Release names.
  The flag is cleared when everything is written back;
- `excused` (publish): the disk failed or damaged a file in this sync.

`RefinesMirror` of APT holds for upstreams whose Releases all have an
`InRelease`; with the detached pair alone a client can see no verifiable
Release between two renames, which spec.md:56-61 accepts.

## 4. The proofs

TLAPS proves the following for every value of the constants that satisfies the
assumption of the module (`PoolAssumption`, `TransferAssumption`,
`ApkAssumption`, `AptAssumption`, `HttpAssumption`, `AppAssumption`,
`CronAssumption`, `TreeAssumption`, evaluated by TLC in every run of the module). These only give
the constants their types: any finite set of files and any limits, any number
of sources and retries, any processes, indexes, versions, packages and
configurations; `Refs` is any relation from index contents to packages. Three
conditions say more: what upstream serves of a Release it also names
(`AptAssumption`), a local date has a day, a month and a weekday in the ranges
of the fields, and the search of `Next` covers at least a day
(`CronAssumption`).

| module | theorem | states |
|---|---|---|
| `DownloadPoolProofs` | `TypeCorrect`, `NoSharedFile`, `FailuresReported`, `Completeness` | `Spec => []TypeOK`, `[]OneWorkerPerFile`, `[]FailureIsReported`, `[]OkMeansComplete` |
| `FileTransferProofs` | `TypeCorrect`, `ReportedIsDurable`, `StagingIsClean`, `EverySourceTried`, `VerifiedBeforePublished`, `OkMeansInPlace` | `Spec => []TypeOK`, `[]PublishedIsDurable`, `[]RejectedIsRemoved`, `[]AllSourcesTried`, `OnlyVerifiedPublished`, `OkIsInPlace` |
| `ApkRepositoryProofs` | `TypeCorrect`, `Completeness`, `Monotone`, `Healing`, `Refinement` | `Spec => []TypeOK`, `[]PublishedComplete`, `NoRollback`, `VerifyHeals`, `RefinesMirror` |
| `AptRepositoryProofs` | `TypeCorrect`, `UnreadableIsSafe`, `Refinement` | `Spec => []TypeOK`, `UnreadableManifestIsSafe`, `RefinesMirror` |
| | `ServedByHash`, `ManifestKnows`, `GenerationsStay` | `Spec /\ KeepsInRelease => []ByHashServed`, `[]PublishedIsKnown`, `[]ThreeGenerations` |
| | `SyncIsComplete` | `Spec /\ (PruneOnSync \/ KeepsInRelease) => SyncPublishes` |
| `PublishTreeProofs` | `TypeCorrect`, `NeverTorn`, `ByHashFilesImmutable`, `ReturnPublishes`, `NoLeftoverFails`, `ServedFilesSurvive` | `Spec => []TypeOK`, `[]WholeFiles`, `[]ByHashImmutable`, `[]ReturnMeansPublished`, `[]LeftoversHarmless`, `[]ServedSurvives` |
| `HttpClientProofs` | `TypeCorrect`, `NoPermitLeaks`, `LimitsHold` | `Spec => []TypeOK`, `[]PermitsBalanced`, `[]InFlightBounded` |
| `AppProofs` | `TypeCorrect`, `ExitStatusCorrect`, `RetriesUsed`, `NoOverlap`, `RetriesBounded` | `Spec => []TypeOK`, `[]ExitStatus`, `[]FailureMeansExhausted`, `[]CyclesDoNotOverlap`, `AttemptsBounded` |
| `CronScheduleProofs` | `TypeCorrect`, `NothingMissed`, `ScheduledWell` | `Spec => []TypeOK`, `[]NoMatchMissed`, `ScheduledAtMatches` |
| | `MatchesMeansDue` | `Matches` accepts the minutes that `Denotes` describes |

Each module proves `Init => IInv`, `IInv /\ [Next]_vars => IInv'` (one lemma
per action) and then its theorems from `[]IInv`.

*DownloadPool.* `OkMeansComplete` speaks of the state after the return, so
`IInv` follows each file on its way: it is pending, held by one worker, or
decided (`Covered`); a worker that asks source *s* has been failed by all
earlier ones (`EarlierFailed`); each verdict rests on what was answered
(`Verdicts`); and the producer leaves files only when the context is done
(`FeederFacts`), which without the caller's cancellation means a worker's
error, and that error is what the call returns.

*FileTransfer.* `IInv` says what each program counter has established: of the
disk (`OnDisk`: only the partial file is ever unsynced, nothing is staged while
a source is tried, what reaches `Publish` is good), of the requests (`Counts`:
the sources before the current one are refused, spent or excused, the current
one has had as many attempts as its counter says) and of the result
(`Returned`). The first part is needed because a power loss may follow at any
step; the second because "every source" is about all the earlier rounds of the
loop.

*ApkRepository.* That publishing an index keeps the tree complete follows from
what the pool did before (`SyncedSoFar`: the packages of every fetched index
are there or left to do), and that a file may be unlinked from what was read
before (`ReadSoFar`: the keep set has every index read so far, *as published
now*). Both are stable because at most one operation is past the lock
(`LockShape`) and no prune command overlaps a sync (otherwise `overlapped`);
`VersionOrder` (published <= fetched <= upstream under the lock) gives
`NoRollback`. The refinement uses the same invariant: a step that publishes or
unlinks is `Advance` or `Remove`, and everything else is `Put` or a stutter.

*AptRepository.* `IInv` has a part that always holds and one, `Sound`, that
holds when upstream does not stop signing inline (`KeepsInRelease`; otherwise
finding `apt_switch` applies, and the Release clients find is not the one
published last). The first: which step an operation is at (`Control`), that
nothing published is newer than what the operation fetched and a sync has
published what it has passed (`Placed`), what the manifest says of the indexes (`Asked`), and what a sync
has put on disk before it publishes (`SyncedSoFar`). The second: what clients
were offered is on disk and by hash (`OfferedOnDisk`) and on record
(`OfferedKept`), the generations of the run and of the history begin with what
clients were sent to (`HistoryKept`, `Remembered`), so no prune removes them.
The lemmas about `Remember` and `Newest` show that updating a record that
begins with `past` gives one that begins with the updated `past`; they are what
makes one interrupted sync harmless. `Changes` names, for each part of the
state, the actions that change it, so that a lemma about a part looks at those
only. The refinement maps a rename that changes `Served` to `Advance`, an
unlinked package to `Remove` and a new one to `Put`.

*PublishTree.* `IInv` follows the list of steps a call has left (`Shape`). At
each list, `Source` says what the call has made of its own file: whole before
it is synced, synced before it is renamed, readable before it is renamed; and
`InPlace` what the calls before have left. That no published name is torn must
be said of more than what the tree shows: `Solid` speaks of every inode an
entry has or may have again after a power loss, and says that its bytes are on
disk. `Durable` says the same of entries and directories -- the by-hash file's
are on disk when the Release is renamed, the Release's when the prune begins --
and contains `Secured`, that each Release a power loss may leave has its
by-hash file in each outcome. A step only has to be compared on the inodes that
have a name before and after it (`Survivors`): all but a power loss are
`Gentle` there, which keeps every fact about an entry they do not move. A step
list is a constant, and `ListsDiffer` tells the lists apart, so that each
action has the one or the few places of the calls it can be at (`Doing`).

*HttpClient.* `PermitsBalanced` is inductive with the types and the limits. A
step moves one call, so each of the sets it counts gains or loses at most that
caller (`Toggle`, `OneCallMoves`), and per action it is enough to compare what
the two states of the call stand for. `InFlightBounded` follows, because the
requests in flight are among the holders of permits.

*App.* One part per goroutine: its place determines how many attempts it has
made (`Counted`), success and failure exclude each other (`Verdict`), and a
failure without a signal took all retries (`Exhausted`); for the command, no
goroutine is at work outside a cycle (`Quiet`) and it waits for a tick only
with a good schedule (`ScheduleKnown`). An exit status computed at the end of
the last cycle stays right because nothing moves afterwards.

*CronSchedule.* Arithmetic first: the loop of `parseField` over a part visits
the values that `Admits` describes (`PartValues`), hence `Matches` is `Due`
(`MatchesMeansDue`); a set of minutes that is not empty has a least element
(`MinIs`, by counting: its lower bounds would otherwise be a finite set closed
under successor), hence `NextTime` is the first due minute after the time it is
asked with (`NextTimeIs`). Then `IInv`: nothing due lies between `asked` and
`nextRun` while `run` waits (`FirstDue`), and unless the clock was set back the
timer does not fire before `nextRun` (`NotEarly`), so that the next search
begins after it and no minute comes twice.

Every invariant and every action property of the passing runs is thus proved.
Only model-checked: the liveness properties (`CancelEndsCall`,
`CancelEndsTransfer`, `NoStarvation`, `CancelEndsRequest`, `CancelStops`,
`CyclesGoOn`), which need fairness and `ENABLED` and are out of the prover's
reach. The properties of the violation
runs are false, so there is nothing to prove about them.

## 5. Findings

Each is a violation run with one property, and the line it contradicts is
quoted in `PROJECT.json`.

1. `apt_cancel` - `ResolveExact`, cancelled while it still has files to hand
   out, returns no file and *no error* (`g.Wait()` is nil when no worker
   failed), against the comment at download.go:46-48. An APT sync cancelled
   while it resolves indexes therefore publishes the Release as one without
   indexes, records that in the manifest, and its prune removes every index and
   package. `ensureMany` returns in the same way, so an APK sync cancelled
   there goes on to publish an index whose packages were not downloaded.
   The window is small (the next use of the context fails), but publishing does
   not look at the context.
2. `apk_prune` - the APK `Prune` takes no lock and can unlink a package that a
   concurrent sync publishes an index for.
3. `apt_switch` - when upstream stops serving `InRelease` and `sync.prune` is
   off, the old `InRelease` stays published, clients and later operations
   follow it, and the sync reports success.
4. `cron_dst` - `Next` tries absolute minutes one by one, so a local time that
   a daylight-saving change repeats is matched twice (spec.md:347-348 excludes
   that), and one that the change skips is not matched on that day at all
   (spec.md:349-351 wants the next valid time).

## 6. Abstractions

- *Cryptography and formats* are decided outside: a fetched index either
  passes its checks or the operation fails.
- *Package paths* name one content each, as in Alpine and Debian pools. A
  repository that changes a package in place is not modelled.
- *APT*: one suite, one checksum algorithm and one compressed form per index;
  staged files are not in the state, because every use of one is behind a check
  against the verified Release (`FileTransfer` models that check). A
  configuration is the set of indexes it selects.
- *Steps.* In the repository modules a file is placed in one step and an atomic
  write is one step; `FileTransfer` opens up the first and `PublishTree` both.
  A crash leaves what is on disk; a power loss is modelled in those two only.
- *Calendar.* `CronSchedule` takes the lengths of hour, day and month and the
  calendar as constants; nothing in the search depends on their values, except
  that the horizon is longer than most years.
- *OpFails* is any error return, at any point an error may come.
- *Left out*: statistics, logging, output.

## 7. Hazards without a property

`PROJECT.json` lists every hazard with its line. Not covered: the detached pair
between two renames (documented in spec.md:56-61); a transient 404 of the
primary that is recorded for a Release (`AptRepository` has the behaviour, and
`SyncPublishes` speaks of indexes upstream has had all the time); a
schedule that `run` rejects after the startup sync instead of before
(spec.md:335-336; both `App` and `CronSchedule` have the behaviour); nested
publish paths. Covered in part: a context that `flock` ignores is the premise of
`CancelStops`; an entry or a directory that was never synced is the exemption
`inherited`. Beside the models: `chmod` comes after the last fsync of
`PublishFile`; `PayloadSources` leaves the primary where a mirror repeats its
URL, so it is not the final source there (spec.md:243 and 246-247 disagree).

## 8. Plan

Done: `DownloadPool`, `PublishedMirror`, `ApkRepository`, `AptRepository` with
changing configurations and damaged manifests, `FileTransfer`, `PublishTree`,
`HttpClient`, `App`, `CronSchedule`; proofs of all of their safety properties.

Next, in this order:

1. Violation runs of `App`: a signal during the wait for a lock
   (spec.md:719-722), a schedule rejected after the startup sync.
2. A refinement from `PublishTree` to an abstract tree whose files change in one
   step, as the repository modules assume of `PublishFile` and `AtomicWrite`;
   the facts about `Survivors` are what its steps need.
3. Several suites in `AptRepository`; the rules of publish paths and source
   order of `config`.

## 9. Not modelled, and why

The APK and APT formats (byte-level parsing and cryptography, for which tests
with fixtures are the right tool), path cleaning, the data model, logging and
the command line have no state that interleaves with anything. `config` is read
once, before anything else runs; its rules on paths and sources are planned
above. Several suites of one repository are handled one after the other by the
steps of `AptRepository`, but share its two manifests; the product of two
suites with the faults of the model is beyond the size TLC checks here.
