----------------------------- MODULE PublishTree -----------------------------
(***************************************************************************)
(* The file-system steps behind one published index (internal/publish):    *)
(* PublishFile puts the downloaded index in place, MaterializeByHash gives *)
(* it a by-hash name -- a hard link, or a copy where links are refused --, *)
(* AtomicWrite replaces the Release that names it, Prune removes what that *)
(* Release does not name.  Every system call is a step; between any two of *)
(* them a call may fail, the process may be killed, the machine may lose   *)
(* power.                                                                  *)
(*                                                                         *)
(* Files are inodes with names, and names are kept in directories: bytes,  *)
(* modes and directory entries each reach the disk on their own (`safe`,   *)
(* `onDisk`, `dirsOnDisk`).  The repository lock lets one process at a     *)
(* time work on the tree.  Release v names content v of the index.         *)
(***************************************************************************)
EXTENDS Integers, Sequences, FiniteSets

CONSTANTS
  Versions,     (* the Releases; each has an index content of its own          *)
  ByHash,       (* those whose Acquire-By-Hash is yes                          *)
  Numbers,      (* numbers of inodes, enough for every name                    *)
  MaxMishaps    (* bound on failed system calls, deaths, power losses, damage  *)

ASSUME TreeAssumption ==
  /\ Versions \subseteq Nat /\ IsFiniteSet(Versions)
  /\ ByHash \subseteq Versions
  /\ Numbers \subseteq Nat /\ IsFiniteSet(Numbers)
  /\ MaxMishaps \in Nat

Index      == <<"index", 0>>
Meta       == <<"meta", 0>>
Hash(v)    == <<"hash", v>>
Fetched    == <<"fetched", 0>>   (* the download under staging/payloads        *)
Tmp        == <<"tmp", 0>>       (* the temporary file of AtomicWrite          *)
Staged(v)  == <<"staged", v>>    (* staging/by-hash/<path> ...                 *)
Partial(v) == <<"partial", v>>   (* ... and its .partial                       *)

Published == {Index, Meta} \cup {Hash(v) : v \in Versions}
Staging   == {Fetched, Tmp} \cup {Staged(v) : v \in Versions} \cup {Partial(v) : v \in Versions}
Names     == Published \cup Staging

Dirs     == {"suite", "hash"}
DirOf(n) == IF n[1] = "hash" THEN "hash" ELSE "suite"
(* The directory of a name and its parents below the published root. *)
Path(n)  == {"suite", DirOf(n)}

None    == <<"none", 0>>
(* An inode is numbered apart for each way a file is created. *)
Inodes  == {<<n[1], k>> : n \in {Fetched, Tmp} \cup {Partial(v) : v \in Versions}, k \in Numbers}
Torn    == "torn"
Rotten  == "rotten"
Whole(v) == <<"whole", v>>
Data    == {<<Torn, 0>>, <<Rotten, 0>>} \cup {Whole(v) : v \in Versions}

Blank == [data |-> <<Torn, 0>>, public |-> FALSE, safe |-> {"data", "mode"}]

VARIABLES
  inode,      (* each inode: its data, whether its mode is PublishedFileMode,  *)
              (* and which of the two would survive a power loss               *)
  entry,      (* the inode of each name, or None                               *)
  onDisk,     (* the published entries that a power loss cannot take back      *)
  dirs,       (* the directories of the published tree                         *)
  dirsOnDisk, (* those that a power loss cannot take back                      *)
  links,      (* whether the file system makes hard links                      *)
  run,        (* the sync that holds the lock                                  *)
  mishaps,    (* number of failed calls, deaths, power losses, damaged files   *)
  excused,    (* history: damage struck, or the disk failed, in this sync      *)
  inherited   (* history: a sync relied on an entry or a directory that a      *)
              (* power loss could still take back                              *)

tree == <<inode, entry, onDisk, dirs, dirsOnDisk>>
vars == <<tree, links, run, mishaps, excused, inherited>>

Idle == [call |-> "none", v |-> 0, src |-> Tmp, dst |-> Meta, todo |-> <<>>,
         result |-> "none"]

Steps == {"dirs", "chmod", "rename", "syncdir", "create", "fsync", "clean", "link",
          "copy", "fsynccopy", "move", "verify"}

Files == [data : Data, public : BOOLEAN, safe : SUBSET {"data", "mode"}]

Runs  == [call : {"none", "index", "hash", "meta", "prune"}, v : Versions \cup {0},
          src : Names, dst : Names, todo : Seq(Steps),
          result : {"none", "begun", "ok", "err"}]

TypeOK ==
  /\ inode \in [Inodes -> Files]
  /\ entry \in [Names -> Inodes \cup {None}]
  /\ onDisk \in [Published -> Inodes \cup {None}]
  /\ dirs \subseteq Dirs /\ dirsOnDisk \subseteq Dirs
  /\ links \in BOOLEAN
  /\ run \in Runs
  /\ mishaps \in 0..MaxMishaps
  /\ excused \in BOOLEAN
  /\ inherited \in BOOLEAN
  /\ \A n \in Published : entry[n] # None => DirOf(n) \in dirs

Init ==
  /\ inode = [i \in Inodes |-> Blank]
  /\ entry = [n \in Names |-> None]
  /\ onDisk = [n \in Published |-> None]
  /\ dirs \in {{}, Dirs}
  /\ dirsOnDisk = dirs
  /\ links \in BOOLEAN
  /\ run = Idle
  /\ mishaps = 0
  /\ excused = FALSE
  /\ inherited = FALSE

-----------------------------------------------------------------------------
(* Names and inodes. *)

Contents(n) == IF entry[n] = None THEN <<Torn, 0>> ELSE inode[entry[n]].data

(* verifyRegularNoSymlink, preserveMatchingFile: the bytes decide. *)
Has(n, v) == entry[n] # None /\ inode[entry[n]].data = Whole(v)

Used(e, d) == {e[n] : n \in Names} \cup {d[n] : n \in Published}

(* An inode without a name is gone. *)
Reap(f) == [i \in Inodes |-> IF i \in Used(entry', onDisk') THEN f[i] ELSE Blank]

Free(n) == {k \in Numbers : <<n[1], k>> \notin Used(entry, onDisk)}
New(n)  == <<n[1], CHOOSE k \in Free(n) : TRUE>>

(* What a new file holds; only `safe` of it survives a power loss. *)
Create(n, file) ==
  /\ Free(n) # {}
  /\ entry' = [entry EXCEPT ![n] = New(n)]
  /\ inode' = [inode EXCEPT ![New(n)] = file]
  /\ UNCHANGED onDisk

Unlink(S) ==
  /\ entry' = [n \in Names |-> IF n \in S THEN None ELSE entry[n]]
  /\ UNCHANGED onDisk
  /\ inode' = Reap(inode)

\* Mutant of Move: the destination is opened and overwritten.
MoveInPlace(a, b) ==
  /\ entry' = [entry EXCEPT ![b] = IF @ = None THEN entry[a] ELSE @, ![a] = None]
  /\ UNCHANGED onDisk
  /\ inode' = Reap(IF entry[b] = None THEN inode
                   ELSE [inode EXCEPT ![entry[b]] = inode[entry[a]]])

(* rename(2). *)
Move(a, b) ==
  /\ entry' = [entry EXCEPT ![b] = entry[a], ![a] = None]
  /\ UNCHANGED onDisk
  /\ inode' = Reap(inode)

(* chmod(2) to PublishedFileMode; a mode that is right is left alone. *)
SetMode(i) ==
  inode' = [inode EXCEPT ![i] =
              IF @.public THEN @
              ELSE [data |-> @.data, public |-> TRUE, safe |-> @.safe \ {"mode"}]]

(* fsync(2). *)
Flush(i) == inode' = [inode EXCEPT ![i].safe = {"data", "mode"}]

-----------------------------------------------------------------------------
(* The steps of the calls, in the order of the source. *)

(* PublishFile. *)
FileSteps == <<"dirs", "chmod", "rename", "syncdir">>

\* Mutant of WriteSteps: the temporary file is not synced.
WriteStepsNoSync == <<"create", "chmod", "dirs", "rename", "syncdir">>

(* AtomicWrite of bytes that are not there yet. *)
WriteSteps == <<"create", "fsync", "chmod", "dirs", "rename", "syncdir">>

\* Mutant of LinkSteps: what an interrupted call left is not removed.
LinkStepsDirty == <<"link", "verify", "chmod", "fsync">> \o FileSteps

(* MaterializeByHash of a by-hash file that is not there yet. *)
LinkSteps == <<"clean", "link", "verify", "chmod", "fsync">> \o FileSteps

(* copyByHash and the rename of its result, where linkFile fails. *)
CopySteps == <<"copy", "fsynccopy", "move">>

(* MaterializeByHash of one that is there: no directory is synced. *)
PresentSteps == <<"dirs", "chmod", "fsync">>

-----------------------------------------------------------------------------
(* A sync: the index, its by-hash file, the Release, the prune. *)

Done     == run.result = "begun" /\ run.todo = <<>>
AtCall(c) == run.call = c /\ run.result = "none"
Do(s)    == run.todo # <<>> /\ Head(run.todo) = s
Proceed  == run' = [run EXCEPT !.todo = Tail(@)]

Start(src, dst, steps) ==
  run' = [run EXCEPT !.src = src, !.dst = dst, !.todo = steps, !.result = "begun"]

(* A file is reused whose entry is not known to be on disk. *)
Rely(n) == inherited' = (inherited \/ onDisk[n] # entry[n] \/ ~(Path(n) \subseteq dirsOnDisk))

BeginSync(v) ==
  /\ run.call = "none"
  /\ run' = [Idle EXCEPT !.call = "index", !.v = v]
  /\ excused' = FALSE
  /\ UNCHANGED <<tree, links, mishaps, inherited>>

(* EnsureRepaired: the index is reused, ... *)
ReuseIndex ==
  /\ AtCall("index")
  /\ Has(Index, run.v)
  /\ Start(Index, Index, <<>>)
  /\ Rely(Index)
  /\ UNCHANGED <<tree, links, mishaps, excused>>

(* ... or downloaded, synced and handed to PublishFile. *)
FetchIndex ==
  /\ AtCall("index")
  /\ ~Has(Index, run.v)
  /\ Create(Fetched, [data |-> Whole(run.v), public |-> FALSE, safe |-> {"data", "mode"}])
  /\ Start(Fetched, Index, FileSteps)
  /\ UNCHANGED <<dirs, dirsOnDisk, links, mishaps, excused, inherited>>

HashPresent ==
  /\ AtCall("hash")
  /\ Has(Hash(run.v), run.v)
  /\ Start(Hash(run.v), Hash(run.v), PresentSteps)
  /\ Rely(Hash(run.v))
  /\ UNCHANGED <<tree, links, mishaps, excused>>

MakeHash ==
  /\ AtCall("hash")
  /\ ~Has(Hash(run.v), run.v)
  /\ Has(Index, run.v)
  /\ Start(Staged(run.v), Hash(run.v), LinkSteps)
  /\ UNCHANGED <<tree, links, mishaps, excused, inherited>>

\* Mutant of PreserveMeta: the mode of an unchanged file is left alone.
PreserveMetaMode ==
  /\ AtCall("meta")
  /\ Has(Meta, run.v)
  /\ Start(Meta, Meta, <<>>)
  /\ Rely(Meta)
  /\ UNCHANGED <<tree, links, mishaps, excused>>

(* preserveMatchingFile: an identical file stays, with its mode put right. *)
PreserveMeta ==
  /\ AtCall("meta")
  /\ Has(Meta, run.v)
  /\ Start(Meta, Meta, <<>>)
  /\ Rely(Meta)
  /\ SetMode(entry[Meta])
  /\ UNCHANGED <<entry, onDisk, dirs, dirsOnDisk, links, mishaps, excused>>

WriteMeta ==
  /\ AtCall("meta")
  /\ ~Has(Meta, run.v)
  /\ Start(Tmp, Meta, WriteSteps)
  /\ UNCHANGED <<tree, links, mishaps, excused, inherited>>

\* Mutant of NextCall: the Release is written before the by-hash file is made.
NextCallMetaFirst(c, v) ==
  CASE c = "index" -> "meta"
    [] c = "meta" -> IF v \in ByHash THEN "hash" ELSE "prune"
    [] c = "hash" -> "prune"

(* The order of Sync. *)
NextCall(c, v) ==
  CASE c = "index" -> IF v \in ByHash THEN "hash" ELSE "meta"
    [] c = "hash" -> "meta"
    [] c = "meta" -> "prune"

CallReturns ==
  /\ Done
  /\ run' = [Idle EXCEPT !.call = NextCall(run.call, run.v), !.v = run.v]
  /\ UNCHANGED <<tree, links, mishaps, excused, inherited>>

-----------------------------------------------------------------------------
(* The steps. *)

(* ensurePublishedDirs; the parents of a new directory are not synced, also *)
(* when an earlier one of its name was.                                    *)
MkdirAll ==
  /\ Do("dirs")
  /\ dirs' = dirs \cup Path(run.dst)
  /\ dirsOnDisk' = dirsOnDisk \ (Path(run.dst) \ dirs)
  /\ Proceed
  /\ UNCHANGED <<inode, entry, onDisk, links, mishaps, excused, inherited>>

Chmod ==
  /\ Do("chmod")
  /\ SetMode(entry[run.src])
  /\ Proceed
  /\ UNCHANGED <<entry, onDisk, dirs, dirsOnDisk, links, mishaps, excused, inherited>>

Fsync ==
  /\ Do("fsync")
  /\ Flush(entry[run.src])
  /\ Proceed
  /\ UNCHANGED <<entry, onDisk, dirs, dirsOnDisk, links, mishaps, excused, inherited>>

Rename ==
  /\ Do("rename")
  /\ DirOf(run.dst) \in dirs
  /\ Move(run.src, run.dst)
  /\ inherited' = (inherited \/ ~(Path(run.dst) \subseteq dirsOnDisk))
  /\ Proceed
  /\ UNCHANGED <<dirs, dirsOnDisk, links, mishaps, excused>>

(* Every entry of the directory reaches the disk. *)
SyncDir ==
  /\ Do("syncdir")
  /\ onDisk' = [n \in Published |-> IF DirOf(n) = DirOf(run.dst) THEN entry[n] ELSE onDisk[n]]
  /\ UNCHANGED entry
  /\ inode' = Reap(inode)
  /\ Proceed
  /\ UNCHANGED <<dirs, dirsOnDisk, links, mishaps, excused, inherited>>

CreateTmp ==
  /\ Do("create")
  /\ Create(Tmp, [data |-> Whole(run.v), public |-> FALSE, safe |-> {}])
  /\ Proceed
  /\ UNCHANGED <<dirs, dirsOnDisk, links, mishaps, excused, inherited>>

Clean ==
  /\ Do("clean")
  /\ Unlink({Staged(run.v), Partial(run.v)})
  /\ Proceed
  /\ UNCHANGED <<dirs, dirsOnDisk, links, mishaps, excused, inherited>>

Link ==
  /\ Do("link")
  /\ links /\ entry[run.src] = None
  /\ entry' = [entry EXCEPT ![run.src] = entry[Index]]
  /\ Proceed
  /\ UNCHANGED <<inode, onDisk, dirs, dirsOnDisk, links, mishaps, excused, inherited>>

LinkRefused ==
  /\ Do("link")
  /\ ~links \/ entry[run.src] # None
  /\ run' = [run EXCEPT !.todo = CopySteps \o Tail(@)]
  /\ UNCHANGED <<tree, links, mishaps, excused, inherited>>

(* copyByHash: the partial file must not exist, and is checked as it is    *)
(* written.                                                                *)
Copy ==
  /\ Do("copy")
  /\ entry[Partial(run.v)] = None
  /\ Has(Index, run.v)
  /\ Create(Partial(run.v), [data |-> Whole(run.v), public |-> TRUE, safe |-> {}])
  /\ Proceed
  /\ UNCHANGED <<dirs, dirsOnDisk, links, mishaps, excused, inherited>>

FsyncCopy ==
  /\ Do("fsynccopy")
  /\ Flush(entry[Partial(run.v)])
  /\ Proceed
  /\ UNCHANGED <<entry, onDisk, dirs, dirsOnDisk, links, mishaps, excused, inherited>>

MoveCopy ==
  /\ Do("move")
  /\ Move(Partial(run.v), Staged(run.v))
  /\ Proceed
  /\ UNCHANGED <<dirs, dirsOnDisk, links, mishaps, excused, inherited>>

VerifyStaged ==
  /\ Do("verify")
  /\ Has(Staged(run.v), run.v)
  /\ Proceed
  /\ UNCHANGED <<tree, links, mishaps, excused, inherited>>

(* A step that cannot be taken: a file is not what it should be, one that  *)
(* should not exist does, or its directory is gone.                        *)
Blocked ==
  \/ AtCall("hash") /\ ~Has(Hash(run.v), run.v) /\ ~Has(Index, run.v)
  \/ Do("copy") /\ (entry[Partial(run.v)] # None \/ ~Has(Index, run.v))
  \/ Do("verify") /\ ~Has(Staged(run.v), run.v)
  \/ Do("rename") /\ DirOf(run.dst) \notin dirs

(* The deferred removals of the call that fails.                           *)
Cleanup ==
  Unlink({Fetched, Tmp} \cup
         (IF run.call = "hash" /\ run.src = Staged(run.v) /\ ~Do("clean")
          THEN {Staged(run.v), Partial(run.v)} ELSE {}))

CallFails ==
  /\ Blocked
  /\ Cleanup
  /\ run' = [Idle EXCEPT !.result = "err"]
  /\ UNCHANGED <<dirs, dirsOnDisk, links, mishaps, excused, inherited>>

Mishap == mishaps < MaxMishaps /\ mishaps' = mishaps + 1

(* Any system call may return an error. *)
DiskFails ==
  /\ Mishap
  /\ run.todo # <<>>
  /\ Cleanup
  /\ run' = [Idle EXCEPT !.result = "err"]
  /\ excused' = TRUE
  /\ UNCHANGED <<dirs, dirsOnDisk, links, inherited>>

-----------------------------------------------------------------------------
(* Prune. The generations that a repository retains are in AptRepository. *)

Keep == {Index, Meta} \cup (IF run.v \in ByHash THEN {Hash(run.v)} ELSE {})

PruneFile(n) ==
  /\ AtCall("prune")
  /\ n \in Published \ Keep
  /\ entry[n] # None
  /\ Unlink({n})
  /\ UNCHANGED <<dirs, dirsOnDisk, links, run, mishaps, excused, inherited>>

\* Mutant of PruneDirs: a directory goes whether or not it is empty.
PruneDirsAll ==
  /\ AtCall("prune")
  /\ \A n \in Published \ Keep : entry[n] = None
  /\ dirs' = dirs \cap {"suite"}
  /\ run' = [Idle EXCEPT !.result = "ok"]
  /\ UNCHANGED <<inode, entry, onDisk, dirsOnDisk, links, mishaps, excused, inherited>>

(* pruneEmptyDirs; the sync ends. *)
PruneDirs ==
  /\ AtCall("prune")
  /\ \A n \in Published \ Keep : entry[n] = None
  /\ dirs' = {d \in dirs : d = "suite" \/ \E n \in Published : DirOf(n) = d /\ entry[n] # None}
  /\ run' = [Idle EXCEPT !.result = "ok"]
  /\ UNCHANGED <<inode, entry, onDisk, dirsOnDisk, links, mishaps, excused, inherited>>

-----------------------------------------------------------------------------
(* The environment. *)

(* The process dies.  Its temporary file and its download are not looked   *)
(* at again without a check; the staged by-hash files stay.                *)
Kill ==
  /\ Mishap
  /\ run.call # "none"
  /\ Unlink({Fetched, Tmp})
  /\ run' = Idle
  /\ UNCHANGED <<dirs, dirsOnDisk, links, excused, inherited>>

(* The published Release has its by-hash file. *)
Complete(e) ==
  e[Meta] # None =>
    \A v \in ByHash : inode[e[Meta]].data = Whole(v) =>
      e[Hash(v)] # None /\ inode[e[Hash(v)]].data \in {Whole(v), <<Rotten, 0>>}

(* The kernel has written everything back.  (That it writes something back *)
(* during a sync is among the outcomes of PowerLoss.)                      *)
Writeback ==
  /\ run.call = "none"
  /\ onDisk' = [n \in Published |-> entry[n]]
  /\ dirsOnDisk' = dirs
  /\ UNCHANGED <<entry, dirs, links, run, mishaps, excused>>
  /\ inode' = Reap([i \in Inodes |-> [inode[i] EXCEPT !.safe = {"data", "mode"}]])
  /\ inherited' = (inherited /\ ~Complete(entry))

(* Each directory, entry, content and mode that was not synced is lost or  *)
(* kept; of staging anything may be left.                                  *)
PowerLoss ==
  \E gone \in SUBSET {i \in Inodes : "data" \notin inode[i].safe},
     shut \in SUBSET {i \in Inodes : "mode" \notin inode[i].safe},
     back \in SUBSET {n \in Published : entry[n] # onDisk[n]},
     left \in SUBSET {n \in Names \ Published : n[1] \in {"staged", "partial"} /\ entry[n] # None},
     held \in {D \in SUBSET (dirs \cup dirsOnDisk) : dirs \cap dirsOnDisk \subseteq D} :
    /\ Mishap
    /\ "hash" \in held => "suite" \in held
    /\ dirs' = held /\ dirsOnDisk' = held
    /\ entry' = [n \in Names |->
                   IF n \in left THEN entry[n]
                   ELSE IF n \notin Published \/ DirOf(n) \notin held THEN None
                   ELSE IF n \in back THEN onDisk[n] ELSE entry[n]]
    /\ onDisk' = [n \in Published |-> entry'[n]]
    /\ inode' = Reap([i \in Inodes |->
                        [data   |-> IF i \in gone THEN <<Torn, 0>> ELSE inode[i].data,
                         public |-> inode[i].public /\ i \notin shut,
                         safe   |-> {"data", "mode"}]])
    /\ run' = Idle
    /\ inherited' = (inherited /\ ~Complete(entry)')
    /\ UNCHANGED <<links, excused>>

(* The disk damages a file, under all its names. *)
Rot(i) ==
  /\ Mishap
  /\ i \in {entry[n] : n \in Published} \ {None}
  /\ inode' = [inode EXCEPT ![i].data = <<Rotten, 0>>]
  /\ excused' = TRUE
  /\ UNCHANGED <<entry, onDisk, dirs, dirsOnDisk, links, run, inherited>>

Next ==
  \/ \E v \in Versions : BeginSync(v)
  \/ ReuseIndex \/ FetchIndex \/ HashPresent \/ MakeHash \/ PreserveMeta \/ WriteMeta
  \/ CallReturns
  \/ MkdirAll \/ Chmod \/ Fsync \/ Rename \/ SyncDir \/ CreateTmp \/ Clean \/ Link
  \/ LinkRefused \/ Copy \/ FsyncCopy \/ MoveCopy \/ VerifyStaged
  \/ CallFails \/ DiskFails
  \/ \E n \in Published : PruneFile(n)
  \/ PruneDirs
  \/ Kill \/ Writeback \/ PowerLoss
  \/ \E i \in Inodes : Rot(i)

Spec == Init /\ [][Next]_vars

-----------------------------------------------------------------------------
(* Properties. *)

(* No name of the published tree ever leads to a file that was not written *)
(* to its end, also after a power loss at any step: each way into the tree *)
(* syncs the bytes before the rename (spec.md:771 "Partial downloads are   *)
(* never served to clients").                                              *)
WholeFiles == \A n \in Published : entry[n] # None => Contents(n)[1] # Torn

(* spec.md:645-647: a by-hash file keeps the bytes of its digest while the *)
(* index it shares an inode with is replaced; unless the disk damages it.  *)
ByHashImmutable ==
  \A v \in Versions : entry[Hash(v)] # None => Contents(Hash(v)) \in {Whole(v), <<Rotten, 0>>}

(* A call that returns nil has its file in place, with its bytes, and      *)
(* readable for the web server -- an index that is reused keeps its mode.  *)
ReturnMeansPublished ==
  Done /\ ~excused => /\ Has(run.dst, run.v)
                      /\ run.src # Index => inode[entry[run.dst]].public

(* What interrupted calls left, in staging or in the tree, never makes a   *)
(* later call fail: only the disk does.                                    *)
LeftoversHarmless == run.result = "err" => excused

Outcomes(n) ==
  {entry[n], onDisk[n]} \cup (IF Path(n) \subseteq dirsOnDisk THEN {} ELSE {None})

(* At every moment, and whatever a power loss would take back, the Release *)
(* clients find has its by-hash file -- as long as no sync relied on an    *)
(* entry or a directory that had not reached the disk.                     *)
ServedSurvives ==
  inherited \/
  /\ Complete(entry)
  /\ \A m \in Outcomes(Meta) \ {None} : \A v \in ByHash :
       inode[m].data = Whole(v) =>
         \A h \in Outcomes(Hash(v)) : h # None /\ inode[h].data \in {Whole(v), <<Rotten, 0>>}
=============================================================================
