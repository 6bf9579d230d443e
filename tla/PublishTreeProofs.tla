--------------------------- MODULE PublishTreeProofs ---------------------------
(***************************************************************************)
(* Proofs about PublishTree, for any number of Releases, of inodes and of  *)
(* mishaps.                                                                *)
(*                                                                         *)
(* The inductive invariant follows the call that runs through its list of  *)
(* steps: Shape says where it can be, Source what it has made of its own   *)
(* file by then, InPlace what the calls before it have left in place,      *)
(* Solid that nothing in the tree, or that a power loss may bring back, is *)
(* torn, and Durable what of it is on disk already.                        *)
(***************************************************************************)
EXTENDS PublishTree, TLAPS

(* The lists of steps that are left after each step of FileSteps (F), of   *)
(* WriteSteps (W), of LinkSteps (L), of its way through CopySteps (C) and  *)
(* of PresentSteps (P).                                                    *)
F1 == <<"chmod", "rename", "syncdir">>
F2 == <<"rename", "syncdir">>
F3 == <<"syncdir">>
W1 == <<"fsync", "chmod", "dirs", "rename", "syncdir">>
W2 == <<"chmod", "dirs", "rename", "syncdir">>
W3 == <<"dirs", "rename", "syncdir">>
L1 == <<"link", "verify", "chmod", "fsync", "dirs", "chmod", "rename", "syncdir">>
L2 == <<"verify", "chmod", "fsync", "dirs", "chmod", "rename", "syncdir">>
L3 == <<"chmod", "fsync", "dirs", "chmod", "rename", "syncdir">>
L4 == <<"fsync", "dirs", "chmod", "rename", "syncdir">>
C0 == <<"copy", "fsynccopy", "move", "verify", "chmod", "fsync", "dirs", "chmod", "rename", "syncdir">>
C1 == <<"fsynccopy", "move", "verify", "chmod", "fsync", "dirs", "chmod", "rename", "syncdir">>
C2 == <<"move", "verify", "chmod", "fsync", "dirs", "chmod", "rename", "syncdir">>
P1 == <<"chmod", "fsync">>
P2 == <<"fsync">>

(* The calls of a sync, and the two ways of each. *)
Calling(c, src, dst) == run.call = c /\ run.result = "begun" /\ run.src = src /\ run.dst = dst

Reusing    == Calling("index", Index, Index)
Fetching   == Calling("index", Fetched, Index)
Present    == Calling("hash", Hash(run.v), Hash(run.v))
Linking    == Calling("hash", Staged(run.v), Hash(run.v))
Preserving == Calling("meta", Meta, Meta)
Writing    == Calling("meta", Tmp, Meta)

(* How far the sync is, call by call. *)
Shape ==
  /\ run.call # "none" => run.v \in Versions
  /\ run.call = "hash" => run.v \in ByHash
  /\ run.result \in {"ok", "err"} => run.call = "none"
  /\ run.result # "begun" => run.todo = <<>>
  /\ run.result = "begun" =>
       \/ (Reusing \/ Preserving) /\ run.todo = <<>>
       \/ Fetching /\ run.todo \in {FileSteps, F1, F2, F3, <<>>}
       \/ Present /\ run.todo \in {PresentSteps, P1, P2, <<>>}
       \/ Linking /\ run.todo \in {LinkSteps, L1, L2, L3, L4, C0, C1, C2, FileSteps, F1, F2, F3, <<>>}
       \/ Writing /\ run.todo \in {WriteSteps, W1, W2, W3, F2, F3, <<>>}

Damaged == <<Rotten, 0>>

(* Every file that the tree has, or may have again after a power loss, is  *)
(* whole and on disk, and a by-hash file has the content of its name.      *)
Kept(n) == {entry[n], onDisk[n]} \ {None}

Solid ==
  /\ \A n \in Published : \A i \in Kept(n) : inode[i].data # <<Torn, 0>> /\ "data" \in inode[i].safe
  /\ \A v \in Versions : \A i \in Kept(Hash(v)) : inode[i].data \in {Whole(v), Damaged}

(* by-hash is a directory of the suite. *)
DirsNest == "hash" \in dirs => "suite" \in dirs

(* A name leads to the content of this sync, unless the disk damaged it.   *)
HoldsAt(i, file, v, x) == i # None /\ (file[i].data = Whole(v) \/ (x /\ file[i].data = Damaged))

Holds(n) == HoldsAt(entry[n], inode, run.v, excused)

Synced(n) == "data" \in inode[entry[n]].safe
Public(n) == inode[entry[n]].public

Renamed == run.result = "begun" /\ run.todo \in {F3, <<>>}

(* What the call has made of its file. *)
Source ==
  /\ run.todo = L1 => entry[run.src] = None
  /\ run.todo \in {L1, C0} => entry[Partial(run.v)] = None
  /\ run.todo \in {C1, C2} => Holds(Partial(run.v))
  /\ run.todo \in {L2, L3, L4, W1} => Holds(run.src)
  /\ run.todo \in {FileSteps, F1, F2, W2} \/ (Writing /\ run.todo = W3) => Holds(run.src) /\ Synced(run.src)
  /\ run.todo = F2 \/ (Writing /\ run.todo = W3) => Public(run.src)
  /\ run.todo \in {F1, F2, F3} => Path(run.dst) \subseteq dirs
  /\ Present /\ run.todo = P2 => Public(run.dst)
  /\ Renamed /\ run.src # Index => Public(run.dst)

(* What the calls so far have put in place. *)
InPlace ==
  /\ Renamed \/ Present => Holds(run.dst)
  /\ run.call \in {"hash", "meta", "prune"} => Holds(Index)
  /\ run.call \in {"meta", "prune"} /\ run.v \in ByHash => Holds(Hash(run.v))
  /\ run.call = "prune" => Holds(Meta)

(* The entry is on disk, and the directories it is in. *)
OnDisk(n) == onDisk[n] = entry[n] /\ Path(n) \subseteq dirsOnDisk

(* Whichever Release a power loss would leave has its by-hash file, and    *)
(* keeps it.                                                               *)
Secured ==
  \A m \in Outcomes(Meta) \ {None} : \A v \in ByHash :
    inode[m].data = Whole(v) =>
      \A h \in Outcomes(Hash(v)) : h # None /\ inode[h].data \in {Whole(v), Damaged}

(* What of the tree is on disk by now. *)
Durable ==
  inherited \/
  /\ Secured
  /\ (Linking \/ Writing) /\ run.todo = F3 => Path(run.dst) \subseteq dirsOnDisk
  /\ (Linking \/ Writing) /\ run.todo = <<>> => OnDisk(run.dst)
  /\ Present \/ Preserving => OnDisk(run.dst)
  /\ run.call \in {"meta", "prune"} /\ run.v \in ByHash => OnDisk(Hash(run.v))
  /\ run.call = "prune" => OnDisk(Meta)

(* The inductive invariant. *)
IInv ==
  /\ TypeOK /\ Shape /\ DirsNest /\ Solid /\ Source /\ InPlace /\ Durable /\ LeftoversHarmless

-----------------------------------------------------------------------------
(* Names, data and lists of steps. *)

(* The names of the tree differ from each other. *)
LEMMA NameFacts ==
  /\ {Index, Meta} \subseteq Published /\ {Fetched, Tmp} \subseteq Staging
  /\ Published \subseteq Names /\ Staging \subseteq Names
  /\ Published \cap Staging = {}
  /\ Index # Meta /\ Fetched # Tmp
  /\ DirOf(Index) = "suite" /\ DirOf(Meta) = "suite"
  /\ \A v \in Versions \cup {0} :
       /\ Hash(v) # Index /\ Hash(v) # Meta
       /\ Staged(v) # Fetched /\ Staged(v) # Tmp
       /\ Partial(v) # Fetched /\ Partial(v) # Tmp
       /\ DirOf(Hash(v)) = "hash"
       /\ \A w \in Versions \cup {0} : (Hash(v) = Hash(w) => v = w) /\ Staged(v) # Partial(w)
  /\ \A v \in Versions :
       Hash(v) \in Published /\ Staged(v) \in Staging /\ Partial(v) \in Staging
  BY DEF Index, Meta, Hash, Fetched, Tmp, Staged, Partial, Published, Staging, Names, DirOf

LEMMA DataFacts ==
  /\ <<Torn, 0>> \in Data /\ Damaged \in Data /\ <<Torn, 0>> # Damaged
  /\ \A v \in Versions :
       /\ Whole(v) \in Data /\ Whole(v) # <<Torn, 0>> /\ Whole(v) # Damaged
       /\ \A w \in Versions : Whole(v) = Whole(w) => v = w
  /\ \A d \in Data : d[1] = Torn => d = <<Torn, 0>>
  BY DEF Data, Damaged, Whole, Torn, Rotten

LEMMA InodeFacts == None \notin Inodes
  BY DEF None, Inodes, Fetched, Tmp, Partial

Lists == {<<>>, F1, F2, F3, W1, W2, W3, L1, L2, L3, L4, C0, C1, C2, P1, P2,
          FileSteps, WriteSteps, LinkSteps, PresentSteps}

LEMMA LinkStepsAre ==
  LinkSteps = <<"clean", "link", "verify", "chmod", "fsync", "dirs", "chmod", "rename", "syncdir">>
<1> DEFINE a == <<"clean", "link", "verify", "chmod", "fsync">>
           c == <<"clean", "link", "verify", "chmod", "fsync", "dirs", "chmod", "rename", "syncdir">>
<1>1. a \in Seq(Steps) /\ FileSteps \in Seq(Steps) /\ c \in Seq(Steps) /\ LinkSteps \in Seq(Steps)
  BY DEF FileSteps, Steps, LinkSteps
<1>2. Len(LinkSteps) = 9
  BY DEF LinkSteps, FileSteps
<1>3. \A k \in 1..9 : LinkSteps[k] = c[k]
  BY DEF LinkSteps, FileSteps
<1>4. QED
  BY <1>1, <1>2, <1>3

(* The lists of steps, one by one: the first step and what it leaves. *)
LEMMA ListSteps ==
  /\ FileSteps # <<>> /\ Head(FileSteps) = "dirs" /\ Tail(FileSteps) = F1
  /\ F1 # <<>> /\ Head(F1) = "chmod" /\ Tail(F1) = F2
  /\ F2 # <<>> /\ Head(F2) = "rename" /\ Tail(F2) = F3
  /\ F3 # <<>> /\ Head(F3) = "syncdir" /\ Tail(F3) = <<>>
  /\ WriteSteps # <<>> /\ Head(WriteSteps) = "create" /\ Tail(WriteSteps) = W1
  /\ W1 # <<>> /\ Head(W1) = "fsync" /\ Tail(W1) = W2
  /\ W2 # <<>> /\ Head(W2) = "chmod" /\ Tail(W2) = W3
  /\ W3 # <<>> /\ Head(W3) = "dirs" /\ Tail(W3) = F2
  /\ LinkSteps # <<>> /\ Head(LinkSteps) = "clean" /\ Tail(LinkSteps) = L1
  /\ L1 # <<>> /\ Head(L1) = "link" /\ Tail(L1) = L2
  /\ L2 # <<>> /\ Head(L2) = "verify" /\ Tail(L2) = L3
  /\ L3 # <<>> /\ Head(L3) = "chmod" /\ Tail(L3) = L4
  /\ L4 # <<>> /\ Head(L4) = "fsync" /\ Tail(L4) = FileSteps
  /\ CopySteps \o L2 = C0
  /\ C0 # <<>> /\ Head(C0) = "copy" /\ Tail(C0) = C1
  /\ C1 # <<>> /\ Head(C1) = "fsynccopy" /\ Tail(C1) = C2
  /\ C2 # <<>> /\ Head(C2) = "move" /\ Tail(C2) = L2
  /\ PresentSteps # <<>> /\ Head(PresentSteps) = "dirs" /\ Tail(PresentSteps) = P1
  /\ P1 # <<>> /\ Head(P1) = "chmod" /\ Tail(P1) = P2
  /\ P2 # <<>> /\ Head(P2) = "fsync" /\ Tail(P2) = <<>>
<1>1. /\ FileSteps # <<>> /\ Head(FileSteps) = "dirs" /\ Tail(FileSteps) = F1
      /\ F1 # <<>> /\ Head(F1) = "chmod" /\ Tail(F1) = F2
      /\ F2 # <<>> /\ Head(F2) = "rename" /\ Tail(F2) = F3
      /\ F3 # <<>> /\ Head(F3) = "syncdir" /\ Tail(F3) = <<>>
  BY DEF FileSteps, F1, F2, F3
<1>2. /\ WriteSteps # <<>> /\ Head(WriteSteps) = "create" /\ Tail(WriteSteps) = W1
      /\ W1 # <<>> /\ Head(W1) = "fsync" /\ Tail(W1) = W2
      /\ W2 # <<>> /\ Head(W2) = "chmod" /\ Tail(W2) = W3
      /\ W3 # <<>> /\ Head(W3) = "dirs" /\ Tail(W3) = F2
  BY DEF WriteSteps, W1, W2, W3, F2
<1>3. /\ LinkSteps # <<>> /\ Head(LinkSteps) = "clean" /\ Tail(LinkSteps) = L1
      /\ L1 # <<>> /\ Head(L1) = "link" /\ Tail(L1) = L2
      /\ L2 # <<>> /\ Head(L2) = "verify" /\ Tail(L2) = L3
  BY LinkStepsAre DEF L1, L2, L3
<1>4. /\ L3 # <<>> /\ Head(L3) = "chmod" /\ Tail(L3) = L4
      /\ L4 # <<>> /\ Head(L4) = "fsync" /\ Tail(L4) = FileSteps
  BY DEF L3, L4, FileSteps
<1>5. CopySteps \o L2 = C0
  <2>1. CopySteps \o L2 \in Seq(Steps) /\ C0 \in Seq(Steps)
    BY DEF CopySteps, L2, C0, Steps
  <2>2. Len(CopySteps \o L2) = 10 /\ Len(C0) = 10
    BY DEF CopySteps, L2, C0
  <2>3. \A k \in 1..10 : (CopySteps \o L2)[k] = C0[k]
    BY DEF CopySteps, L2, C0
  <2>4. \A s, t \in Seq(Steps) :
          Len(s) = 10 /\ Len(t) = 10 /\ (\A k \in 1..10 : s[k] = t[k]) => s = t
    OBVIOUS
  <2>5. QED
    BY <2>1, <2>2, <2>3, <2>4
<1>6. /\ C0 # <<>> /\ Head(C0) = "copy" /\ Tail(C0) = C1
      /\ C1 # <<>> /\ Head(C1) = "fsynccopy" /\ Tail(C1) = C2
      /\ C2 # <<>> /\ Head(C2) = "move" /\ Tail(C2) = L2
  BY DEF C0, C1, C2, L2
<1>7. /\ PresentSteps # <<>> /\ Head(PresentSteps) = "dirs" /\ Tail(PresentSteps) = P1
      /\ P1 # <<>> /\ Head(P1) = "chmod" /\ Tail(P1) = P2
      /\ P2 # <<>> /\ Head(P2) = "fsync" /\ Tail(P2) = <<>>
  BY DEF PresentSteps, P1, P2
<1>8. QED
  BY <1>1, <1>2, <1>3, <1>4, <1>5, <1>6, <1>7

LEMMA ListTypes == Lists \subseteq Seq(Steps)
<1>1. {<<>>, F1, F2, F3, FileSteps, P1, P2, PresentSteps} \subseteq Seq(Steps)
  BY DEF F1, F2, F3, FileSteps, P1, P2, PresentSteps, Steps
<1>2. {W1, W2, W3, WriteSteps} \subseteq Seq(Steps)
  BY DEF W1, W2, W3, WriteSteps, Steps
<1>3. {L1, L2, L3, L4} \subseteq Seq(Steps)
  BY DEF L1, L2, L3, L4, Steps
<1>4. {C0, C1, C2} \subseteq Seq(Steps)
  BY DEF C0, C1, C2, Steps
<1>5. LinkSteps \in Seq(Steps)
  BY DEF LinkSteps, FileSteps, Steps
<1>6. QED
  BY <1>1, <1>2, <1>3, <1>4, <1>5 DEF Lists

(* No two of them are the same: the length or the first step tells them    *)
(* apart, in two cases the second step.                                    *)
LEMMA ListLengths ==
  /\ Len(F3) = 1 /\ Len(F2) = 2 /\ Len(F1) = 3 /\ Len(FileSteps) = 4
  /\ Len(W3) = 3 /\ Len(W2) = 4 /\ Len(W1) = 5 /\ Len(WriteSteps) = 6
  /\ Len(L4) = 5 /\ Len(L3) = 6 /\ Len(L2) = 7 /\ Len(L1) = 8 /\ Len(LinkSteps) = 9
  /\ Len(C2) = 8 /\ Len(C1) = 9 /\ Len(C0) = 10
  /\ Len(P2) = 1 /\ Len(P1) = 2 /\ Len(PresentSteps) = 3
  /\ W3 # PresentSteps /\ L4 # W1
<1>1. /\ Len(F3) = 1 /\ Len(F2) = 2 /\ Len(F1) = 3 /\ Len(FileSteps) = 4
      /\ Len(W3) = 3 /\ Len(W2) = 4 /\ Len(W1) = 5 /\ Len(WriteSteps) = 6
  BY DEF F1, F2, F3, FileSteps, W1, W2, W3, WriteSteps
<1>2. Len(L4) = 5 /\ Len(L3) = 6 /\ Len(L2) = 7 /\ Len(L1) = 8
  BY DEF L1, L2, L3, L4
<1>3. Len(LinkSteps) = 9
  BY LinkStepsAre
<1>4. Len(C2) = 8 /\ Len(C1) = 9 /\ Len(C0) = 10
  BY DEF C0, C1, C2
<1>5. Len(P2) = 1 /\ Len(P1) = 2 /\ Len(PresentSteps) = 3
  BY DEF P1, P2, PresentSteps
<1>6. W3 # PresentSteps
  BY DEF W3, PresentSteps
<1>7. L4 # W1
  BY DEF L4, W1
<1>8. QED
  BY <1>1, <1>2, <1>3, <1>4, <1>5, <1>6, <1>7

LEMMA ListsDiffer ==
  /\ <<>> \notin {F1, F2, F3, FileSteps, W1, W2, W3, WriteSteps, P1, P2, PresentSteps, L1,
         L2, L3, L4, LinkSteps, C0, C1, C2}
  /\ F1 \notin {F2, F3, FileSteps, W1, W2, W3, WriteSteps, P1, P2, PresentSteps, L1, L2,
         L3, L4, LinkSteps, C0, C1, C2}
  /\ F2 \notin {F3, FileSteps, W1, W2, W3, WriteSteps, P1, P2, PresentSteps, L1, L2, L3,
         L4, LinkSteps, C0, C1, C2}
  /\ F3 \notin {FileSteps, W1, W2, W3, WriteSteps, P1, P2, PresentSteps, L1, L2, L3, L4,
         LinkSteps, C0, C1, C2}
  /\ FileSteps \notin {W1, W2, W3, WriteSteps, P1, P2, PresentSteps, L1, L2, L3, L4,
         LinkSteps, C0, C1, C2}
  /\ W1 \notin {W2, W3, WriteSteps, P1, P2, PresentSteps, L1, L2, L3, L4, LinkSteps, C0,
         C1, C2}
  /\ W2 \notin {W3, WriteSteps, P1, P2, PresentSteps, L1, L2, L3, L4, LinkSteps, C0, C1,
         C2}
  /\ W3 \notin {WriteSteps, P1, P2, PresentSteps, L1, L2, L3, L4, LinkSteps, C0, C1, C2}
  /\ WriteSteps \notin {P1, P2, PresentSteps, L1, L2, L3, L4, LinkSteps, C0, C1, C2}
  /\ P1 \notin {P2, PresentSteps, L1, L2, L3, L4, LinkSteps, C0, C1, C2}
  /\ P2 \notin {PresentSteps, L1, L2, L3, L4, LinkSteps, C0, C1, C2}
  /\ PresentSteps \notin {L1, L2, L3, L4, LinkSteps, C0, C1, C2}
  /\ L1 \notin {L2, L3, L4, LinkSteps, C0, C1, C2}
  /\ L2 \notin {L3, L4, LinkSteps, C0, C1, C2}
  /\ L3 \notin {L4, LinkSteps, C0, C1, C2}
  /\ L4 \notin {LinkSteps, C0, C1, C2}
  /\ LinkSteps \notin {C0, C1, C2}
  /\ C0 \notin {C1, C2}
  /\ C1 \notin {C2}
<1>1. <<>> \notin {F1, F2, F3, FileSteps, W1, W2, W3, WriteSteps, P1, P2, PresentSteps, L1,
         L2, L3, L4, LinkSteps, C0, C1, C2}
  BY ListSteps, ListLengths
<1>2. F1 \notin {F2, F3, FileSteps, W1, W2, W3, WriteSteps, P1, P2, PresentSteps, L1, L2,
         L3, L4, LinkSteps, C0, C1, C2}
  BY ListSteps, ListLengths
<1>3. F2 \notin {F3, FileSteps, W1, W2, W3, WriteSteps, P1, P2, PresentSteps, L1, L2, L3,
         L4, LinkSteps, C0, C1, C2}
  BY ListSteps, ListLengths
<1>4. F3 \notin {FileSteps, W1, W2, W3, WriteSteps, P1, P2, PresentSteps, L1, L2, L3, L4,
         LinkSteps, C0, C1, C2}
  BY ListSteps, ListLengths
<1>5. FileSteps \notin {W1, W2, W3, WriteSteps, P1, P2, PresentSteps, L1, L2, L3, L4,
         LinkSteps, C0, C1, C2}
  BY ListSteps, ListLengths
<1>6. W1 \notin {W2, W3, WriteSteps, P1, P2, PresentSteps, L1, L2, L3, L4, LinkSteps, C0,
         C1, C2}
  BY ListSteps, ListLengths
<1>7. W2 \notin {W3, WriteSteps, P1, P2, PresentSteps, L1, L2, L3, L4, LinkSteps, C0, C1,
         C2}
  BY ListSteps, ListLengths
<1>8. W3 \notin {WriteSteps, P1, P2, PresentSteps, L1, L2, L3, L4, LinkSteps, C0, C1, C2}
  BY ListSteps, ListLengths
<1>9. WriteSteps \notin {P1, P2, PresentSteps, L1, L2, L3, L4, LinkSteps, C0, C1, C2}
  BY ListSteps, ListLengths
<1>10. P1 \notin {P2, PresentSteps, L1, L2, L3, L4, LinkSteps, C0, C1, C2}
  BY ListSteps, ListLengths
<1>11. P2 \notin {PresentSteps, L1, L2, L3, L4, LinkSteps, C0, C1, C2}
  BY ListSteps, ListLengths
<1>12. PresentSteps \notin {L1, L2, L3, L4, LinkSteps, C0, C1, C2}
  BY ListSteps, ListLengths
<1>13. L1 \notin {L2, L3, L4, LinkSteps, C0, C1, C2}
  BY ListSteps, ListLengths
<1>14. L2 \notin {L3, L4, LinkSteps, C0, C1, C2}
  BY ListSteps, ListLengths
<1>15. L3 \notin {L4, LinkSteps, C0, C1, C2}
  BY ListSteps, ListLengths
<1>16. L4 \notin {LinkSteps, C0, C1, C2}
  BY ListSteps, ListLengths
<1>17. LinkSteps \notin {C0, C1, C2}
  BY ListSteps, ListLengths
<1>18. C0 \notin {C1, C2}
  BY ListSteps, ListLengths
<1>19. C1 \notin {C2}
  BY ListSteps, ListLengths
<1>20. QED
  BY <1>1, <1>2, <1>3, <1>4, <1>5, <1>6, <1>7, <1>8, <1>9, <1>10, <1>11, <1>12, <1>13, <1>14, <1>15, <1>16, <1>17, <1>18, <1>19

-----------------------------------------------------------------------------
(* What a step does to the files that have a name before it and after it.  *)

Survivors == (Used(entry, onDisk) \cap Used(entry', onDisk')) \ {None}

(* No step takes bytes that are on disk away, except that the disk damages *)
(* them.                                                                   *)
KeepsData ==
  \A i \in Survivors : "data" \in inode[i].safe =>
    "data" \in inode'[i].safe /\ inode'[i].data \in {inode[i].data, Damaged}

(* Nor does it change any other bytes, or the mode of a published file,    *)
(* unless it is a power loss.                                              *)
Gentle ==
  \A i \in Survivors :
    /\ inode'[i].data = inode[i].data \/ (excused' /\ inode'[i].data = Damaged)
    /\ inode[i].public => inode'[i].public
    /\ "data" \in inode[i].safe => "data" \in inode'[i].safe

LEMMA GentleKeepsData == Gentle => KeepsData
  BY DEF Gentle, KeepsData

LEMMA UsedFacts ==
  /\ \A n \in Names : entry[n] \in Used(entry, onDisk) /\ entry'[n] \in Used(entry', onDisk')
  /\ \A n \in Published : onDisk[n] \in Used(entry, onDisk) /\ onDisk'[n] \in Used(entry', onDisk')
  BY DEF Used

(* A file that keeps a name keeps what the call has made of it.            *)
LEMMA Carry ==
  ASSUME Gentle, excused => excused'
  PROVE  \A n, m \in Names : entry'[m] = entry[n] /\ entry[n] # None =>
           /\ \A v : HoldsAt(entry[n], inode, v, excused) => HoldsAt(entry'[m], inode', v, excused')
           /\ inode[entry[n]].public => inode'[entry'[m]].public
           /\ "data" \in inode[entry[n]].safe => "data" \in inode'[entry'[m]].safe
<1> SUFFICES ASSUME NEW n \in Names, NEW m \in Names, entry'[m] = entry[n], entry[n] # None
             PROVE  /\ \A v : HoldsAt(entry[n], inode, v, excused) => HoldsAt(entry'[m], inode', v, excused')
                    /\ inode[entry[n]].public => inode'[entry'[m]].public
                    /\ "data" \in inode[entry[n]].safe => "data" \in inode'[entry'[m]].safe
  OBVIOUS
<1>1. entry[n] \in Survivors
  BY UsedFacts DEF Survivors
<1>2. QED
  BY <1>1 DEF Gentle, HoldsAt

LEMMA SameInodesGentle == inode' = inode => Gentle
  BY DEF Gentle

LEMMA ReapGentle ==
  ASSUME TypeOK, inode' = Reap(inode)
  PROVE  Gentle /\ inode' \in [Inodes -> Files]
<1>1. Blank \in Files
  BY DataFacts DEF Files, Blank
<1>2. inode' \in [Inodes -> Files]
  BY <1>1 DEF Reap, TypeOK
<1>3. \A i \in Inodes \cap Used(entry', onDisk') : inode'[i] = inode[i]
  BY DEF Reap
<1>4. Survivors \subseteq Inodes
  BY DEF Survivors, Used, TypeOK
<1>5. QED
  BY <1>2, <1>3, <1>4 DEF Gentle, Survivors

(* A new file takes an inode that no name leads to.                        *)
LEMMA CreateGentle ==
  ASSUME TypeOK, NEW n \in {Fetched, Tmp} \cup {Partial(v) : v \in Versions},
         NEW file \in Files, Create(n, file)
  PROVE  /\ Gentle /\ inode' \in [Inodes -> Files]
         /\ entry' \in [Names -> Inodes \cup {None}]
         /\ entry'[n] \in Inodes /\ inode'[entry'[n]] = file
         /\ \A m \in Names \ {n} : entry'[m] = entry[m]
         /\ onDisk' = onDisk
<1> DEFINE i == New(n)
<1>1. n \in Names
  BY NameFacts
<1>2. i \in Inodes /\ i \notin Used(entry, onDisk)
  <2>1. PICK k \in Free(n) : i = <<n[1], k>>
    BY DEF New, Create
  <2>2. k \in Numbers /\ <<n[1], k>> \notin Used(entry, onDisk)
    BY <2>1 DEF Free
  <2>3. QED
    BY <2>1, <2>2 DEF Inodes
<1> HIDE DEF i
<1>3. entry' = [entry EXCEPT ![n] = i] /\ inode' = [inode EXCEPT ![i] = file] /\ onDisk' = onDisk
  BY DEF Create, i
<1>4. Gentle
  <2>1. \A j \in Survivors : j # i /\ j \in Inodes
    BY <1>2 DEF Survivors, Used, TypeOK
  <2>2. \A j \in Survivors : inode'[j] = inode[j]
    BY <1>3, <2>1 DEF TypeOK
  <2>3. QED
    BY <2>2 DEF Gentle
<1>5. QED
  BY <1>1, <1>2, <1>3, <1>4 DEF TypeOK

LEMMA SetModeGentle ==
  ASSUME TypeOK, NEW i \in Inodes, SetMode(i)
  PROVE  Gentle /\ inode' \in [Inodes -> Files] /\ inode'[i].public
<1>1. inode[i] \in Files
  BY DEF TypeOK
<1>2. /\ inode'[i] \in Files /\ inode'[i].public /\ inode'[i].data = inode[i].data
      /\ "data" \in inode[i].safe => "data" \in inode'[i].safe
  <2>1. CASE inode[i].public
    BY <1>1, <2>1 DEF TypeOK, SetMode
  <2>2. CASE ~inode[i].public
    <3>1. inode'[i] = [data |-> inode[i].data, public |-> TRUE, safe |-> inode[i].safe \ {"mode"}]
      BY <2>2 DEF TypeOK, SetMode
    <3>2. QED
      BY <1>1, <3>1 DEF Files
  <2>3. QED
    BY <2>1, <2>2
<1>3. \A j \in Inodes \ {i} : inode'[j] = inode[j]
  BY DEF TypeOK, SetMode
<1>4. Survivors \subseteq Inodes
  BY DEF Survivors, Used, TypeOK
<1>5. QED
  BY <1>2, <1>3, <1>4 DEF Gentle, TypeOK, SetMode

LEMMA FlushGentle ==
  ASSUME TypeOK, NEW i \in Inodes, Flush(i)
  PROVE  Gentle /\ inode' \in [Inodes -> Files] /\ "data" \in inode'[i].safe
<1>1. inode[i] \in Files
  BY DEF TypeOK
<1>2. /\ inode'[i] \in Files /\ inode'[i].public = inode[i].public /\ inode'[i].data = inode[i].data
      /\ inode'[i].safe = {"data", "mode"}
  BY <1>1 DEF TypeOK, Files, Flush
<1>3. \A j \in Inodes \ {i} : inode'[j] = inode[j]
  BY DEF TypeOK, Flush
<1>4. Survivors \subseteq Inodes
  BY DEF Survivors, Used, TypeOK
<1>5. QED
  BY <1>2, <1>3, <1>4 DEF Gentle, TypeOK, Flush

-----------------------------------------------------------------------------
(* What it takes for the published files to stay whole, and for the        *)
(* Release to keep its by-hash file.                                       *)

LEMMA OutcomesAre ==
  \A n \in Published : Kept(n) = Outcomes(n) \ {None} /\ Kept(n)' = Outcomes(n)' \ {None}
  BY DEF Kept, Outcomes

LEMMA SolidFrame ==
  ASSUME Solid, KeepsData,
         \A n \in Published : \A i \in Kept(n)' :
           \/ i \in Kept(n)
           \/ /\ inode'[i].data # <<Torn, 0>> /\ "data" \in inode'[i].safe
              /\ \A v \in Versions : n = Hash(v) => inode'[i].data \in {Whole(v), Damaged}
  PROVE  Solid'
<1>1. \A n \in Published : \A i \in Kept(n)' \cap Kept(n) : i \in Survivors
  BY UsedFacts, NameFacts DEF Kept, Survivors
<1>2. \A n \in Published : \A i \in Kept(n)' \cap Kept(n) :
        "data" \in inode'[i].safe /\ inode'[i].data \in {inode[i].data, Damaged}
  BY <1>1 DEF Solid, KeepsData
<1>3. \A n \in Published : \A i \in Kept(n)' : inode'[i].data # <<Torn, 0>> /\ "data" \in inode'[i].safe
  BY <1>2, DataFacts DEF Solid
<1>4. \A v \in Versions : \A i \in Kept(Hash(v))' : inode'[i].data \in {Whole(v), Damaged}
  BY <1>2, NameFacts DEF Solid
<1>5. QED
  BY <1>3, <1>4 DEF Solid

LEMMA SecuredPair ==
  ASSUME Solid, Secured, KeepsData, NEW v \in ByHash,
         NEW m \in (Outcomes(Meta) \cap Outcomes(Meta)') \ {None}, inode'[m].data = Whole(v),
         NEW h \in Outcomes(Hash(v)) \cap Outcomes(Hash(v))'
  PROVE  h # None /\ inode'[h].data \in {Whole(v), Damaged}
<1>1. v \in Versions /\ Hash(v) \in Published /\ Meta \in Published
  BY TreeAssumption, NameFacts DEF TreeAssumption
<1>2. \A n \in Published : \A i \in (Outcomes(n) \cap Outcomes(n)') \ {None} :
        inode'[i].data \in {inode[i].data, Damaged}
  <2>1. \A n \in Published : \A i \in (Outcomes(n) \cap Outcomes(n)') \ {None} : i \in Survivors
    BY UsedFacts, NameFacts, OutcomesAre DEF Kept, Survivors
  <2>2. QED
    BY <2>1, OutcomesAre DEF Solid, KeepsData
<1>3. inode[m].data = Whole(v)
  BY <1>1, <1>2, DataFacts
<1>4. h # None /\ inode[h].data \in {Whole(v), Damaged}
  BY <1>3 DEF Secured
<1>5. QED
  BY <1>1, <1>2, <1>4

LEMMA SecuredFrame ==
  ASSUME Solid, Secured, KeepsData,
         \A n \in Published : Outcomes(n)' \subseteq Outcomes(n)
  PROVE  Secured'
<1> SUFFICES ASSUME NEW m \in Outcomes(Meta)' \ {None}, NEW v \in ByHash, inode'[m].data = Whole(v),
                    NEW h \in Outcomes(Hash(v))'
             PROVE  h # None /\ inode'[h].data \in {Whole(v), Damaged}
  BY DEF Secured
<1>1. Hash(v) \in Published /\ Meta \in Published
  BY TreeAssumption, NameFacts DEF TreeAssumption
<1>2. m \in Outcomes(Meta) /\ h \in Outcomes(Hash(v))
  BY <1>1
<1>3. QED
  BY <1>2, SecuredPair

-----------------------------------------------------------------------------
(* Where a call is, and where a step takes it.                             *)

LEMMA Doing ==
  ASSUME Shape
  PROVE  /\ Do("dirs") => \/ (Fetching \/ Linking) /\ run.todo = FileSteps
                          \/ Writing /\ run.todo = W3
                          \/ Present /\ run.todo = PresentSteps
         /\ Do("chmod") => \/ (Fetching \/ Linking) /\ run.todo = F1
                           \/ Linking /\ run.todo = L3
                           \/ Writing /\ run.todo = W2
                           \/ Present /\ run.todo = P1
         /\ Do("fsync") => \/ Linking /\ run.todo = L4
                           \/ Writing /\ run.todo = W1
                           \/ Present /\ run.todo = P2
         /\ Do("rename") => (Fetching \/ Linking \/ Writing) /\ run.todo = F2
         /\ Do("syncdir") => (Fetching \/ Linking \/ Writing) /\ run.todo = F3
         /\ Do("create") => Writing /\ run.todo = WriteSteps
         /\ Do("clean") => Linking /\ run.todo = LinkSteps
         /\ Do("link") => Linking /\ run.todo = L1
         /\ Do("copy") => Linking /\ run.todo = C0
         /\ Do("fsynccopy") => Linking /\ run.todo = C1
         /\ Do("move") => Linking /\ run.todo = C2
         /\ Do("verify") => Linking /\ run.todo = L2
<1> SUFFICES ASSUME run.todo # <<>>
             PROVE  \/ Fetching /\ run.todo \in {FileSteps, F1, F2, F3}
                    \/ Present /\ run.todo \in {PresentSteps, P1, P2}
                    \/ Linking /\ run.todo \in {LinkSteps, L1, L2, L3, L4, C0, C1, C2, FileSteps, F1, F2, F3}
                    \/ Writing /\ run.todo \in {WriteSteps, W1, W2, W3, F2, F3}
  BY ListSteps DEF Do
<1>1. QED
  BY DEF Shape

Stays(c) == run'.call = run.call /\ run'.v = run.v /\ run'.src = run.src /\ run'.dst = run.dst
            /\ run'.result = run.result /\ run'.todo = c

LEMMA StaysFacts ==
  ASSUME NEW c, Stays(c)
  PROVE  /\ Reusing' <=> Reusing
         /\ Fetching' <=> Fetching
         /\ Present' <=> Present
         /\ Linking' <=> Linking
         /\ Preserving' <=> Preserving
         /\ Writing' <=> Writing
  BY DEF Stays, Reusing, Fetching, Present, Linking, Preserving, Writing, Calling

(* The list that a step leads to.                                          *)
Follows(l, c) ==
  /\ l = FileSteps => c = F1
  /\ l = F1 => c = F2
  /\ l = F2 => c = F3
  /\ l = F3 => c = <<>>
  /\ l = WriteSteps => c = W1
  /\ l = W1 => c = W2
  /\ l = W2 => c = W3
  /\ l = W3 => c = F2
  /\ l = LinkSteps => c = L1
  /\ l = L2 => c = L3
  /\ l = L3 => c = L4
  /\ l = L4 => c = FileSteps
  /\ l = C0 => c = C1
  /\ l = C1 => c = C2
  /\ l = C2 => c = L2
  /\ l = PresentSteps => c = P1
  /\ l = P1 => c = P2
  /\ l = P2 => c = <<>>
  /\ l = L1 => c \in {L2, C0}

LEMMA NextList ==
  ASSUME NEW l, NEW c, c = Tail(l) \/ (l = L1 /\ c = C0)
  PROVE  Follows(l, c)
<1>1. l = FileSteps => c = F1
  BY ListSteps, ListsDiffer
<1>2. l = F1 => c = F2
  BY ListSteps, ListsDiffer
<1>3. l = F2 => c = F3
  BY ListSteps, ListsDiffer
<1>4. l = F3 => c = <<>>
  BY ListSteps, ListsDiffer
<1>5. l = WriteSteps => c = W1
  BY ListSteps, ListsDiffer
<1>6. l = W1 => c = W2
  BY ListSteps, ListsDiffer
<1>7. l = W2 => c = W3
  BY ListSteps, ListsDiffer
<1>8. l = W3 => c = F2
  BY ListSteps, ListsDiffer
<1>9. l = LinkSteps => c = L1
  BY ListSteps, ListsDiffer
<1>10. l = L2 => c = L3
  BY ListSteps, ListsDiffer
<1>11. l = L3 => c = L4
  BY ListSteps, ListsDiffer
<1>12. l = L4 => c = FileSteps
  BY ListSteps, ListsDiffer
<1>13. l = C0 => c = C1
  BY ListSteps, ListsDiffer
<1>14. l = C1 => c = C2
  BY ListSteps, ListsDiffer
<1>15. l = C2 => c = L2
  BY ListSteps, ListsDiffer
<1>16. l = PresentSteps => c = P1
  BY ListSteps, ListsDiffer
<1>17. l = P1 => c = P2
  BY ListSteps, ListsDiffer
<1>18. l = P2 => c = <<>>
  BY ListSteps, ListsDiffer
<1>19. l = L1 => c \in {L2, C0}
  BY ListSteps, ListsDiffer
<1>20. QED
  BY <1>1, <1>2, <1>3, <1>4, <1>5, <1>6, <1>7, <1>8, <1>9, <1>10, <1>11, <1>12, <1>13, <1>14, <1>15, <1>16, <1>17, <1>18, <1>19 DEF Follows

(* A step of a call leads to the next list.                                *)
LEMMA StepShape ==
  ASSUME TypeOK, Shape, NEW c, run' = [run EXCEPT !.todo = c],
         run.todo # <<>>,
         \/ c = Tail(run.todo)
         \/ run.todo = L1 /\ c = C0
  PROVE  c \in Lists /\ Stays(c) /\ run' \in Runs /\ Shape' /\ run.result = "begun"
<1>1. run.result = "begun"
  BY DEF Shape
<1>2. \/ Fetching /\ c \in {FileSteps, F1, F2, F3, <<>>}
      \/ Present /\ c \in {PresentSteps, P1, P2, <<>>}
      \/ Linking /\ c \in {LinkSteps, L1, L2, L3, L4, C0, C1, C2, FileSteps, F1, F2, F3, <<>>}
      \/ Writing /\ c \in {WriteSteps, W1, W2, W3, F2, F3, <<>>}
  <2>0. Follows(run.todo, c)
    BY NextList
  <2>1. CASE Fetching /\ run.todo \in {FileSteps, F1, F2, F3}
    BY <2>0, <2>1 DEF Follows
  <2>2. CASE Present /\ run.todo \in {PresentSteps, P1, P2}
    BY <2>0, <2>2 DEF Follows
  <2>3. CASE Linking /\ run.todo \in {LinkSteps, L1, L2, L3, L4, C0, C1, C2, FileSteps, F1, F2, F3}
    BY <2>0, <2>3 DEF Follows
  <2>4. CASE Writing /\ run.todo \in {WriteSteps, W1, W2, W3, F2, F3}
    BY <2>0, <2>4 DEF Follows
  <2>5. QED
    BY <1>1, <2>1, <2>2, <2>3, <2>4 DEF Shape
<1>3. c \in Lists
  BY <1>2 DEF Lists
<1>4. Stays(c) /\ run' \in Runs
  BY <1>3, ListTypes DEF TypeOK, Runs, Stays
<1>5. QED
  BY <1>1, <1>2, <1>3, <1>4, StaysFacts DEF Shape, Stays

(* What Source says at each list.                                          *)
LEMMA SourceAt ==
  ASSUME run'.result = "begun"
  PROVE  /\ run'.todo \in {LinkSteps, WriteSteps, PresentSteps, P1} => Source'
         /\ run'.todo = L1 /\ entry'[run'.src] = None /\ entry'[Partial(run'.v)] = None => Source'
         /\ run'.todo = C0 /\ entry'[Partial(run'.v)] = None => Source'
         /\ run'.todo \in {C1, C2} /\ Holds(Partial(run.v))' => Source'
         /\ run'.todo \in {L2, L3, L4, W1} /\ Holds(run.src)' => Source'
         /\ run'.todo \in {FileSteps, W2} /\ Holds(run.src)' /\ Synced(run.src)' => Source'
         /\ run'.todo = F1 /\ Holds(run.src)' /\ Synced(run.src)' /\ Path(run'.dst) \subseteq dirs' => Source'
         /\ run'.todo = W3 /\ Holds(run.src)' /\ Synced(run.src)' /\ Public(run.src)' => Source'
         /\ run'.todo = F2 /\ Holds(run.src)' /\ Synced(run.src)' /\ Public(run.src)'
              /\ Path(run'.dst) \subseteq dirs' => Source'
         /\ run'.todo = F3 /\ Public(run.dst)' /\ Path(run'.dst) \subseteq dirs' => Source'
         /\ run'.todo = <<>> /\ (run'.src # Index => Public(run.dst)') => Source'
         /\ run'.todo = P2 /\ Public(run.dst)' => Source'
<1>1. run'.todo \in {LinkSteps, WriteSteps, PresentSteps, P1} => Source'
  BY ListsDiffer DEF Source, Renamed
<1>2. run'.todo = L1 /\ entry'[run'.src] = None /\ entry'[Partial(run'.v)] = None => Source'
  BY ListsDiffer DEF Source, Renamed
<1>3. run'.todo = C0 /\ entry'[Partial(run'.v)] = None => Source'
  BY ListsDiffer DEF Source, Renamed
<1>4. run'.todo \in {C1, C2} /\ Holds(Partial(run.v))' => Source'
  BY ListsDiffer DEF Source, Renamed
<1>5. run'.todo \in {L2, L3, L4, W1} /\ Holds(run.src)' => Source'
  BY ListsDiffer DEF Source, Renamed
<1>6. run'.todo \in {FileSteps, W2} /\ Holds(run.src)' /\ Synced(run.src)' => Source'
  BY ListsDiffer DEF Source, Renamed
<1>7. run'.todo = F1 /\ Holds(run.src)' /\ Synced(run.src)' /\ Path(run'.dst) \subseteq dirs' => Source'
  BY ListsDiffer DEF Source, Renamed
<1>8. run'.todo = W3 /\ Holds(run.src)' /\ Synced(run.src)' /\ Public(run.src)' => Source'
  BY ListsDiffer DEF Source, Renamed
<1>9. run'.todo = F2 /\ Holds(run.src)' /\ Synced(run.src)' /\ Public(run.src)'
        /\ Path(run'.dst) \subseteq dirs' => Source'
  BY ListsDiffer DEF Source, Renamed
<1>10. run'.todo = F3 /\ Public(run.dst)' /\ Path(run'.dst) \subseteq dirs' => Source'
  BY ListsDiffer DEF Source, Renamed
<1>11. run'.todo = <<>> /\ (run'.src # Index => Public(run.dst)') => Source'
  BY ListsDiffer DEF Source, Renamed
<1>12. run'.todo = P2 /\ Public(run.dst)' => Source'
  BY ListsDiffer DEF Source, Renamed
<1>13. QED
  BY <1>1, <1>2, <1>3, <1>4, <1>5, <1>6, <1>7, <1>8, <1>9, <1>10, <1>11, <1>12

-----------------------------------------------------------------------------
(* Steps that leave the published entries alone: within a call, at its     *)
(* start, at its end.                                                      *)

SameEntries == onDisk' = onDisk /\ \A n \in Published : entry'[n] = entry[n]

LEMMA SameKept ==
  ASSUME SameEntries, dirsOnDisk' = dirsOnDisk
  PROVE  \A n \in Published : Kept(n)' = Kept(n) /\ Outcomes(n)' = Outcomes(n) /\ (OnDisk(n) => OnDisk(n)')
  BY DEF SameEntries, Kept, Outcomes, OnDisk

(* The files that the calls so far have put in place stay there.           *)
LEMMA SameHolds ==
  ASSUME SameEntries, Gentle, excused => excused', run'.v = run.v
  PROVE  \A n \in Published : Holds(n) => Holds(n)'
<1>1. \A n \in Published : n \in Names /\ entry'[n] = entry[n]
  BY NameFacts DEF SameEntries
<1>2. \A n \in Published : HoldsAt(entry[n], inode, run.v, excused) => entry[n] # None
  BY DEF HoldsAt
<1>3. \A n \in Published : HoldsAt(entry[n], inode, run.v, excused) =>
                             HoldsAt(entry'[n], inode', run.v, excused')
  BY <1>1, <1>2, Carry
<1>4. QED
  BY <1>3 DEF Holds

LEMMA CallNames ==
  ASSUME Shape, run.call # "none"
  PROVE  /\ run.v \in Versions /\ {Index, Meta, Hash(run.v)} \subseteq Published
         /\ run.result = "begun" => run.dst \in {Index, Meta, Hash(run.v)}
  BY NameFacts DEF Shape, Reusing, Fetching, Present, Linking, Preserving, Writing, Calling

LEMMA CallsDiffer ==
  ASSUME Shape
  PROVE  /\ Present => ~Linking /\ ~Writing /\ ~Fetching /\ ~Preserving /\ ~Reusing
         /\ Linking => ~Writing /\ ~Fetching /\ ~Preserving /\ ~Reusing
         /\ Writing => ~Fetching /\ ~Preserving /\ ~Reusing
         /\ Fetching => ~Preserving /\ ~Reusing
<1>1. run.call = "hash" => Hash(run.v) # Staged(run.v)
  BY NameFacts DEF Shape
<1>2. Index # Fetched /\ Meta # Tmp
  BY NameFacts
<1>3. QED
  BY <1>1, <1>2 DEF Present, Linking, Writing, Fetching, Preserving, Reusing, Calling

LEMMA StepFrame ==
  ASSUME IInv, NEW c \in Lists, Stays(c), run' \in Runs, Shape', run.result = "begun",
         c # F3, c = <<>> => Present,
         Gentle, inode' \in [Inodes -> Files], entry' \in [Names -> Inodes \cup {None}],
         SameEntries, UNCHANGED <<dirs, dirsOnDisk, links, mishaps, excused, inherited>>,
         Source'
  PROVE  IInv'
<1>1. TypeOK'
  BY DEF IInv, TypeOK, SameEntries
<1>2. DirsNest' /\ LeftoversHarmless'
  BY DEF IInv, DirsNest, LeftoversHarmless, Stays
<1>3. Solid'
  BY SameKept, SolidFrame, GentleKeepsData DEF IInv
<1>4. run.call # "none"
  BY DEF IInv, Shape, Reusing, Fetching, Present, Linking, Preserving, Writing, Calling
<1>5. InPlace'
  <2>1. Holds(Index) => Holds(Index)'
    BY <1>4, SameHolds, CallNames DEF IInv, Stays
  <2>2. Holds(Meta) => Holds(Meta)'
    BY <1>4, SameHolds, CallNames DEF IInv, Stays
  <2>3. Holds(Hash(run.v)) => Holds(Hash(run.v))'
    <3>1. \A n \in Published : n = Hash(run.v) => (Holds(n) => Holds(n)')
      BY <1>4, SameHolds DEF IInv, Stays
    <3>2. QED
      BY <1>4, <3>1, CallNames DEF IInv, Stays, Holds
  <2>4. Holds(run.dst) => Holds(run.dst)'
    <3>1. \A n \in Published : n = run.dst => (Holds(n) => Holds(n)')
      BY <1>4, SameHolds DEF IInv, Stays
    <3>2. QED
      BY <1>4, <3>1, CallNames DEF IInv, Stays, Holds
  <2>5. (Renamed \/ Present)' => Present
    BY StaysFacts DEF Renamed, Stays
  <2>6. QED
    BY <2>1, <2>2, <2>3, <2>4, <2>5 DEF IInv, InPlace, Stays
<1>6. Durable'
  <2>1. CASE inherited
    BY <2>1 DEF Durable
  <2>2. CASE ~inherited
    <3>1. Secured'
      BY <2>2, SameKept, SecuredFrame, GentleKeepsData DEF IInv, Durable
    <3>2. \A n \in Published : OnDisk(n) => OnDisk(n)'
      BY SameKept
    <3>3. (OnDisk(Hash(run.v)) => OnDisk(Hash(run.v))') /\ (OnDisk(run.dst) => OnDisk(run.dst)')
          /\ (OnDisk(Meta) => OnDisk(Meta)')
      BY <1>4, <3>2, CallNames DEF IInv, Stays, OnDisk
    <3>4. ~(Linking' /\ run'.todo \in {F3, <<>>}) /\ ~(Writing' /\ run'.todo \in {F3, <<>>})
      BY StaysFacts, CallsDiffer DEF IInv, Stays
    <3>5. QED
      BY <2>2, <3>1, <3>3, <3>4, StaysFacts DEF IInv, Durable, Stays
  <2>3. QED
    BY <2>1, <2>2
<1>7. QED
  BY <1>1, <1>2, <1>3, <1>5, <1>6 DEF IInv

-----------------------------------------------------------------------------
(* The steps of a call, up to its rename. *)

LEMMA HoldsFacts ==
  ASSUME TypeOK
  PROVE  \A n \in Names : Holds(n) => entry[n] # None /\ entry[n] \in Inodes
  BY DEF TypeOK, Holds, HoldsAt

LEMMA RunNames ==
  ASSUME TypeOK
  PROVE  run.src \in Names /\ run.dst \in Names /\ run.v \in Versions \cup {0}
  BY DEF TypeOK, Runs

(* The call's own file, while it keeps its name.                           *)
LEMMA CarryCall ==
  ASSUME TypeOK, Gentle, NEW c, Stays(c), excused => excused'
  PROVE  /\ Holds(run.src) /\ entry'[run.src] = entry[run.src] =>
              /\ Holds(run.src)'
              /\ Synced(run.src) => Synced(run.src)'
              /\ Public(run.src) => Public(run.src)'
         /\ Holds(run.dst) /\ entry'[run.dst] = entry[run.dst] =>
              Holds(run.dst)' /\ (Public(run.dst) => Public(run.dst)')
<1>1. run.src \in Names /\ run.dst \in Names
  BY RunNames
<1>2. Holds(run.src) /\ entry'[run.src] = entry[run.src] =>
        /\ HoldsAt(entry'[run.src], inode', run.v, excused')
        /\ inode[entry[run.src]].public => inode'[entry'[run.src]].public
        /\ "data" \in inode[entry[run.src]].safe => "data" \in inode'[entry'[run.src]].safe
  BY <1>1, HoldsFacts, Carry DEF Holds
<1>3. Holds(run.dst) /\ entry'[run.dst] = entry[run.dst] =>
        /\ HoldsAt(entry'[run.dst], inode', run.v, excused')
        /\ inode[entry[run.dst]].public => inode'[entry'[run.dst]].public
  BY <1>1, HoldsFacts, Carry DEF Holds
<1>4. QED
  BY <1>2, <1>3 DEF Holds, Synced, Public, Stays

LEMMA Proceeds ==
  ASSUME TypeOK, Shape, run.todo # <<>>, Proceed, NEW c, c = Tail(run.todo)
  PROVE  c \in Lists /\ Stays(c) /\ run' \in Runs /\ Shape' /\ run.result = "begun"
<1>1. run' = [run EXCEPT !.todo = c]
  BY DEF Proceed
<1>2. QED
  BY <1>1, StepShape

LEMMA ChmodStep ==
  ASSUME IInv, Chmod
  PROVE  IInv'
<1> DEFINE c == Tail(run.todo)
<1>1. TypeOK /\ Shape /\ Source /\ InPlace /\ run.todo # <<>>
  BY DEF IInv, Chmod, Do
<1>2. c \in Lists /\ Stays(c) /\ run' \in Runs /\ Shape' /\ run.result = "begun"
  BY <1>1, Proceeds DEF Chmod
<1>3. Holds(run.src)
  BY <1>1, Doing DEF Chmod, Source, InPlace, Present, Calling
<1>4. entry[run.src] \in Inodes
  BY <1>1, <1>3, HoldsFacts, RunNames
<1>5. Gentle /\ inode' \in [Inodes -> Files] /\ inode'[entry[run.src]].public
  BY <1>1, <1>4, SetModeGentle DEF Chmod
<1> HIDE DEF c
<1>6. /\ Holds(run.src)' /\ Public(run.src)'
      /\ Synced(run.src) => Synced(run.src)'
  <2>1. entry'[run.src] = entry[run.src] /\ (excused => excused')
    BY DEF Chmod
  <2>2. Holds(run.src)' /\ (Synced(run.src) => Synced(run.src)')
    BY <1>1, <1>2, <1>3, <1>5, <2>1, CarryCall
  <2>3. Public(run.src)'
    BY <1>2, <1>5, <2>1 DEF Public, Stays
  <2>4. QED
    BY <2>2, <2>3
<1>7. run'.result = "begun" /\ run'.todo = c /\ run'.dst = run.dst /\ run'.src = run.src /\ dirs' = dirs
  BY <1>2 DEF Stays, Chmod
<1>8. c # F3 /\ (c = <<>> => Present) /\ Source'
  <2>1. CASE (Fetching \/ Linking) /\ run.todo = F1
    <3>1. c = F2
      BY <2>1, NextList DEF c, Follows
    <3>2. Synced(run.src) /\ Path(run.dst) \subseteq dirs
      BY <1>1, <2>1 DEF Source
    <3>3. QED
      BY <1>6, <1>7, <3>1, <3>2, SourceAt, ListsDiffer
  <2>2. CASE Linking /\ run.todo = L3
    <3>1. c = L4
      BY <2>2, NextList DEF c, Follows
    <3>2. QED
      BY <1>6, <1>7, <3>1, SourceAt, ListsDiffer
  <2>3. CASE Writing /\ run.todo = W2
    <3>1. c = W3
      BY <2>3, NextList DEF c, Follows
    <3>2. Synced(run.src)
      BY <1>1, <2>3 DEF Source
    <3>3. QED
      BY <1>6, <1>7, <3>1, <3>2, SourceAt, ListsDiffer
  <2>4. CASE Present /\ run.todo = P1
    <3>1. c = P2
      BY <2>4, NextList DEF c, Follows
    <3>2. Public(run.dst)'
      BY <1>6, <1>7, <2>4 DEF Present, Calling, Public
    <3>3. QED
      BY <1>7, <3>1, <3>2, SourceAt, ListsDiffer
  <2>5. QED
    BY <1>1, <2>1, <2>2, <2>3, <2>4, Doing DEF Chmod
<1>9. SameEntries /\ entry' \in [Names -> Inodes \cup {None}]
  BY <1>1 DEF Chmod, SameEntries, TypeOK
<1>10. QED
  BY <1>2, <1>5, <1>8, <1>9, StepFrame DEF Chmod

LEMMA FsyncStep ==
  ASSUME IInv, Fsync
  PROVE  IInv'
<1> DEFINE c == Tail(run.todo)
<1>1. TypeOK /\ Shape /\ Source /\ InPlace /\ run.todo # <<>>
  BY DEF IInv, Fsync, Do
<1>2. c \in Lists /\ Stays(c) /\ run' \in Runs /\ Shape' /\ run.result = "begun"
  BY <1>1, Proceeds DEF Fsync
<1>3. Holds(run.src)
  BY <1>1, Doing DEF Fsync, Source, InPlace, Present, Calling
<1>4. entry[run.src] \in Inodes
  BY <1>1, <1>3, HoldsFacts, RunNames
<1>5. Gentle /\ inode' \in [Inodes -> Files] /\ "data" \in inode'[entry[run.src]].safe
  BY <1>1, <1>4, FlushGentle DEF Fsync
<1> HIDE DEF c
<1>6. Holds(run.src)' /\ Synced(run.src)' /\ (Public(run.src) => Public(run.src)')
  <2>1. entry'[run.src] = entry[run.src] /\ (excused => excused')
    BY DEF Fsync
  <2>2. Holds(run.src)' /\ (Public(run.src) => Public(run.src)')
    BY <1>1, <1>2, <1>3, <1>5, <2>1, CarryCall
  <2>3. Synced(run.src)'
    BY <1>2, <1>5, <2>1 DEF Synced, Stays
  <2>4. QED
    BY <2>2, <2>3
<1>7. run'.result = "begun" /\ run'.todo = c /\ run'.dst = run.dst /\ run'.src = run.src /\ dirs' = dirs
  BY <1>2 DEF Stays, Fsync
<1>8. c # F3 /\ (c = <<>> => Present) /\ Source'
  <2>1. CASE Linking /\ run.todo = L4
    <3>1. c = FileSteps
      BY <2>1, NextList DEF c, Follows
    <3>2. QED
      BY <1>6, <1>7, <3>1, SourceAt, ListsDiffer
  <2>2. CASE Writing /\ run.todo = W1
    <3>1. c = W2
      BY <2>2, NextList DEF c, Follows
    <3>2. QED
      BY <1>6, <1>7, <3>1, SourceAt, ListsDiffer
  <2>3. CASE Present /\ run.todo = P2
    <3>1. c = <<>>
      BY <2>3, NextList DEF c, Follows
    <3>2. run.src = run.dst /\ Public(run.dst)
      BY <1>1, <2>3 DEF Source, Present, Calling
    <3>3. Public(run.dst)'
      BY <1>6, <1>7, <3>2 DEF Public
    <3>4. QED
      BY <1>7, <2>3, <3>1, <3>3, SourceAt, ListsDiffer
  <2>4. QED
    BY <1>1, <2>1, <2>2, <2>3, Doing DEF Fsync
<1>9. SameEntries /\ entry' \in [Names -> Inodes \cup {None}]
  BY <1>1 DEF Fsync, SameEntries, TypeOK
<1>10. QED
  BY <1>2, <1>5, <1>8, <1>9, StepFrame DEF Fsync

LEMMA CreateTmpStep ==
  ASSUME IInv, CreateTmp
  PROVE  IInv'
<1> DEFINE c == Tail(run.todo)
           file == [data |-> Whole(run.v), public |-> FALSE, safe |-> {}]
<1>1. TypeOK /\ Shape /\ run.todo # <<>> /\ Writing /\ run.todo = WriteSteps /\ run.v \in Versions
  BY Doing, CallNames DEF IInv, CreateTmp, Do, Writing, Calling
<1>2. c \in Lists /\ Stays(c) /\ run' \in Runs /\ Shape' /\ run.result = "begun"
  BY <1>1, Proceeds DEF CreateTmp
<1>3. file \in Files
  BY <1>1, DataFacts DEF Files
<1>4. /\ Gentle /\ inode' \in [Inodes -> Files] /\ entry' \in [Names -> Inodes \cup {None}]
      /\ entry'[Tmp] \in Inodes /\ inode'[entry'[Tmp]] = file
      /\ \A m \in Names \ {Tmp} : entry'[m] = entry[m]
      /\ onDisk' = onDisk
  BY <1>1, <1>3, CreateGentle DEF CreateTmp
<1>5. Holds(run.src)'
  BY <1>1, <1>2, <1>4, InodeFacts DEF Holds, HoldsAt, Stays, Writing, Calling
<1> HIDE DEF c
<1>6. c = W1
  BY <1>1, NextList DEF c, Follows
<1>7. Source'
  BY <1>2, <1>5, <1>6, SourceAt DEF Stays
<1>8. SameEntries
  BY <1>4, NameFacts DEF SameEntries
<1>9. QED
  BY <1>2, <1>4, <1>6, <1>7, <1>8, StepFrame, ListsDiffer DEF CreateTmp

LEMMA UnlinkFacts ==
  ASSUME TypeOK, NEW S \in SUBSET Staging, Unlink(S)
  PROVE  /\ Gentle /\ inode' \in [Inodes -> Files] /\ entry' \in [Names -> Inodes \cup {None}]
         /\ SameEntries
         /\ \A n \in S : entry'[n] = None
         /\ \A n \in Names \ S : entry'[n] = entry[n]
<1>1. Gentle /\ inode' \in [Inodes -> Files]
  BY ReapGentle DEF Unlink
<1>2. entry' = [n \in Names |-> IF n \in S THEN None ELSE entry[n]]
  BY DEF Unlink
<1>3. entry' \in [Names -> Inodes \cup {None}]
  BY <1>2 DEF TypeOK
<1>4. SameEntries
  BY <1>2, NameFacts DEF SameEntries, Unlink
<1>5. QED
  BY <1>1, <1>2, <1>3, <1>4, NameFacts

LEMMA LinkingFacts ==
  ASSUME Shape, Linking
  PROVE  /\ run.v \in Versions /\ run.src = Staged(run.v) /\ run.dst = Hash(run.v)
         /\ {Staged(run.v), Partial(run.v)} \subseteq Staging /\ Staged(run.v) # Partial(run.v)
         /\ Hash(run.v) \in Published
<1>1. run.v \in Versions /\ run.src = Staged(run.v) /\ run.dst = Hash(run.v)
  BY CallNames DEF Linking, Calling
<1>2. QED
  BY <1>1, NameFacts

LEMMA CleanStep ==
  ASSUME IInv, Clean
  PROVE  IInv'
<1> DEFINE c == Tail(run.todo)
<1>1. TypeOK /\ Shape /\ run.todo # <<>> /\ Linking /\ run.todo = LinkSteps
  BY Doing DEF IInv, Clean, Do
<1>2. c \in Lists /\ Stays(c) /\ run' \in Runs /\ Shape' /\ run.result = "begun"
  BY <1>1, Proceeds DEF Clean
<1>3. /\ Gentle /\ inode' \in [Inodes -> Files] /\ entry' \in [Names -> Inodes \cup {None}]
      /\ SameEntries /\ entry'[Staged(run.v)] = None /\ entry'[Partial(run.v)] = None
  BY <1>1, LinkingFacts, UnlinkFacts DEF Clean
<1> HIDE DEF c
<1>4. c = L1
  BY <1>1, NextList DEF c, Follows
<1>5. Source'
  BY <1>1, <1>2, <1>3, <1>4, LinkingFacts, SourceAt DEF Stays
<1>6. QED
  BY <1>2, <1>3, <1>4, <1>5, StepFrame, ListsDiffer DEF Clean

LEMMA LinkStep ==
  ASSUME IInv, Link
  PROVE  IInv'
<1> DEFINE c == Tail(run.todo)
<1>1. TypeOK /\ Shape /\ run.todo # <<>> /\ Linking /\ run.todo = L1 /\ Holds(Index)
  BY Doing DEF IInv, Link, Do, InPlace, Linking, Calling
<1>2. c \in Lists /\ Stays(c) /\ run' \in Runs /\ Shape' /\ run.result = "begun"
  BY <1>1, Proceeds DEF Link
<1>3. /\ run.src \in Staging /\ inode' = inode /\ onDisk' = onDisk
      /\ entry' = [entry EXCEPT ![run.src] = entry[Index]]
  BY <1>1, LinkingFacts DEF Link
<1>4. entry' \in [Names -> Inodes \cup {None}] /\ entry'[run.src] = entry[Index]
  BY <1>1, <1>3, NameFacts DEF TypeOK
<1>5. SameEntries
  BY <1>1, <1>3, NameFacts DEF SameEntries, TypeOK
<1>6. Holds(run.src)'
  BY <1>1, <1>2, <1>3, <1>4 DEF Holds, Stays, Link
<1>7. Gentle /\ inode' \in [Inodes -> Files]
  BY <1>1, <1>3, SameInodesGentle DEF TypeOK
<1> HIDE DEF c
<1>8. c = L2
  BY <1>1, <1>2, NextList, ListSteps DEF c, Follows
<1>9. Source'
  BY <1>2, <1>6, <1>8, SourceAt DEF Stays
<1>10. QED
  BY <1>2, <1>4, <1>5, <1>7, <1>8, <1>9, StepFrame, ListsDiffer DEF Link

LEMMA LinkRefusedStep ==
  ASSUME IInv, LinkRefused
  PROVE  IInv'
<1>1. TypeOK /\ Shape /\ Source /\ run.todo # <<>> /\ Linking /\ run.todo = L1
  BY Doing DEF IInv, LinkRefused, Do
<1>2. run' = [run EXCEPT !.todo = C0]
  BY <1>1, ListSteps DEF LinkRefused
<1>3. C0 \in Lists /\ Stays(C0) /\ run' \in Runs /\ Shape' /\ run.result = "begun"
  BY <1>1, <1>2, StepShape
<1>4. /\ Gentle /\ inode' \in [Inodes -> Files] /\ entry' \in [Names -> Inodes \cup {None}]
      /\ SameEntries
  BY <1>1, SameInodesGentle DEF LinkRefused, tree, TypeOK, SameEntries
<1>5. Source'
  BY <1>1, <1>3, SourceAt DEF Source, Stays, LinkRefused, tree
<1>6. QED
  BY <1>3, <1>4, <1>5, StepFrame, ListsDiffer DEF LinkRefused, tree

LEMMA CopyStep ==
  ASSUME IInv, Copy
  PROVE  IInv'
<1> DEFINE c == Tail(run.todo)
           file == [data |-> Whole(run.v), public |-> TRUE, safe |-> {}]
           n == Partial(run.v)
<1>1. TypeOK /\ Shape /\ run.todo # <<>> /\ Linking /\ run.todo = C0
  BY Doing DEF IInv, Copy, Do
<1>2. c \in Lists /\ Stays(c) /\ run' \in Runs /\ Shape' /\ run.result = "begun"
  BY <1>1, Proceeds DEF Copy
<1>3. file \in Files /\ n \in Staging /\ n \in {Fetched, Tmp} \cup {Partial(v) : v \in Versions}
  BY <1>1, DataFacts, LinkingFacts DEF Files
<1>4. /\ Gentle /\ inode' \in [Inodes -> Files] /\ entry' \in [Names -> Inodes \cup {None}]
      /\ entry'[n] \in Inodes /\ inode'[entry'[n]] = file
      /\ \A m \in Names \ {n} : entry'[m] = entry[m]
      /\ onDisk' = onDisk
  BY <1>1, <1>3, CreateGentle DEF Copy
<1>5. Holds(Partial(run.v))'
  BY <1>1, <1>2, <1>4, InodeFacts DEF Holds, HoldsAt, Stays
<1> HIDE DEF c
<1>6. c = C1
  BY <1>1, ListSteps DEF c
<1>7. Source'
  BY <1>2, <1>5, <1>6, SourceAt DEF Stays
<1>8. SameEntries
  BY <1>3, <1>4, NameFacts DEF SameEntries
<1>9. QED
  BY <1>2, <1>4, <1>6, <1>7, <1>8, StepFrame, ListsDiffer DEF Copy

LEMMA FsyncCopyStep ==
  ASSUME IInv, FsyncCopy
  PROVE  IInv'
<1> DEFINE c == Tail(run.todo)
           n == Partial(run.v)
<1>1. TypeOK /\ Shape /\ run.todo # <<>> /\ Linking /\ run.todo = C1 /\ Holds(n)
  BY Doing DEF IInv, FsyncCopy, Do, Source
<1>2. c \in Lists /\ Stays(c) /\ run' \in Runs /\ Shape' /\ run.result = "begun"
  BY <1>1, Proceeds DEF FsyncCopy
<1>3. n \in Names
  BY <1>1, LinkingFacts, NameFacts
<1>4. entry[n] # None /\ entry[n] \in Inodes
  BY <1>1, <1>3, HoldsFacts
<1>5. Gentle /\ inode' \in [Inodes -> Files] /\ entry' = entry
  BY <1>1, <1>4, FlushGentle DEF FsyncCopy
<1>6. HoldsAt(entry'[n], inode', run.v, excused')
  BY <1>1, <1>3, <1>4, <1>5, Carry DEF FsyncCopy, Holds
<1>7. Holds(Partial(run.v))'
  BY <1>2, <1>6 DEF Holds, Stays
<1> HIDE DEF c
<1>8. c = C2
  BY <1>1, ListSteps DEF c
<1>9. Source'
  BY <1>2, <1>7, <1>8, SourceAt DEF Stays
<1>10. SameEntries /\ entry' \in [Names -> Inodes \cup {None}]
  BY <1>1 DEF FsyncCopy, SameEntries, TypeOK
<1>11. QED
  BY <1>2, <1>5, <1>8, <1>9, <1>10, StepFrame, ListsDiffer DEF FsyncCopy

LEMMA MoveCopyStep ==
  ASSUME IInv, MoveCopy
  PROVE  IInv'
<1> DEFINE c == Tail(run.todo)
           n == Partial(run.v)
           m == Staged(run.v)
<1>1. TypeOK /\ Shape /\ run.todo # <<>> /\ Linking /\ run.todo = C2 /\ Holds(n)
  BY Doing DEF IInv, MoveCopy, Do, Source
<1>2. c \in Lists /\ Stays(c) /\ run' \in Runs /\ Shape' /\ run.result = "begun"
  BY <1>1, Proceeds DEF MoveCopy
<1>3. n \in Names /\ m \in Names /\ n \in Staging /\ m \in Staging /\ n # m /\ run.src = m
  BY <1>1, LinkingFacts, NameFacts
<1>4. entry[n] # None /\ entry[n] \in Inodes
  BY <1>1, <1>3, HoldsFacts
<1>5. entry' = [entry EXCEPT ![m] = entry[n], ![n] = None] /\ onDisk' = onDisk /\ inode' = Reap(inode)
  BY DEF MoveCopy, Move
<1> HIDE DEF n, m
<1>6. entry' \in [Names -> Inodes \cup {None}] /\ entry'[m] = entry[n] /\ SameEntries
  BY <1>1, <1>3, <1>4, <1>5, NameFacts DEF TypeOK, SameEntries
<1>7. Gentle /\ inode' \in [Inodes -> Files]
  BY <1>1, <1>5, ReapGentle
<1>8. HoldsAt(entry'[m], inode', run.v, excused')
  BY <1>1, <1>3, <1>4, <1>6, <1>7, Carry DEF MoveCopy, Holds
<1>9. Holds(run.src)'
  BY <1>2, <1>3, <1>8 DEF Holds, Stays
<1> HIDE DEF c
<1>10. c = L2
  BY <1>1, ListSteps DEF c
<1>11. Source'
  BY <1>2, <1>9, <1>10, SourceAt DEF Stays
<1>12. QED
  BY <1>2, <1>6, <1>7, <1>10, <1>11, StepFrame, ListsDiffer DEF MoveCopy

LEMMA VerifyStagedStep ==
  ASSUME IInv, VerifyStaged
  PROVE  IInv'
<1> DEFINE c == Tail(run.todo)
<1>1. TypeOK /\ Shape /\ run.todo # <<>> /\ Linking /\ run.todo = L2 /\ Holds(run.src)
  BY Doing DEF IInv, VerifyStaged, Do, Source
<1>2. c \in Lists /\ Stays(c) /\ run' \in Runs /\ Shape' /\ run.result = "begun"
  BY <1>1, Proceeds DEF VerifyStaged
<1>3. UNCHANGED <<inode, entry, onDisk, excused>>
  BY DEF VerifyStaged, tree
<1>4. Gentle /\ inode' \in [Inodes -> Files] /\ entry' \in [Names -> Inodes \cup {None}] /\ SameEntries
  BY <1>1, <1>3, SameInodesGentle DEF TypeOK, SameEntries
<1>5. Holds(run.src)'
  BY <1>1, <1>2, <1>3 DEF Holds, Stays
<1> HIDE DEF c
<1>6. c = L3
  BY <1>1, ListSteps DEF c
<1>7. Source'
  BY <1>2, <1>5, <1>6, SourceAt DEF Stays
<1>8. QED
  BY <1>2, <1>4, <1>6, <1>7, StepFrame, ListsDiffer DEF VerifyStaged, tree

(* The directories: those of a published file are there already.           *)
LEMMA PathFacts ==
  /\ Path(Index) = {"suite"} /\ Path(Meta) = {"suite"}
  /\ \A v \in Versions : Path(Hash(v)) = {"suite", "hash"}
  /\ \A n \in Published : DirOf(n) \in Path(n) /\ Path(n) \subseteq Dirs /\ Path(n) = {"suite", DirOf(n)}
  BY NameFacts DEF Path, Dirs, DirOf

LEMMA DirsFacts ==
  ASSUME TypeOK, DirsNest
  PROVE  \A n \in Published : entry[n] # None => Path(n) \subseteq dirs
<1> SUFFICES ASSUME NEW n \in Published, entry[n] # None
             PROVE  Path(n) \subseteq dirs
  OBVIOUS
<1>1. DirOf(n) \in dirs
  BY DEF TypeOK
<1>2. DirOf(n) \in {"suite", "hash"}
  BY DEF DirOf
<1>3. QED
  BY <1>1, <1>2, PathFacts DEF DirsNest

LEMMA MkdirAllStep ==
  ASSUME IInv, MkdirAll
  PROVE  IInv'
<1> DEFINE c == Tail(run.todo)
<1>1. TypeOK /\ Shape /\ DirsNest /\ Solid /\ Source /\ InPlace /\ Durable /\ run.todo # <<>>
  BY DEF IInv, MkdirAll, Do
<1>2. c \in Lists /\ Stays(c) /\ run' \in Runs /\ Shape' /\ run.result = "begun"
  BY <1>1, Proceeds DEF MkdirAll
<1>3. \/ (Fetching \/ Linking) /\ run.todo = FileSteps
      \/ Writing /\ run.todo = W3
      \/ Present /\ run.todo = PresentSteps
  BY <1>1, Doing DEF MkdirAll
<1>4. run.call # "none" /\ run.dst \in Published /\ run.v \in Versions /\ Hash(run.v) \in Published
  BY <1>1, <1>2, <1>3, CallNames, NameFacts DEF Fetching, Linking, Writing, Present, Calling
<1>5. /\ UNCHANGED <<inode, entry, onDisk, links, mishaps, excused, inherited>>
      /\ dirs' = dirs \cup Path(run.dst)
      /\ dirsOnDisk' = dirsOnDisk \ (Path(run.dst) \ dirs)
  BY DEF MkdirAll
<1>6. Gentle /\ KeepsData
  BY <1>5, SameInodesGentle, GentleKeepsData
<1>7. TypeOK'
  BY <1>1, <1>2, <1>4, <1>5, PathFacts DEF TypeOK
<1>8. DirsNest' /\ LeftoversHarmless'
  BY <1>1, <1>2, <1>4, <1>5, PathFacts DEF DirsNest, LeftoversHarmless, Stays
<1>9. Solid'
  BY <1>1, <1>5, <1>6, SolidFrame DEF Kept
<1> HIDE DEF c
<1>10. c \in {F1, F2, P1}
  BY <1>3, NextList DEF c, Follows
<1>11. Source'
  <2>1. Path(run'.dst) \subseteq dirs'
    BY <1>2, <1>5 DEF Stays
  <2>2. run'.result = "begun" /\ run'.todo = c
    BY <1>2 DEF Stays
  <2>3. /\ Holds(run.src) => Holds(run.src)'
        /\ Synced(run.src) => Synced(run.src)'
        /\ Public(run.src) => Public(run.src)'
    BY <1>2, <1>5 DEF Holds, Synced, Public, Stays
  <2>4. CASE (Fetching \/ Linking) /\ run.todo = FileSteps
    <3>1. c = F1
      BY <2>4, NextList DEF c, Follows
    <3>2. Holds(run.src) /\ Synced(run.src)
      BY <1>1, <2>4 DEF Source
    <3>3. QED
      BY <2>1, <2>2, <2>3, <3>1, <3>2, SourceAt
  <2>5. CASE Writing /\ run.todo = W3
    <3>1. c = F2
      BY <2>5, NextList DEF c, Follows
    <3>2. Holds(run.src) /\ Synced(run.src) /\ Public(run.src)
      BY <1>1, <2>5 DEF Source
    <3>3. QED
      BY <2>1, <2>2, <2>3, <3>1, <3>2, SourceAt
  <2>6. CASE Present /\ run.todo = PresentSteps
    <3>1. c = P1
      BY <2>6, NextList DEF c, Follows
    <3>2. QED
      BY <2>2, <3>1, SourceAt
  <2>7. QED
    BY <1>3, <2>4, <2>5, <2>6
<1>12. InPlace'
  <2>1. /\ Holds(Index) => Holds(Index)'
        /\ Holds(Meta) => Holds(Meta)'
        /\ Holds(Hash(run.v)) => Holds(Hash(run.v))'
        /\ Holds(run.dst) => Holds(run.dst)'
    BY <1>2, <1>5 DEF Holds, Stays
  <2>2. (Renamed \/ Present)' => Present
    BY <1>2, <1>10, StaysFacts, ListsDiffer DEF Renamed, Stays
  <2>3. QED
    BY <1>1, <1>2, <2>1, <2>2 DEF InPlace, Stays
<1>13. Durable'
  <2>1. CASE inherited
    BY <1>5, <2>1 DEF Durable
  <2>2. CASE ~inherited
    <3>1. \A n \in Published : entry[n] # None => Path(n) \cap (Path(run.dst) \ dirs) = {}
      BY <1>1, DirsFacts
    <3>2. \A n \in Published : Outcomes(n)' \subseteq Outcomes(n)
      BY <1>5, <3>1 DEF Outcomes
    <3>3. Secured'
      BY <1>1, <1>6, <2>2, <3>2, SecuredFrame DEF Durable
    <3>4. \A n \in Published : entry[n] # None /\ OnDisk(n) => OnDisk(n)'
      BY <1>5, <3>1 DEF OnDisk
    <3>5. Holds(Hash(run.v)) /\ OnDisk(Hash(run.v)) => OnDisk(Hash(run.v))'
      <4>1. \A n \in Published : n = Hash(run.v) /\ Holds(n) /\ OnDisk(n) => OnDisk(n)'
        BY <1>1, <3>4, HoldsFacts, NameFacts
      <4>2. QED
        BY <1>2, <1>4, <4>1 DEF OnDisk, Stays
    <3>6. Present /\ Holds(run.dst) /\ OnDisk(run.dst) => OnDisk(run.dst)'
      <4>1. \A n \in Published : n = run.dst /\ Holds(n) /\ OnDisk(n) => OnDisk(n)'
        BY <1>1, <3>4, HoldsFacts, NameFacts
      <4>2. QED
        BY <1>2, <1>4, <4>1 DEF OnDisk, Stays
    <3>7. run'.todo \notin {F3, <<>>} /\ ~Preserving' /\ run'.call # "prune"
      <4>1. run'.todo \notin {F3, <<>>}
        BY <1>2, <1>10, ListsDiffer DEF Stays
      <4>2. ~Preserving'
        BY <1>1, <1>2, <1>3, StaysFacts, CallsDiffer
      <4>3. run'.call # "prune"
        BY <1>2, <1>3 DEF Stays, Fetching, Linking, Writing, Present, Calling
      <4>4. QED
        BY <4>1, <4>2, <4>3
    <3>8. QED
      BY <1>1, <1>2, <2>2, <3>3, <3>5, <3>6, <3>7, StaysFacts DEF Durable, Stays, InPlace
  <2>3. QED
    BY <2>1, <2>2
<1>14. QED
  BY <1>2, <1>7, <1>8, <1>9, <1>11, <1>12, <1>13 DEF IInv

-----------------------------------------------------------------------------
(* The rename, and the sync of its directory. *)

LEMMA RenameStep ==
  ASSUME IInv, Rename
  PROVE  IInv'
<1> DEFINE c == Tail(run.todo)
           i == entry[run.src]
<1>1. TypeOK /\ Shape /\ DirsNest /\ Solid /\ Source /\ InPlace /\ Durable /\ run.todo # <<>>
  BY DEF IInv, Rename, Do
<1>2. c \in Lists /\ Stays(c) /\ run' \in Runs /\ Shape' /\ run.result = "begun"
  BY <1>1, Proceeds DEF Rename
<1>3. (Fetching \/ Linking \/ Writing) /\ run.todo = F2
  BY <1>1, Doing DEF Rename
<1>4. c = F3
  BY <1>3, ListSteps
<1> HIDE DEF c
<1>5. /\ run.call # "none" /\ run.v \in Versions
      /\ run.dst \in Published /\ run.src \in Staging
      /\ Linking => run.dst = Hash(run.v)
      /\ Fetching => run.dst = Index
      /\ Writing => run.dst = Meta
  BY <1>1, <1>2, <1>3, CallNames, NameFacts, LinkingFacts DEF Fetching, Linking, Writing, Calling
<1>6. /\ Holds(run.src) /\ Synced(run.src) /\ Public(run.src) /\ Path(run.dst) \subseteq dirs
  BY <1>1, <1>3 DEF Source
<1>7. /\ run.src \in Names /\ run.dst \in Names /\ run.src # run.dst
      /\ i # None /\ i \in Inodes
  BY <1>1, <1>5, <1>6, NameFacts, HoldsFacts
<1>8. /\ entry' = [entry EXCEPT ![run.dst] = i, ![run.src] = None] /\ onDisk' = onDisk
      /\ inode' = Reap(inode) /\ DirOf(run.dst) \in dirs
      /\ UNCHANGED <<dirs, dirsOnDisk, links, mishaps, excused>>
      /\ inherited' = (inherited \/ ~(Path(run.dst) \subseteq dirsOnDisk))
  BY DEF Rename, Move
<1>9. Gentle /\ KeepsData /\ inode' \in [Inodes -> Files]
  BY <1>1, <1>8, ReapGentle, GentleKeepsData
<1>10. /\ entry' \in [Names -> Inodes \cup {None}] /\ entry'[run.dst] = i
       /\ \A n \in Published : n # run.dst => entry'[n] = entry[n]
  BY <1>1, <1>5, <1>7, <1>8, NameFacts DEF TypeOK
<1>11. /\ HoldsAt(i, inode', run.v, excused') /\ inode'[i].public /\ "data" \in inode'[i].safe
  BY <1>6, <1>7, <1>8, <1>9, <1>10, Carry DEF Holds, Public, Synced
<1> HIDE DEF i
<1>12. /\ Holds(run.dst)' /\ Public(run.dst)'
  BY <1>2, <1>10, <1>11 DEF Holds, Public, Stays
<1>13. inode'[i].data \in {Whole(run.v), Damaged}
  BY <1>11 DEF HoldsAt
<1>14. TypeOK'
  BY <1>1, <1>2, <1>8, <1>9, <1>10 DEF TypeOK
<1>15. DirsNest' /\ LeftoversHarmless'
  BY <1>1, <1>2, <1>8 DEF DirsNest, LeftoversHarmless, Stays
<1>16. \A n \in Published :
         /\ n # run.dst => Kept(n)' = Kept(n) /\ Outcomes(n)' = Outcomes(n)
         /\ n = run.dst => Kept(n)' \subseteq Kept(n) \cup {i} /\ Outcomes(n)' \subseteq Outcomes(n) \cup {i}
  BY <1>8, <1>10 DEF Kept, Outcomes
<1>17. Solid'
  <2>1. \A v \in Versions : run.dst = Hash(v) => v = run.v
    BY <1>3, <1>5, NameFacts
  <2>2. inode'[i].data # <<Torn, 0>> /\ "data" \in inode'[i].safe
        /\ \A v \in Versions : run.dst = Hash(v) => inode'[i].data \in {Whole(v), Damaged}
    BY <1>5, <1>11, <1>13, <2>1, DataFacts
  <2>3. QED
    BY <1>1, <1>9, <1>16, <2>2, SolidFrame
<1>18. Source'
  BY <1>2, <1>4, <1>6, <1>8, <1>12, SourceAt DEF Stays
<1>19. InPlace'
  <2>1. \A n \in Published : n # run.dst /\ Holds(n) => Holds(n)'
    <3>1. \A n \in Published : n # run.dst /\ Holds(n) => HoldsAt(entry'[n], inode', run.v, excused')
      BY <1>1, <1>8, <1>9, <1>10, Carry, HoldsFacts, NameFacts DEF Holds
    <3>2. QED
      BY <1>2, <3>1 DEF Holds, Stays
  <2>2. Holds(Index) => Holds(Index)'
    BY <1>2, <1>12, <2>1, NameFacts DEF Holds, Stays
  <2>3. Holds(Hash(run.v)) => Holds(Hash(run.v))'
    <3>1. Hash(run.v) \in Published
      BY <1>5, NameFacts
    <3>2. \A n \in Published : n = Hash(run.v) /\ Holds(n) => Holds(n)'
      BY <1>2, <1>12, <2>1 DEF Holds, Stays
    <3>3. QED
      BY <1>2, <3>1, <3>2 DEF Holds, Stays
  <2>4. run.call # "prune"
    BY <1>3 DEF Fetching, Linking, Writing, Calling
  <2>5. QED
    BY <1>1, <1>2, <1>12, <2>2, <2>3, <2>4 DEF InPlace, Stays
<1>20. Durable'
  <2>1. CASE inherited'
    BY <2>1 DEF Durable
  <2>2. CASE ~inherited'
    <3>1. ~inherited /\ Path(run.dst) \subseteq dirsOnDisk' /\ Secured
      BY <1>1, <1>8, <2>2 DEF Durable
    <3>2. \A v \in ByHash : Writing /\ v = run.v =>
            Outcomes(Hash(v))' = {entry[Hash(v)]} /\ Holds(Hash(v)) /\ OnDisk(Hash(v))'
      <4> SUFFICES ASSUME NEW v \in ByHash, Writing, v = run.v
                   PROVE  Outcomes(Hash(v))' = {entry[Hash(v)]} /\ Holds(Hash(v)) /\ OnDisk(Hash(v))'
        OBVIOUS
      <4>1. run.call = "meta" /\ Hash(v) \in Published /\ Hash(v) # run.dst
        BY <1>5, NameFacts DEF Writing, Calling
      <4>2. Holds(Hash(v)) /\ OnDisk(Hash(v))
        BY <1>1, <3>1, <4>1 DEF InPlace, Durable
      <4>3. QED
        BY <1>2, <1>8, <1>10, <4>1, <4>2 DEF OnDisk, Outcomes
    <3>3. Secured'
      <4> SUFFICES ASSUME NEW m \in Outcomes(Meta)' \ {None}, NEW v \in ByHash,
                          inode'[m].data = Whole(v), NEW h \in Outcomes(Hash(v))'
                   PROVE  h # None /\ inode'[h].data \in {Whole(v), Damaged}
        BY DEF Secured
      <4>1. v \in Versions /\ Hash(v) \in Published /\ Meta \in Published /\ Meta # Hash(v)
        BY TreeAssumption, NameFacts DEF TreeAssumption
      <4>2. CASE m \in Outcomes(Meta) /\ h \in Outcomes(Hash(v))
        BY <1>1, <1>9, <3>1, <4>2, SecuredPair
      <4>3. CASE h \notin Outcomes(Hash(v))
        <5>1. h = i /\ run.dst = Hash(v)
          BY <1>16, <4>1, <4>3
        <5>2. v = run.v
          BY <1>3, <1>5, <4>1, <5>1, NameFacts
        <5>3. QED
          BY <1>7, <1>13, <5>1, <5>2 DEF i
      <4>4. CASE m \notin Outcomes(Meta)
        <5>1. m = i /\ run.dst = Meta
          BY <1>16, <4>1, <4>4
        <5>2. v = run.v
          BY <1>5, <1>13, <4>1, <5>1, DataFacts
        <5>3. Writing
          BY <1>3, <1>5, <5>1, NameFacts
        <5>4. h = entry[Hash(v)] /\ Holds(Hash(v))
          BY <3>2, <5>2, <5>3
        <5>5. HoldsAt(entry'[Hash(v)], inode', run.v, excused') /\ entry'[Hash(v)] = entry[Hash(v)]
          BY <1>1, <1>8, <1>9, <1>10, <4>1, <5>1, <5>4, Carry, HoldsFacts, NameFacts DEF Holds
        <5>6. QED
          BY <5>2, <5>4, <5>5 DEF HoldsAt
      <4>5. QED
        BY <4>2, <4>3, <4>4
    <3>4. /\ ~Present' /\ ~Preserving' /\ run'.call # "prune" /\ run'.todo # <<>>
          /\ run'.call = "meta" => Writing
      BY <1>1, <1>2, <1>3, <1>4, ListsDiffer, StaysFacts, CallsDiffer
         DEF Stays, Fetching, Linking, Writing, Calling
    <3>5. Path(run'.dst) \subseteq dirsOnDisk'
      BY <1>2, <3>1 DEF Stays
    <3>6. run'.call = "meta" /\ run'.v \in ByHash => OnDisk(Hash(run.v))'
      BY <1>2, <3>2, <3>4 DEF Stays, OnDisk
    <3>7. QED
      BY <3>3, <3>4, <3>5, <3>6 DEF Durable
  <2>3. QED
    BY <2>1, <2>2
<1>21. QED
  BY <1>2, <1>14, <1>15, <1>17, <1>18, <1>19, <1>20 DEF IInv

LEMMA SyncDirStep ==
  ASSUME IInv, SyncDir
  PROVE  IInv'
<1> DEFINE c == Tail(run.todo)
<1>1. TypeOK /\ Shape /\ DirsNest /\ Solid /\ Source /\ InPlace /\ Durable /\ run.todo # <<>>
  BY DEF IInv, SyncDir, Do
<1>2. c \in Lists /\ Stays(c) /\ run' \in Runs /\ Shape' /\ run.result = "begun"
  BY <1>1, Proceeds DEF SyncDir
<1>3. (Fetching \/ Linking \/ Writing) /\ run.todo = F3
  BY <1>1, Doing DEF SyncDir
<1>4. c = <<>>
  BY <1>3, ListSteps
<1> HIDE DEF c
<1>5. /\ run.call # "none" /\ run.v \in Versions /\ run.dst \in Published
      /\ run.dst \in Names /\ run.src # Index /\ Hash(run.v) \in Published
  BY <1>1, <1>2, <1>3, CallNames, NameFacts, LinkingFacts DEF Fetching, Linking, Writing, Calling
<1>6. /\ onDisk' = [n \in Published |-> IF DirOf(n) = DirOf(run.dst) THEN entry[n] ELSE onDisk[n]]
      /\ entry' = entry /\ inode' = Reap(inode)
      /\ UNCHANGED <<dirs, dirsOnDisk, links, mishaps, excused, inherited>>
  BY DEF SyncDir
<1>7. Gentle /\ KeepsData /\ inode' \in [Inodes -> Files]
  BY <1>1, <1>6, ReapGentle, GentleKeepsData
<1>8. \A n \in Published : Holds(n) => Holds(n)'
  <2>1. \A n \in Published : Holds(n) => HoldsAt(entry'[n], inode', run.v, excused')
    BY <1>1, <1>6, <1>7, Carry, HoldsFacts, NameFacts DEF Holds
  <2>2. QED
    BY <1>2, <2>1 DEF Holds, Stays
<1>9. TypeOK'
  <2>1. onDisk' \in [Published -> Inodes \cup {None}]
    BY <1>1, <1>6, NameFacts DEF TypeOK
  <2>2. QED
    BY <1>1, <1>2, <1>6, <1>7, <2>1 DEF TypeOK
<1>10. DirsNest' /\ LeftoversHarmless'
  BY <1>1, <1>2, <1>6 DEF DirsNest, LeftoversHarmless, Stays
<1>11. \A n \in Published :
         /\ Kept(n)' \subseteq Kept(n) /\ Outcomes(n)' \subseteq Outcomes(n)
         /\ OnDisk(n) => OnDisk(n)'
         /\ n = run.dst => onDisk'[n] = entry'[n]
  BY <1>6 DEF Kept, Outcomes, OnDisk
<1>12. Solid'
  BY <1>1, <1>7, <1>11, SolidFrame
<1>13. Renamed /\ Holds(run.dst) /\ Public(run.dst)
  BY <1>1, <1>2, <1>3, <1>5 DEF Renamed, InPlace, Source
<1>14. Holds(run.dst)' /\ Public(run.dst)'
  BY <1>1, <1>2, <1>6, <1>7, <1>13, CarryCall
<1>15. Source'
  BY <1>2, <1>4, <1>14, SourceAt DEF Stays
<1>16. InPlace'
  <2>1. Holds(Index) => Holds(Index)'
    BY <1>8, NameFacts
  <2>2. Holds(Hash(run.v)) => Holds(Hash(run.v))'
    <3>1. \A n \in Published : n = Hash(run.v) /\ Holds(n) => Holds(n)'
      BY <1>8
    <3>2. QED
      BY <1>2, <1>5, <3>1 DEF Holds, Stays
  <2>3. run.call # "prune"
    BY <1>3 DEF Fetching, Linking, Writing, Calling
  <2>4. QED
    BY <1>1, <1>2, <1>14, <2>1, <2>2, <2>3 DEF InPlace, Stays
<1>17. Durable'
  <2>1. CASE inherited
    BY <1>6, <2>1 DEF Durable
  <2>2. CASE ~inherited
    <3>1. Secured'
      BY <1>1, <1>7, <1>11, <2>2, SecuredFrame DEF Durable
    <3>2. Linking \/ Writing => OnDisk(run.dst)'
      BY <1>1, <1>2, <1>3, <1>5, <1>6, <1>11, <2>2 DEF Durable, OnDisk, Stays
    <3>3. OnDisk(Hash(run.v)) => OnDisk(Hash(run.v))'
      <4>1. \A n \in Published : n = Hash(run.v) /\ OnDisk(n) => OnDisk(n)'
        BY <1>11
      <4>2. QED
        BY <1>2, <1>5, <4>1 DEF OnDisk, Stays
    <3>4. ~Present' /\ ~Preserving' /\ run'.call # "prune" /\ run'.todo # F3
      BY <1>1, <1>2, <1>3, <1>4, ListsDiffer, StaysFacts, CallsDiffer
         DEF Stays, Fetching, Linking, Writing, Calling
    <3>5. QED
      BY <1>1, <1>2, <2>2, <3>1, <3>2, <3>3, <3>4, StaysFacts DEF Durable, Stays
  <2>3. QED
    BY <2>1, <2>2
<1>18. QED
  BY <1>2, <1>9, <1>10, <1>12, <1>15, <1>16, <1>17 DEF IInv

-----------------------------------------------------------------------------
(* The start of a call. *)

LEMMA StartFrame ==
  ASSUME IInv, run.call \in {"index", "hash", "meta"}, run.result = "none",
         run' \in Runs, run'.call = run.call, run'.v = run.v, run'.result = "begun", Shape',
         Gentle, inode' \in [Inodes -> Files], entry' \in [Names -> Inodes \cup {None}],
         SameEntries, UNCHANGED <<dirs, dirsOnDisk, links, mishaps, excused>>,
         inherited' \in BOOLEAN, inherited => inherited',
         Source',
         (Renamed \/ Present)' => Holds(run.dst)',
         ~inherited' /\ (Present \/ Preserving)' => OnDisk(run.dst)',
         run'.todo \in {F3, <<>>} => ~Linking' /\ ~Writing'
  PROVE  IInv'
<1>1. TypeOK'
  BY DEF IInv, TypeOK, SameEntries
<1>2. DirsNest' /\ LeftoversHarmless'
  BY DEF IInv, DirsNest, LeftoversHarmless
<1>3. Solid'
  BY SameKept, SolidFrame, GentleKeepsData DEF IInv
<1>4. Hash(run.v) \in Published /\ Index \in Published
  BY CallNames, NameFacts DEF IInv
<1>5. InPlace'
  <2>1. Holds(Index) => Holds(Index)'
    BY <1>4, SameHolds
  <2>2. Holds(Hash(run.v)) => Holds(Hash(run.v))'
    <3>1. \A n \in Published : n = Hash(run.v) => (Holds(n) => Holds(n)')
      BY SameHolds
    <3>2. QED
      BY <1>4, <3>1 DEF Holds
  <2>3. QED
    BY <2>1, <2>2 DEF IInv, InPlace
<1>6. Durable'
  <2>1. CASE inherited'
    BY <2>1 DEF Durable
  <2>2. CASE ~inherited'
    <3>1. ~inherited /\ Durable /\ Solid
      BY <2>2 DEF IInv
    <3>2. Secured'
      BY <3>1, SameKept, SecuredFrame, GentleKeepsData DEF Durable
    <3>3. OnDisk(Hash(run.v)) => OnDisk(Hash(run.v))'
      <4>1. \A n \in Published : n = Hash(run.v) /\ OnDisk(n) => OnDisk(n)'
        BY SameKept
      <4>2. QED
        BY <1>4, <4>1 DEF OnDisk
    <3>4. QED
      BY <2>2, <3>1, <3>2, <3>3 DEF Durable
  <2>3. QED
    BY <2>1, <2>2
<1>7. QED
  BY <1>1, <1>2, <1>3, <1>5, <1>6 DEF IInv

LEMMA StartFacts ==
  ASSUME TypeOK, Shape, NEW c \in {"index", "hash", "meta"}, AtCall(c),
         NEW src \in Names, NEW dst \in Names, NEW steps \in Lists, Start(src, dst, steps),
         LET calling(a, x, y, L) == c = a /\ src = x /\ dst = y /\ steps \in L
         IN  \/ calling("index", Index, Index, {<<>>})
             \/ calling("index", Fetched, Index, {FileSteps})
             \/ calling("hash", Hash(run.v), Hash(run.v), {PresentSteps})
             \/ calling("hash", Staged(run.v), Hash(run.v), {LinkSteps})
             \/ calling("meta", Meta, Meta, {<<>>})
             \/ calling("meta", Tmp, Meta, {WriteSteps})
  PROVE  /\ run.call \in {"index", "hash", "meta"} /\ run.result = "none" /\ run.call # "none"
         /\ run.v \in Versions
         /\ run' \in Runs /\ run'.call = run.call /\ run'.v = run.v /\ run'.result = "begun"
         /\ run'.src = src /\ run'.dst = dst /\ run'.todo = steps
         /\ Shape'
<1>1. run' \in Runs /\ run'.call = run.call /\ run'.v = run.v /\ run'.result = "begun"
      /\ run'.src = src /\ run'.dst = dst /\ run'.todo = steps
  BY ListTypes DEF TypeOK, Runs, Start
<1>2. run.call = c /\ run.result = "none" /\ run.call # "none" /\ run.v \in Versions
  BY DEF AtCall, Shape
<1>3. Shape'
  BY <1>1, <1>2 DEF Shape, Reusing, Fetching, Present, Linking, Preserving, Writing, Calling
<1>4. QED
  BY <1>1, <1>2, <1>3

LEMMA HasHolds ==
  ASSUME NEW n, Has(n, run.v)
  PROVE  Holds(n) /\ entry[n] # None
  BY DEF Has, Holds, HoldsAt

LEMMA ReuseIndexStep ==
  ASSUME IInv, ReuseIndex
  PROVE  IInv'
<1>1. TypeOK /\ Shape /\ AtCall("index") /\ Index \in Names /\ <<>> \in Lists
  BY NameFacts DEF IInv, ReuseIndex, Lists
<1>2. /\ run.call \in {"index", "hash", "meta"} /\ run.result = "none"
      /\ run' \in Runs /\ run'.call = run.call /\ run'.v = run.v /\ run'.result = "begun"
      /\ run'.src = Index /\ run'.dst = Index /\ run'.todo = <<>> /\ Shape'
  BY <1>1, StartFacts DEF ReuseIndex
<1>3. UNCHANGED <<inode, entry, onDisk, dirs, dirsOnDisk, links, mishaps, excused>>
  BY DEF ReuseIndex, tree
<1>4. Gentle /\ inode' \in [Inodes -> Files] /\ entry' \in [Names -> Inodes \cup {None}] /\ SameEntries
  BY <1>1, <1>3, SameInodesGentle DEF TypeOK, SameEntries
<1>5. Source'
  BY <1>2, SourceAt
<1>6. Holds(run.dst)'
  BY <1>2, <1>3, HasHolds DEF ReuseIndex, Holds
<1>7. ~Present' /\ ~Preserving' /\ ~Linking' /\ ~Writing'
  BY <1>1, <1>2 DEF AtCall, Present, Preserving, Linking, Writing, Calling
<1>8. inherited' \in BOOLEAN /\ (inherited => inherited')
  BY DEF ReuseIndex, Rely
<1>9. QED
  BY <1>2, <1>3, <1>4, <1>5, <1>6, <1>7, <1>8, StartFrame

LEMMA FetchIndexStep ==
  ASSUME IInv, FetchIndex
  PROVE  IInv'
<1> DEFINE file == [data |-> Whole(run.v), public |-> FALSE, safe |-> {"data", "mode"}]
<1>1. TypeOK /\ Shape /\ AtCall("index") /\ Index \in Names /\ Fetched \in Names /\ FileSteps \in Lists
  BY NameFacts DEF IInv, FetchIndex, Lists
<1>2. /\ run.call \in {"index", "hash", "meta"} /\ run.result = "none" /\ run.v \in Versions
      /\ run' \in Runs /\ run'.call = run.call /\ run'.v = run.v /\ run'.result = "begun"
      /\ run'.src = Fetched /\ run'.dst = Index /\ run'.todo = FileSteps /\ Shape'
  BY <1>1, StartFacts DEF FetchIndex
<1>3. file \in Files
  BY <1>2, DataFacts DEF Files
<1>4. /\ Gentle /\ inode' \in [Inodes -> Files] /\ entry' \in [Names -> Inodes \cup {None}]
      /\ entry'[Fetched] \in Inodes /\ inode'[entry'[Fetched]] = file
      /\ \A m \in Names \ {Fetched} : entry'[m] = entry[m]
      /\ onDisk' = onDisk
  BY <1>1, <1>3, CreateGentle DEF FetchIndex
<1>5. SameEntries
  BY <1>4, NameFacts DEF SameEntries
<1>6. Holds(run.src)' /\ Synced(run.src)'
  BY <1>2, <1>4, InodeFacts DEF Holds, HoldsAt, Synced
<1>7. Source'
  BY <1>2, <1>6, SourceAt
<1>8. ~Present' /\ ~Preserving' /\ run'.todo \notin {F3, <<>>} /\ ~Renamed'
  BY <1>1, <1>2, ListsDiffer DEF AtCall, Present, Preserving, Renamed, Calling
<1>9. QED
  BY <1>2, <1>4, <1>5, <1>7, <1>8, StartFrame DEF FetchIndex, IInv, TypeOK

LEMMA HashPresentStep ==
  ASSUME IInv, HashPresent
  PROVE  IInv'
<1>1. TypeOK /\ Shape /\ AtCall("hash") /\ Hash(run.v) \in Names /\ PresentSteps \in Lists
  BY CallNames, NameFacts DEF IInv, HashPresent, Lists, AtCall
<1>2. /\ run.call \in {"index", "hash", "meta"} /\ run.result = "none"
      /\ run' \in Runs /\ run'.call = run.call /\ run'.v = run.v /\ run'.result = "begun"
      /\ run'.src = Hash(run.v) /\ run'.dst = Hash(run.v) /\ run'.todo = PresentSteps /\ Shape'
  BY <1>1, StartFacts DEF HashPresent
<1>3. UNCHANGED <<inode, entry, onDisk, dirs, dirsOnDisk, links, mishaps, excused>>
  BY DEF HashPresent, tree
<1>4. Gentle /\ inode' \in [Inodes -> Files] /\ entry' \in [Names -> Inodes \cup {None}] /\ SameEntries
  BY <1>1, <1>3, SameInodesGentle DEF TypeOK, SameEntries
<1>5. Source'
  BY <1>2, SourceAt
<1>6. Holds(run.dst)'
  <2>1. Holds(Hash(run.v))
    BY HasHolds DEF HashPresent
  <2>2. QED
    BY <1>2, <1>3, <2>1 DEF Holds
<1>7. run'.todo \notin {F3, <<>>}
  BY <1>2, ListsDiffer
<1>8. inherited' \in BOOLEAN /\ (inherited => inherited') /\ (~inherited' => OnDisk(run.dst)')
  BY <1>2, <1>3 DEF HashPresent, Rely, OnDisk
<1>9. QED
  BY <1>2, <1>3, <1>4, <1>5, <1>6, <1>7, <1>8, StartFrame

LEMMA MakeHashStep ==
  ASSUME IInv, MakeHash
  PROVE  IInv'
<1>1. /\ TypeOK /\ Shape /\ AtCall("hash") /\ Hash(run.v) \in Names /\ Staged(run.v) \in Names
      /\ LinkSteps \in Lists
  BY CallNames, NameFacts DEF IInv, MakeHash, Lists, AtCall, Shape
<1>2. /\ run.call \in {"index", "hash", "meta"} /\ run.result = "none" /\ run.v \in Versions
      /\ run' \in Runs /\ run'.call = run.call /\ run'.v = run.v /\ run'.result = "begun"
      /\ run'.src = Staged(run.v) /\ run'.dst = Hash(run.v) /\ run'.todo = LinkSteps /\ Shape'
  BY <1>1, StartFacts DEF MakeHash
<1>3. UNCHANGED <<inode, entry, onDisk, dirs, dirsOnDisk, links, mishaps, excused, inherited>>
  BY DEF MakeHash, tree
<1>4. Gentle /\ inode' \in [Inodes -> Files] /\ entry' \in [Names -> Inodes \cup {None}] /\ SameEntries
  BY <1>1, <1>3, SameInodesGentle DEF TypeOK, SameEntries
<1>5. Source'
  BY <1>2, SourceAt
<1>6. run'.todo \notin {F3, <<>>}
  BY <1>2, ListsDiffer
<1>7. ~Present' /\ ~Preserving' /\ ~Renamed'
  BY <1>1, <1>2, <1>6, NameFacts DEF AtCall, Present, Preserving, Renamed, Calling
<1>8. QED
  BY <1>2, <1>3, <1>4, <1>5, <1>6, <1>7, StartFrame DEF IInv, TypeOK

LEMMA PreserveMetaStep ==
  ASSUME IInv, PreserveMeta
  PROVE  IInv'
<1>1. TypeOK /\ Shape /\ AtCall("meta") /\ Meta \in Names /\ <<>> \in Lists
  BY NameFacts DEF IInv, PreserveMeta, Lists
<1>2. /\ run.call \in {"index", "hash", "meta"} /\ run.result = "none"
      /\ run' \in Runs /\ run'.call = run.call /\ run'.v = run.v /\ run'.result = "begun"
      /\ run'.src = Meta /\ run'.dst = Meta /\ run'.todo = <<>> /\ Shape'
  BY <1>1, StartFacts DEF PreserveMeta
<1>3. UNCHANGED <<entry, onDisk, dirs, dirsOnDisk, links, mishaps, excused>>
  BY DEF PreserveMeta
<1>4. Holds(Meta) /\ entry[Meta] \in Inodes
  BY <1>1, HasHolds, HoldsFacts DEF PreserveMeta
<1>5. Gentle /\ inode' \in [Inodes -> Files] /\ inode'[entry[Meta]].public
  BY <1>1, <1>4, SetModeGentle DEF PreserveMeta
<1>6. entry' \in [Names -> Inodes \cup {None}] /\ SameEntries
  BY <1>1, <1>3 DEF TypeOK, SameEntries
<1>7. Holds(run.dst)' /\ Public(run.dst)'
  <2>1. HoldsAt(entry'[Meta], inode', run.v, excused')
    BY <1>1, <1>3, <1>4, <1>5, Carry, HoldsFacts DEF Holds
  <2>2. QED
    BY <1>2, <1>3, <1>5, <2>1 DEF Holds, Public
<1>8. Source'
  BY <1>2, <1>7, SourceAt
<1>9. ~Linking' /\ ~Writing'
  BY <1>1, <1>2, NameFacts DEF AtCall, Linking, Writing, Calling
<1>10. inherited' \in BOOLEAN /\ (inherited => inherited') /\ (~inherited' => OnDisk(run.dst)')
  BY <1>2, <1>3 DEF PreserveMeta, Rely, OnDisk
<1>11. QED
  BY <1>2, <1>3, <1>5, <1>6, <1>7, <1>8, <1>9, <1>10, StartFrame

LEMMA WriteMetaStep ==
  ASSUME IInv, WriteMeta
  PROVE  IInv'
<1>1. TypeOK /\ Shape /\ AtCall("meta") /\ Meta \in Names /\ Tmp \in Names /\ WriteSteps \in Lists
  BY NameFacts DEF IInv, WriteMeta, Lists
<1>2. /\ run.call \in {"index", "hash", "meta"} /\ run.result = "none"
      /\ run' \in Runs /\ run'.call = run.call /\ run'.v = run.v /\ run'.result = "begun"
      /\ run'.src = Tmp /\ run'.dst = Meta /\ run'.todo = WriteSteps /\ Shape'
  BY <1>1, StartFacts DEF WriteMeta
<1>3. UNCHANGED <<inode, entry, onDisk, dirs, dirsOnDisk, links, mishaps, excused, inherited>>
  BY DEF WriteMeta, tree
<1>4. Gentle /\ inode' \in [Inodes -> Files] /\ entry' \in [Names -> Inodes \cup {None}] /\ SameEntries
  BY <1>1, <1>3, SameInodesGentle DEF TypeOK, SameEntries
<1>5. Source'
  BY <1>2, SourceAt
<1>6. run'.todo \notin {F3, <<>>}
  BY <1>2, ListsDiffer
<1>7. ~Present' /\ ~Preserving' /\ ~Renamed'
  BY <1>1, <1>2, <1>6, NameFacts DEF AtCall, Present, Preserving, Renamed, Calling
<1>8. QED
  BY <1>2, <1>3, <1>4, <1>5, <1>6, <1>7, StartFrame DEF IInv, TypeOK

-----------------------------------------------------------------------------
(* Between the calls. *)

LEMMA Quiet ==
  ASSUME run'.todo = <<>>, run'.result # "begun"
  PROVE  Source' /\ ~Renamed' /\ ~Present' /\ ~Linking' /\ ~Writing' /\ ~Preserving'
  BY ListsDiffer DEF Source, Renamed, Present, Linking, Writing, Preserving, Calling

LEMMA IdleFacts ==
  /\ Idle \in Runs
  /\ \A v \in Versions, c \in {"none", "index", "hash", "meta", "prune"} :
       [Idle EXCEPT !.call = c, !.v = v] \in Runs
  /\ \A r \in {"ok", "err"} : [Idle EXCEPT !.result = r] \in Runs
<1>1. Tmp \in Names /\ Meta \in Names /\ <<>> \in Seq(Steps)
  BY NameFacts
<1>2. QED
  BY <1>1 DEF Idle, Runs

LEMMA BeginSyncStep ==
  ASSUME IInv, NEW v \in Versions, BeginSync(v)
  PROVE  IInv'
<1>1. /\ TypeOK /\ DirsNest /\ Solid /\ Durable
      /\ run' = [Idle EXCEPT !.call = "index", !.v = v] /\ run' \in Runs
      /\ UNCHANGED <<inode, entry, onDisk, dirs, dirsOnDisk, links, mishaps, inherited>> /\ excused' = FALSE
  BY IdleFacts DEF IInv, BeginSync, tree
<1>2. run'.call = "index" /\ run'.v = v /\ run'.todo = <<>> /\ run'.result = "none"
  BY <1>1 DEF Idle
<1>3. Gentle /\ KeepsData /\ SameEntries
  BY <1>1, SameInodesGentle, GentleKeepsData DEF SameEntries
<1>4. TypeOK'
  BY <1>1 DEF TypeOK
<1>5. Shape' /\ DirsNest' /\ LeftoversHarmless'
  BY <1>1, <1>2 DEF Shape, DirsNest, LeftoversHarmless
<1>6. Solid'
  BY <1>1, <1>3, SameKept, SolidFrame
<1>7. Source' /\ InPlace'
  BY <1>2, Quiet DEF InPlace
<1>8. Durable'
  <2>1. CASE inherited
    BY <1>1, <2>1 DEF Durable
  <2>2. CASE ~inherited
    <3>1. Secured'
      BY <1>1, <1>3, <2>2, SameKept, SecuredFrame DEF Durable
    <3>2. QED
      BY <1>2, <3>1, Quiet DEF Durable
  <2>3. QED
    BY <2>1, <2>2
<1>9. QED
  BY <1>4, <1>5, <1>6, <1>7, <1>8 DEF IInv

LEMMA CallReturnsStep ==
  ASSUME IInv, CallReturns
  PROVE  IInv'
<1> DEFINE c == NextCall(run.call, run.v)
<1>1. /\ TypeOK /\ Shape /\ DirsNest /\ Solid /\ InPlace /\ Durable
      /\ run.result = "begun" /\ run.todo = <<>>
      /\ run' = [Idle EXCEPT !.call = c, !.v = run.v]
      /\ UNCHANGED <<inode, entry, onDisk, dirs, dirsOnDisk, links, mishaps, excused, inherited>>
  BY DEF IInv, CallReturns, tree, Done
<1>2. /\ run.call \in {"index", "hash", "meta"} /\ run.call # "none" /\ run.v \in Versions
      /\ run.call = "hash" => (Present \/ Linking) /\ run.dst = Hash(run.v) /\ run.v \in ByHash
      /\ run.call = "index" => run.dst = Index
      /\ run.call = "meta" => (Preserving \/ Writing) /\ run.dst = Meta
  BY <1>1 DEF Shape, Reusing, Fetching, Present, Linking, Preserving, Writing, Calling
<1>3. /\ run.call = "index" => c = IF run.v \in ByHash THEN "hash" ELSE "meta"
      /\ run.call = "hash" => c = "meta"
      /\ run.call = "meta" => c = "prune"
  BY DEF NextCall
<1>4. c \in {"hash", "meta", "prune"}
  BY <1>2, <1>3
<1> HIDE DEF c
<1>5. run' \in Runs /\ run'.call = c /\ run'.v = run.v /\ run'.todo = <<>> /\ run'.result = "none"
  <2>1. run' \in Runs
    BY <1>1, <1>2, <1>4, IdleFacts
  <2>2. QED
    BY <1>1, <2>1 DEF Idle
<1>6. Gentle /\ KeepsData /\ SameEntries
  BY <1>1, SameInodesGentle, GentleKeepsData DEF SameEntries
<1>7. TypeOK'
  BY <1>1, <1>5 DEF TypeOK
<1>8. Shape' /\ DirsNest' /\ LeftoversHarmless'
  BY <1>1, <1>2, <1>3, <1>5 DEF Shape, DirsNest, LeftoversHarmless
<1>9. Solid'
  BY <1>1, <1>6, SameKept, SolidFrame
<1>10. Holds(run.dst)
  BY <1>1 DEF InPlace, Renamed
<1>11. InPlace'
  <2>1. /\ Holds(Index) => Holds(Index)'
        /\ Holds(Hash(run.v)) => Holds(Hash(run.v))'
        /\ Holds(Meta) => Holds(Meta)'
    BY <1>1, <1>5 DEF Holds
  <2>2. Holds(Index) /\ (run.call = "hash" => Holds(Hash(run.v))) /\ (run.call = "meta" => Holds(Meta))
    BY <1>1, <1>2, <1>10 DEF InPlace
  <2>3. Source' /\ ~Renamed' /\ ~Present'
    BY <1>5, Quiet
  <2>4. QED
    BY <1>1, <1>2, <1>3, <1>5, <2>1, <2>2, <2>3 DEF InPlace
<1>12. Source'
  BY <1>5, Quiet
<1>13. Durable'
  <2>1. CASE inherited
    BY <1>1, <2>1 DEF Durable
  <2>2. CASE ~inherited
    <3>1. Secured'
      BY <1>1, <1>6, <2>2, SameKept, SecuredFrame DEF Durable
    <3>2. /\ run.call = "hash" => OnDisk(Hash(run.v))
          /\ run.call = "meta" => OnDisk(Meta)
      BY <1>1, <1>2, <2>2 DEF Durable
    <3>3. /\ OnDisk(Hash(run.v)) => OnDisk(Hash(run.v))'
          /\ OnDisk(Meta) => OnDisk(Meta)'
      BY <1>1, <1>5 DEF OnDisk
    <3>4. ~Present' /\ ~Linking' /\ ~Writing' /\ ~Preserving'
      BY <1>5, Quiet
    <3>5. QED
      BY <1>1, <1>2, <1>3, <1>5, <2>2, <3>1, <3>2, <3>3, <3>4 DEF Durable
  <2>3. QED
    BY <2>1, <2>2
<1>14. QED
  BY <1>7, <1>8, <1>9, <1>11, <1>12, <1>13 DEF IInv

(* A call that ends early leaves the published entries as they are.        *)
LEMMA EndFrame ==
  ASSUME IInv, NEW S \in SUBSET Staging, Unlink(S),
         run' = Idle \/ run' = [Idle EXCEPT !.result = "err"],
         UNCHANGED <<dirs, dirsOnDisk, links, inherited>>,
         mishaps' \in 0..MaxMishaps, excused' \in BOOLEAN,
         run'.result = "err" => excused'
  PROVE  IInv'
<1>1. TypeOK /\ DirsNest /\ Solid /\ Durable
  BY DEF IInv
<1>2. /\ Gentle /\ inode' \in [Inodes -> Files] /\ entry' \in [Names -> Inodes \cup {None}]
      /\ SameEntries
  BY <1>1, UnlinkFacts
<1>3. run' \in Runs /\ run'.call = "none" /\ run'.todo = <<>> /\ run'.result \in {"none", "err"}
  <2>1. CASE run' = Idle
    BY <2>1, IdleFacts DEF Idle
  <2>2. CASE run' = [Idle EXCEPT !.result = "err"]
    <3>1. run' \in Runs
      BY <2>2, IdleFacts
    <3>2. QED
      BY <2>2, <3>1 DEF Idle
  <2>3. QED
    BY <2>1, <2>2
<1>4. TypeOK'
  BY <1>1, <1>2, <1>3 DEF TypeOK, SameEntries
<1>5. Shape' /\ DirsNest' /\ LeftoversHarmless'
  BY <1>1, <1>3 DEF Shape, DirsNest, LeftoversHarmless
<1>6. Solid'
  BY <1>1, <1>2, SameKept, SolidFrame, GentleKeepsData
<1>7. Source' /\ InPlace'
  BY <1>3, Quiet DEF InPlace
<1>8. Durable'
  <2>1. CASE inherited
    BY <2>1 DEF Durable
  <2>2. CASE ~inherited
    <3>1. Secured'
      BY <1>1, <1>2, <2>2, SameKept, SecuredFrame, GentleKeepsData DEF Durable
    <3>2. QED
      BY <1>3, <3>1, Quiet DEF Durable
  <2>3. QED
    BY <2>1, <2>2
<1>9. QED
  BY <1>4, <1>5, <1>6, <1>7, <1>8 DEF IInv

LEMMA CleanupFacts ==
  ASSUME TypeOK, Shape, run.call # "none", Cleanup
  PROVE  \E S \in SUBSET Staging : Unlink(S)
<1>1. run.v \in Versions
  BY CallNames
<1>2. {Fetched, Tmp, Staged(run.v), Partial(run.v)} \subseteq Staging
  BY <1>1, NameFacts
<1>3. CASE run.call = "hash" /\ run.src = Staged(run.v) /\ ~Do("clean")
  <2>1. {Fetched, Tmp} \cup {Staged(run.v), Partial(run.v)} \subseteq Staging
    BY <1>2
  <2>2. Unlink({Fetched, Tmp} \cup {Staged(run.v), Partial(run.v)})
    BY <1>3 DEF Cleanup
  <2>3. QED
    BY <2>1, <2>2
<1>4. CASE ~(run.call = "hash" /\ run.src = Staged(run.v) /\ ~Do("clean"))
  <2>1. {Fetched, Tmp} \cup {} \subseteq Staging
    BY <1>2
  <2>2. Unlink({Fetched, Tmp} \cup {})
    BY <1>4 DEF Cleanup
  <2>3. QED
    BY <2>1, <2>2
<1>5. QED
  BY <1>3, <1>4

(* A call is blocked only where damage struck.                             *)
LEMMA BlockedExcused ==
  ASSUME IInv, Blocked
  PROVE  excused /\ run.call # "none"
<1>1. TypeOK /\ Shape /\ Source /\ InPlace
  BY DEF IInv
<1>2. \A n \in Names : Holds(n) /\ ~Has(n, run.v) => excused
  BY DEF Holds, HoldsAt, Has
<1>3. CASE AtCall("hash") /\ ~Has(Hash(run.v), run.v) /\ ~Has(Index, run.v)
  BY <1>1, <1>2, <1>3, NameFacts DEF AtCall, InPlace
<1>4. CASE Do("copy") /\ (entry[Partial(run.v)] # None \/ ~Has(Index, run.v))
  <2>1. Linking /\ run.todo = C0
    BY <1>1, <1>4, Doing
  <2>2. entry[Partial(run.v)] = None /\ Holds(Index) /\ run.call # "none"
    BY <1>1, <2>1 DEF Source, InPlace, Linking, Calling
  <2>3. QED
    BY <1>2, <1>4, <2>2, NameFacts
<1>5. CASE Do("verify") /\ ~Has(Staged(run.v), run.v)
  <2>1. Linking /\ run.todo = L2
    BY <1>1, <1>5, Doing
  <2>2. Holds(Staged(run.v)) /\ run.call # "none" /\ Staged(run.v) \in Names
    BY <1>1, <2>1, LinkingFacts, NameFacts DEF Source, Linking, Calling
  <2>3. QED
    BY <1>2, <1>5, <2>2
<1>6. CASE Do("rename") /\ DirOf(run.dst) \notin dirs
  <2>1. run.todo = F2
    BY <1>1, <1>6, Doing
  <2>2. Path(run.dst) \subseteq dirs
    BY <1>1, <2>1 DEF Source
  <2>3. QED
    BY <1>6, <2>2 DEF Path
<1>7. QED
  BY <1>3, <1>4, <1>5, <1>6 DEF Blocked

LEMMA CallFailsStep ==
  ASSUME IInv, CallFails
  PROVE  IInv'
<1>1. excused /\ run.call # "none"
  BY BlockedExcused DEF CallFails
<1>2. \E S \in SUBSET Staging : Unlink(S)
  BY <1>1, CleanupFacts DEF IInv, CallFails
<1>3. excused' /\ mishaps' \in 0..MaxMishaps
  BY <1>1 DEF CallFails, IInv, TypeOK
<1>4. QED
  BY <1>2, <1>3, EndFrame DEF CallFails

LEMMA MishapType ==
  ASSUME TypeOK, Mishap
  PROVE  mishaps' \in 0..MaxMishaps
  BY TreeAssumption DEF TypeOK, Mishap, TreeAssumption

LEMMA DiskFailsStep ==
  ASSUME IInv, DiskFails
  PROVE  IInv'
<1>1. run.call # "none"
  BY DEF IInv, DiskFails, Shape, Reusing, Fetching, Present, Linking, Preserving, Writing, Calling
<1>2. \E S \in SUBSET Staging : Unlink(S)
  BY <1>1, CleanupFacts DEF IInv, DiskFails
<1>3. excused' = TRUE /\ mishaps' \in 0..MaxMishaps
  BY MishapType DEF DiskFails, IInv
<1>4. QED
  BY <1>2, <1>3, EndFrame DEF DiskFails

LEMMA KillStep ==
  ASSUME IInv, Kill
  PROVE  IInv'
<1>1. {Fetched, Tmp} \in SUBSET Staging /\ Unlink({Fetched, Tmp})
  BY NameFacts DEF Kill
<1>2. mishaps' \in 0..MaxMishaps /\ excused' \in BOOLEAN
  BY MishapType DEF Kill, IInv, TypeOK
<1>3. run'.result # "err"
  BY DEF Kill, Idle
<1>4. QED
  BY <1>1, <1>2, <1>3, EndFrame DEF Kill

-----------------------------------------------------------------------------
(* The prune. *)

LEMMA PruneFileStep ==
  ASSUME IInv, NEW n \in Published, PruneFile(n)
  PROVE  IInv'
<1>1. /\ TypeOK /\ Shape /\ DirsNest /\ Solid /\ Source /\ InPlace /\ Durable /\ LeftoversHarmless
      /\ run.call = "prune" /\ run.result = "none" /\ run.todo = <<>> /\ run.v \in Versions
      /\ UNCHANGED <<dirs, dirsOnDisk, links, run, mishaps, excused, inherited>>
  BY DEF IInv, PruneFile, AtCall, Shape
<1>2. /\ n # Index /\ n # Meta /\ (run.v \in ByHash => n # Hash(run.v))
  BY DEF PruneFile, Keep
<1>3. /\ entry' = [m \in Names |-> IF m \in {n} THEN None ELSE entry[m]]
      /\ onDisk' = onDisk /\ inode' = Reap(inode)
  BY DEF PruneFile, Unlink
<1>4. /\ entry' \in [Names -> Inodes \cup {None}]
      /\ entry'[n] = None /\ \A m \in Published : m # n => entry'[m] = entry[m]
  BY <1>1, <1>3, NameFacts DEF TypeOK
<1>5. Gentle /\ KeepsData /\ inode' \in [Inodes -> Files]
  BY <1>1, <1>3, ReapGentle, GentleKeepsData
<1>6. \A m \in Published :
        /\ Kept(m)' \subseteq Kept(m)
        /\ m # n => Outcomes(m)' = Outcomes(m) /\ (OnDisk(m) => OnDisk(m)')
  BY <1>1, <1>3, <1>4 DEF Kept, Outcomes, OnDisk
<1>7. \A m \in Published : m # n /\ Holds(m) => Holds(m)'
  <2>1. \A m \in Published : m # n /\ Holds(m) => HoldsAt(entry'[m], inode', run.v, excused')
    BY <1>1, <1>4, <1>5, Carry, HoldsFacts, NameFacts DEF Holds
  <2>2. QED
    BY <1>1, <2>1 DEF Holds
<1>8. TypeOK'
  BY <1>1, <1>3, <1>4, <1>5 DEF TypeOK
<1>9. Shape'
  BY <1>1 DEF Shape, Reusing, Fetching, Present, Linking, Preserving, Writing, Calling
<1>10. DirsNest' /\ LeftoversHarmless'
  BY <1>1 DEF DirsNest, LeftoversHarmless
<1>11. Solid'
  BY <1>1, <1>5, <1>6, SolidFrame
<1>12. Source' /\ ~Present' /\ ~Renamed' /\ ~Linking' /\ ~Writing' /\ ~Preserving'
  BY <1>1, Quiet
<1>13. \A m \in Published : m = Hash(run.v) /\ run.v \in ByHash =>
         (Holds(m) => Holds(m)') /\ (OnDisk(m) => OnDisk(m)')
  BY <1>2, <1>6, <1>7
<1>14. run.v \in ByHash =>
         /\ Holds(Hash(run.v)) => Holds(Hash(run.v))'
         /\ OnDisk(Hash(run.v)) => OnDisk(Hash(run.v))'
  BY <1>1, <1>13, NameFacts DEF Holds, OnDisk
<1>15. InPlace'
  BY <1>1, <1>2, <1>7, <1>12, <1>14, NameFacts DEF InPlace
<1>16. Durable'
  <2>1. CASE inherited
    BY <1>1, <2>1 DEF Durable
  <2>2. CASE ~inherited
    <3>1. Secured /\ OnDisk(Meta) /\ Holds(Meta)
      BY <1>1, <2>2 DEF Durable, InPlace
    <3>2. Secured'
      <4> SUFFICES ASSUME NEW m \in Outcomes(Meta)' \ {None}, NEW v \in ByHash,
                          inode'[m].data = Whole(v), NEW h \in Outcomes(Hash(v))'
                   PROVE  h # None /\ inode'[h].data \in {Whole(v), Damaged}
        BY DEF Secured
      <4>1. v \in Versions /\ Hash(v) \in Published
        BY TreeAssumption, NameFacts DEF TreeAssumption
      <4>2. Outcomes(Meta)' = Outcomes(Meta) /\ m = entry'[Meta] /\ Holds(Meta)'
        BY <1>2, <1>6, <1>7, <3>1, NameFacts DEF Outcomes, OnDisk
      <4>3. v = run.v
        BY <1>1, <4>1, <4>2, DataFacts DEF Holds, HoldsAt
      <4>4. Outcomes(Hash(v))' = Outcomes(Hash(v))
        BY <1>2, <1>6, <4>1, <4>3
      <4>5. QED
        BY <1>1, <1>5, <3>1, <4>2, <4>4, SecuredPair
    <3>3. OnDisk(Meta)'
      BY <1>2, <1>6, <3>1, NameFacts
    <3>4. QED
      BY <1>1, <1>12, <1>14, <2>2, <3>2, <3>3 DEF Durable
  <2>3. QED
    BY <2>1, <2>2
<1>17. QED
  BY <1>8, <1>9, <1>10, <1>11, <1>12, <1>15, <1>16 DEF IInv

LEMMA PruneDirsStep ==
  ASSUME IInv, PruneDirs
  PROVE  IInv'
<1>1. /\ TypeOK /\ DirsNest /\ Solid /\ Durable
      /\ run' = [Idle EXCEPT !.result = "ok"]
      /\ dirs' = {d \in dirs : d = "suite" \/ \E n \in Published : DirOf(n) = d /\ entry[n] # None}
      /\ UNCHANGED <<inode, entry, onDisk, dirsOnDisk, links, mishaps, excused, inherited>>
  BY DEF IInv, PruneDirs
<1>2. run' \in Runs /\ run'.call = "none" /\ run'.todo = <<>> /\ run'.result = "ok"
  <2>1. run' \in Runs
    BY <1>1, IdleFacts
  <2>2. QED
    BY <1>1, <2>1 DEF Idle
<1>3. Gentle /\ KeepsData /\ SameEntries
  BY <1>1, SameInodesGentle, GentleKeepsData DEF SameEntries
<1>4. TypeOK'
  BY <1>1, <1>2 DEF TypeOK
<1>5. Shape' /\ DirsNest' /\ LeftoversHarmless'
  BY <1>1, <1>2 DEF Shape, DirsNest, LeftoversHarmless
<1>6. Solid'
  BY <1>1, <1>3, SameKept, SolidFrame
<1>7. Source' /\ InPlace'
  BY <1>2, Quiet DEF InPlace
<1>8. Durable'
  <2>1. CASE inherited
    BY <1>1, <2>1 DEF Durable
  <2>2. CASE ~inherited
    <3>1. Secured'
      BY <1>1, <1>3, <2>2, SameKept, SecuredFrame DEF Durable
    <3>2. QED
      BY <1>2, <3>1, Quiet DEF Durable
  <2>3. QED
    BY <2>1, <2>2
<1>9. QED
  BY <1>4, <1>5, <1>6, <1>7, <1>8 DEF IInv

-----------------------------------------------------------------------------
(* The environment: a crash, the kernel, the disk. *)

(* A Release that has its by-hash file on disk keeps it.                   *)
LEMMA SecuredComplete ==
  ASSUME Secured
  PROVE  Complete(entry)
<1> SUFFICES ASSUME entry[Meta] # None, NEW v \in ByHash, inode[entry[Meta]].data = Whole(v)
             PROVE  entry[Hash(v)] # None /\ inode[entry[Hash(v)]].data \in {Whole(v), Damaged}
  BY DEF Complete, Damaged
<1>1. entry[Meta] \in Outcomes(Meta) /\ entry[Hash(v)] \in Outcomes(Hash(v))
  BY DEF Outcomes
<1>2. QED
  BY <1>1 DEF Secured

(* Where everything is on disk, what the tree shows is what it stays.      *)
LEMMA CompleteSecured ==
  ASSUME TypeOK', DirsNest', dirsOnDisk' = dirs', \A n \in Published : onDisk'[n] = entry'[n],
         Complete(entry)'
  PROVE  Secured'
<1> SUFFICES ASSUME NEW m \in Outcomes(Meta)' \ {None}, NEW v \in ByHash, inode'[m].data = Whole(v),
                    NEW h \in Outcomes(Hash(v))'
             PROVE  h # None /\ inode'[h].data \in {Whole(v), Damaged}
  BY DEF Secured
<1>1. v \in Versions /\ Hash(v) \in Published /\ Meta \in Published
  BY TreeAssumption, NameFacts DEF TreeAssumption
<1>2. m = entry'[Meta]
  BY <1>1 DEF Outcomes
<1>3. entry'[Hash(v)] # None /\ inode'[entry'[Hash(v)]].data \in {Whole(v), Damaged}
  BY <1>2 DEF Complete, Damaged
<1>4. "hash" \in dirs' /\ "suite" \in dirs'
  BY <1>1, <1>3, NameFacts DEF TypeOK, DirsNest
<1>5. Path(Hash(v)) \subseteq dirsOnDisk'
  BY <1>1, <1>4, PathFacts
<1>6. h = entry'[Hash(v)]
  BY <1>1, <1>5 DEF Outcomes
<1>7. QED
  BY <1>3, <1>6

LEMMA RotStep ==
  ASSUME IInv, NEW i \in Inodes, Rot(i)
  PROVE  IInv'
<1>1. /\ TypeOK /\ Shape /\ DirsNest /\ Solid /\ Source /\ InPlace /\ Durable
      /\ inode' = [inode EXCEPT ![i].data = Damaged] /\ excused' = TRUE
      /\ UNCHANGED <<entry, onDisk, dirs, dirsOnDisk, links, run, inherited>>
  BY DEF IInv, Rot, Damaged
<1>2. mishaps' \in 0..MaxMishaps
  BY <1>1, MishapType DEF Rot
<1>3. inode[i] \in Files
  BY <1>1 DEF TypeOK
<1>4. /\ inode'[i].data = Damaged /\ inode'[i].public = inode[i].public /\ inode'[i].safe = inode[i].safe
      /\ inode'[i] \in Files
  BY <1>1, <1>3, DataFacts DEF TypeOK, Files
<1>5. \A j \in Inodes \ {i} : inode'[j] = inode[j]
  BY <1>1 DEF TypeOK
<1>6. Survivors \subseteq Inodes
  BY <1>1 DEF Survivors, Used, TypeOK
<1>7. Gentle /\ KeepsData /\ SameEntries
  BY <1>1, <1>4, <1>5, <1>6, GentleKeepsData DEF Gentle, SameEntries
<1>8. inode' \in [Inodes -> Files]
  BY <1>1, <1>4 DEF TypeOK
<1>9. TypeOK'
  BY <1>1, <1>2, <1>8 DEF TypeOK
<1>10. Shape'
  BY <1>1 DEF Shape, Reusing, Fetching, Present, Linking, Preserving, Writing, Calling
<1>11. DirsNest' /\ LeftoversHarmless'
  BY <1>1 DEF DirsNest, LeftoversHarmless
<1>12. Solid'
  BY <1>1, <1>7, SameKept, SolidFrame
<1>13. \A n \in Names : Holds(n) => Holds(n)'
  <2>1. \A n \in Names : Holds(n) => HoldsAt(entry'[n], inode', run.v, excused')
    BY <1>1, <1>7, Carry, HoldsFacts DEF Holds
  <2>2. QED
    BY <1>1, <2>1 DEF Holds
<1>14. Stays(run.todo)
  BY <1>1 DEF Stays
<1>15. /\ Holds(run.src) =>
            /\ Holds(run.src)'
            /\ Synced(run.src) => Synced(run.src)'
            /\ Public(run.src) => Public(run.src)'
       /\ Holds(run.dst) => Holds(run.dst)' /\ (Public(run.dst) => Public(run.dst)')
  BY <1>1, <1>7, <1>14, CarryCall
<1>16. /\ Renamed' <=> Renamed
       /\ Present' <=> Present
       /\ Writing' <=> Writing
       /\ Linking' <=> Linking
       /\ Preserving' <=> Preserving
  BY <1>1, <1>14, StaysFacts DEF Renamed
<1>17. run.call \in {"hash", "meta", "prune"} => run.v \in Versions /\ Hash(run.v) \in Names
  BY <1>1, CallNames, NameFacts
<1>18. Source'
  <2>1. run'.todo \in {C1, C2} => Holds(Partial(run.v))'
    <3>1. run.todo \in {C1, C2} => Holds(Partial(run.v)) /\ Partial(run.v) \in Names
      <4>1. run.todo \in {C1, C2} => Linking
        BY <1>1, ListsDiffer DEF Shape
      <4>2. QED
        BY <1>1, <4>1, LinkingFacts, NameFacts DEF Source
    <3>2. \A n \in Names : n = Partial(run.v) /\ Holds(n) => Holds(n)'
      BY <1>13
    <3>3. QED
      BY <1>1, <3>1, <3>2 DEF Holds
  <2>2. run'.todo = L1 => entry'[run'.src] = None
    BY <1>1 DEF Source
  <2>3. run'.todo \in {L1, C0} => entry'[Partial(run'.v)] = None
    BY <1>1 DEF Source
  <2>4. run'.todo \in {L2, L3, L4, W1} => Holds(run.src)'
    BY <1>1, <1>15 DEF Source
  <2>5. run'.todo \in {FileSteps, F1, F2, W2} \/ (Writing' /\ run'.todo = W3) =>
          Holds(run.src)' /\ Synced(run.src)'
    BY <1>1, <1>15, <1>16 DEF Source
  <2>6. run'.todo = F2 \/ (Writing' /\ run'.todo = W3) => Public(run.src)'
    BY <1>1, <1>15, <1>16 DEF Source
  <2>7. run'.todo \in {F1, F2, F3} => Path(run'.dst) \subseteq dirs'
    BY <1>1 DEF Source
  <2>8. Holds(run.dst) /\ Public(run.dst) => Public(run.dst)'
    BY <1>15
  <2>9. Renamed \/ Present => Holds(run.dst)
    BY <1>1 DEF InPlace
  <2>10. (Present' /\ run'.todo = P2 => Public(run.dst)')
         /\ (Renamed' /\ run'.src # Index => Public(run.dst)')
    BY <1>1, <1>16, <2>8, <2>9 DEF Source
  <2>11. QED
    BY <2>1, <2>2, <2>3, <2>4, <2>5, <2>6, <2>7, <2>10 DEF Source
<1>19. InPlace'
  <2>1. \A n \in Names : n = Hash(run.v) /\ Holds(n) => Holds(n)'
    BY <1>13
  <2>2. run.call \in {"meta", "prune"} /\ Holds(Hash(run.v)) => Holds(Hash(run.v))'
    BY <1>1, <1>17, <2>1 DEF Holds
  <2>3. (Holds(Index) => Holds(Index)') /\ (Holds(Meta) => Holds(Meta)')
    BY <1>13, NameFacts
  <2>4. QED
    BY <1>1, <1>15, <1>16, <2>2, <2>3 DEF InPlace
<1>20. Durable'
  <2>1. CASE inherited
    BY <1>1, <2>1 DEF Durable
  <2>2. CASE ~inherited
    <3>1. Secured'
      BY <1>1, <1>7, <2>2, SameKept, SecuredFrame DEF Durable
    <3>2. /\ OnDisk(run.dst)' = OnDisk(run.dst) /\ OnDisk(Meta)' = OnDisk(Meta)
          /\ OnDisk(Hash(run.v))' = OnDisk(Hash(run.v))
      BY <1>1 DEF OnDisk
    <3>3. QED
      BY <1>1, <1>16, <2>2, <3>1, <3>2 DEF Durable
  <2>3. QED
    BY <2>1, <2>2
<1>21. QED
  BY <1>9, <1>10, <1>11, <1>12, <1>18, <1>19, <1>20 DEF IInv

LEMMA WritebackStep ==
  ASSUME IInv, Writeback
  PROVE  IInv'
<1> DEFINE f == [i \in Inodes |-> [inode[i] EXCEPT !.safe = {"data", "mode"}]]
<1>1. /\ TypeOK /\ Shape /\ DirsNest /\ Solid /\ Durable /\ LeftoversHarmless /\ run.call = "none"
      /\ onDisk' = [n \in Published |-> entry[n]] /\ dirsOnDisk' = dirs
      /\ UNCHANGED <<entry, dirs, links, run, mishaps, excused>>
      /\ inode' = Reap(f)
      /\ inherited' = (inherited /\ ~Complete(entry))
  BY DEF IInv, Writeback
<1>2. run.todo = <<>> /\ run.result # "begun"
  BY <1>1 DEF Shape, Reusing, Fetching, Present, Linking, Preserving, Writing, Calling
<1>3. f \in [Inodes -> Files] /\ \A i \in Inodes : f[i].data = inode[i].data /\ "data" \in f[i].safe
  <2>1. ASSUME NEW i \in Inodes
        PROVE  f[i] \in Files /\ f[i].data = inode[i].data /\ "data" \in f[i].safe
    <3>1. inode[i] \in Files
      BY <1>1 DEF TypeOK
    <3>2. QED
      BY <3>1 DEF Files
  <2>2. QED
    BY <2>1
<1> HIDE DEF f
<1>4. inode' \in [Inodes -> Files]
  BY <1>1, <1>3, DataFacts DEF Reap, Files, Blank
<1>5. \A i \in Inodes \cap Used(entry', onDisk') : inode'[i] = f[i]
  BY <1>1 DEF Reap
<1>6. Survivors \subseteq Inodes \cap Used(entry', onDisk')
  BY <1>1 DEF Survivors, Used, TypeOK
<1>7. \A i \in Survivors : inode'[i].data = inode[i].data /\ "data" \in inode'[i].safe
  BY <1>3, <1>5, <1>6
<1>8. KeepsData
  BY <1>7 DEF KeepsData
<1>9. \A n \in Published : onDisk'[n] = entry'[n] /\ entry'[n] = entry[n] /\ Kept(n)' \subseteq Kept(n)
  BY <1>1 DEF Kept
<1>10. TypeOK'
  <2>1. onDisk' \in [Published -> Inodes \cup {None}]
    BY <1>1, NameFacts DEF TypeOK
  <2>2. inherited' \in BOOLEAN
    BY <1>1
  <2>3. QED
    BY <1>1, <1>4, <2>1, <2>2 DEF TypeOK
<1>11. Shape'
  BY <1>1, <1>2 DEF Shape
<1>12. DirsNest' /\ LeftoversHarmless'
  BY <1>1 DEF DirsNest, LeftoversHarmless
<1>13. Solid'
  BY <1>1, <1>8, <1>9, SolidFrame
<1>14. Source' /\ ~Renamed' /\ ~Present' /\ ~Linking' /\ ~Writing' /\ ~Preserving'
  BY <1>1, <1>2, Quiet
<1>15. InPlace'
  BY <1>1, <1>14 DEF InPlace
<1>16. Durable'
  <2>1. CASE inherited'
    BY <2>1 DEF Durable
  <2>2. CASE ~inherited'
    <3>1. Complete(entry)
      BY <1>1, <2>2, SecuredComplete DEF Durable
    <3>2. Complete(entry)'
      <4> SUFFICES ASSUME entry'[Meta] # None, NEW v \in ByHash, inode'[entry'[Meta]].data = Whole(v)
                   PROVE  entry'[Hash(v)] # None /\ inode'[entry'[Hash(v)]].data \in {Whole(v), Damaged}
        BY DEF Complete, Damaged
      <4>1. Hash(v) \in Published /\ Meta \in Published
        BY TreeAssumption, NameFacts DEF TreeAssumption
      <4>2. \A n \in Published : entry[n] # None => inode'[entry'[n]].data = inode[entry[n]].data
        <5>1. \A n \in Published : entry[n] # None => entry[n] \in Survivors
          BY <1>1, UsedFacts, NameFacts DEF Survivors
        <5>2. QED
          BY <1>1, <1>7, <5>1
      <4>3. inode[entry[Meta]].data = Whole(v) /\ entry[Meta] # None
        BY <1>1, <4>1, <4>2
      <4>4. entry[Hash(v)] # None /\ inode[entry[Hash(v)]].data \in {Whole(v), Damaged}
        BY <3>1, <4>3 DEF Complete, Damaged
      <4>5. QED
        BY <1>1, <4>1, <4>2, <4>4
    <3>3. Secured'
      BY <1>1, <1>9, <1>10, <1>12, <3>2, CompleteSecured
    <3>4. QED
      BY <1>1, <1>14, <3>3 DEF Durable
  <2>3. QED
    BY <2>1, <2>2
<1>17. QED
  BY <1>10, <1>11, <1>12, <1>13, <1>14, <1>15, <1>16 DEF IInv

LEMMA PowerLossStep ==
  ASSUME IInv, PowerLoss
  PROVE  IInv'
<1>1. /\ TypeOK /\ Shape /\ DirsNest /\ Solid /\ Durable
  BY DEF IInv
<1>2. PICK gone \in SUBSET {i \in Inodes : "data" \notin inode[i].safe},
           shut \in SUBSET {i \in Inodes : "mode" \notin inode[i].safe},
           back \in SUBSET {n \in Published : entry[n] # onDisk[n]},
           left \in SUBSET {n \in Names \ Published : n[1] \in {"staged", "partial"} /\ entry[n] # None},
           held \in {D \in SUBSET (dirs \cup dirsOnDisk) : dirs \cap dirsOnDisk \subseteq D} :
        /\ Mishap
        /\ "hash" \in held => "suite" \in held
        /\ dirs' = held /\ dirsOnDisk' = held
        /\ entry' = [n \in Names |->
                       IF n \in left THEN entry[n]
                       ELSE IF n \notin Published \/ DirOf(n) \notin held THEN None
                       ELSE IF n \in back THEN onDisk[n] ELSE entry[n]]
        /\ onDisk' = [n \in Published |-> entry'[n]]
        /\ inode' = Reap([i \in Inodes |->
                            [data   |-> IF i \in gone THEN <<Torn, 0>> ELSE inode[i].data,
                             public |-> inode[i].public /\ i \notin shut,
                             safe   |-> {"data", "mode"}]])
        /\ run' = Idle
        /\ inherited' = (inherited /\ ~Complete(entry)')
        /\ UNCHANGED <<links, excused>>
  BY DEF PowerLoss
<1> DEFINE f == [i \in Inodes |-> [data   |-> IF i \in gone THEN <<Torn, 0>> ELSE inode[i].data,
                                   public |-> inode[i].public /\ i \notin shut,
                                   safe   |-> {"data", "mode"}]]
<1>3. f \in [Inodes -> Files]
  <2>1. ASSUME NEW i \in Inodes
        PROVE  f[i] \in Files
    <3>1. inode[i] \in Files
      BY <1>1 DEF TypeOK
    <3>2. (IF i \in gone THEN <<Torn, 0>> ELSE inode[i].data) \in Data
      BY <3>1, DataFacts DEF Files
    <3>3. (inode[i].public /\ i \notin shut) \in BOOLEAN
      OBVIOUS
    <3>4. QED
      BY <3>2, <3>3 DEF Files
  <2>2. QED
    BY <2>1
<1>4. \A i \in Inodes : "data" \in inode[i].safe => f[i].data = inode[i].data /\ "data" \in f[i].safe
  BY <1>2
<1>5. inode' = Reap(f)
  BY <1>2
<1> HIDE DEF f
<1>6. inode' \in [Inodes -> Files]
  BY <1>3, <1>5, DataFacts DEF Reap, Files, Blank
<1>7. \A i \in Inodes \cap Used(entry', onDisk') : inode'[i] = f[i]
  BY <1>5 DEF Reap
<1>8. \A n \in Names :
        /\ entry'[n] # None => entry'[n] \in Inodes
        /\ n \in Published /\ entry'[n] # None =>
             DirOf(n) \in held /\ entry'[n] \in {entry[n], onDisk[n]}
        /\ n \in Published /\ entry'[n] = None =>
             DirOf(n) \notin held \/ None \in {entry[n], onDisk[n]}
  BY <1>1, <1>2, NameFacts DEF TypeOK
<1>9. entry' \in [Names -> Inodes \cup {None}]
  <2>1. entry' = [n \in Names |-> entry'[n]]
    BY <1>2
  <2>2. \A n \in Names : entry'[n] \in Inodes \cup {None}
    BY <1>8
  <2>3. QED
    BY <2>1, <2>2
<1>10. onDisk' \in [Published -> Inodes \cup {None}] /\ \A n \in Published : onDisk'[n] = entry'[n]
  BY <1>2, <1>9, NameFacts
<1>11. \A n \in Published : Kept(n)' \subseteq Kept(n)
  BY <1>8, <1>10, NameFacts DEF Kept
<1>12. Survivors \subseteq Inodes \cap Used(entry', onDisk')
  BY <1>1 DEF Survivors, Used, TypeOK
<1>13. \A i \in Survivors : "data" \in inode[i].safe =>
         inode'[i].data = inode[i].data /\ "data" \in inode'[i].safe
  BY <1>4, <1>7, <1>12
<1>14. KeepsData
  BY <1>13 DEF KeepsData
<1>15. held \subseteq Dirs
  BY <1>1 DEF TypeOK
<1>16. run' \in Runs /\ run'.call = "none" /\ run'.todo = <<>> /\ run'.result = "none"
  BY <1>2, IdleFacts DEF Idle
<1>17. TypeOK'
  <2>1. mishaps' \in 0..MaxMishaps
    BY <1>1, <1>2, MishapType
  <2>2. inherited' \in BOOLEAN /\ links' \in BOOLEAN /\ excused' \in BOOLEAN
    BY <1>1, <1>2 DEF TypeOK
  <2>3. \A n \in Published : entry'[n] # None => DirOf(n) \in dirs'
    BY <1>2, <1>8, NameFacts
  <2>4. dirs' \subseteq Dirs /\ dirsOnDisk' \subseteq Dirs
    BY <1>2, <1>15
  <2>5. QED
    BY <1>6, <1>9, <1>10, <1>16, <2>1, <2>2, <2>3, <2>4 DEF TypeOK
<1>18. Shape' /\ LeftoversHarmless'
  BY <1>16 DEF Shape, LeftoversHarmless
<1>19. DirsNest'
  BY <1>2 DEF DirsNest
<1>20. Solid'
  BY <1>1, <1>11, <1>14, SolidFrame
<1>21. Source' /\ ~Renamed' /\ ~Present' /\ ~Linking' /\ ~Writing' /\ ~Preserving'
  BY <1>16, Quiet
<1>22. InPlace'
  BY <1>16, <1>21 DEF InPlace
<1>23. Durable'
  <2>1. CASE inherited'
    BY <2>1 DEF Durable
  <2>2. CASE ~inherited'
    <3>1. ASSUME ~inherited
          PROVE  Complete(entry)'
      <4> SUFFICES ASSUME entry'[Meta] # None, NEW v \in ByHash, inode'[entry'[Meta]].data = Whole(v)
                   PROVE  entry'[Hash(v)] # None /\ inode'[entry'[Hash(v)]].data \in {Whole(v), Damaged}
        BY DEF Complete, Damaged
      <4>1. v \in Versions /\ Hash(v) \in Published /\ Meta \in Published
        BY TreeAssumption, NameFacts DEF TreeAssumption
      <4>2. \A n \in Published : entry'[n] # None =>
              entry'[n] \in Kept(n) /\ inode'[entry'[n]].data = inode[entry'[n]].data
        <5>1. \A n \in Published : entry'[n] # None => entry'[n] \in Kept(n)
          BY <1>8, NameFacts DEF Kept
        <5>2. \A n \in Published : entry'[n] # None => entry'[n] \in Survivors
          BY <5>1, UsedFacts, NameFacts DEF Survivors, Kept
        <5>3. \A n \in Published : entry'[n] # None => "data" \in inode[entry'[n]].safe
          BY <1>1, <5>1 DEF Solid
        <5>4. QED
          BY <1>13, <5>1, <5>2, <5>3
      <4>3. Secured
        BY <1>1, <3>1 DEF Durable
      <4>4. entry'[Meta] \in Outcomes(Meta) \ {None} /\ inode[entry'[Meta]].data = Whole(v)
        BY <4>1, <4>2, OutcomesAre
      <4>5. \A h \in Outcomes(Hash(v)) : h # None /\ inode[h].data \in {Whole(v), Damaged}
        BY <4>3, <4>4 DEF Secured
      <4>6. entry'[Hash(v)] # None
        <5>1. {entry[Hash(v)], onDisk[Hash(v)]} \subseteq Outcomes(Hash(v))
          BY DEF Outcomes
        <5>2. entry[Hash(v)] # None /\ onDisk[Hash(v)] # None
          BY <4>5, <5>1
        <5>3. Path(Hash(v)) \subseteq dirsOnDisk
          BY <4>5 DEF Outcomes
        <5>4. Path(Hash(v)) \subseteq dirs
          BY <1>1, <4>1, <5>2, DirsFacts
        <5>5. DirOf(Hash(v)) \in held
          BY <1>2, <4>1, <5>3, <5>4, PathFacts
        <5>6. QED
          BY <1>8, <4>1, <5>2, <5>5, NameFacts
      <4>7. entry'[Hash(v)] \in Outcomes(Hash(v))
        BY <4>1, <4>2, <4>6, OutcomesAre
      <4>8. QED
        BY <4>1, <4>2, <4>5, <4>6, <4>7
    <3>2. Complete(entry)'
      BY <1>2, <2>2, <3>1
    <3>3. Secured'
      BY <1>2, <1>10, <1>17, <1>19, <3>2, CompleteSecured
    <3>4. QED
      BY <1>16, <1>21, <3>3 DEF Durable
  <2>3. QED
    BY <2>1, <2>2
<1>24. QED
  BY <1>17, <1>18, <1>19, <1>20, <1>21, <1>22, <1>23 DEF IInv

-----------------------------------------------------------------------------
(* The theorems. *)

LEMMA InitIInv == Init => IInv
<1> SUFFICES ASSUME Init
             PROVE  IInv
  OBVIOUS
<1>1. run = Idle /\ Idle \in Runs /\ dirs \in {{}, Dirs} /\ dirsOnDisk = dirs
  BY IdleFacts DEF Init
<1>2. run.call = "none" /\ run.todo = <<>> /\ run.result = "none"
  BY <1>1 DEF Idle
<1>3. entry = [n \in Names |-> None] /\ onDisk = [n \in Published |-> None]
  BY DEF Init
<1>4. \A n \in Published : entry[n] = None /\ Kept(n) = {}
  BY <1>3, NameFacts DEF Kept
<1>5. TypeOK
  <2>1. Blank \in Files
    BY DataFacts DEF Blank, Files
  <2>2. inode \in [Inodes -> Files]
    BY <2>1 DEF Init
  <2>3. entry \in [Names -> Inodes \cup {None}] /\ onDisk \in [Published -> Inodes \cup {None}]
    BY <1>3
  <2>4. mishaps \in 0..MaxMishaps
    BY TreeAssumption DEF Init, TreeAssumption
  <2>5. QED
    BY <1>1, <1>4, <2>2, <2>3, <2>4 DEF Init, TypeOK
<1>6. Shape /\ LeftoversHarmless
  BY <1>2 DEF Shape, LeftoversHarmless
<1>7. DirsNest
  BY <1>1 DEF DirsNest, Dirs
<1>8. Solid
  BY <1>4, NameFacts DEF Solid
<1>9. Source /\ InPlace
  BY <1>2, ListsDiffer DEF Source, InPlace, Renamed, Present, Writing, Calling
<1>10. Durable
  <2>1. Outcomes(Meta) = {None}
    BY <1>3, NameFacts DEF Outcomes
  <2>2. QED
    BY <1>2, <2>1 DEF Durable, Secured, Linking, Writing, Present, Preserving, Calling
<1>11. QED
  BY <1>5, <1>6, <1>7, <1>8, <1>9, <1>10 DEF IInv

LEMMA StutterIInv ==
  ASSUME IInv, UNCHANGED vars
  PROVE  IInv'
<1>1. UNCHANGED <<inode, entry, onDisk, dirs, dirsOnDisk, links, run, mishaps, excused, inherited>>
  BY DEF vars, tree
<1>2. TypeOK'
  BY <1>1 DEF IInv, TypeOK
<1>3. Shape' /\ DirsNest' /\ LeftoversHarmless'
  BY <1>1 DEF IInv, Shape, DirsNest, LeftoversHarmless, Reusing, Fetching, Present, Linking,
              Preserving, Writing, Calling
<1>4. Solid'
  BY <1>1 DEF IInv, Solid, Kept
<1>5. Source' /\ InPlace'
  BY <1>1 DEF IInv, Source, InPlace, Holds, Synced, Public, Renamed, Present, Writing, Calling
<1>6. Durable'
  BY <1>1 DEF IInv, Durable, Secured, Outcomes, OnDisk, Linking, Writing, Present, Preserving, Calling
<1>7. QED
  BY <1>2, <1>3, <1>4, <1>5, <1>6 DEF IInv

LEMMA NextIInv == IInv /\ [Next]_vars => IInv'
<1> SUFFICES ASSUME IInv, [Next]_vars
             PROVE  IInv'
  OBVIOUS
<1>1. CASE \E v \in Versions : BeginSync(v)
  BY <1>1, BeginSyncStep
<1>2. CASE ReuseIndex \/ FetchIndex
  BY <1>2, ReuseIndexStep, FetchIndexStep
<1>3. CASE HashPresent \/ MakeHash
  BY <1>3, HashPresentStep, MakeHashStep
<1>4. CASE PreserveMeta \/ WriteMeta
  BY <1>4, PreserveMetaStep, WriteMetaStep
<1>5. CASE CallReturns
  BY <1>5, CallReturnsStep
<1>6. CASE MkdirAll \/ Chmod \/ Fsync
  BY <1>6, MkdirAllStep, ChmodStep, FsyncStep
<1>7. CASE Rename \/ SyncDir
  BY <1>7, RenameStep, SyncDirStep
<1>8. CASE CreateTmp \/ Clean \/ Link \/ LinkRefused
  BY <1>8, CreateTmpStep, CleanStep, LinkStep, LinkRefusedStep
<1>9. CASE Copy \/ FsyncCopy \/ MoveCopy \/ VerifyStaged
  BY <1>9, CopyStep, FsyncCopyStep, MoveCopyStep, VerifyStagedStep
<1>10. CASE CallFails \/ DiskFails \/ Kill
  BY <1>10, CallFailsStep, DiskFailsStep, KillStep
<1>11. CASE (\E n \in Published : PruneFile(n)) \/ PruneDirs
  BY <1>11, PruneFileStep, PruneDirsStep
<1>12. CASE Writeback \/ PowerLoss
  BY <1>12, WritebackStep, PowerLossStep
<1>13. CASE \E i \in Inodes : Rot(i)
  BY <1>13, RotStep
<1>14. CASE UNCHANGED vars
  BY <1>14, StutterIInv
<1>15. QED
  BY <1>1, <1>2, <1>3, <1>4, <1>5, <1>6, <1>7, <1>8, <1>9, <1>10, <1>11, <1>12, <1>13, <1>14 DEF Next

(* IInv holds in every reachable state: at each step of PublishFile,       *)
(* MaterializeByHash, AtomicWrite and Prune, the published files are whole *)
(* and on disk, and the call's own file is what its next step needs.       *)
THEOREM Invariance == Spec => []IInv
<1>1. Init => IInv
  BY InitIInv
<1>2. IInv /\ [Next]_vars => IInv'
  BY NextIInv
<1>3. QED
  BY <1>1, <1>2, PTL DEF Spec

(* Every variable keeps its type, and a published file its directory:      *)
(* pruneEmptyDirs removes none that an entry is in, and no rename puts a   *)
(* file where ensurePublishedDirs has made no directory.                   *)
THEOREM TypeCorrect == Spec => []TypeOK
<1>1. IInv => TypeOK
  BY DEF IInv
<1>2. QED
  BY <1>1, Invariance, PTL

(* No published name ever leads to a file that was not written to its end, *)
(* however the process and the machine stop and restart: every way into    *)
(* the tree -- PublishFile, the link or the copy of MaterializeByHash,     *)
(* AtomicWrite -- syncs the bytes before its rename.                       *)
THEOREM NeverTorn == Spec => []WholeFiles
<1>1. IInv => WholeFiles
  <2> SUFFICES ASSUME IInv, NEW n \in Published, entry[n] # None
               PROVE  Contents(n)[1] # Torn
    BY DEF WholeFiles
  <2>1. TypeOK /\ Solid /\ n \in Names
    BY NameFacts DEF IInv
  <2>2. entry[n] \in Inodes /\ entry[n] \in Kept(n)
    BY <2>1 DEF TypeOK, Kept
  <2>3. inode[entry[n]] \in Files /\ inode[entry[n]].data # <<Torn, 0>>
    BY <2>1, <2>2 DEF TypeOK, Solid
  <2>4. inode[entry[n]].data \in Data
    BY <2>3 DEF Files
  <2>5. Contents(n) = inode[entry[n]].data
    BY DEF Contents
  <2>6. QED
    BY <2>3, <2>4, <2>5, DataFacts
<1>2. QED
  BY <1>1, Invariance, PTL

(* A by-hash file has the bytes of its digest as long as it exists, though *)
(* it shares its inode with the index: PublishFile and AtomicWrite replace *)
(* the name and never open the file, and MaterializeByHash verifies the    *)
(* staged file after it made it.                                           *)
THEOREM ByHashFilesImmutable == Spec => []ByHashImmutable
<1>1. IInv => ByHashImmutable
  <2> SUFFICES ASSUME IInv, NEW v \in Versions, entry[Hash(v)] # None
               PROVE  Contents(Hash(v)) \in {Whole(v), <<Rotten, 0>>}
    BY DEF ByHashImmutable
  <2>1. entry[Hash(v)] \in Kept(Hash(v))
    BY DEF Kept
  <2>2. inode[entry[Hash(v)]].data \in {Whole(v), Damaged}
    BY <2>1 DEF IInv, Solid
  <2>3. QED
    BY <2>2 DEF Contents, Damaged
<1>2. QED
  BY <1>1, Invariance, PTL

(* A call that returns nil has its file in place, with the bytes of this   *)
(* sync, and readable for the web server, whatever an earlier sync that    *)
(* failed or was killed had left under the names it uses.                  *)
THEOREM ReturnPublishes == Spec => []ReturnMeansPublished
<1>1. IInv => ReturnMeansPublished
  <2> SUFFICES ASSUME IInv, Done, ~excused
               PROVE  Has(run.dst, run.v) /\ (run.src # Index => inode[entry[run.dst]].public)
    BY DEF ReturnMeansPublished
  <2>1. Renamed
    BY DEF Done, Renamed
  <2>2. Holds(run.dst) /\ (run.src # Index => Public(run.dst))
    BY <2>1 DEF IInv, InPlace, Source
  <2>3. QED
    BY <2>2 DEF Holds, HoldsAt, Has, Public
<1>2. QED
  BY <1>1, Invariance, PTL

(* A call fails only if the disk did: neither a by-hash file left staged,  *)
(* nor a partial copy, nor a directory that the prune removed makes a      *)
(* later MaterializeByHash, PublishFile or AtomicWrite return an error.    *)
THEOREM NoLeftoverFails == Spec => []LeftoversHarmless
<1>1. IInv => LeftoversHarmless
  BY DEF IInv
<1>2. QED
  BY <1>1, Invariance, PTL

(* Whatever a power loss takes back, the Release that is found afterwards  *)
(* has its by-hash file: MaterializeByHash syncs the directory before      *)
(* AtomicWrite replaces the Release, and Prune comes after the Release is  *)
(* on disk -- as long as every entry and directory that a sync relied on   *)
(* was there.                                                              *)
THEOREM ServedFilesSurvive == Spec => []ServedSurvives
<1>1. IInv => ServedSurvives
  <2> SUFFICES ASSUME IInv, ~inherited
               PROVE  /\ Complete(entry)
                      /\ \A m \in Outcomes(Meta) \ {None} : \A v \in ByHash :
                           inode[m].data = Whole(v) =>
                             \A h \in Outcomes(Hash(v)) :
                               h # None /\ inode[h].data \in {Whole(v), <<Rotten, 0>>}
    BY DEF ServedSurvives
  <2>1. Secured
    BY DEF IInv, Durable
  <2>2. Complete(entry)
    BY <2>1, SecuredComplete
  <2>3. QED
    BY <2>1, <2>2 DEF Secured, Damaged
<1>2. QED
  BY <1>1, Invariance, PTL
=============================================================================
