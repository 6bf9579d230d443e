------------------------- MODULE ApkRepositoryProofs -------------------------
(***************************************************************************)
(* Proofs about ApkRepository for any number of processes, indexes,        *)
(* versions and packages: type correctness, PublishedComplete, NoRollback, *)
(* VerifyHeals and the refinement of PublishedMirror.                      *)
(*                                                                         *)
(* PublishedComplete alone is not inductive: that publishing an index is   *)
(* safe follows from what the pool did before (SyncedSoFar), that a file   *)
(* may be unlinked from what was read before (ReadSoFar), and both stay    *)
(* true only because the lock keeps every other sync away (LockShape) and  *)
(* no prune command runs beside a sync (Exempt otherwise).                 *)
(***************************************************************************)
EXTENDS ApkRepository, TLAPS

(* Which phases an operation has. *)
OpShape ==
  \A p \in Procs :
    /\ proc[p].op = "none"   <=> proc[p].pc = "idle"
    /\ proc[p].op = "sync"   => proc[p].pc \in {"lock", "fetch", "ensure", "publish",
                                                "read", "walk"}
    /\ proc[p].op = "verify" => proc[p].pc \in {"lock", "read", "repair"}
    /\ proc[p].op = "prune"  => proc[p].pc \in {"read", "walk"}
    /\ proc[p].pc = "lock" => proc[p].at = 1

(* Exactly the sync or verify past AcquireLock holds the lock. *)
LockShape ==
  \A p \in Procs :
    lock = p <=> proc[p].op \in {"sync", "verify"} /\ proc[p].pc # "lock"

NoOverlapYet == overlapped \/ ~Overlap

(* No published or fetched index is ahead of upstream, and a fetched one   *)
(* is not behind the published one.                                        *)
Fetched(p, i) ==
  \/ proc[p].pc = "fetch" /\ i < proc[p].at
  \/ proc[p].pc \in {"ensure", "publish"}

VersionOrder ==
  \A i \in Indexes :
    /\ index[i] <= up[i]
    /\ \A p \in Procs : Fetched(p, i) =>
         /\ proc[p].got[i] \in Versions
         /\ index[i] <= proc[p].got[i] /\ proc[p].got[i] <= up[i]

(* The pool has what it was asked for, except what is left to do. *)
SyncedSoFar ==
  \A p \in Procs, i \in Indexes :
    /\ proc[p].pc = "ensure" =>
         \A f \in Refs(i, proc[p].got[i]) : file[f] # "none" \/ f \in proc[p].todo
    /\ proc[p].pc = "publish" =>
         \A f \in Refs(i, proc[p].got[i]) : file[f] # "none"

(* The keep set holds every index read so far, as it is published now. *)
ReadSoFar ==
  \A p \in Procs, i \in Indexes :
    proc[p].pc = "walk" \/ (proc[p].pc = "read" /\ i < proc[p].at) =>
      index[i] # Absent /\ Refs(i, index[i]) \subseteq proc[p].keep

(* Verify has repaired what is not left to do. *)
RepairedSoFar ==
  \A p \in Procs : proc[p].pc = "repair" =>
    \A i \in Indexes :
      /\ index[i] # Absent
      /\ \A f \in Refs(i, index[i]) :
           file[f] = "good" \/ f \in proc[p].todo \/ proc[p].rotted

CompleteNow ==
  \A i \in Indexes : index[i] # Absent => \A f \in Refs(i, index[i]) : file[f] # "none"

IInv ==
  /\ TypeOK /\ OpShape /\ LockShape /\ NoOverlapYet /\ VersionOrder
  /\ Exempt \/ SyncedSoFar
  /\ Exempt \/ ReadSoFar
  /\ Exempt \/ RepairedSoFar
  /\ Exempt \/ CompleteNow

-----------------------------------------------------------------------------
(* A member of Named(ix) is named by one of the indexes of ix. *)
LEMMA NamedMember ==
  ASSUME NEW ix, NEW i \in Indexes, ix[i] # Absent
  PROVE  Refs(i, ix[i]) \subseteq Named(ix)
BY DEF Named

LEMMA NamedOnly ==
  ASSUME NEW ix, NEW f \in Named(ix)
  PROVE  \E i \in Indexes : ix[i] # Absent /\ f \in Refs(i, ix[i])
BY DEF Named

(* The packages of fetched or published indexes are packages. *)
LEMMA NamedType ==
  ASSUME NEW ix \in [Indexes -> Versions \cup {Absent}]
  PROVE  Named(ix) \in SUBSET Payloads
BY ApkAssumption DEF Named

(* One process changes its state, the others keep theirs. *)
LEMMA StepType ==
  ASSUME proc \in [Procs -> ProcState], NEW p \in Procs, NEW r \in ProcState, Step(p, r)
  PROVE  proc' \in [Procs -> ProcState]
BY DEF Step

LEMMA IdleType == IdleProc \in ProcState
<1>1. 1 \in Indexes
  BY ApkAssumption DEF Indexes
<1> QED BY <1>1 DEF IdleProc, ProcState

(* While a sync is past its lock no other operation writes, and without an *)
(* exemption none reads the tree to prune it.                              *)
LEMMA Alone ==
  ASSUME IInv, NEW p \in Procs, proc[p].op = "sync", proc[p].pc # "lock",
         NEW q \in Procs \ {p}
  PROVE  /\ proc[q].pc \in {"idle", "lock", "read", "walk"}
         /\ ~Exempt => proc[q].pc \in {"idle", "lock"}
<1>1. lock = p /\ lock # q
  BY DEF IInv, LockShape
<1>2. proc[q].op \in {"none", "sync", "verify", "prune"}
  BY DEF IInv, TypeOK, ProcState
<1>3. ~Exempt => proc[q].op # "prune"
  BY <1>1 DEF IInv, NoOverlapYet, Overlap, Exempt
<1> QED BY <1>1, <1>2, <1>3 DEF IInv, OpShape, LockShape

(* The initial states. *)
LEMMA InitInv == Init => IInv
<1> SUFFICES ASSUME Init PROVE IInv
  OBVIOUS
<1>1. 1 \in Indexes /\ 1 \in Versions
  BY ApkAssumption DEF Indexes, Versions
<1>2. proc \in [Procs -> ProcState] /\ \A p \in Procs : proc[p].op = "none" /\ proc[p].pc = "idle"
  BY IdleType DEF Init, IdleProc
<1>3. TypeOK
  <2>1. up \in [Indexes -> Versions] /\ index \in [Indexes -> Versions \cup {Absent}]
    BY <1>1 DEF Init
  <2>2. file \in [Payloads -> {"none", "good", "rotten"}]
    BY DEF Init
  <2>3. rot \in 0..MaxRot
    BY ApkAssumption DEF Init
  <2> QED BY <1>2, <2>1, <2>2, <2>3 DEF Init, TypeOK
<1>4. OpShape /\ LockShape /\ NoOverlapYet
  BY <1>2, ApkAssumption DEF Init, OpShape, LockShape, NoOverlapYet, Overlap
<1>5. VersionOrder
  BY <1>2, ApkAssumption DEF Init, VersionOrder, Fetched, Absent
<1>6. SyncedSoFar /\ ReadSoFar /\ RepairedSoFar
  BY <1>2 DEF SyncedSoFar, ReadSoFar, RepairedSoFar
<1>7. CompleteNow
  BY ApkAssumption, <1>1 DEF Init, CompleteNow
<1> QED BY <1>3, <1>4, <1>5, <1>6, <1>7 DEF IInv

(* An operation starts. *)
LEMMA StartInv ==
  ASSUME IInv, NEW p \in Procs, NEW op \in {"sync", "verify", "prune"}, Start(p, op),
         overlapped' = (overlapped \/ Overlap')
  PROVE  IInv'
<1> DEFINE o == proc[p]
           r == [IdleProc EXCEPT !.op = op,
                                !.pc = IF op = "prune" THEN "read" ELSE "lock"]
<1>1. o \in ProcState
  BY DEF IInv, TypeOK
<1>0. IdleProc \in ProcState
  BY IdleType
<1>2. r \in ProcState
  BY <1>1, <1>0 DEF ProcState
<1>3. /\ Step(p, r)
      /\ o.pc = "idle"
      /\ UNCHANGED <<up, index, file, lock, rot, abandoned>>
  BY DEF Start
<1>4. /\ proc' = [proc EXCEPT ![p] = r]
      /\ proc' \in [Procs -> ProcState]
  BY <1>2, <1>3, StepType DEF IInv, TypeOK, Step
<1>5. TypeOK'
  BY <1>1, <1>3, <1>4, ApkAssumption DEF IInv, TypeOK, ProcState
<1>6. OpShape'
  BY <1>3, <1>4, ApkAssumption DEF IInv, TypeOK, OpShape, LockShape,
     IdleProc
<1>7. LockShape'
  BY <1>3, <1>4, ApkAssumption DEF IInv, TypeOK, OpShape, LockShape,
     IdleProc
<1>8. NoOverlapYet'
  BY DEF NoOverlapYet
<1>9. VersionOrder'
  BY <1>3, <1>4, ApkAssumption DEF IInv, TypeOK, OpShape, LockShape,
     VersionOrder, Fetched, IdleProc, Indexes, Versions, Absent
<1>10. Exempt' \/ SyncedSoFar'
  BY <1>3, <1>4, ApkAssumption DEF IInv, TypeOK, OpShape, LockShape,
     NoOverlapYet, Overlap, Exempt, SyncedSoFar, ReadSoFar, VersionOrder,
     Fetched, IdleProc
<1>11. Exempt' \/ ReadSoFar'
  BY <1>3, <1>4, ApkAssumption DEF IInv, TypeOK, OpShape, LockShape,
     NoOverlapYet, Overlap, Exempt, ReadSoFar, VersionOrder, Fetched,
     IdleProc, Indexes, Versions, Absent
<1>12. Exempt' \/ RepairedSoFar'
  BY <1>3, <1>4, ApkAssumption DEF IInv, TypeOK, OpShape, LockShape,
     NoOverlapYet, Overlap, Exempt, RepairedSoFar, ReadSoFar, IdleProc,
     Indexes
<1>13. Exempt' \/ CompleteNow'
  BY <1>3, <1>4, ApkAssumption DEF IInv, TypeOK, OpShape, LockShape,
     NoOverlapYet, Overlap, Exempt, CompleteNow, SyncedSoFar, ReadSoFar,
     IdleProc
<1> QED BY <1>5, <1>6, <1>7, <1>8, <1>9, <1>10, <1>11, <1>12, <1>13 DEF IInv, Exempt

(* A sync or verify gets the lock. *)
LEMMA AcquireInv ==
  ASSUME IInv, NEW p \in Procs, Acquire(p),
         overlapped' = (overlapped \/ Overlap')
  PROVE  IInv'
<1> DEFINE o == proc[p]
           r == [o EXCEPT !.pc = IF o.op = "sync" THEN "fetch" ELSE "read"]
<1>1. o \in ProcState
  BY DEF IInv, TypeOK
<1>2. r \in ProcState
  BY <1>1 DEF ProcState
<1>3. /\ Step(p, r)
      /\ o.pc = "lock" /\ lock = NoProc /\ lock' = p
      /\ UNCHANGED <<up, index, file, rot, abandoned>>
  BY DEF Acquire
<1>4. /\ proc' = [proc EXCEPT ![p] = r]
      /\ proc' \in [Procs -> ProcState]
  BY <1>2, <1>3, StepType DEF IInv, TypeOK, Step
<1>5. /\ proc'[p] = r /\ \A q \in Procs \ {p} : proc'[q] = proc[q]
      /\ r.pc = IF o.op = "sync" THEN "fetch" ELSE "read"
      /\ r.op = o.op /\ r.at = o.at /\ r.got = o.got /\ r.todo = o.todo /\ r.keep = o.keep /\ r.cancelled = o.cancelled /\ r.rotted = o.rotted
  BY <1>1, <1>4 DEF IInv, TypeOK, ProcState
<1> HIDE DEF r
<1>6. TypeOK'
  BY <1>1, <1>3, <1>4, ApkAssumption DEF IInv, TypeOK, ProcState
<1>7. OpShape'
  BY <1>1, <1>3, <1>4, <1>5, ApkAssumption DEF IInv, TypeOK, OpShape,
     LockShape
<1>8. LockShape'
  <2>1. o.op \in {"sync", "verify"}
    BY <1>1, <1>3 DEF IInv, OpShape, ProcState
  <2>2. \A q \in Procs : lock # q
    BY <1>3, ApkAssumption
  <2> QED BY <1>3, <1>5, <2>1, <2>2 DEF IInv, LockShape
<1>9. NoOverlapYet'
  BY DEF NoOverlapYet
<1>10. VersionOrder'
  <2>1. o.at = 1
    BY <1>3 DEF IInv, OpShape
  <2>2. \A i \in Indexes : ~Fetched(p, i)'
    BY <1>5, <2>1 DEF Fetched, Indexes
  <2>3. \A i \in Indexes, q \in Procs \ {p} : Fetched(q, i)' <=> Fetched(q, i)
    BY <1>5 DEF Fetched
  <2> QED BY <1>3, <1>5, <2>2, <2>3 DEF IInv, VersionOrder
<1>11. Exempt' \/ SyncedSoFar'
  BY <1>1, <1>3, <1>4, <1>5, ApkAssumption DEF IInv, TypeOK, OpShape,
     LockShape, NoOverlapYet, Overlap, Exempt, SyncedSoFar, ReadSoFar,
     VersionOrder, Fetched
<1>12. Exempt' \/ ReadSoFar'
  <2>1. o.at = 1
    BY <1>3 DEF IInv, OpShape
  <2>2. \A i \in Indexes : ~(r.pc = "walk" \/ (r.pc = "read" /\ i < r.at))
    BY <1>5, <2>1 DEF Indexes
  <2> QED BY <1>3, <1>5, <2>2 DEF IInv, TypeOK, Exempt, ReadSoFar
<1>13. Exempt' \/ RepairedSoFar'
  BY <1>1, <1>3, <1>4, <1>5, ApkAssumption DEF IInv, TypeOK, OpShape,
     LockShape, NoOverlapYet, Overlap, Exempt, RepairedSoFar, ReadSoFar,
     Indexes
<1>14. Exempt' \/ CompleteNow'
  BY <1>1, <1>3, <1>4, <1>5, ApkAssumption DEF IInv, TypeOK, OpShape,
     LockShape, NoOverlapYet, Overlap, Exempt, CompleteNow, SyncedSoFar,
     ReadSoFar
<1> QED BY <1>6, <1>7, <1>8, <1>9, <1>10, <1>11, <1>12, <1>13, <1>14 DEF IInv, Exempt

(* A sync fetches an index that is not the last. *)
LEMMA FetchNextInv ==
  ASSUME IInv, NEW p \in Procs, Fetch(p), proc[p].at < NIndexes,
         overlapped' = (overlapped \/ Overlap')
  PROVE  IInv'
<1> DEFINE o == proc[p]
           r == [o EXCEPT !.got = [o.got EXCEPT ![o.at] = up[o.at]], !.at = @ + 1]
<1>1. o \in ProcState
  BY DEF IInv, TypeOK
<1>0. /\ o.at + 1 \in Indexes
      /\ [o.got EXCEPT ![o.at] = up[o.at]] \in [Indexes -> Versions \cup {Absent}]
  <2>1. o.at + 1 \in Indexes
    BY <1>1, ApkAssumption DEF ProcState, Indexes
  <2> QED BY <1>1, <2>1 DEF ProcState, IInv, TypeOK
<1>2. r \in ProcState
  BY <1>1, <1>0 DEF ProcState
<1>3. /\ Step(p, r)
      /\ o.pc = "fetch" /\ o.at < NIndexes
      /\ UNCHANGED <<up, index, file, lock, rot, abandoned>>
  BY <1>1, ApkAssumption DEF Fetch, ProcState, Indexes
<1>4. /\ proc' = [proc EXCEPT ![p] = r]
      /\ proc' \in [Procs -> ProcState]
  BY <1>2, <1>3, StepType DEF IInv, TypeOK, Step
<1>5. /\ proc'[p] = r /\ \A q \in Procs \ {p} : proc'[q] = proc[q]
      /\ r.got = [o.got EXCEPT ![o.at] = up[o.at]]
      /\ r.at = o.at + 1
      /\ r.op = o.op /\ r.pc = o.pc /\ r.todo = o.todo /\ r.keep = o.keep /\ r.cancelled = o.cancelled /\ r.rotted = o.rotted
  BY <1>1, <1>4 DEF IInv, TypeOK, ProcState
<1> HIDE DEF r
<1>6. TypeOK'
  BY <1>1, <1>3, <1>4, ApkAssumption DEF IInv, TypeOK, ProcState
<1>7. OpShape'
  BY <1>1, <1>3, <1>4, <1>5, ApkAssumption DEF IInv, TypeOK, OpShape,
     LockShape
<1>8. LockShape'
  BY <1>1, <1>3, <1>4, <1>5, ApkAssumption DEF IInv, TypeOK, OpShape,
     LockShape
<1>9. NoOverlapYet'
  BY DEF NoOverlapYet
<1>10. VersionOrder'
  <2> SUFFICES ASSUME NEW i \in Indexes
               PROVE  /\ index'[i] <= up'[i]
                      /\ \A q \in Procs : Fetched(q, i)' =>
                           /\ proc'[q].got[i] \in Versions
                           /\ index'[i] <= proc'[q].got[i] /\ proc'[q].got[i] <= up'[i]
    BY DEF VersionOrder
  <2>1. /\ index[i] <= up[i] /\ up[i] \in Versions /\ o.op = "sync"
        /\ index \in [Indexes -> Versions \cup {Absent}]
    BY <1>1, <1>3 DEF IInv, TypeOK, OpShape, VersionOrder, ProcState
  <2>2. \A q \in Procs \ {p} : ~Fetched(q, i)'
    BY <1>3, <1>5, <2>1, Alone DEF Fetched
  <2>3. ASSUME Fetched(p, i)'
        PROVE  /\ r.got[i] \in Versions
               /\ index[i] <= r.got[i] /\ r.got[i] <= up[i]
    <3>1. CASE i = o.at
      BY <1>1, <1>5, <2>1, <3>1, ApkAssumption DEF ProcState, Versions
    <3>2. CASE i # o.at
      <4>1. i < o.at
        BY <1>1, <1>3, <1>5, <2>3, <3>2 DEF Fetched, ProcState, Indexes
      <4>2. Fetched(p, i) /\ r.got[i] = o.got[i]
        BY <1>1, <1>3, <1>5, <3>2, <4>1 DEF Fetched, ProcState
      <4> QED BY <4>2 DEF IInv, VersionOrder
    <3> QED BY <3>1, <3>2
  <2> QED BY <1>3, <1>5, <2>1, <2>2, <2>3
<1>11. Exempt' \/ SyncedSoFar'
  BY <1>1, <1>3, <1>4, <1>5, ApkAssumption DEF IInv, TypeOK, OpShape,
     LockShape, NoOverlapYet, Overlap, Exempt, SyncedSoFar, ReadSoFar,
     VersionOrder, Fetched
<1>12. Exempt' \/ ReadSoFar'
  BY <1>1, <1>3, <1>4, <1>5, ApkAssumption DEF IInv, TypeOK, OpShape,
     LockShape, NoOverlapYet, Overlap, Exempt, ReadSoFar, VersionOrder,
     Fetched, Indexes, Versions, Absent
<1>13. Exempt' \/ RepairedSoFar'
  BY <1>1, <1>3, <1>4, <1>5, ApkAssumption DEF IInv, TypeOK, OpShape,
     LockShape, NoOverlapYet, Overlap, Exempt, RepairedSoFar, ReadSoFar,
     Indexes
<1>14. Exempt' \/ CompleteNow'
  BY <1>1, <1>3, <1>4, <1>5, ApkAssumption DEF IInv, TypeOK, OpShape,
     LockShape, NoOverlapYet, Overlap, Exempt, CompleteNow, SyncedSoFar,
     ReadSoFar
<1> QED BY <1>6, <1>7, <1>8, <1>9, <1>10, <1>11, <1>12, <1>13, <1>14 DEF IInv, Exempt

(* A sync fetches the last index; the pool starts. *)
LEMMA FetchLastInv ==
  ASSUME IInv, NEW p \in Procs, Fetch(p), proc[p].at = NIndexes,
         overlapped' = (overlapped \/ Overlap')
  PROVE  IInv'
<1> DEFINE o == proc[p]
           r == [o EXCEPT !.got = [o.got EXCEPT ![o.at] = up[o.at]], !.at = 1,
                          !.pc = "ensure", !.todo = Named([o.got EXCEPT ![o.at] = up[o.at]])]
<1>1. o \in ProcState
  BY DEF IInv, TypeOK
<1>0. /\ 1 \in Indexes
      /\ [o.got EXCEPT ![o.at] = up[o.at]] \in [Indexes -> Versions \cup {Absent}]
      /\ Named([o.got EXCEPT ![o.at] = up[o.at]]) \in SUBSET Payloads
  <2>1. 1 \in Indexes
    BY ApkAssumption DEF Indexes
  <2>2. [o.got EXCEPT ![o.at] = up[o.at]] \in [Indexes -> Versions \cup {Absent}]
    BY <1>1 DEF ProcState, IInv, TypeOK
  <2> QED BY <2>1, <2>2, NamedType
<1>2. r \in ProcState
  BY <1>1, <1>0 DEF ProcState
<1>3. /\ Step(p, r)
      /\ o.pc = "fetch" /\ o.at = NIndexes
      /\ UNCHANGED <<up, index, file, lock, rot, abandoned>>
  BY <1>1, ApkAssumption DEF Fetch, ProcState, Indexes
<1>4. /\ proc' = [proc EXCEPT ![p] = r]
      /\ proc' \in [Procs -> ProcState]
  BY <1>2, <1>3, StepType DEF IInv, TypeOK, Step
<1>5. /\ proc'[p] = r /\ \A q \in Procs \ {p} : proc'[q] = proc[q]
      /\ r.got = [o.got EXCEPT ![o.at] = up[o.at]]
      /\ r.at = 1 /\ r.pc = "ensure" /\ r.todo = Named(r.got)
      /\ r.op = o.op
  BY <1>1, <1>4 DEF IInv, TypeOK, ProcState
<1> HIDE DEF r
<1>6. TypeOK'
  BY <1>1, <1>3, <1>4, ApkAssumption DEF IInv, TypeOK, ProcState
<1>7. OpShape'
  BY <1>1, <1>3, <1>4, <1>5, ApkAssumption DEF IInv, TypeOK, OpShape,
     LockShape
<1>8. LockShape'
  BY <1>1, <1>3, <1>4, <1>5, ApkAssumption DEF IInv, TypeOK, OpShape,
     LockShape
<1>9. NoOverlapYet'
  BY DEF NoOverlapYet
<1>10. VersionOrder'
  <2> SUFFICES ASSUME NEW i \in Indexes
               PROVE  /\ index'[i] <= up'[i]
                      /\ \A q \in Procs : Fetched(q, i)' =>
                           /\ proc'[q].got[i] \in Versions
                           /\ index'[i] <= proc'[q].got[i] /\ proc'[q].got[i] <= up'[i]
    BY DEF VersionOrder
  <2>1. /\ index[i] <= up[i] /\ up[i] \in Versions /\ o.op = "sync"
        /\ index \in [Indexes -> Versions \cup {Absent}]
    BY <1>1, <1>3 DEF IInv, TypeOK, OpShape, VersionOrder, ProcState
  <2>2. \A q \in Procs \ {p} : ~Fetched(q, i)'
    BY <1>3, <1>5, <2>1, Alone DEF Fetched
  <2>3. ASSUME Fetched(p, i)'
        PROVE  /\ r.got[i] \in Versions
               /\ index[i] <= r.got[i] /\ r.got[i] <= up[i]
    <3>1. CASE i = o.at
      BY <1>1, <1>5, <2>1, <3>1, ApkAssumption DEF ProcState, Versions
    <3>2. CASE i # o.at
      <4>1. i < o.at
        BY <1>1, <1>3, <3>2, ApkAssumption DEF ProcState, Indexes
      <4>2. Fetched(p, i) /\ r.got[i] = o.got[i]
        BY <1>1, <1>3, <1>5, <3>2, <4>1 DEF Fetched, ProcState
      <4> QED BY <4>2 DEF IInv, VersionOrder
    <3> QED BY <3>1, <3>2
  <2> QED BY <1>3, <1>5, <2>1, <2>2, <2>3
<1>11. Exempt' \/ SyncedSoFar'
  <2>1. o.op = "sync" /\ o.pc # "lock"
    BY <1>1, <1>3 DEF IInv, OpShape, ProcState
  <2>2. ~Exempt' => ~Exempt
    BY <1>3 DEF Exempt, IInv, TypeOK
  <2>3. \A q \in Procs \ {p} : proc'[q].pc \notin {"ensure", "publish"}
    BY <1>3, <1>5, <2>1, Alone
  <2>4. ASSUME NEW i \in Indexes PROVE Refs(i, r.got[i]) \subseteq r.todo
    <3>1. r.got[i] # Absent
      <4>1. CASE i = o.at
        BY <1>1, <1>5, <4>1 DEF IInv, TypeOK, ProcState, Versions, Absent
      <4>2. CASE i # o.at
        <5>1. i < o.at
          BY <1>1, <1>3, <4>2, ApkAssumption DEF ProcState, Indexes
        <5>2. o.got[i] \in Versions /\ r.got[i] = o.got[i]
          BY <1>1, <1>3, <1>5, <4>2, <5>1 DEF IInv, VersionOrder, Fetched, ProcState
        <5> QED BY <5>2 DEF Versions, Absent
      <4> QED BY <4>1, <4>2
    <3>2. Refs(i, r.got[i]) \subseteq Named(r.got)
      BY <3>1 DEF Named
    <3> QED BY <1>5, <3>2
  <2> QED BY <1>5, <2>3, <2>4 DEF SyncedSoFar
<1>12. Exempt' \/ ReadSoFar'
  <2>1. o.op = "sync" /\ o.pc # "lock"
    BY <1>1, <1>3 DEF IInv, OpShape, ProcState
  <2>2. ~Exempt' => ~Exempt
    BY <1>3 DEF Exempt, IInv, TypeOK
  <2>3. ~Exempt => \A q \in Procs \ {p} : proc'[q].pc \in {"idle", "lock"}
    BY <1>3, <1>5, <2>1, Alone
  <2>4. ASSUME NEW i \in Indexes
        PROVE  ~(r.pc = "walk" \/ (r.pc = "read" /\ i < r.at))
    BY <1>3, <1>5 DEF Indexes
  <2> QED BY <1>5, <2>2, <2>3, <2>4 DEF ReadSoFar
<1>13. Exempt' \/ RepairedSoFar'
  BY <1>1, <1>3, <1>4, <1>5, ApkAssumption DEF IInv, TypeOK, OpShape,
     LockShape, NoOverlapYet, Overlap, Exempt, RepairedSoFar, ReadSoFar,
     Indexes
<1>14. Exempt' \/ CompleteNow'
  BY <1>1, <1>3, <1>4, <1>5, ApkAssumption DEF IInv, TypeOK, OpShape,
     LockShape, NoOverlapYet, Overlap, Exempt, CompleteNow, SyncedSoFar,
     ReadSoFar
<1> QED BY <1>6, <1>7, <1>8, <1>9, <1>10, <1>11, <1>12, <1>13, <1>14 DEF IInv, Exempt

(* A sync has one package in place. *)
LEMMA EnsureSyncedInv ==
  ASSUME IInv, NEW p \in Procs, NEW f \in Payloads, EnsureSynced(p, f),
         overlapped' = (overlapped \/ Overlap')
  PROVE  IInv'
<1> DEFINE o == proc[p]
           r == [o EXCEPT !.todo = @ \ {f}]
<1>1. o \in ProcState
  BY DEF IInv, TypeOK
<1>2. r \in ProcState
  BY <1>1 DEF ProcState
<1>3. /\ Step(p, r)
      /\ o.pc = "ensure"
      /\ file' = [file EXCEPT ![f] = IF @ = "none" THEN "good" ELSE @]
      /\ UNCHANGED <<up, index, lock, rot, abandoned>>
  BY DEF EnsureSynced
<1>4. /\ proc' = [proc EXCEPT ![p] = r]
      /\ proc' \in [Procs -> ProcState]
  BY <1>2, <1>3, StepType DEF IInv, TypeOK, Step
<1>5. TypeOK'
  BY <1>1, <1>3, <1>4, ApkAssumption DEF IInv, TypeOK, ProcState
<1>6. OpShape'
  BY <1>3, <1>4, ApkAssumption DEF IInv, TypeOK, OpShape, LockShape
<1>7. LockShape'
  BY <1>3, <1>4, ApkAssumption DEF IInv, TypeOK, OpShape, LockShape
<1>8. NoOverlapYet'
  BY DEF NoOverlapYet
<1>9. VersionOrder'
  BY <1>3, <1>4, ApkAssumption DEF IInv, TypeOK, OpShape, LockShape,
     VersionOrder, Fetched, Indexes, Versions, Absent
<1>10. Exempt' \/ SyncedSoFar'
  BY <1>3, <1>4, ApkAssumption DEF IInv, TypeOK, OpShape, LockShape,
     NoOverlapYet, Overlap, Exempt, SyncedSoFar, ReadSoFar, VersionOrder,
     Fetched
<1>11. Exempt' \/ ReadSoFar'
  BY <1>3, <1>4, ApkAssumption DEF IInv, TypeOK, OpShape, LockShape,
     NoOverlapYet, Overlap, Exempt, ReadSoFar, VersionOrder, Fetched,
     Indexes, Versions, Absent
<1>12. Exempt' \/ RepairedSoFar'
  BY <1>3, <1>4, ApkAssumption DEF IInv, TypeOK, OpShape, LockShape,
     NoOverlapYet, Overlap, Exempt, RepairedSoFar, ReadSoFar, Indexes
<1>13. Exempt' \/ CompleteNow'
  BY <1>3, <1>4, ApkAssumption DEF IInv, TypeOK, OpShape, LockShape,
     NoOverlapYet, Overlap, Exempt, CompleteNow, SyncedSoFar, ReadSoFar
<1> QED BY <1>5, <1>6, <1>7, <1>8, <1>9, <1>10, <1>11, <1>12, <1>13 DEF IInv, Exempt

(* The pool of a sync returns. *)
LEMMA EnsureReturnsInv ==
  ASSUME IInv, NEW p \in Procs, EnsureReturns(p),
         overlapped' = (overlapped \/ Overlap')
  PROVE  IInv'
<1> DEFINE o == proc[p]
           r == [o EXCEPT !.pc = "publish", !.todo = {}]
<1>1. o \in ProcState
  BY DEF IInv, TypeOK
<1>2. r \in ProcState
  BY <1>1 DEF ProcState
<1>3. /\ Step(p, r)
      /\ o.pc = "ensure"
      /\ abandoned' = (abandoned \/ o.todo # {})
      /\ UNCHANGED <<up, index, file, lock, rot>>
  BY DEF EnsureReturns
<1>4. /\ proc' = [proc EXCEPT ![p] = r]
      /\ proc' \in [Procs -> ProcState]
  BY <1>2, <1>3, StepType DEF IInv, TypeOK, Step
<1>5. /\ proc'[p] = r /\ \A q \in Procs \ {p} : proc'[q] = proc[q]
      /\ r.pc = "publish" /\ r.got = o.got
      /\ r.op = o.op /\ r.at = o.at
  BY <1>1, <1>4 DEF IInv, TypeOK, ProcState
<1> HIDE DEF r
<1>6. TypeOK'
  BY <1>1, <1>3, <1>4, ApkAssumption DEF IInv, TypeOK, ProcState
<1>7. OpShape'
  BY <1>1, <1>3, <1>4, <1>5, ApkAssumption DEF IInv, TypeOK, OpShape,
     LockShape
<1>8. LockShape'
  BY <1>1, <1>3, <1>4, <1>5, ApkAssumption DEF IInv, TypeOK, OpShape,
     LockShape
<1>9. NoOverlapYet'
  BY DEF NoOverlapYet
<1>10. VersionOrder'
  BY <1>1, <1>3, <1>4, <1>5, ApkAssumption DEF IInv, TypeOK, OpShape,
     LockShape, VersionOrder, Fetched, Indexes, Versions, Absent
<1>11. Exempt' \/ SyncedSoFar'
  <2>1. o.op = "sync" /\ o.pc # "lock"
    BY <1>1, <1>3 DEF IInv, OpShape, ProcState
  <2>2. ~Exempt' => ~Exempt
    BY <1>3 DEF Exempt, IInv, TypeOK
  <2>3. \A q \in Procs \ {p} : proc'[q].pc \notin {"ensure", "publish"}
    BY <1>3, <1>5, <2>1, Alone
  <2>4. ~Exempt' => o.todo = {}
    BY <1>3 DEF Exempt
  <2> QED BY <1>3, <1>5, <2>1, <2>2, <2>3, <2>4 DEF IInv, SyncedSoFar
<1>12. Exempt' \/ ReadSoFar'
  BY <1>1, <1>3, <1>4, <1>5, ApkAssumption DEF IInv, TypeOK, OpShape,
     LockShape, NoOverlapYet, Overlap, Exempt, ReadSoFar, VersionOrder,
     Fetched, Indexes, Versions, Absent
<1>13. Exempt' \/ RepairedSoFar'
  BY <1>1, <1>3, <1>4, <1>5, ApkAssumption DEF IInv, TypeOK, OpShape,
     LockShape, NoOverlapYet, Overlap, Exempt, RepairedSoFar, ReadSoFar,
     Indexes
<1>14. Exempt' \/ CompleteNow'
  BY <1>1, <1>3, <1>4, <1>5, ApkAssumption DEF IInv, TypeOK, OpShape,
     LockShape, NoOverlapYet, Overlap, Exempt, CompleteNow, SyncedSoFar,
     ReadSoFar
<1> QED BY <1>6, <1>7, <1>8, <1>9, <1>10, <1>11, <1>12, <1>13, <1>14 DEF IInv, Exempt

(* A sync replaces an index that is not the last. *)
LEMMA PublishNextInv ==
  ASSUME IInv, NEW p \in Procs, PublishIndex(p), proc[p].at < NIndexes,
         overlapped' = (overlapped \/ Overlap')
  PROVE  IInv'
<1> DEFINE o == proc[p]
           r == [o EXCEPT !.at = @ + 1]
<1>1. o \in ProcState
  BY DEF IInv, TypeOK
<1>0. o.at + 1 \in Indexes
  BY <1>1, ApkAssumption DEF ProcState, Indexes
<1>2. r \in ProcState
  BY <1>1, <1>0 DEF ProcState
<1>3. /\ Step(p, r)
      /\ o.pc = "publish" /\ o.at < NIndexes
      /\ index' = [index EXCEPT ![o.at] = o.got[o.at]]
      /\ UNCHANGED <<up, file, lock, rot, abandoned>>
  BY <1>1, ApkAssumption DEF PublishIndex, Finish, ProcState, Indexes
<1>4. /\ proc' = [proc EXCEPT ![p] = r]
      /\ proc' \in [Procs -> ProcState]
  BY <1>2, <1>3, StepType DEF IInv, TypeOK, Step
<1>5. /\ proc'[p] = r /\ \A q \in Procs \ {p} : proc'[q] = proc[q]
      /\ r.at = o.at + 1
      /\ r.op = o.op /\ r.pc = o.pc /\ r.got = o.got /\ r.todo = o.todo /\ r.keep = o.keep /\ r.cancelled = o.cancelled /\ r.rotted = o.rotted
  BY <1>1, <1>4 DEF IInv, TypeOK, ProcState
<1> HIDE DEF r
<1>6. TypeOK'
  BY <1>1, <1>3, <1>4, ApkAssumption DEF IInv, TypeOK, ProcState
<1>7. OpShape'
  BY <1>1, <1>3, <1>4, <1>5, ApkAssumption DEF IInv, TypeOK, OpShape,
     LockShape
<1>8. LockShape'
  BY <1>1, <1>3, <1>4, <1>5, ApkAssumption DEF IInv, TypeOK, OpShape,
     LockShape
<1>9. NoOverlapYet'
  BY DEF NoOverlapYet
<1>10. VersionOrder'
  <2> SUFFICES ASSUME NEW i \in Indexes
               PROVE  /\ index'[i] <= up'[i]
                      /\ \A q \in Procs : Fetched(q, i)' =>
                           /\ proc'[q].got[i] \in Versions
                           /\ index'[i] <= proc'[q].got[i] /\ proc'[q].got[i] <= up'[i]
    BY DEF VersionOrder
  <2>1. /\ index[i] <= up[i] /\ up[i] \in Versions /\ o.op = "sync"
        /\ index \in [Indexes -> Versions \cup {Absent}]
    BY <1>1, <1>3 DEF IInv, TypeOK, OpShape, VersionOrder, ProcState
  <2>2. \A q \in Procs \ {p} : ~Fetched(q, i)'
    BY <1>3, <1>5, <2>1, Alone DEF Fetched
  <2>3. /\ o.got[i] \in Versions
        /\ index[i] <= o.got[i] /\ o.got[i] <= up[i]
    BY <1>3 DEF IInv, VersionOrder, Fetched
  <2>4. index'[i] = IF i = o.at THEN o.got[i] ELSE index[i]
    BY <1>3, <2>1
  <2>5. Fetched(p, i)' => r.got = o.got
    BY <1>5 DEF Fetched
  <2> QED BY <1>3, <1>5, <2>1, <2>2, <2>3, <2>4, <2>5 DEF Versions
<1>11. Exempt' \/ SyncedSoFar'
  BY <1>1, <1>3, <1>4, <1>5, ApkAssumption DEF IInv, TypeOK, OpShape,
     LockShape, NoOverlapYet, Overlap, Exempt, SyncedSoFar, ReadSoFar,
     VersionOrder, Fetched
<1>12. Exempt' \/ ReadSoFar'
  <2>1. o.op = "sync" /\ o.pc # "lock"
    BY <1>1, <1>3 DEF IInv, OpShape, ProcState
  <2>2. ~Exempt' => ~Exempt
    BY <1>3 DEF Exempt, IInv, TypeOK
  <2>3. ~Exempt => \A q \in Procs \ {p} : proc'[q].pc \in {"idle", "lock"}
    BY <1>3, <1>5, <2>1, Alone
  <2>4. ASSUME NEW i \in Indexes
        PROVE  ~(r.pc = "walk" \/ (r.pc = "read" /\ i < r.at))
    BY <1>3, <1>5 DEF Indexes
  <2> QED BY <1>5, <2>2, <2>3, <2>4 DEF ReadSoFar
<1>13. Exempt' \/ RepairedSoFar'
  <2>1. o.op = "sync" /\ o.pc # "lock"
    BY <1>1, <1>3 DEF IInv, OpShape, ProcState
  <2>2. ~Exempt' => ~Exempt
    BY <1>3 DEF Exempt, IInv, TypeOK
  <2>3. \A q \in Procs \ {p} : proc'[q].pc # "repair"
    BY <1>3, <1>5, <2>1, Alone
  <2> QED BY <1>3, <1>5, <2>3 DEF RepairedSoFar
<1>14. Exempt' \/ CompleteNow'
  BY <1>1, <1>3, <1>4, <1>5, ApkAssumption DEF IInv, TypeOK, OpShape,
     LockShape, NoOverlapYet, Overlap, Exempt, CompleteNow, SyncedSoFar,
     ReadSoFar
<1> QED BY <1>6, <1>7, <1>8, <1>9, <1>10, <1>11, <1>12, <1>13, <1>14 DEF IInv, Exempt

(* A sync replaces the last index and goes on to prune. *)
LEMMA PublishLastInv ==
  ASSUME IInv, NEW p \in Procs, PublishIndex(p), proc[p].at = NIndexes, PruneOnSync,
         overlapped' = (overlapped \/ Overlap')
  PROVE  IInv'
<1> DEFINE o == proc[p]
           r == [o EXCEPT !.at = 1, !.pc = "read"]
<1>1. o \in ProcState
  BY DEF IInv, TypeOK
<1>0. 1 \in Indexes
  BY ApkAssumption DEF Indexes
<1>2. r \in ProcState
  BY <1>1, <1>0 DEF ProcState
<1>3. /\ Step(p, r)
      /\ o.pc = "publish" /\ o.at = NIndexes
      /\ index' = [index EXCEPT ![o.at] = o.got[o.at]]
      /\ UNCHANGED <<up, file, lock, rot, abandoned>>
  BY <1>1, ApkAssumption DEF PublishIndex, Finish, ProcState, Indexes
<1>4. /\ proc' = [proc EXCEPT ![p] = r]
      /\ proc' \in [Procs -> ProcState]
  BY <1>2, <1>3, StepType DEF IInv, TypeOK, Step
<1>5. /\ proc'[p] = r /\ \A q \in Procs \ {p} : proc'[q] = proc[q]
      /\ r.at = 1 /\ r.pc = "read"
      /\ r.op = o.op /\ r.got = o.got /\ r.todo = o.todo /\ r.keep = o.keep /\ r.cancelled = o.cancelled /\ r.rotted = o.rotted
  BY <1>1, <1>4 DEF IInv, TypeOK, ProcState
<1> HIDE DEF r
<1>6. TypeOK'
  BY <1>1, <1>3, <1>4, ApkAssumption DEF IInv, TypeOK, ProcState
<1>7. OpShape'
  BY <1>1, <1>3, <1>4, <1>5, ApkAssumption DEF IInv, TypeOK, OpShape,
     LockShape
<1>8. LockShape'
  BY <1>1, <1>3, <1>4, <1>5, ApkAssumption DEF IInv, TypeOK, OpShape,
     LockShape
<1>9. NoOverlapYet'
  BY DEF NoOverlapYet
<1>10. VersionOrder'
  <2> SUFFICES ASSUME NEW i \in Indexes
               PROVE  /\ index'[i] <= up'[i]
                      /\ \A q \in Procs : Fetched(q, i)' =>
                           /\ proc'[q].got[i] \in Versions
                           /\ index'[i] <= proc'[q].got[i] /\ proc'[q].got[i] <= up'[i]
    BY DEF VersionOrder
  <2>1. /\ index[i] <= up[i] /\ up[i] \in Versions /\ o.op = "sync"
        /\ index \in [Indexes -> Versions \cup {Absent}]
    BY <1>1, <1>3 DEF IInv, TypeOK, OpShape, VersionOrder, ProcState
  <2>2. \A q \in Procs \ {p} : ~Fetched(q, i)'
    BY <1>3, <1>5, <2>1, Alone DEF Fetched
  <2>3. /\ o.got[i] \in Versions
        /\ index[i] <= o.got[i] /\ o.got[i] <= up[i]
    BY <1>3 DEF IInv, VersionOrder, Fetched
  <2>4. index'[i] = IF i = o.at THEN o.got[i] ELSE index[i]
    BY <1>3, <2>1
  <2>5. Fetched(p, i)' => r.got = o.got
    BY <1>5 DEF Fetched
  <2> QED BY <1>3, <1>5, <2>1, <2>2, <2>3, <2>4, <2>5 DEF Versions
<1>11. Exempt' \/ SyncedSoFar'
  BY <1>1, <1>3, <1>4, <1>5, ApkAssumption DEF IInv, TypeOK, OpShape,
     LockShape, NoOverlapYet, Overlap, Exempt, SyncedSoFar, ReadSoFar,
     VersionOrder, Fetched
<1>12. Exempt' \/ ReadSoFar'
  <2>1. o.op = "sync" /\ o.pc # "lock"
    BY <1>1, <1>3 DEF IInv, OpShape, ProcState
  <2>2. ~Exempt' => ~Exempt
    BY <1>3 DEF Exempt, IInv, TypeOK
  <2>3. ~Exempt => \A q \in Procs \ {p} : proc'[q].pc \in {"idle", "lock"}
    BY <1>3, <1>5, <2>1, Alone
  <2>4. ASSUME NEW i \in Indexes
        PROVE  ~(r.pc = "walk" \/ (r.pc = "read" /\ i < r.at))
    BY <1>3, <1>5 DEF Indexes
  <2> QED BY <1>5, <2>2, <2>3, <2>4 DEF ReadSoFar
<1>13. Exempt' \/ RepairedSoFar'
  <2>1. o.op = "sync" /\ o.pc # "lock"
    BY <1>1, <1>3 DEF IInv, OpShape, ProcState
  <2>2. ~Exempt' => ~Exempt
    BY <1>3 DEF Exempt, IInv, TypeOK
  <2>3. \A q \in Procs \ {p} : proc'[q].pc # "repair"
    BY <1>3, <1>5, <2>1, Alone
  <2> QED BY <1>3, <1>5, <2>3 DEF RepairedSoFar
<1>14. Exempt' \/ CompleteNow'
  BY <1>1, <1>3, <1>4, <1>5, ApkAssumption DEF IInv, TypeOK, OpShape,
     LockShape, NoOverlapYet, Overlap, Exempt, CompleteNow, SyncedSoFar,
     ReadSoFar
<1> QED BY <1>6, <1>7, <1>8, <1>9, <1>10, <1>11, <1>12, <1>13, <1>14 DEF IInv, Exempt

(* A sync that does not prune replaces the last index and returns. *)
LEMMA PublishEndInv ==
  ASSUME IInv, NEW p \in Procs, PublishIndex(p), proc[p].at = NIndexes, ~PruneOnSync,
         overlapped' = (overlapped \/ Overlap')
  PROVE  IInv'
<1> DEFINE o == proc[p]
           r == IdleProc
<1>1. o \in ProcState
  BY DEF IInv, TypeOK
<1>2. r \in ProcState
  BY IdleType
<1>3. /\ Step(p, r)
      /\ o.pc = "publish" /\ o.at = NIndexes
      /\ index' = [index EXCEPT ![o.at] = o.got[o.at]]
      /\ lock' = IF lock = p THEN NoProc ELSE lock
      /\ UNCHANGED <<up, file, rot, abandoned>>
  BY <1>1, ApkAssumption DEF PublishIndex, Finish, ProcState, Indexes
<1>4. /\ proc' = [proc EXCEPT ![p] = r]
      /\ proc' \in [Procs -> ProcState]
  BY <1>2, <1>3, StepType DEF IInv, TypeOK, Step
<1>5. /\ proc'[p] = r /\ \A q \in Procs \ {p} : proc'[q] = proc[q]
      /\ r.op = "none" /\ r.pc = "idle"
  BY <1>1, <1>4 DEF IInv, TypeOK, ProcState, IdleProc
<1> HIDE DEF r
<1>6. TypeOK'
  BY <1>1, <1>3, <1>4, ApkAssumption DEF IInv, TypeOK, ProcState
<1>7. OpShape'
  BY <1>1, <1>3, <1>4, <1>5, ApkAssumption DEF IInv, TypeOK, OpShape,
     LockShape, IdleProc
<1>8. LockShape'
  BY <1>1, <1>3, <1>4, <1>5, ApkAssumption DEF IInv, TypeOK, OpShape,
     LockShape, IdleProc
<1>9. NoOverlapYet'
  BY DEF NoOverlapYet
<1>10. VersionOrder'
  <2> SUFFICES ASSUME NEW i \in Indexes
               PROVE  /\ index'[i] <= up'[i]
                      /\ \A q \in Procs : Fetched(q, i)' =>
                           /\ proc'[q].got[i] \in Versions
                           /\ index'[i] <= proc'[q].got[i] /\ proc'[q].got[i] <= up'[i]
    BY DEF VersionOrder
  <2>1. /\ index[i] <= up[i] /\ up[i] \in Versions /\ o.op = "sync"
        /\ index \in [Indexes -> Versions \cup {Absent}]
    BY <1>1, <1>3 DEF IInv, TypeOK, OpShape, VersionOrder, ProcState
  <2>2. \A q \in Procs \ {p} : ~Fetched(q, i)'
    BY <1>3, <1>5, <2>1, Alone DEF Fetched
  <2>3. /\ o.got[i] \in Versions
        /\ index[i] <= o.got[i] /\ o.got[i] <= up[i]
    BY <1>3 DEF IInv, VersionOrder, Fetched
  <2>4. index'[i] = IF i = o.at THEN o.got[i] ELSE index[i]
    BY <1>3, <2>1
  <2>5. Fetched(p, i)' => r.got = o.got
    BY <1>5 DEF Fetched
  <2> QED BY <1>3, <1>5, <2>1, <2>2, <2>3, <2>4, <2>5 DEF Versions
<1>11. Exempt' \/ SyncedSoFar'
  BY <1>1, <1>3, <1>4, <1>5, ApkAssumption DEF IInv, TypeOK, OpShape,
     LockShape, NoOverlapYet, Overlap, Exempt, SyncedSoFar, ReadSoFar,
     VersionOrder, Fetched, IdleProc
<1>12. Exempt' \/ ReadSoFar'
  <2>1. o.op = "sync" /\ o.pc # "lock"
    BY <1>1, <1>3 DEF IInv, OpShape, ProcState
  <2>2. ~Exempt' => ~Exempt
    BY <1>3 DEF Exempt, IInv, TypeOK
  <2>3. ~Exempt => \A q \in Procs \ {p} : proc'[q].pc \in {"idle", "lock"}
    BY <1>3, <1>5, <2>1, Alone
  <2>4. ASSUME NEW i \in Indexes
        PROVE  ~(r.pc = "walk" \/ (r.pc = "read" /\ i < r.at))
    BY <1>3, <1>5 DEF Indexes
  <2> QED BY <1>5, <2>2, <2>3, <2>4 DEF ReadSoFar
<1>13. Exempt' \/ RepairedSoFar'
  <2>1. o.op = "sync" /\ o.pc # "lock"
    BY <1>1, <1>3 DEF IInv, OpShape, ProcState
  <2>2. ~Exempt' => ~Exempt
    BY <1>3 DEF Exempt, IInv, TypeOK
  <2>3. \A q \in Procs \ {p} : proc'[q].pc # "repair"
    BY <1>3, <1>5, <2>1, Alone
  <2> QED BY <1>3, <1>5, <2>3 DEF RepairedSoFar
<1>14. Exempt' \/ CompleteNow'
  BY <1>1, <1>3, <1>4, <1>5, ApkAssumption DEF IInv, TypeOK, OpShape,
     LockShape, NoOverlapYet, Overlap, Exempt, CompleteNow, SyncedSoFar,
     ReadSoFar, IdleProc
<1> QED BY <1>6, <1>7, <1>8, <1>9, <1>10, <1>11, <1>12, <1>13, <1>14 DEF IInv, Exempt

(* An index that is not the last is read. *)
LEMMA ReadNextInv ==
  ASSUME IInv, NEW p \in Procs, ReadIndex(p), proc[p].at < NIndexes,
         overlapped' = (overlapped \/ Overlap')
  PROVE  IInv'
<1> DEFINE o == proc[p]
           r == [o EXCEPT !.keep = o.keep \cup Refs(o.at, index[o.at]), !.at = @ + 1]
<1>1. o \in ProcState
  BY DEF IInv, TypeOK
<1>0. o.at + 1 \in Indexes /\ Refs(o.at, index[o.at]) \subseteq Payloads
  <2>1. index[o.at] # Absent
    BY DEF ReadIndex
  <2> QED BY <1>1, <2>1, ApkAssumption DEF ProcState, IInv, TypeOK, Indexes
<1>2. r \in ProcState
  BY <1>1, <1>0 DEF ProcState
<1>3. /\ Step(p, r)
      /\ o.pc = "read" /\ o.at < NIndexes /\ index[o.at] # Absent
      /\ UNCHANGED <<up, index, file, lock, rot, abandoned>>
  BY <1>1, ApkAssumption DEF ReadIndex, ProcState, Indexes
<1>4. /\ proc' = [proc EXCEPT ![p] = r]
      /\ proc' \in [Procs -> ProcState]
  BY <1>2, <1>3, StepType DEF IInv, TypeOK, Step
<1>5. /\ proc'[p] = r /\ \A q \in Procs \ {p} : proc'[q] = proc[q]
      /\ r.at = o.at + 1
      /\ r.keep = o.keep \cup Refs(o.at, index[o.at])
      /\ r.op = o.op /\ r.pc = o.pc
  BY <1>1, <1>4 DEF IInv, TypeOK, ProcState
<1> HIDE DEF r
<1>6. TypeOK'
  BY <1>1, <1>3, <1>4, ApkAssumption DEF IInv, TypeOK, ProcState
<1>7. OpShape'
  BY <1>1, <1>3, <1>4, <1>5, ApkAssumption DEF IInv, TypeOK, OpShape,
     LockShape
<1>8. LockShape'
  BY <1>1, <1>3, <1>4, <1>5, ApkAssumption DEF IInv, TypeOK, OpShape,
     LockShape
<1>9. NoOverlapYet'
  BY DEF NoOverlapYet
<1>10. VersionOrder'
  BY <1>1, <1>3, <1>4, <1>5, ApkAssumption DEF IInv, TypeOK, OpShape,
     LockShape, VersionOrder, Fetched, Indexes, Versions, Absent
<1>11. Exempt' \/ SyncedSoFar'
  BY <1>1, <1>3, <1>4, <1>5, ApkAssumption DEF IInv, TypeOK, OpShape,
     LockShape, NoOverlapYet, Overlap, Exempt, SyncedSoFar, ReadSoFar,
     VersionOrder, Fetched
<1>12. Exempt' \/ ReadSoFar'
  <2> SUFFICES ASSUME ~Exempt', NEW q \in Procs, NEW i \in Indexes,
                      proc'[q].pc = "walk" \/ (proc'[q].pc = "read" /\ i < proc'[q].at)
               PROVE  index[i] # Absent /\ Refs(i, index[i]) \subseteq proc'[q].keep
    BY <1>3 DEF ReadSoFar
  <2>1. ReadSoFar
    BY <1>3 DEF IInv, TypeOK, Exempt
  <2>2. CASE q # p
    BY <1>5, <2>1, <2>2 DEF ReadSoFar
  <2>3. CASE q = p /\ i = o.at
    BY <1>3, <1>5, <2>3
  <2>4. CASE q = p /\ i # o.at
    <3>1. i < o.at
      BY <1>1, <1>3, <1>5, <2>4 DEF ProcState, Indexes
    <3> QED BY <1>3, <1>5, <2>1, <2>4, <3>1 DEF ReadSoFar
  <2> QED BY <2>2, <2>3, <2>4
<1>13. Exempt' \/ RepairedSoFar'
  BY <1>1, <1>3, <1>4, <1>5, ApkAssumption DEF IInv, TypeOK, OpShape,
     LockShape, NoOverlapYet, Overlap, Exempt, RepairedSoFar, ReadSoFar,
     Indexes
<1>14. Exempt' \/ CompleteNow'
  BY <1>1, <1>3, <1>4, <1>5, ApkAssumption DEF IInv, TypeOK, OpShape,
     LockShape, NoOverlapYet, Overlap, Exempt, CompleteNow, SyncedSoFar,
     ReadSoFar
<1> QED BY <1>6, <1>7, <1>8, <1>9, <1>10, <1>11, <1>12, <1>13, <1>14 DEF IInv, Exempt

(* Verify reads the last index; the repairs start. *)
LEMMA ReadVerifyInv ==
  ASSUME IInv, NEW p \in Procs, ReadIndex(p), proc[p].at = NIndexes, proc[p].op = "verify",
         overlapped' = (overlapped \/ Overlap')
  PROVE  IInv'
<1> DEFINE o == proc[p]
           r == [o EXCEPT !.at = 1, !.pc = "repair",
                          !.todo = o.keep \cup Refs(o.at, index[o.at]), !.keep = {}]
<1>1. o \in ProcState
  BY DEF IInv, TypeOK
<1>0. 1 \in Indexes /\ Refs(o.at, index[o.at]) \subseteq Payloads
  <2>1. index[o.at] # Absent
    BY DEF ReadIndex
  <2> QED BY <1>1, <2>1, ApkAssumption DEF ProcState, IInv, TypeOK, Indexes
<1>2. r \in ProcState
  BY <1>1, <1>0 DEF ProcState
<1>3. /\ Step(p, r)
      /\ o.pc = "read" /\ o.op = "verify" /\ o.at = NIndexes /\ index[o.at] # Absent
      /\ UNCHANGED <<up, index, file, lock, rot, abandoned>>
  BY <1>1, ApkAssumption DEF ReadIndex, ProcState, Indexes
<1>4. /\ proc' = [proc EXCEPT ![p] = r]
      /\ proc' \in [Procs -> ProcState]
  BY <1>2, <1>3, StepType DEF IInv, TypeOK, Step
<1>5. TypeOK'
  BY <1>1, <1>3, <1>4, ApkAssumption DEF IInv, TypeOK, ProcState
<1>6. OpShape'
  BY <1>3, <1>4, ApkAssumption DEF IInv, TypeOK, OpShape, LockShape
<1>7. LockShape'
  BY <1>3, <1>4, ApkAssumption DEF IInv, TypeOK, OpShape, LockShape
<1>8. NoOverlapYet'
  BY DEF NoOverlapYet
<1>9. VersionOrder'
  BY <1>3, <1>4, ApkAssumption DEF IInv, TypeOK, OpShape, LockShape,
     VersionOrder, Fetched, Indexes, Versions, Absent
<1>10. Exempt' \/ SyncedSoFar'
  BY <1>3, <1>4, ApkAssumption DEF IInv, TypeOK, OpShape, LockShape,
     NoOverlapYet, Overlap, Exempt, SyncedSoFar, ReadSoFar, VersionOrder,
     Fetched
<1>11. Exempt' \/ ReadSoFar'
  BY <1>3, <1>4, ApkAssumption DEF IInv, TypeOK, OpShape, LockShape,
     NoOverlapYet, Overlap, Exempt, ReadSoFar, VersionOrder, Fetched,
     Indexes, Versions, Absent
<1>12. Exempt' \/ RepairedSoFar'
  BY <1>3, <1>4, ApkAssumption DEF IInv, TypeOK, OpShape, LockShape,
     NoOverlapYet, Overlap, Exempt, RepairedSoFar, ReadSoFar, Indexes
<1>13. Exempt' \/ CompleteNow'
  BY <1>3, <1>4, ApkAssumption DEF IInv, TypeOK, OpShape, LockShape,
     NoOverlapYet, Overlap, Exempt, CompleteNow, SyncedSoFar, ReadSoFar
<1> QED BY <1>5, <1>6, <1>7, <1>8, <1>9, <1>10, <1>11, <1>12, <1>13 DEF IInv, Exempt

(* A prune reads the last index; the walk starts. *)
LEMMA ReadPruneInv ==
  ASSUME IInv, NEW p \in Procs, ReadIndex(p), proc[p].at = NIndexes, proc[p].op # "verify",
         overlapped' = (overlapped \/ Overlap')
  PROVE  IInv'
<1> DEFINE o == proc[p]
           r == [o EXCEPT !.at = 1, !.pc = "walk",
                          !.keep = o.keep \cup Refs(o.at, index[o.at])]
<1>1. o \in ProcState
  BY DEF IInv, TypeOK
<1>0. 1 \in Indexes /\ Refs(o.at, index[o.at]) \subseteq Payloads
  <2>1. index[o.at] # Absent
    BY DEF ReadIndex
  <2> QED BY <1>1, <2>1, ApkAssumption DEF ProcState, IInv, TypeOK, Indexes
<1>2. r \in ProcState
  BY <1>1, <1>0 DEF ProcState
<1>3. /\ Step(p, r)
      /\ o.pc = "read" /\ o.op # "verify" /\ o.at = NIndexes /\ index[o.at] # Absent
      /\ UNCHANGED <<up, index, file, lock, rot, abandoned>>
  BY <1>1, ApkAssumption DEF ReadIndex, ProcState, Indexes
<1>4. /\ proc' = [proc EXCEPT ![p] = r]
      /\ proc' \in [Procs -> ProcState]
  BY <1>2, <1>3, StepType DEF IInv, TypeOK, Step
<1>5. TypeOK'
  BY <1>1, <1>3, <1>4, ApkAssumption DEF IInv, TypeOK, ProcState
<1>6. OpShape'
  BY <1>3, <1>4, ApkAssumption DEF IInv, TypeOK, OpShape, LockShape
<1>7. LockShape'
  BY <1>3, <1>4, ApkAssumption DEF IInv, TypeOK, OpShape, LockShape
<1>8. NoOverlapYet'
  BY DEF NoOverlapYet
<1>9. VersionOrder'
  BY <1>3, <1>4, ApkAssumption DEF IInv, TypeOK, OpShape, LockShape,
     VersionOrder, Fetched, Indexes, Versions, Absent
<1>10. Exempt' \/ SyncedSoFar'
  BY <1>3, <1>4, ApkAssumption DEF IInv, TypeOK, OpShape, LockShape,
     NoOverlapYet, Overlap, Exempt, SyncedSoFar, ReadSoFar, VersionOrder,
     Fetched
<1>11. Exempt' \/ ReadSoFar'
  BY <1>3, <1>4, ApkAssumption DEF IInv, TypeOK, OpShape, LockShape,
     NoOverlapYet, Overlap, Exempt, ReadSoFar, VersionOrder, Fetched,
     Indexes, Versions, Absent
<1>12. Exempt' \/ RepairedSoFar'
  BY <1>3, <1>4, ApkAssumption DEF IInv, TypeOK, OpShape, LockShape,
     NoOverlapYet, Overlap, Exempt, RepairedSoFar, ReadSoFar, Indexes
<1>13. Exempt' \/ CompleteNow'
  BY <1>3, <1>4, ApkAssumption DEF IInv, TypeOK, OpShape, LockShape,
     NoOverlapYet, Overlap, Exempt, CompleteNow, SyncedSoFar, ReadSoFar
<1> QED BY <1>5, <1>6, <1>7, <1>8, <1>9, <1>10, <1>11, <1>12, <1>13 DEF IInv, Exempt

(* A verify has one package repaired. *)
LEMMA EnsureRepairedInv ==
  ASSUME IInv, NEW p \in Procs, NEW f \in Payloads, EnsureRepaired(p, f),
         overlapped' = (overlapped \/ Overlap')
  PROVE  IInv'
<1> DEFINE o == proc[p]
           r == [o EXCEPT !.todo = @ \ {f}]
<1>1. o \in ProcState
  BY DEF IInv, TypeOK
<1>2. r \in ProcState
  BY <1>1 DEF ProcState
<1>3. /\ Step(p, r)
      /\ o.pc = "repair"
      /\ file' = [file EXCEPT ![f] = "good"]
      /\ UNCHANGED <<up, index, lock, rot, abandoned>>
  BY DEF EnsureRepaired
<1>4. /\ proc' = [proc EXCEPT ![p] = r]
      /\ proc' \in [Procs -> ProcState]
  BY <1>2, <1>3, StepType DEF IInv, TypeOK, Step
<1>5. TypeOK'
  BY <1>1, <1>3, <1>4, ApkAssumption DEF IInv, TypeOK, ProcState
<1>6. OpShape'
  BY <1>3, <1>4, ApkAssumption DEF IInv, TypeOK, OpShape, LockShape
<1>7. LockShape'
  BY <1>3, <1>4, ApkAssumption DEF IInv, TypeOK, OpShape, LockShape
<1>8. NoOverlapYet'
  BY DEF NoOverlapYet
<1>9. VersionOrder'
  BY <1>3, <1>4, ApkAssumption DEF IInv, TypeOK, OpShape, LockShape,
     VersionOrder, Fetched, Indexes, Versions, Absent
<1>10. Exempt' \/ SyncedSoFar'
  BY <1>3, <1>4, ApkAssumption DEF IInv, TypeOK, OpShape, LockShape,
     NoOverlapYet, Overlap, Exempt, SyncedSoFar, ReadSoFar, VersionOrder,
     Fetched
<1>11. Exempt' \/ ReadSoFar'
  BY <1>3, <1>4, ApkAssumption DEF IInv, TypeOK, OpShape, LockShape,
     NoOverlapYet, Overlap, Exempt, ReadSoFar, VersionOrder, Fetched,
     Indexes, Versions, Absent
<1>12. Exempt' \/ RepairedSoFar'
  BY <1>3, <1>4, ApkAssumption DEF IInv, TypeOK, OpShape, LockShape,
     NoOverlapYet, Overlap, Exempt, RepairedSoFar, ReadSoFar, Indexes
<1>13. Exempt' \/ CompleteNow'
  BY <1>3, <1>4, ApkAssumption DEF IInv, TypeOK, OpShape, LockShape,
     NoOverlapYet, Overlap, Exempt, CompleteNow, SyncedSoFar, ReadSoFar
<1> QED BY <1>5, <1>6, <1>7, <1>8, <1>9, <1>10, <1>11, <1>12, <1>13 DEF IInv, Exempt

(* A prune unlinks a file. *)
LEMMA PruneFileInv ==
  ASSUME IInv, NEW p \in Procs, NEW f \in Payloads, PruneFile(p, f),
         overlapped' = (overlapped \/ Overlap')
  PROVE  IInv'
<1>1. TypeOK'
  BY ApkAssumption DEF IInv, TypeOK, PruneFile
<1>2. OpShape'
  BY ApkAssumption DEF IInv, TypeOK, OpShape, LockShape, PruneFile
<1>3. LockShape'
  BY ApkAssumption DEF IInv, TypeOK, OpShape, LockShape, PruneFile
<1>4. NoOverlapYet'
  BY DEF NoOverlapYet
<1>5. VersionOrder'
  BY ApkAssumption DEF IInv, TypeOK, OpShape, LockShape, VersionOrder,
     Fetched, PruneFile, Indexes, Versions, Absent
<1>6. Exempt' \/ SyncedSoFar'
  <2> SUFFICES ASSUME ~Exempt' PROVE SyncedSoFar'
    OBVIOUS
  <2>1. ~Exempt /\ SyncedSoFar
    BY DEF IInv, TypeOK, Exempt, PruneFile
  <2>2. ASSUME NEW q \in Procs, proc[q].pc \in {"ensure", "publish"} PROVE FALSE
    <3>1. q # p /\ proc[q].op = "sync"
      BY <2>2 DEF PruneFile, IInv, TypeOK, ProcState, OpShape
    <3>2. proc[p].pc \in {"idle", "lock"}
      BY <2>1, <2>2, <3>1, Alone
    <3> QED BY <3>2 DEF PruneFile
  <2> QED BY <2>2 DEF SyncedSoFar, PruneFile
<1>7. Exempt' \/ ReadSoFar'
  BY ApkAssumption DEF IInv, TypeOK, OpShape, LockShape, NoOverlapYet,
     Overlap, Exempt, ReadSoFar, VersionOrder, Fetched, PruneFile, Indexes,
     Versions, Absent
<1>8. Exempt' \/ RepairedSoFar'
  BY ApkAssumption DEF IInv, TypeOK, OpShape, LockShape, NoOverlapYet,
     Overlap, Exempt, RepairedSoFar, ReadSoFar, PruneFile, Indexes
<1>9. Exempt' \/ CompleteNow'
  BY ApkAssumption DEF IInv, TypeOK, OpShape, LockShape, NoOverlapYet,
     Overlap, Exempt, CompleteNow, SyncedSoFar, ReadSoFar, PruneFile
<1> QED BY <1>1, <1>2, <1>3, <1>4, <1>5, <1>6, <1>7, <1>8, <1>9 DEF IInv, Exempt

(* An operation returns, fails or crashes. *)
LEMMA FinishInv ==
  ASSUME IInv, NEW p \in Procs, proc[p].pc # "idle", Finish(p),
         UNCHANGED <<up, index, file, rot, abandoned>>,
         overlapped' = (overlapped \/ Overlap')
  PROVE  IInv'
<1> DEFINE o == proc[p]
           r == IdleProc
<1>1. o \in ProcState
  BY DEF IInv, TypeOK
<1>2. r \in ProcState
  BY IdleType
<1>3. /\ Step(p, r)
      /\ o.pc # "idle"
      /\ lock' = IF lock = p THEN NoProc ELSE lock
      /\ UNCHANGED <<up, index, file, rot, abandoned>>
  BY DEF Finish
<1>4. /\ proc' = [proc EXCEPT ![p] = r]
      /\ proc' \in [Procs -> ProcState]
  BY <1>2, <1>3, StepType DEF IInv, TypeOK, Step
<1>5. TypeOK'
  BY <1>1, <1>3, <1>4, ApkAssumption DEF IInv, TypeOK, ProcState
<1>6. OpShape'
  BY <1>3, <1>4, ApkAssumption DEF IInv, TypeOK, OpShape, LockShape,
     IdleProc
<1>7. LockShape'
  BY <1>3, <1>4, ApkAssumption DEF IInv, TypeOK, OpShape, LockShape,
     IdleProc
<1>8. NoOverlapYet'
  BY DEF NoOverlapYet
<1>9. VersionOrder'
  BY <1>3, <1>4, ApkAssumption DEF IInv, TypeOK, OpShape, LockShape,
     VersionOrder, Fetched, IdleProc, Indexes, Versions, Absent
<1>10. Exempt' \/ SyncedSoFar'
  BY <1>3, <1>4, ApkAssumption DEF IInv, TypeOK, OpShape, LockShape,
     NoOverlapYet, Overlap, Exempt, SyncedSoFar, ReadSoFar, VersionOrder,
     Fetched, IdleProc
<1>11. Exempt' \/ ReadSoFar'
  BY <1>3, <1>4, ApkAssumption DEF IInv, TypeOK, OpShape, LockShape,
     NoOverlapYet, Overlap, Exempt, ReadSoFar, VersionOrder, Fetched,
     IdleProc, Indexes, Versions, Absent
<1>12. Exempt' \/ RepairedSoFar'
  BY <1>3, <1>4, ApkAssumption DEF IInv, TypeOK, OpShape, LockShape,
     NoOverlapYet, Overlap, Exempt, RepairedSoFar, ReadSoFar, IdleProc,
     Indexes
<1>13. Exempt' \/ CompleteNow'
  BY <1>3, <1>4, ApkAssumption DEF IInv, TypeOK, OpShape, LockShape,
     NoOverlapYet, Overlap, Exempt, CompleteNow, SyncedSoFar, ReadSoFar,
     IdleProc
<1> QED BY <1>5, <1>6, <1>7, <1>8, <1>9, <1>10, <1>11, <1>12, <1>13 DEF IInv, Exempt

(* The context of an operation is cancelled. *)
LEMMA CancelInv ==
  ASSUME IInv, NEW p \in Procs, Cancel(p),
         overlapped' = (overlapped \/ Overlap')
  PROVE  IInv'
<1> DEFINE o == proc[p]
           r == [o EXCEPT !.cancelled = TRUE]
<1>1. o \in ProcState
  BY DEF IInv, TypeOK
<1>2. r \in ProcState
  BY <1>1 DEF ProcState
<1>3. /\ Step(p, r)
      /\ UNCHANGED <<up, index, file, lock, rot, abandoned>>
  BY DEF Cancel
<1>4. /\ proc' = [proc EXCEPT ![p] = r]
      /\ proc' \in [Procs -> ProcState]
  BY <1>2, <1>3, StepType DEF IInv, TypeOK, Step
<1>5. TypeOK'
  BY <1>1, <1>3, <1>4, ApkAssumption DEF IInv, TypeOK, ProcState
<1>6. OpShape'
  BY <1>3, <1>4, ApkAssumption DEF IInv, TypeOK, OpShape, LockShape
<1>7. LockShape'
  BY <1>3, <1>4, ApkAssumption DEF IInv, TypeOK, OpShape, LockShape
<1>8. NoOverlapYet'
  BY DEF NoOverlapYet
<1>9. VersionOrder'
  BY <1>3, <1>4, ApkAssumption DEF IInv, TypeOK, OpShape, LockShape,
     VersionOrder, Fetched, Indexes, Versions, Absent
<1>10. Exempt' \/ SyncedSoFar'
  BY <1>3, <1>4, ApkAssumption DEF IInv, TypeOK, OpShape, LockShape,
     NoOverlapYet, Overlap, Exempt, SyncedSoFar, ReadSoFar, VersionOrder,
     Fetched
<1>11. Exempt' \/ ReadSoFar'
  BY <1>3, <1>4, ApkAssumption DEF IInv, TypeOK, OpShape, LockShape,
     NoOverlapYet, Overlap, Exempt, ReadSoFar, VersionOrder, Fetched,
     Indexes, Versions, Absent
<1>12. Exempt' \/ RepairedSoFar'
  BY <1>3, <1>4, ApkAssumption DEF IInv, TypeOK, OpShape, LockShape,
     NoOverlapYet, Overlap, Exempt, RepairedSoFar, ReadSoFar, Indexes
<1>13. Exempt' \/ CompleteNow'
  BY <1>3, <1>4, ApkAssumption DEF IInv, TypeOK, OpShape, LockShape,
     NoOverlapYet, Overlap, Exempt, CompleteNow, SyncedSoFar, ReadSoFar
<1> QED BY <1>5, <1>6, <1>7, <1>8, <1>9, <1>10, <1>11, <1>12, <1>13 DEF IInv, Exempt

(* Upstream replaces an index. *)
LEMMA UpstreamInv ==
  ASSUME IInv, NEW j \in Indexes, UpstreamAdvances(j),
         overlapped' = (overlapped \/ Overlap')
  PROVE  IInv'
<1>1. TypeOK'
  BY ApkAssumption DEF IInv, TypeOK, UpstreamAdvances, Versions
<1>2. OpShape'
  BY ApkAssumption DEF IInv, TypeOK, OpShape, LockShape, UpstreamAdvances
<1>3. LockShape'
  BY ApkAssumption DEF IInv, TypeOK, OpShape, LockShape, UpstreamAdvances
<1>4. NoOverlapYet'
  BY DEF NoOverlapYet
<1>5. VersionOrder'
  BY ApkAssumption DEF IInv, TypeOK, OpShape, LockShape, VersionOrder,
     Fetched, UpstreamAdvances, Indexes, Versions, Absent
<1>6. Exempt' \/ SyncedSoFar'
  BY ApkAssumption DEF IInv, TypeOK, OpShape, LockShape, NoOverlapYet,
     Overlap, Exempt, SyncedSoFar, ReadSoFar, VersionOrder, Fetched,
     UpstreamAdvances
<1>7. Exempt' \/ ReadSoFar'
  BY ApkAssumption DEF IInv, TypeOK, OpShape, LockShape, NoOverlapYet,
     Overlap, Exempt, ReadSoFar, VersionOrder, Fetched, UpstreamAdvances,
     Indexes, Versions, Absent
<1>8. Exempt' \/ RepairedSoFar'
  BY ApkAssumption DEF IInv, TypeOK, OpShape, LockShape, NoOverlapYet,
     Overlap, Exempt, RepairedSoFar, ReadSoFar, UpstreamAdvances, Indexes
<1>9. Exempt' \/ CompleteNow'
  BY ApkAssumption DEF IInv, TypeOK, OpShape, LockShape, NoOverlapYet,
     Overlap, Exempt, CompleteNow, SyncedSoFar, ReadSoFar, UpstreamAdvances
<1> QED BY <1>1, <1>2, <1>3, <1>4, <1>5, <1>6, <1>7, <1>8, <1>9 DEF IInv, Exempt

(* A package is damaged on disk. *)
LEMMA RotInv ==
  ASSUME IInv, NEW f \in Payloads, Rot(f),
         overlapped' = (overlapped \/ Overlap')
  PROVE  IInv'
<1>1. ASSUME NEW q \in Procs
      PROVE  /\ proc'[q] \in ProcState
             /\ proc'[q].op = proc[q].op /\ proc'[q].pc = proc[q].pc
             /\ proc'[q].at = proc[q].at /\ proc'[q].got = proc[q].got
             /\ proc'[q].todo = proc[q].todo /\ proc'[q].keep = proc[q].keep
             /\ proc'[q].rotted = (proc[q].pc # "idle")
  <2>1. proc[q] \in ProcState /\ proc'[q] = [proc[q] EXCEPT !.rotted = proc[q].pc # "idle"]
    BY DEF IInv, TypeOK, Rot
  <2> QED BY <2>1 DEF ProcState
<1>2. /\ proc' = [q \in Procs |-> proc'[q]]
      /\ file' = [file EXCEPT ![f] = "rotten"] /\ file[f] = "good"
      /\ rot' = rot + 1 /\ rot < MaxRot
      /\ UNCHANGED <<up, index, lock, abandoned>>
  BY DEF Rot
<1>3. TypeOK'
  BY <1>1, <1>2, ApkAssumption DEF IInv, TypeOK
<1>4. OpShape'
  BY <1>1, <1>2, ApkAssumption DEF IInv, TypeOK, OpShape, LockShape
<1>5. LockShape'
  BY <1>1, <1>2, ApkAssumption DEF IInv, TypeOK, OpShape, LockShape
<1>6. NoOverlapYet'
  BY DEF NoOverlapYet
<1>7. VersionOrder'
  BY <1>1, <1>2, ApkAssumption DEF IInv, TypeOK, OpShape, LockShape,
     VersionOrder, Fetched, Indexes, Versions, Absent
<1>8. Exempt' \/ SyncedSoFar'
  BY <1>1, <1>2, ApkAssumption DEF IInv, TypeOK, OpShape, LockShape,
     NoOverlapYet, Overlap, Exempt, SyncedSoFar, ReadSoFar, VersionOrder,
     Fetched
<1>9. Exempt' \/ ReadSoFar'
  BY <1>1, <1>2 DEF IInv, TypeOK, Exempt, ReadSoFar
<1>10. Exempt' \/ RepairedSoFar'
  BY <1>1, <1>2, ApkAssumption DEF IInv, TypeOK, OpShape, LockShape,
     NoOverlapYet, Overlap, Exempt, RepairedSoFar, ReadSoFar, Indexes
<1>11. Exempt' \/ CompleteNow'
  BY <1>1, <1>2, ApkAssumption DEF IInv, TypeOK, OpShape, LockShape,
     NoOverlapYet, Overlap, Exempt, CompleteNow, SyncedSoFar, ReadSoFar
<1> QED BY <1>3, <1>4, <1>5, <1>6, <1>7, <1>8, <1>9, <1>10, <1>11 DEF IInv, Exempt

(* Only the start of a prune and the acquisition of the lock can begin an   *)
(* overlap.                                                                *)
LEMMA NoNewOverlap ==
  ASSUME IInv, overlapped' = overlapped, lock' = lock \/ lock' = NoProc,
         \A q \in Procs : proc'[q].op = proc[q].op \/ proc'[q].op = "none"
  PROVE  overlapped' = (overlapped \/ Overlap')
<1>1. Overlap' => Overlap
  BY ApkAssumption DEF Overlap
<1> QED BY <1>1 DEF IInv, TypeOK, NoOverlapYet

(* A step of a process keeps its operation or ends it. *)
LEMMA StepOp ==
  ASSUME IInv, NEW p \in Procs, NEW r, Step(p, r), r.op = proc[p].op \/ r.op = "none"
  PROVE  \A q \in Procs : proc'[q].op = proc[q].op \/ proc'[q].op = "none"
<1>1. proc' = [proc EXCEPT ![p] = r]
  BY DEF Step
<1>2. DOMAIN proc = Procs
  BY DEF IInv, TypeOK
<1> QED BY <1>1, <1>2

LEMMA OverlapKept ==
  ASSUME IInv, Next
  PROVE  overlapped' = (overlapped \/ Overlap')
<1>1. ASSUME NEW p \in Procs, NEW op \in {"sync", "verify", "prune"}, Start(p, op) \/ Acquire(p)
      PROVE  overlapped' = (overlapped \/ Overlap')
  BY <1>1 DEF Start, Acquire
<1>2. ASSUME NEW p \in Procs,
             \/ Fetch(p) \/ OpFails(p) \/ EnsureReturns(p) \/ PublishIndex(p)
             \/ ReadIndex(p) \/ VerifyReturns(p) \/ VerifyAbandoned(p)
             \/ PruneReturns(p) \/ Cancel(p) \/ Crash(p)
      PROVE  overlapped' = (overlapped \/ Overlap')
  <2>1. overlapped' = overlapped /\ (lock' = lock \/ lock' = NoProc)
    BY <1>2 DEF Fetch, OpFails, EnsureReturns, PublishIndex, ReadIndex, VerifyReturns,
       VerifyAbandoned, PruneReturns, Cancel, Crash, Finish
  <2>2. proc[p] \in ProcState
    BY DEF IInv, TypeOK
  <2>3. CASE Finish(p)
    BY <2>1, <2>3, StepOp, NoNewOverlap DEF Finish, IdleProc
  <2>4. ASSUME Fetch(p)
       PROVE  \A q \in Procs : proc'[q].op = proc[q].op \/ proc'[q].op = "none"
    BY <2>2, <2>4, StepOp DEF Fetch, ProcState
  <2>5. ASSUME EnsureReturns(p)
       PROVE  \A q \in Procs : proc'[q].op = proc[q].op \/ proc'[q].op = "none"
    BY <2>2, <2>5, StepOp DEF EnsureReturns, ProcState
  <2>6. ASSUME PublishIndex(p), ~Finish(p)
       PROVE  \A q \in Procs : proc'[q].op = proc[q].op \/ proc'[q].op = "none"
    BY <2>2, <2>6, StepOp DEF PublishIndex, ProcState
  <2>7. ASSUME ReadIndex(p)
       PROVE  \A q \in Procs : proc'[q].op = proc[q].op \/ proc'[q].op = "none"
    BY <2>2, <2>7, StepOp DEF ReadIndex, ProcState
  <2>8. ASSUME Cancel(p)
       PROVE  \A q \in Procs : proc'[q].op = proc[q].op \/ proc'[q].op = "none"
    BY <2>2, <2>8, StepOp DEF Cancel, ProcState
  <2> QED BY <1>2, <2>1, <2>3, <2>4, <2>5, <2>6, <2>7, <2>8, NoNewOverlap
    DEF OpFails, VerifyReturns, VerifyAbandoned, PruneReturns, Crash
<1>3. ASSUME NEW p \in Procs, NEW f \in Payloads,
             EnsureSynced(p, f) \/ EnsureRepaired(p, f) \/ PruneFile(p, f)
      PROVE  overlapped' = (overlapped \/ Overlap')
  <2>1. overlapped' = overlapped /\ lock' = lock
    BY <1>3 DEF EnsureSynced, EnsureRepaired, PruneFile
  <2>2. proc[p] \in ProcState
    BY DEF IInv, TypeOK
  <2>3. CASE PruneFile(p, f)
    BY <2>1, <2>3, NoNewOverlap DEF PruneFile
  <2>4. CASE EnsureSynced(p, f)
    <3>1. \A q \in Procs : proc'[q].op = proc[q].op \/ proc'[q].op = "none"
      BY <2>2, <2>4, StepOp DEF EnsureSynced, ProcState
    <3> QED BY <2>1, <3>1, NoNewOverlap
  <2>5. CASE EnsureRepaired(p, f)
    <3>1. \A q \in Procs : proc'[q].op = proc[q].op \/ proc'[q].op = "none"
      BY <2>2, <2>5, StepOp DEF EnsureRepaired, ProcState
    <3> QED BY <2>1, <3>1, NoNewOverlap
  <2> QED BY <1>3, <2>3, <2>4, <2>5
<1>4. ASSUME NEW i \in Indexes, UpstreamAdvances(i)
      PROVE  overlapped' = (overlapped \/ Overlap')
  BY <1>4, NoNewOverlap DEF UpstreamAdvances
<1>5. ASSUME NEW f \in Payloads, Rot(f)
      PROVE  overlapped' = (overlapped \/ Overlap')
  <2>1. \A q \in Procs : proc'[q].op = proc[q].op
    BY <1>5 DEF Rot, IInv, TypeOK, ProcState
  <2> QED BY <1>5, <2>1, NoNewOverlap DEF Rot
<1> QED BY <1>1, <1>2, <1>3, <1>4, <1>5 DEF Next

LEMMA NextInv == IInv /\ [Next]_vars => IInv'
<1> SUFFICES ASSUME IInv, [Next]_vars PROVE IInv'
  OBVIOUS
<1>1. CASE UNCHANGED vars
  BY <1>1 DEF vars, IInv, TypeOK, OpShape, LockShape, NoOverlapYet, Overlap, Exempt,
     VersionOrder, Fetched, SyncedSoFar, ReadSoFar, RepairedSoFar, CompleteNow
<1>2. CASE Next
  <2>1. overlapped' = (overlapped \/ Overlap')
    BY <1>2, OverlapKept
  <2>2. ASSUME NEW p \in Procs, NEW op \in {"sync", "verify", "prune"}, Start(p, op)
        PROVE  IInv'
    BY <2>1, <2>2, StartInv
  <2>3. ASSUME NEW p \in Procs, Acquire(p) PROVE IInv'
    BY <2>1, <2>3, AcquireInv
  <2>4. ASSUME NEW p \in Procs, Fetch(p) PROVE IInv'
    <3>1. proc[p].at < NIndexes \/ proc[p].at = NIndexes
      BY <2>4 DEF Fetch
    <3> QED BY <2>1, <2>4, <3>1, FetchNextInv, FetchLastInv
  <2>5. ASSUME NEW p \in Procs, EnsureReturns(p) PROVE IInv'
    BY <2>1, <2>5, EnsureReturnsInv
  <2>6. ASSUME NEW p \in Procs, PublishIndex(p) PROVE IInv'
    <3>1. \/ proc[p].at < NIndexes
          \/ proc[p].at = NIndexes /\ PruneOnSync
          \/ proc[p].at = NIndexes /\ ~PruneOnSync
      BY <2>6 DEF PublishIndex
    <3> QED BY <2>1, <2>6, <3>1, PublishNextInv, PublishLastInv, PublishEndInv
  <2>7. ASSUME NEW p \in Procs, ReadIndex(p) PROVE IInv'
    <3>1. \/ proc[p].at < NIndexes
          \/ proc[p].at = NIndexes /\ proc[p].op = "verify"
          \/ proc[p].at = NIndexes /\ proc[p].op # "verify"
      BY <2>7 DEF ReadIndex
    <3> QED BY <2>1, <2>7, <3>1, ReadNextInv, ReadVerifyInv, ReadPruneInv
  <2>8. ASSUME NEW p \in Procs,
               OpFails(p) \/ VerifyReturns(p) \/ VerifyAbandoned(p)
                 \/ PruneReturns(p) \/ Crash(p)
        PROVE  IInv'
    <3>1. /\ proc[p].pc # "idle" /\ Finish(p)
          /\ UNCHANGED <<up, index, file, rot, abandoned>>
      BY <2>8 DEF OpFails, VerifyReturns, VerifyAbandoned, PruneReturns, Crash
    <3> QED BY <2>1, <3>1, FinishInv
  <2>9. ASSUME NEW p \in Procs, Cancel(p) PROVE IInv'
    BY <2>1, <2>9, CancelInv
  <2>10. ASSUME NEW p \in Procs, NEW f \in Payloads,
                EnsureSynced(p, f) \/ EnsureRepaired(p, f) \/ PruneFile(p, f)
         PROVE  IInv'
    BY <2>1, <2>10, EnsureSyncedInv, EnsureRepairedInv, PruneFileInv
  <2>11. ASSUME NEW i \in Indexes, UpstreamAdvances(i) PROVE IInv'
    BY <2>1, <2>11, UpstreamInv
  <2>12. ASSUME NEW f \in Payloads, Rot(f) PROVE IInv'
    BY <2>1, <2>12, RotInv
  <2> QED
    BY <1>2, <2>2, <2>3, <2>4, <2>5, <2>6, <2>7, <2>8, <2>9, <2>10, <2>11, <2>12
    DEF Next
<1> QED BY <1>1, <1>2

(* IInv holds in every reachable state. *)
THEOREM Invariance == Spec => []IInv
BY InitInv, NextInv, PTL DEF Spec

(* Every variable keeps its type, for any processes, indexes and packages. *)
THEOREM TypeCorrect == Spec => []TypeOK
<1>1. IInv => TypeOK
  BY DEF IInv
<1> QED BY <1>1, Invariance, PTL

(* For any number of processes, indexes and versions, and through crashes  *)
(* and failures at any step, a client never finds an index that names a    *)
(* missing package, unless a cancelled sync or an unlocked prune is to     *)
(* blame.                                                                  *)
THEOREM Completeness == Spec => []PublishedComplete
<1>1. IInv => PublishedComplete
  BY ApkAssumption DEF IInv, CompleteNow, PublishedComplete, Mirror!Complete, Present, TypeOK
<1> QED BY <1>1, Invariance, PTL

(* Syncs of any number of processes never replace an index by an older one. *)
THEOREM Monotone == Spec => NoRollback
<1>1. IInv /\ [Next]_vars => [\A i \in Indexes : index'[i] >= index[i]]_index
  <2> SUFFICES ASSUME IInv, [Next]_vars, index' # index, NEW i \in Indexes
               PROVE  index'[i] >= index[i]
    OBVIOUS
  <2>1. PICK p \in Procs : PublishIndex(p)
    BY DEF Next, vars, Start, Acquire, Fetch, OpFails, EnsureReturns, ReadIndex,
       VerifyReturns, VerifyAbandoned, PruneReturns, Cancel, Crash, EnsureSynced,
       EnsureRepaired, PruneFile, UpstreamAdvances, Rot
  <2>2. /\ index' = [index EXCEPT ![proc[p].at] = proc[p].got[proc[p].at]]
        /\ proc[p].pc = "publish"
    BY <2>1 DEF PublishIndex
  <2>3. index[i] \in Nat /\ proc[p].got[i] \in Nat /\ index[i] <= proc[p].got[i]
    BY <2>2, ApkAssumption DEF IInv, TypeOK, VersionOrder, Fetched, Versions, Absent
  <2>4. index'[i] = IF i = proc[p].at THEN proc[p].got[i] ELSE index[i]
    BY <2>2 DEF IInv, TypeOK
  <2> QED BY <2>3, <2>4
<1> QED BY <1>1, Invariance, PTL DEF Spec, NoRollback

(* A verify that returns success has every named package intact on disk.   *)
THEOREM Healing == Spec => VerifyHeals
<1>1. IInv /\ [Next]_vars =>
        [\A p \in Procs : VerifyReturns(p) /\ ~proc[p].rotted /\ ~Exempt =>
           \A f \in Named(index) : file[f] = "good"]_vars
  <2> SUFFICES ASSUME IInv, NEW p \in Procs, VerifyReturns(p), ~proc[p].rotted, ~Exempt,
                      NEW f \in Named(index)
               PROVE  file[f] = "good"
    OBVIOUS
  <2>1. PICK i \in Indexes : index[i] # Absent /\ f \in Refs(i, index[i])
    BY DEF Named
  <2>2. proc[p].pc = "repair" /\ proc[p].todo = {}
    BY DEF VerifyReturns
  <2> QED BY <2>1, <2>2 DEF IInv, RepairedSoFar
<1> QED BY <1>1, Invariance, PTL DEF Spec, VerifyHeals

-----------------------------------------------------------------------------
(* The repository implements the abstract mirror. *)

LEMMA StepRefines ==
  ASSUME IInv, [Next]_vars
  PROVE  [Mirror!Next \/ Exempt']_(Mirror!mirror)
<1> SUFFICES ASSUME ~Exempt'
             PROVE  [Mirror!Next]_(Mirror!mirror)
  OBVIOUS
<1>1. ~Exempt
  BY DEF Exempt, IInv, TypeOK, Next, vars, Start, Acquire, Fetch, OpFails,
     EnsureReturns, PublishIndex, ReadIndex, VerifyReturns, VerifyAbandoned,
     PruneReturns, Cancel, Crash, EnsureSynced, EnsureRepaired, PruneFile,
     UpstreamAdvances, Rot
<1>2. CASE index' = index /\ file' = file
  BY <1>2 DEF Mirror!mirror, Present
<1>3. ASSUME NEW f \in Payloads, Rot(f)
      PROVE  [Mirror!Next]_(Mirror!mirror)
  <2>1. \A g \in Payloads : file'[g] = "none" <=> file[g] = "none"
    BY <1>3 DEF Rot, IInv, TypeOK
  <2>2. Present' = Present /\ index' = index
    BY <1>3, <2>1 DEF Present, Rot
  <2> QED BY <2>2 DEF Mirror!mirror
<1>4. ASSUME NEW p \in Procs, NEW f \in Payloads, EnsureSynced(p, f) \/ EnsureRepaired(p, f)
      PROVE  Mirror!Next
  <2>1. /\ index' = index
        /\ \A g \in Payloads : file'[g] # "none" <=> g = f \/ file[g] # "none"
    BY <1>4 DEF EnsureSynced, EnsureRepaired, IInv, TypeOK
  <2>2. Present' = Present \cup {f}
    BY <2>1 DEF Present
  <2>3. Mirror!Put(f)
    BY <2>1, <2>2 DEF Mirror!Put
  <2> QED BY <2>3 DEF Mirror!Next
<1>5. ASSUME NEW p \in Procs, NEW f \in Payloads, PruneFile(p, f)
      PROVE  Mirror!Next
  <2>1. \A i \in Indexes : index[i] # Absent => f \notin Refs(i, index[i])
    BY <1>1, <1>5 DEF IInv, ReadSoFar, PruneFile
  <2>2. /\ index' = index
        /\ \A g \in Payloads : file'[g] # "none" <=> g # f /\ file[g] # "none"
    BY <1>5 DEF PruneFile, IInv, TypeOK
  <2>3. Present' = Present \ {f}
    BY <2>2 DEF Present
  <2>4. Mirror!Remove(f)
    BY <2>1, <2>2, <2>3 DEF Mirror!Remove
  <2> QED BY <2>4 DEF Mirror!Next
<1>6. ASSUME NEW p \in Procs, PublishIndex(p)
      PROVE  Mirror!Next
  <2> DEFINE i == proc[p].at
             v == proc[p].got[i]
  <2>1. /\ index' = [index EXCEPT ![i] = v] /\ file' = file
        /\ proc[p].pc = "publish" /\ i \in Indexes
    BY <1>6 DEF PublishIndex, IInv, TypeOK, ProcState
  <2>2. v \in Versions
    BY <2>1 DEF IInv, VersionOrder, Fetched
  <2>3. Refs(i, v) \subseteq Present
    BY <1>1, <2>1, <2>2, ApkAssumption DEF IInv, SyncedSoFar, Present
  <2>4. Present' = Present
    BY <2>1 DEF Present
  <2>5. Mirror!Advance(i, v)
    BY <2>1, <2>3, <2>4 DEF Mirror!Advance
  <2> HIDE DEF i, v
  <2> QED BY <2>1, <2>2, <2>5 DEF Mirror!Next
<1>7. \/ index' = index /\ file' = file
      \/ \E f \in Payloads : Rot(f)
      \/ \E p \in Procs : PublishIndex(p)
      \/ \E p \in Procs, f \in Payloads :
           EnsureSynced(p, f) \/ EnsureRepaired(p, f) \/ PruneFile(p, f)
  BY DEF Next, vars, Start, Acquire, Fetch, OpFails, EnsureReturns, ReadIndex,
     VerifyReturns, VerifyAbandoned, PruneReturns, Cancel, Crash, UpstreamAdvances
<1> QED BY <1>2, <1>3, <1>4, <1>5, <1>6, <1>7

(* Every step of any number of processes is a step of the abstract mirror  *)
(* or a stutter, until a cancelled sync or an unlocked prune breaks in.    *)
THEOREM Refinement == Spec => RefinesMirror
<1>1. Init => Mirror!Init
  <2> SUFFICES ASSUME Init PROVE Mirror!Init
    OBVIOUS
  <2>1. IInv
    BY InitInv
  <2>2. /\ index \in [Indexes -> Versions \cup {Absent}]
        /\ Present \in SUBSET Payloads
    BY <2>1 DEF IInv, TypeOK, Present
  <2>3. Mirror!Complete(index, Present)
    BY <2>1, ApkAssumption DEF Init, IInv, Exempt, CompleteNow, Mirror!Complete, Present, TypeOK
  <2> QED BY <2>2, <2>3 DEF Mirror!Init
<1>2. IInv /\ [Next]_vars => [Mirror!Next \/ Exempt']_(Mirror!mirror)
  BY StepRefines
<1> QED BY <1>1, <1>2, Invariance, PTL DEF Spec, RefinesMirror
=============================================================================
