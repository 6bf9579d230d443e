--------------------------- MODULE PublishedMirror ---------------------------
(***************************************************************************)
(* What a published repository promises the clients that read it: every    *)
(* index they can fetch names only payloads they can fetch.  Payloads come *)
(* before the index that names them, an index is replaced in one step, and *)
(* a payload goes only when no current index names it.                     *)
(*                                                                         *)
(* The APK and the APT repository implement this module.                   *)
(***************************************************************************)
CONSTANTS
  Indexes,    (* the index paths of the repository                            *)
  Versions,   (* the contents an index may have                               *)
  Payloads,   (* the package paths                                            *)
  Refs(_, _), (* Refs(i, v): the payloads that content v of index i names     *)
  Absent      (* the content of an index that is not published                *)

VARIABLES
  index,      (* the published content of each index                          *)
  present     (* the published payloads                                       *)

mirror == <<index, present>>

Complete(ix, files) ==
  \A i \in Indexes : ix[i] # Absent => Refs(i, ix[i]) \subseteq files

Init ==
  /\ index \in [Indexes -> Versions \cup {Absent}]
  /\ present \in SUBSET Payloads
  /\ Complete(index, present)

(* A verified payload appears. *)
Put(f) ==
  /\ present' = present \cup {f}
  /\ UNCHANGED index

(* An index is replaced by one whose payloads are all there. *)
Advance(i, v) ==
  /\ Refs(i, v) \subseteq present
  /\ index' = [index EXCEPT ![i] = v]
  /\ UNCHANGED present

(* A payload no current index names goes away. *)
Remove(f) ==
  /\ \A i \in Indexes : index[i] # Absent => f \notin Refs(i, index[i])
  /\ present' = present \ {f}
  /\ UNCHANGED index

Next ==
  \/ \E f \in Payloads : Put(f) \/ Remove(f)
  \/ \E i \in Indexes, v \in Versions : Advance(i, v)

Spec == Init /\ [][Next]_mirror
=============================================================================
