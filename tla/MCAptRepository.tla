--------------------------- MODULE MCAptRepository ---------------------------
(* Three Releases of a suite with two indexes.  The content of the package  *)
(* index changes with every Release, each names a package of its own; the   *)
(* source index, which names the package of the first Release, is named by  *)
(* every Release and served with the second only.  A configuration may      *)
(* select it or not.                                                        *)
EXTENDS AptRepository

MCCanon == {"Packages", "Sources"}
MCContent(c, v) == IF c = "Packages" THEN v ELSE 1
MCConfigs == {{"Packages"}, MCCanon}
MCProvided(v) == IF v = 2 THEN MCCanon ELSE {"Packages"}
MCAlways   == [v \in 1..3 |-> TRUE]
MCPaused   == [v \in 1..3 |-> v # 2]
MCInline   == [v \in 1..3 |-> IF v = 2 THEN {"inline"} ELSE {"inline", "detached"}]
MCDetached == [v \in 1..3 |-> {"detached"}]
MCSwitch   == [v \in 1..3 |-> IF v = 1 THEN {"inline"} ELSE {"detached"}]
MCUpstreams ==
  {[forms |-> MCDetached, byhash |-> MCAlways],
   [forms |-> MCInline, byhash |-> MCPaused]}
MCPlainUpstream  == {[forms |-> MCInline, byhash |-> MCAlways]}
MCSwitchUpstream == {[forms |-> MCSwitch, byhash |-> MCAlways]}
MCPayloads == {1, 2, 3}
MCRefs(c, x) == {x}

(* With the inline upstream the configuration is widened and narrowed again, *)
(* or widened beside another mishap; the detached one has one mishap.        *)
MCInit ==
  /\ Init
  /\ \/ upstream.forms = MCInline /\ config = {"Packages"} /\ mishaps = 0
     \/ upstream.forms = MCDetached /\ config = MCCanon /\ mishaps = 1
MCSpec == MCInit /\ [][Next]_vars
=============================================================================
