--------------------------- MODULE MCApkRepository ---------------------------
(* Two processes on a repository of two indexes.  Upstream replaces package *)
(* a of the first index by b; the second version of the second index names  *)
(* the same package x as the first.                                         *)
EXTENDS ApkRepository, TLC

CONSTANTS p1, p2, a, b, x

MCProcs    == {p1, p2}
MCOneProc  == {p1}
MCPayloads == {a, b, x}
MCRefs(i, v) ==
  IF i = 1 THEN (IF v = 1 THEN {a} ELSE {b}) ELSE {x}
MCSymmetry == Permutations(MCProcs)
=============================================================================
