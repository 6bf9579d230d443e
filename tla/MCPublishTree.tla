---------------------------- MODULE MCPublishTree ----------------------------
(* Two Releases, the second without by-hash files, so that a by-hash file   *)
(* outlives its index, is pruned with its directory and made again.         *)
EXTENDS PublishTree

MCVersions == {1, 2}
MCByHash   == {1}
MCNumbers  == 1..6
=============================================================================
