------------------------------- MODULE MCApp -------------------------------
(* Two repositories, one retry: one may fail, pause or wait for its lock    *)
(* while the other goes on.                                                 *)
EXTENDS App

CONSTANTS debian, alpine

MCRepos == {debian, alpine}
=============================================================================
