-------------------------- MODULE MC_DirIteration --------------------------
(* DirIteration instantiated for TLC.                                      *)
EXTENDS DirIteration

(* Three entries; the second needs twice the dirent room of the others.   *)
MCDir == <<1, 2, 1>>
=============================================================================
