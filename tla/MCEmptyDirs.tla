---------------------------- MODULE MCEmptyDirs ----------------------------
(* EmptyDirs for TLC, on its own.                                          *)
EXTENDS EmptyDirs

Spec == DirsInit /\ [][DirsNext]_dirvars
=============================================================================
