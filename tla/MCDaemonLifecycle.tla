------------------------- MODULE MCDaemonLifecycle -------------------------
(***************************************************************************)
(* DaemonLifecycle with three process numbers: a daemon, a rival start and *)
(* a number to spare.                                                      *)
(***************************************************************************)
EXTENDS DaemonLifecycle
=============================================================================
