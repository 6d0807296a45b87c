--------------------------- MODULE MCSleepDaemon ---------------------------
(***************************************************************************)
(* SleepDaemon with the order of the real durations and none of their      *)
(* size: gap = cooldown < stuck-min < awake window < idle timer < half a   *)
(* day interval < interval < night interval.                               *)
(***************************************************************************)
EXTENDS SleepDaemon
=============================================================================
