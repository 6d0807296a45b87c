----------------------------- MODULE MCTTLCache -----------------------------
(***************************************************************************)
(* TTLCache with two goroutines: as each may call again, there can be a    *)
(* leader, a late waiter of the fetch before, and a value that expires     *)
(* under both.  TTLCacheProofs has the safety properties for any number.   *)
(***************************************************************************)
EXTENDS TTLCache
=============================================================================
