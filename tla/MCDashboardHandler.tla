------------------------ MODULE MCDashboardHandler ------------------------
(***************************************************************************)
(* DashboardHandler with two requests.  The view forgets what no step and  *)
(* no property of the runs reads: the versions of the data, the history    *)
(* variables, the pending structs nobody refers to, the outcome of a       *)
(* weather read that has been used, and the clocks of an idle request.     *)
(***************************************************************************)
EXTENDS DashboardHandler, TLC

Perms == Permutations(Requests) \cup Permutations(Pendings)

Kinds(f) == [r \in Requests |-> f[r].kind]
Held(pend, mine) ==
    [p \in Pendings |->
        IF \E r \in Requests : mine[r] = p THEN <<pend[p].done, pend[p].res.kind>>
                                           ELSE <<>>]
CacheView(valueAt, ttl, inflight, pend, pc, mine, got) ==
    <<IF valueAt = -1 \/ now - valueAt >= ttl THEN -1 ELSE valueAt,
      inflight, Held(pend, mine), pc, mine, Kinds(got)>>

View ==
    <<now, at, calProvider, server, drained,
      [r \in Requests |-> IF at[r] = "idle" THEN <<>>
                            ELSE <<fetchCtx[r], age[r], gone[r]>>],
      [r \in Requests |-> IF at[r] = "weather" THEN wRet[r].kind ELSE "-"],
      [r \in Requests |-> IF at[r] \in {"calendar", "render"}
                             THEN <<cRet[r].kind, calModel[r]>> ELSE <<>>],
      CacheView(wValueAt, WeatherTTL, wInflight, wPend, wPc, wMine, wGot),
      CacheView(cValueAt, CalendarTTL, cInflight, cPend, cPc, cMine, cGot)>>
=============================================================================
