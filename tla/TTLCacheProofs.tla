--------------------------- MODULE TTLCacheProofs ---------------------------
(***************************************************************************)
(* What holds of the TTL cache for any number of goroutines, any TTL and   *)
(* any horizon: its types, the single flight, that no waiter is orphaned,  *)
(* that a published result is final, and that it implements MonotoneReads. *)
(***************************************************************************)
EXTENDS TTLCache, TLAPS

USE CacheAssumption

\* The two ways a step writes a field of a pending struct keep it a pending struct.
LEMMA PendingUpdates ==
  ASSUME pend \in [Pendings -> [done : BOOLEAN, res : Outcomes]],
         NEW p \in Pendings, NEW r \in Outcomes
  PROVE  /\ [pend EXCEPT ![p].res = r] \in [Pendings -> [done : BOOLEAN, res : Outcomes]]
         /\ [pend EXCEPT ![p].done = TRUE] \in [Pendings -> [done : BOOLEAN, res : Outcomes]]
  OBVIOUS

TypeInv == TypeOK /\ Holding

LEMMA Typing == Spec => []TypeInv
<1>1. Init => TypeInv
  BY DEF Init, TypeInv, TypeOK, Holding, Outcomes, Failed, Zero
<1>2. TypeInv /\ [Next]_vars => TypeInv'
  <2> SUFFICES ASSUME TypeInv, [Next]_vars PROVE TypeInv'
    OBVIOUS
  <2> USE DEF TypeInv, TypeOK, Holding
  <2>0. /\ \A v \in 0..MaxTime : Ok(v) \in Outcomes
        /\ \A k \in {"fetchErr", "ctxErr"} : Failed(k) \in Outcomes
        /\ \A r \in Outcomes : r.ver \in 0..MaxTime
    BY DEF Outcomes, Ok, Failed
  <2>1. CASE Tick
    BY <2>1 DEF Tick, cacheVars, callVars
  <2>2. ASSUME NEW c \in Callers, Begin(c) PROVE TypeInv'
    BY <2>2 DEF Begin, Call, cacheVars
  <2>3. ASSUME NEW c \in Callers, FetchAnswers(c) PROVE TypeInv'
    BY <2>0, <2>3 DEF FetchAnswers, cacheVars
  <2>4. ASSUME NEW c \in Callers, ContextDone(c) \/ OtherContext(c) PROVE TypeInv'
    BY <2>4 DEF ContextDone, OtherContext, cacheVars, callVars
  <2>5. ASSUME NEW c \in Callers, Hit(c) PROVE TypeInv'
    BY <2>0, <2>5 DEF Hit, Return, cacheVars
  <2>6. ASSUME NEW c \in Callers, Join(c) PROVE TypeInv'
    BY <2>6 DEF Join, cacheVars
  <2>7. ASSUME NEW c \in Callers, Lead(c) PROVE TypeInv'
    BY <2>0, <2>7 DEF Lead
  <2>8. ASSUME NEW c \in Callers, FetchAborts(c) PROVE TypeInv'
    BY <2>0, <2>8 DEF FetchAborts, FetchCut, cacheVars
  <2>9. ASSUME NEW c \in Callers, Commit(c) PROVE TypeInv'
    <3>1. mine[c] \in Pendings /\ got[c] \in Outcomes
      BY <2>9 DEF Commit
    <3>2. pend' \in [Pendings -> [done : BOOLEAN, res : Outcomes]]
      BY <2>9, <3>1, PendingUpdates DEF Commit
    <3> QED BY <2>0, <2>9, <3>1, <3>2 DEF Commit
  <2>10. ASSUME NEW c \in Callers, Close(c) PROVE TypeInv'
    <3>1. mine[c] \in Pendings /\ got[c] \in Outcomes
      BY <2>10 DEF Close
    <3>2. pend' \in [Pendings -> [done : BOOLEAN, res : Outcomes]]
      BY <2>10, <3>1, PendingUpdates DEF Close
    <3> QED BY <2>0, <2>10, <3>1, <3>2 DEF Close, Return
  <2>11. ASSUME NEW c \in Callers, WaitDone(c) PROVE TypeInv'
    <3>1. mine[c] \in Pendings
      BY <2>11 DEF WaitDone
    <3>2. pend[mine[c]].res \in Outcomes
      BY <3>1
    <3> QED BY <2>0, <2>11, <3>2 DEF WaitDone, Return, cacheVars
  <2>12. ASSUME NEW c \in Callers, WaitCancelled(c) PROVE TypeInv'
    BY <2>0, <2>12 DEF WaitCancelled, Return, cacheVars, Failed
  <2>13. CASE UNCHANGED vars
    BY <2>13 DEF vars, cacheVars, callVars
  <2> QED
    BY <2>1, <2>2, <2>3, <2>4, <2>5, <2>6, <2>7, <2>8, <2>9, <2>10, <2>11, <2>12,
       <2>13 DEF Next, Step
<1> QED BY <1>1, <1>2, PTL DEF Spec

\* Every variable keeps its type, whatever interleaving the goroutines of the
\* server run Get in.
THEOREM TypeCorrect == Spec => []TypeOK
BY Typing, PTL DEF TypeInv
-----------------------------------------------------------------------------
LEMMA InitInv == Init => CacheInv
BY DEF Init, CacheInv, Holding, SingleFlight, Fetching, References, NoOrphanedWaiter,
       Versions, StillStale

\* One step preserves the invariant.  The delicate steps are Lead, which must not
\* take a struct that a waiter still holds, and Commit, which turns the waiters of
\* the fetch in flight into readers of a published result.
LEMMA StepInv == TypeInv /\ TypeInv' /\ CacheInv /\ [Next]_vars => CacheInv'
<1> SUFFICES ASSUME TypeInv, TypeInv', CacheInv, [Next]_vars PROVE CacheInv'
  OBVIOUS
<1> USE DEF TypeInv, TypeOK, CacheInv, Holding, SingleFlight, Fetching, References,
            NoOrphanedWaiter, Versions, StillStale, Fresh
<1>1. CASE Tick
  BY <1>1 DEF Tick, cacheVars, callVars
<1>2. ASSUME NEW c \in Callers, Begin(c) PROVE CacheInv'
  BY <1>2 DEF Begin, Call, cacheVars
<1>3. ASSUME NEW c \in Callers, FetchAnswers(c) PROVE CacheInv'
  BY <1>3 DEF FetchAnswers, cacheVars, Ok, Failed
<1>4. ASSUME NEW c \in Callers, ContextDone(c) \/ OtherContext(c) PROVE CacheInv'
  BY <1>4 DEF ContextDone, OtherContext, cacheVars, callVars
<1>5. ASSUME NEW c \in Callers, Hit(c) PROVE CacheInv'
  BY <1>5 DEF Hit, Return, Ok, cacheVars
<1>6. ASSUME NEW c \in Callers, Join(c) PROVE CacheInv'
  BY <1>6 DEF Join, cacheVars
<1>7. ASSUME NEW c \in Callers, Lead(c) PROVE CacheInv'
  BY <1>7 DEF Lead
<1>8. ASSUME NEW c \in Callers, FetchAborts(c) PROVE CacheInv'
  BY <1>8 DEF FetchAborts, FetchCut, cacheVars, Failed
<1>9. ASSUME NEW c \in Callers, Commit(c) PROVE CacheInv'
  BY <1>9 DEF Commit
<1>10. ASSUME NEW c \in Callers, Close(c) PROVE CacheInv'
  BY <1>10 DEF Close, Return
<1>11. ASSUME NEW c \in Callers, WaitDone(c) PROVE CacheInv'
  BY <1>11 DEF WaitDone, Return, cacheVars
<1>12. ASSUME NEW c \in Callers, WaitCancelled(c) PROVE CacheInv'
  BY <1>12 DEF WaitCancelled, Return, cacheVars, Failed
<1>13. CASE UNCHANGED vars
  BY <1>13 DEF vars, cacheVars, callVars
<1> QED
  BY <1>1, <1>2, <1>3, <1>4, <1>5, <1>6, <1>7, <1>8, <1>9, <1>10, <1>11, <1>12,
     <1>13 DEF Next, Step

\* The whole invariant: who refers to which pending struct, and which versions the
\* cache and the callers hold.
THEOREM InvariantHolds == Spec => []CacheInv
<1>1. Spec => []TypeInv
  BY Typing
<1> QED BY <1>1, InitInv, StepInv, PTL DEF Spec

\* "At most one upstream fetch is in flight at a time": for any number of requests,
\* the weather and the calendar service see one connection each from the server.
THEOREM OneFetch == Spec => []SingleFlight
BY InvariantHolds, PTL DEF CacheInv

\* A goroutine blocked on a channel always has a leader that will close it.
THEOREM WaitersHaveLeader == Spec => []NoOrphanedWaiter
BY InvariantHolds, PTL DEF CacheInv

\* A result, once its channel is closed, stays what it is while anyone may read it.
THEOREM ResultsFinal == Spec => PublishedResultFinal
<1> DEFINE Final ==
      \A c \in Callers :
         pc[c] = "wait" /\ pend[mine[c]].done /\ pc'[c] = "wait"
            => pend'[mine[c]] = pend[mine[c]]
<1>1. TypeInv /\ CacheInv /\ [Next]_vars => Final
  <2> SUFFICES ASSUME TypeInv, CacheInv, [Next]_vars,
                      NEW c \in Callers, pc[c] = "wait", pend[mine[c]].done
               PROVE  pend'[mine[c]] = pend[mine[c]]
    OBVIOUS
  <2> USE DEF TypeInv, TypeOK, CacheInv, Holding, SingleFlight, Fetching, References
  <2>1. mine[c] \in Pendings /\ mine[c] # inflight
    OBVIOUS
  <2>2. CASE \E d \in Callers : Lead(d)
    BY <2>1, <2>2 DEF Lead
  <2>3. CASE \E d \in Callers : Commit(d)
    BY <2>1, <2>3 DEF Commit
  <2>4. CASE \E d \in Callers : Close(d)
    BY <2>1, <2>4 DEF Close
  <2> QED
    BY <2>2, <2>3, <2>4 DEF Next, Step, Tick, Begin, Call, FetchAnswers, ContextDone,
       OtherContext, Hit, Join, FetchAborts, WaitDone, WaitCancelled, vars, cacheVars, callVars
<1> QED BY <1>1, Typing, InvariantHolds, PTL DEF Spec, PublishedResultFinal

\* Two successful fetches are committed at least a TTL apart.
THEOREM FetchesSpaced == Spec => SuccessesSpaced
<1> DEFINE Spaced ==
      \A c \in Callers :
         pc[c] = "commit" /\ pc'[c] = "close" /\ got[c].kind = "ok" /\ TTL > 0
            => valueAt = Zero \/ now - valueAt >= TTL
<1>1. TypeInv /\ CacheInv => Spaced
  BY DEF TypeInv, TypeOK, CacheInv, StillStale, Fetching, Fresh, Zero
<1> QED BY <1>1, Typing, InvariantHolds, PTL DEF SuccessesSpaced
-----------------------------------------------------------------------------
\* The step of MonotoneReads that a step of the cache makes: entering Get begins a
\* read, returning from it ends one, and everything between is invisible.
LEMMA StepSimulation ==
  TypeInv /\ CacheInv /\ [Next]_vars => [Reads!Next]_(Reads!vars)
<1> SUFFICES ASSUME TypeInv, CacheInv, [Next]_vars
             PROVE  [Reads!Next]_(Reads!vars)
  OBVIOUS
<1> USE DEF TypeInv, TypeOK, CacheInv, Holding, References, Versions, Ok, Failed
<1> DEFINE active == [c \in Callers |-> pc[c] # "idle"]
<1>1. CASE Tick
  BY <1>1 DEF Tick, Reads!Tick, Reads!Next, cacheVars, callVars
<1>2. ASSUME NEW c \in Callers, Begin(c) PROVE Reads!Next
  <2>1. active' = [active EXCEPT ![c] = TRUE]
    BY <1>2 DEF Begin, Call
  <2> QED BY <1>2, <2>1 DEF Begin, Call, Reads!Begin, Reads!Next
<1>3. ASSUME NEW c \in Callers, pc[c] # "idle", NEW r \in Outcomes, Return(c, r),
             UNCHANGED <<now, floor>>,
             r.kind = "ok" => r.ver \in floor[c]..now
      PROVE  Reads!Next
  <2>1. active' = [active EXCEPT ![c] = FALSE]
    BY <1>3 DEF Return
  <2>2. active[c]
    BY <1>3
  <2>3. CASE r.kind = "ok"
    <3>1. r = [kind |-> "ok", ver |-> r.ver]
      BY <2>3 DEF Outcomes
    <3>2. Reads!Succeed(c)
      BY <1>3, <2>1, <2>2, <2>3, <3>1 DEF Return, Reads!Succeed
    <3> QED BY <3>2 DEF Reads!Next
  <2>4. CASE r.kind # "ok"
    <3>1. Reads!Fail(c)
      BY <1>3, <2>1, <2>2, <2>4 DEF Return, Reads!Fail, Reads!Outcomes, Outcomes
    <3> QED BY <3>1 DEF Reads!Next
  <2> QED BY <2>3, <2>4
<1>4. ASSUME NEW c \in Callers, Hit(c) PROVE Reads!Next
  <2>1. Ok(value) \in Outcomes /\ value \in floor[c]..now
    BY DEF Outcomes
  <2> QED BY <1>3, <1>4, <2>1 DEF Hit
<1>5. ASSUME NEW c \in Callers, Close(c) PROVE Reads!Next
  <2>1. got[c].kind = "ok" => got[c].ver \in floor[c]..now
    BY <1>5 DEF Close
  <2> QED BY <1>3, <1>5, <2>1 DEF Close
<1>6. ASSUME NEW c \in Callers, WaitDone(c) PROVE Reads!Next
  <2>1. mine[c] \in Pendings /\ mine[c] # inflight
    BY <1>6 DEF WaitDone
  <2>2. /\ pend[mine[c]].res \in Outcomes
        /\ pend[mine[c]].res.kind = "ok" => pend[mine[c]].res.ver \in floor[c]..now
    BY <1>6, <2>1 DEF WaitDone
  <2> QED BY <1>3, <1>6, <2>2 DEF WaitDone, cacheVars
<1>7. ASSUME NEW c \in Callers, WaitCancelled(c) PROVE Reads!Next
  <2>1. Failed("ctxErr") \in Outcomes /\ Failed("ctxErr").kind # "ok"
    BY DEF Outcomes
  <2> QED BY <1>3, <1>7, <2>1 DEF WaitCancelled
<1>8. ASSUME NEW c \in Callers,
             \/ FetchAnswers(c) \/ ContextDone(c) \/ OtherContext(c)
             \/ Join(c) \/ Lead(c) \/ FetchAborts(c) \/ Commit(c)
      PROVE  UNCHANGED Reads!vars
  <2>1. active' = active /\ UNCHANGED <<now, floor, latest, ret>>
    BY <1>8 DEF FetchAnswers, ContextDone, OtherContext, Join, Lead, FetchAborts, Commit,
                cacheVars, callVars
  <2> QED BY <2>1 DEF Reads!vars
<1>9. CASE UNCHANGED vars
  BY <1>9 DEF vars, callVars, Reads!vars
<1> QED
  BY <1>1, <1>2, <1>4, <1>5, <1>6, <1>7, <1>8, <1>9 DEF Next, Step

\* The cache keeps the promise of MonotoneReads: no request is given data older than
\* what a request that had finished before was given.
THEOREM Implements == Spec => ReadsSpec
<1>1. Init => Reads!Init
  BY DEF Init, Reads!Init, Failed
<1> QED
  BY <1>1, StepSimulation, Typing, InvariantHolds, PTL DEF Spec, ReadsSpec, Reads!Spec
=============================================================================
