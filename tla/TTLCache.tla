------------------------------ MODULE TTLCache ------------------------------
(***************************************************************************)
(* The single-entry, single-flight TTL cache of the dashboard server:      *)
(* weather.Cache and calendar.Cache are the same algorithm over two        *)
(* payloads.  Every request runs Get in its own goroutine; the mutex makes *)
(* each of Get's two critical sections one step, and the steps between     *)
(* them (the fetch, the close of the channel, the select of a waiter)      *)
(* interleave freely.  The payload is reduced to the time at which the     *)
(* upstream produced it (its version).                                     *)
(*                                                                         *)
(* floor and latest are history variables: no step reads them to decide    *)
(* anything.                                                               *)
(***************************************************************************)
EXTENDS Integers

CONSTANTS
    Callers,        \* goroutines calling Get
    Pendings,       \* pending structs the heap can hold at a time
    Nil,            \* the nil *pending
    TTL,            \* lifetime of a value; TTL <= 0 disables caching
    MaxTime         \* bound of the clock

ASSUME CacheAssumption ==
    /\ Nil \notin Pendings
    /\ TTL \in Int
    /\ MaxTime \in Nat

VARIABLES
    now,            \* the monotonic clock behind c.now()
    ctx,            \* ctx[c]: TRUE once the context c passed to Get is done
    value,          \* c.value
    valueAt,        \* c.valueAt
    inflight,       \* c.inflight
    pend,           \* the pending structs: done channel closed, result
    pc,             \* pc[c]: where c is in Get
    mine,           \* mine[c]: the pending c leads or waits for
    got,            \* got[c]: a leader's local (forecast, err)
    ret,            \* ret[c]: what c's last Get returned
    floor,          \* history: latest when c entered Get
    latest          \* history: newest version any Get has returned

cacheVars == <<value, valueAt, inflight, pend>>
callVars == <<pc, mine, got, ret, floor, latest>>
vars == <<now, ctx, cacheVars, callVars>>

Zero == -1          \* the zero time.Time

Outcomes == [kind : {"ok", "fetchErr", "ctxErr"}, ver : 0..MaxTime]
Ok(v) == [kind |-> "ok", ver |-> v]
Failed(kind) == [kind |-> kind, ver |-> 0]

TypeOK ==
    /\ now \in 0..MaxTime
    /\ ctx \in [Callers -> BOOLEAN]
    /\ value \in 0..MaxTime
    /\ valueAt \in {Zero} \cup 0..MaxTime
    /\ inflight \in Pendings \cup {Nil}
    /\ pend \in [Pendings -> [done : BOOLEAN, res : Outcomes]]
    /\ pc \in [Callers -> {"idle", "lock", "fetch", "commit", "close", "wait"}]
    /\ mine \in [Callers -> Pendings \cup {Nil}]
    /\ got \in [Callers -> Outcomes]
    /\ ret \in [Callers -> Outcomes]
    /\ floor \in [Callers -> 0..MaxTime]
    /\ latest \in 0..MaxTime

Init ==
    /\ now = 0
    /\ ctx = [c \in Callers |-> FALSE]
    /\ value = 0
    /\ valueAt = Zero
    /\ inflight = Nil
    /\ pend = [p \in Pendings |-> [done |-> FALSE, res |-> Failed("ctxErr")]]
    /\ pc = [c \in Callers |-> "idle"]
    /\ mine = [c \in Callers |-> Nil]
    /\ got = [c \in Callers |-> Failed("ctxErr")]
    /\ ret = [c \in Callers |-> Failed("ctxErr")]
    /\ floor = [c \in Callers |-> 0]
    /\ latest = 0
-----------------------------------------------------------------------------
\* Defect: the ttl compared one unit short.
FreshShort == valueAt # Zero /\ TTL > 0 /\ now - valueAt < TTL - 1

\* fresh(): the cached value is set and younger than the ttl.
Fresh == valueAt # Zero /\ TTL > 0 /\ now - valueAt < TTL

\* Get returns r to c and its locals go: the reference to the pending struct and
\* a leader's (forecast, err).
Return(c, r) ==
    /\ pc' = [pc EXCEPT ![c] = "idle"]
    /\ mine' = [mine EXCEPT ![c] = Nil]
    /\ got' = [got EXCEPT ![c] = Failed("ctxErr")]
    /\ ret' = [ret EXCEPT ![c] = r]
    /\ latest' = IF r.kind = "ok" /\ r.ver > latest THEN r.ver ELSE latest

\* c calls Get and queues for the mutex.
Call(c) ==
    /\ pc[c] = "idle"
    /\ pc' = [pc EXCEPT ![c] = "lock"]
    /\ floor' = [floor EXCEPT ![c] = latest]
    /\ UNCHANGED <<cacheVars, mine, got, ret, latest>>

\* First critical section, value fresh: return it.
Hit(c) ==
    /\ pc[c] = "lock"
    /\ Fresh
    /\ Return(c, Ok(value))
    /\ UNCHANGED <<now, ctx, cacheVars, floor>>

\* First critical section, a fetch is running: wait for it.
Join(c) ==
    /\ pc[c] = "lock"
    /\ ~Fresh
    /\ inflight # Nil
    /\ mine' = [mine EXCEPT ![c] = inflight]
    /\ pc' = [pc EXCEPT ![c] = "wait"]
    /\ UNCHANGED <<now, ctx, cacheVars, got, ret, floor, latest>>

\* Defect: the check of c.inflight is forgotten.
LeadUnchecked(c) ==
    /\ pc[c] = "lock"
    /\ ~Fresh
    /\ \E p \in Pendings :
          /\ \A d \in Callers : mine[d] # p
          /\ pend' = [pend EXCEPT ![p] = [done |-> FALSE, res |-> Failed("ctxErr")]]
          /\ inflight' = p
          /\ mine' = [mine EXCEPT ![c] = p]
    /\ pc' = [pc EXCEPT ![c] = "fetch"]
    /\ UNCHANGED <<now, ctx, value, valueAt, got, ret, floor, latest>>

\* Defect: one pending struct reused for every fetch instead of a new one.
LeadReusing(c) ==
    /\ pc[c] = "lock"
    /\ ~Fresh
    /\ inflight = Nil
    /\ \E p \in Pendings :
          /\ pend' = [pend EXCEPT ![p] = [done |-> FALSE, res |-> Failed("ctxErr")]]
          /\ inflight' = p
          /\ mine' = [mine EXCEPT ![c] = p]
    /\ pc' = [pc EXCEPT ![c] = "fetch"]
    /\ UNCHANGED <<now, ctx, value, valueAt, got, ret, floor, latest>>

\* First critical section, no fetch running: become the leader of one.  The
\* struct is one that no goroutine refers to any more.
Lead(c) ==
    /\ pc[c] = "lock"
    /\ ~Fresh
    /\ inflight = Nil
    /\ \E p \in Pendings :
          /\ \A d \in Callers : mine[d] # p
          /\ pend' = [pend EXCEPT ![p] = [done |-> FALSE, res |-> Failed("ctxErr")]]
          /\ inflight' = p
          /\ mine' = [mine EXCEPT ![c] = p]
    /\ pc' = [pc EXCEPT ![c] = "fetch"]
    /\ UNCHANGED <<now, ctx, value, valueAt, got, ret, floor, latest>>

\* The upstream answers the leader: data as of this moment, or an error of the
\* transport, of the status code or of the decoder.
FetchAnswers(c) ==
    /\ pc[c] = "fetch"
    /\ \E r \in {Ok(now), Failed("fetchErr")} : got' = [got EXCEPT ![c] = r]
    /\ pc' = [pc EXCEPT ![c] = "commit"]
    /\ UNCHANGED <<now, ctx, cacheVars, mine, ret, floor, latest>>

\* Defect: the HTTP request is not bound to the context.
FetchUnbound(c) == FALSE

\* The HTTP request carries the leader's own context and ends with it.
FetchCut(c) == ctx[c]

\* The leader's context is done: the HTTP client abandons the fetch.
FetchAborts(c) ==
    /\ pc[c] = "fetch"
    /\ FetchCut(c)
    /\ got' = [got EXCEPT ![c] = Failed("ctxErr")]
    /\ pc' = [pc EXCEPT ![c] = "commit"]
    /\ UNCHANGED <<now, ctx, cacheVars, mine, ret, floor, latest>>

\* Defect: the expiry instant stored where the fetch instant belongs.
CommitExpiry(c) ==
    /\ pc[c] = "commit"
    /\ \/ /\ got[c].kind = "ok"
          /\ value' = got[c].ver
          /\ valueAt' = now + TTL
       \/ /\ got[c].kind # "ok"
          /\ UNCHANGED <<value, valueAt>>
    /\ pend' = [pend EXCEPT ![mine[c]].res = got[c]]
    /\ inflight' = Nil
    /\ pc' = [pc EXCEPT ![c] = "close"]
    /\ UNCHANGED <<now, ctx, mine, got, ret, floor, latest>>

\* Defect: the guard on err is missing, an error overwrites the value.
CommitError(c) ==
    /\ pc[c] = "commit"
    /\ value' = got[c].ver
    /\ valueAt' = now
    /\ pend' = [pend EXCEPT ![mine[c]].res = got[c]]
    /\ inflight' = Nil
    /\ pc' = [pc EXCEPT ![c] = "close"]
    /\ UNCHANGED <<now, ctx, mine, got, ret, floor, latest>>

\* Defect: the slot is freed before the result is stored in the pending struct.
CommitUnpublished(c) ==
    /\ pc[c] = "commit"
    /\ \/ /\ got[c].kind = "ok"
          /\ value' = got[c].ver
          /\ valueAt' = now
       \/ /\ got[c].kind # "ok"
          /\ UNCHANGED <<value, valueAt>>
    /\ inflight' = Nil
    /\ pc' = [pc EXCEPT ![c] = "close"]
    /\ UNCHANGED <<now, ctx, pend, mine, got, ret, floor, latest>>

\* Second critical section.
Commit(c) ==
    /\ pc[c] = "commit"
    /\ \/ /\ got[c].kind = "ok"
          /\ value' = got[c].ver
          /\ valueAt' = now
       \/ /\ got[c].kind # "ok"
          /\ UNCHANGED <<value, valueAt>>
    /\ pend' = [pend EXCEPT ![mine[c]].res = got[c]]
    /\ inflight' = Nil
    /\ pc' = [pc EXCEPT ![c] = "close"]
    /\ UNCHANGED <<now, ctx, mine, got, ret, floor, latest>>

\* Defect: the channel is never closed.
CloseForgotten(c) ==
    /\ pc[c] = "close"
    /\ Return(c, got[c])
    /\ UNCHANGED <<now, ctx, cacheVars, floor>>

\* close(p.done), and the leader returns its own result.
Close(c) ==
    /\ pc[c] = "close"
    /\ pend' = [pend EXCEPT ![mine[c]].done = TRUE]
    /\ Return(c, got[c])
    /\ UNCHANGED <<now, ctx, value, valueAt, inflight, floor>>

\* The select of a waiter; when both channels are ready either may be taken.
WaitDone(c) ==
    /\ pc[c] = "wait"
    /\ pend[mine[c]].done
    /\ Return(c, pend[mine[c]].res)
    /\ UNCHANGED <<now, ctx, cacheVars, floor>>

WaitCancelled(c) ==
    /\ pc[c] = "wait"
    /\ ctx[c]
    /\ Return(c, Failed("ctxErr"))
    /\ UNCHANGED <<now, ctx, cacheVars, floor>>
-----------------------------------------------------------------------------
\* The callers and their contexts: a Get is called with a new context or with one
\* that another call has used up to its end; while it runs its context only ever
\* ends, with a deadline or because the client goes away; between two calls the
\* caller may drop its context for another.
Begin(c) ==
    /\ Call(c)
    /\ \E done \in BOOLEAN : ctx' = [ctx EXCEPT ![c] = done]
    /\ UNCHANGED now

ContextDone(c) ==
    /\ pc[c] # "idle"
    /\ ~ctx[c]
    /\ ctx' = [ctx EXCEPT ![c] = TRUE]
    /\ UNCHANGED <<now, cacheVars, callVars>>

OtherContext(c) ==
    /\ pc[c] = "idle"
    /\ ctx' = [ctx EXCEPT ![c] = ~@]
    /\ UNCHANGED <<now, cacheVars, callVars>>

\* Time passes, and with it any deadlines that fall into it.
Tick ==
    /\ now < MaxTime
    /\ now' = now + 1
    /\ \E ending \in SUBSET Callers : ctx' = [c \in Callers |-> ctx[c] \/ c \in ending]
    /\ UNCHANGED <<cacheVars, callVars>>

\* c is where only the upstream, the leader it waits for or the end of its context
\* can get it on.
Blocked(c) ==
    \/ pc[c] = "fetch" /\ ~FetchCut(c)
    \/ pc[c] = "wait" /\ ~ctx[c] /\ ~pend[mine[c]].done

\* The steps of Get that need nothing from outside the goroutine.
Step(c) ==
    \/ Hit(c) \/ Join(c) \/ Lead(c) \/ FetchAborts(c) \/ Commit(c)
    \/ Close(c) \/ WaitDone(c) \/ WaitCancelled(c)

Next ==
    \/ Tick
    \/ \E c \in Callers :
          Begin(c) \/ FetchAnswers(c) \/ ContextDone(c) \/ OtherContext(c) \/ Step(c)

Spec == Init /\ [][Next]_vars

\* The Go scheduler runs every goroutine that can run, and every context the
\* handler makes has a deadline.  Nothing obliges the upstream to answer.
Fairness == \A c \in Callers : WF_vars(Step(c)) /\ WF_vars(ContextDone(c))

FairSpec == Spec /\ Fairness
-----------------------------------------------------------------------------
\* Callers whose fetch has been started and not committed.
Fetching == {c \in Callers : pc[c] \in {"fetch", "commit"}}

\* "At most one upstream fetch is in flight at a time", and c.inflight is set
\* exactly while there is one.
SingleFlight ==
    /\ \A c, d \in Fetching : c = d
    /\ (inflight # Nil) <=> (Fetching # {})

\* No waiter is orphaned: the channel a goroutine blocks on is closed already or
\* some leader of the same pending struct has yet to close it.  A second fetch
\* started over a struct that is still awaited would break it.
NoOrphanedWaiter ==
    \A c \in Callers : pc[c] = "wait" =>
        \/ pend[mine[c]].done
        \/ \E d \in Callers : /\ pc[d] \in {"fetch", "commit", "close"}
                              /\ mine[d] = mine[c]

\* How the parts of the cache hang together at every instant: who refers to
\* which pending struct, and which versions they hold.  This is the invariant
\* that carries the proofs.
Holding == \A c \in Callers : pc[c] \in {"idle", "lock"} <=> mine[c] = Nil

References ==
    /\ \A c \in Fetching : inflight = mine[c]
    /\ inflight # Nil => ~pend[inflight].done
    /\ \A c, d \in Callers :
          /\ c # d
          /\ pc[c] \in {"fetch", "commit", "close"}
          /\ pc[d] \in {"fetch", "commit", "close"}
          => mine[c] # mine[d]

Versions ==
    /\ value <= now
    /\ latest <= value
    /\ \A c \in Callers : floor[c] <= latest
    /\ \A c \in Callers : pc[c] = "commit" /\ got[c].kind = "ok" =>
          got[c].ver \in value..now
    /\ \A c \in Callers : pc[c] = "close" =>
          /\ got[c].kind = "ok" => got[c].ver \in floor[c]..value
          /\ pend[mine[c]].res = got[c]
          /\ mine[c] # inflight
    /\ \A c \in Callers : pc[c] = "wait" /\ mine[c] # inflight =>
          LET r == pend[mine[c]].res IN r.kind = "ok" => r.ver \in floor[c]..value

\* The value a leader found stale is still the one in the cache when it commits.
StillStale == Fetching # {} => ~Fresh

CacheInv ==
    /\ Holding
    /\ SingleFlight
    /\ References
    /\ NoOrphanedWaiter
    /\ Versions
    /\ StillStale

\* "All waiters see the same result": once the channel of a pending struct is
\* closed, what its waiters will read never changes under them.
PublishedResultFinal ==
    [][\A c \in Callers :
          pc[c] = "wait" /\ pend[mine[c]].done /\ pc'[c] = "wait"
             => pend'[mine[c]] = pend[mine[c]]]_vars

\* The upstream is spared: with caching on, two successful fetches are committed
\* at least a TTL apart, however the calls interleave with the expiry.
SuccessesSpaced ==
    [][\A c \in Callers :
          pc[c] = "commit" /\ pc'[c] = "close" /\ got[c].kind = "ok" /\ TTL > 0
             => valueAt = Zero \/ now - valueAt >= TTL]_vars

\* "Transient upstream failures are already absorbed": once a fetch has
\* succeeded, no Get reports an upstream failure.
FailuresAbsorbed ==
    [][\A c \in Callers :
          pc[c] = "close" /\ pc'[c] = "idle" /\ valueAt # Zero
             => ret'[c].kind # "fetchErr"]_vars

\* A Get returns no data older than what any Get that finished before it began
\* had returned: the cache implements MonotoneReads.
Reads == INSTANCE MonotoneReads WITH
            Readers <- Callers,
            active <- [c \in Callers |-> pc[c] # "idle"]
ReadsSpec == Reads!Spec

\* No Get is stuck: whoever leads, fails or is cancelled, each call returns.
EveryGetReturns == \A c \in Callers : pc[c] # "idle" ~> pc[c] = "idle"
=============================================================================
