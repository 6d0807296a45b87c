-------------------------- MODULE DashboardHandler --------------------------
(***************************************************************************)
(* GET /dashboard.png: a request reads the weather and then the calendar,  *)
(* each through its own TTL cache, under one deadline, and renders what it *)
(* got.  Requests run concurrently and share both caches.                  *)
(*                                                                         *)
(* On SIGINT or SIGTERM the server takes no more requests, gives those it  *)
(* has a while to end, and exits.                                          *)
(*                                                                         *)
(* Time is discrete.  It passes only when every request is waiting for an  *)
(* upstream or for another request: what the server does itself takes no   *)
(* time at this scale.                                                     *)
(***************************************************************************)
EXTENDS Integers

CONSTANTS
    Requests,       \* concurrent requests
    Pendings, Nil,  \* see TTLCache
    WeatherTTL, CalendarTTL,
    Budget,         \* weatherFetchTimeout
    ShutdownTimeout, \* the deadline of srv.Shutdown
    MaxTime         \* bound of the clock

ASSUME HandlerAssumption ==
    /\ Budget \in Nat \ {0}
    /\ ShutdownTimeout \in Nat \ {0}
    /\ Nil \notin Pendings
    /\ WeatherTTL \in Int /\ CalendarTTL \in Int
    /\ MaxTime \in Nat

VARIABLES
    now,
    fetchCtx,       \* fetchCtx[r]: r's context is done
    age,            \* age[r]: time since r's context was made
    calProvider,    \* a calendar provider is configured
    at,             \* at[r]: where r is in the handler
    model, calModel,    \* what r renders: "none" or "some"
    gone,           \* gone[r]: the client of r has disconnected
    server,         \* the process: "up", "draining" in Shutdown, or "down"
    drained,        \* time since Shutdown was called
    wValue, wValueAt, wInflight, wPend, wPc, wMine, wGot, wRet, wFloor, wLatest,
    cValue, cValueAt, cInflight, cPend, cPc, cMine, cGot, cRet, cFloor, cLatest

wVars == <<wValue, wValueAt, wInflight, wPend, wPc, wMine, wGot, wRet, wFloor, wLatest>>
cVars == <<cValue, cValueAt, cInflight, cPend, cPc, cMine, cGot, cRet, cFloor, cLatest>>
hVars == <<at, model, calModel>>
sVars == <<server, drained>>
vars == <<now, fetchCtx, age, gone, calProvider, sVars, hVars, wVars, cVars>>

Weather == INSTANCE TTLCache WITH
    Callers <- Requests, TTL <- WeatherTTL, ctx <- fetchCtx,
    value <- wValue, valueAt <- wValueAt, inflight <- wInflight, pend <- wPend,
    pc <- wPc, mine <- wMine, got <- wGot, ret <- wRet, floor <- wFloor,
    latest <- wLatest

Calendar == INSTANCE TTLCache WITH
    Callers <- Requests, TTL <- CalendarTTL, ctx <- fetchCtx,
    value <- cValue, valueAt <- cValueAt, inflight <- cInflight, pend <- cPend,
    pc <- cPc, mine <- cMine, got <- cGot, ret <- cRet, floor <- cFloor,
    latest <- cLatest

TypeOK ==
    /\ Weather!TypeOK /\ Calendar!TypeOK
    /\ age \in [Requests -> 0..(Budget + 1)]
    /\ calProvider \in BOOLEAN
    /\ gone \in [Requests -> BOOLEAN]
    /\ server \in {"up", "draining", "down"}
    /\ drained \in 0..ShutdownTimeout
    /\ at \in [Requests -> {"idle", "weather", "calendar", "render"}]
    /\ model \in [Requests -> {"none", "some"}]
    /\ calModel \in [Requests -> {"none", "some"}]

Init ==
    /\ Weather!Init /\ Calendar!Init
    /\ age = [r \in Requests |-> 0]
    /\ calProvider \in BOOLEAN
    /\ gone = [r \in Requests |-> FALSE]
    /\ server = "up" /\ drained = 0
    /\ at = [r \in Requests |-> "idle"]
    /\ model = [r \in Requests |-> "none"]
    /\ calModel = [r \in Requests |-> "none"]
-----------------------------------------------------------------------------
\* Defect: the status itself is stored.
Status(outcome) == outcome.kind

Shown(outcome) == IF outcome.kind = "ok" THEN "some" ELSE "none"

\* A request arrives: a context with the deadline, and weather first.  Shutdown
\* has closed the listener and the idle connections.
Arrive(r) ==
    /\ server = "up"
    /\ at[r] = "idle"
    /\ at' = [at EXCEPT ![r] = "weather"]
    /\ age' = [age EXCEPT ![r] = 0]
    /\ gone' = [gone EXCEPT ![r] = FALSE]
    /\ fetchCtx' = [fetchCtx EXCEPT ![r] = FALSE]
    /\ Weather!Call(r)
    /\ UNCHANGED <<now, calProvider, sVars, model, calModel, cVars>>

\* provider.Weather has returned; a failure leaves the model nil.
WeatherReturned(r) ==
    /\ at[r] = "weather" /\ wPc[r] = "idle"
    /\ model' = [model EXCEPT ![r] = Shown(wRet[r])]
    /\ \/ /\ calProvider
          /\ at' = [at EXCEPT ![r] = "calendar"]
          /\ Calendar!Call(r)
          /\ UNCHANGED calModel
       \/ /\ ~calProvider
          /\ at' = [at EXCEPT ![r] = "render"]
          /\ calModel' = [calModel EXCEPT ![r] = "none"]
          /\ UNCHANGED cVars
    /\ UNCHANGED <<now, fetchCtx, age, gone, calProvider, sVars, wVars>>

CalendarReturned(r) ==
    /\ at[r] = "calendar" /\ cPc[r] = "idle"
    /\ calModel' = [calModel EXCEPT ![r] = Shown(cRet[r])]
    /\ at' = [at EXCEPT ![r] = "render"]
    /\ UNCHANGED <<now, fetchCtx, age, gone, calProvider, sVars, model, wVars, cVars>>

\* Draw, encode, respond; the deferred cancel ends the context.
Respond(r) ==
    /\ at[r] = "render"
    /\ at' = [at EXCEPT ![r] = "idle"]
    /\ fetchCtx' = [fetchCtx EXCEPT ![r] = TRUE]
    /\ UNCHANGED <<now, age, gone, calProvider, sVars, model, calModel, wVars, cVars>>

Handle(r) == Arrive(r) \/ WeatherReturned(r) \/ CalendarReturned(r) \/ Respond(r)

\* What the two caches do on behalf of r.
InWeather(r) ==
    /\ Weather!Step(r) \/ Weather!FetchAnswers(r)
    /\ UNCHANGED <<age, gone, calProvider, sVars, hVars, cVars>>

InCalendar(r) ==
    /\ Calendar!Step(r) \/ Calendar!FetchAnswers(r)
    /\ UNCHANGED <<age, gone, calProvider, sVars, hVars, wVars>>

\* The client goes away: net/http cancels the request's context.
Disconnect(r) ==
    /\ at[r] \in {"weather", "calendar"}
    /\ ~gone[r]
    /\ gone' = [gone EXCEPT ![r] = TRUE]
    /\ fetchCtx' = [fetchCtx EXCEPT ![r] = TRUE]
    /\ UNCHANGED <<now, age, calProvider, sVars, hVars, wVars, cVars>>

\* Nothing is left for the server to do for r until an upstream answers, another
\* request gets on or a deadline passes.
Waits(r) ==
    \/ at[r] = "idle"
    \/ at[r] = "weather" /\ Weather!Blocked(r)
    \/ at[r] = "calendar" /\ Calendar!Blocked(r)

\* A signal: the main goroutine calls Shutdown.
Terminate ==
    /\ server = "up"
    /\ server' = "draining"
    /\ UNCHANGED <<now, fetchCtx, age, gone, calProvider, drained, hVars, wVars, cVars>>

\* Shutdown has nothing left to wait for.
Quiet == \A r \in Requests : at[r] = "idle"

\* Defect: Shutdown is given the context that the signal has cancelled.
ExitCancelled ==
    /\ server = "draining"
    /\ server' = "down"
    /\ UNCHANGED <<now, fetchCtx, age, gone, calProvider, drained, hVars, wVars, cVars>>

\* Shutdown returns, because all requests are done or its own deadline has passed,
\* and main with it: the process exits, with the requests that are left.
Exit ==
    /\ server = "draining"
    /\ Quiet \/ drained = ShutdownTimeout
    /\ server' = "down"
    /\ UNCHANGED <<now, fetchCtx, age, gone, calProvider, drained, hVars, wVars, cVars>>

\* Time passes, and deadlines with it.
Tick ==
    /\ \A r \in Requests : Waits(r)
    /\ server = "draining" => ~Quiet /\ drained < ShutdownTimeout
    /\ drained' = IF server = "draining" THEN drained + 1 ELSE drained
    /\ now < MaxTime
    /\ now' = now + 1
    /\ age' = [r \in Requests |->
                 IF at[r] # "idle" /\ age[r] <= Budget THEN age[r] + 1 ELSE age[r]]
    /\ fetchCtx' = [r \in Requests |-> fetchCtx[r] \/ (at[r] # "idle" /\ age'[r] >= Budget)]
    /\ UNCHANGED <<gone, calProvider, server, hVars, wVars, cVars>>

Serve ==
    /\ server # "down"
    /\ \/ Tick
       \/ \E r \in Requests : Handle(r) \/ InWeather(r) \/ InCalendar(r) \/ Disconnect(r)

\* The process is gone, and whatever it held with it.
Stopped == server = "down" /\ UNCHANGED vars

Next == Serve \/ Terminate \/ Exit \/ Stopped

Spec == Init /\ [][Next]_vars
-----------------------------------------------------------------------------
\* Each cache keeps its guarantees although one context serves both and a request
\* may reach the second with the context already done.
CachesSound ==
    /\ Weather!SingleFlight /\ Weather!NoOrphanedWaiter
    /\ Calendar!SingleFlight /\ Calendar!NoOrphanedWaiter

\* No request is held beyond its budget: neither a silent upstream, nor the leader of
\* a fetch it joined, nor two caches one after the other keep it longer.
AnswersInTime == \A r \in Requests : at[r] # "idle" => age[r] <= Budget

\* The exit cuts off no request that could still have been answered within the
\* shutdown's deadline: one that is left has waited at least that long, whoever
\* else was served, joined its fetch or was cancelled in the meantime.
CutsOnlySlow ==
    server = "down" =>
        \A r \in Requests : at[r] # "idle" => age[r] >= ShutdownTimeout
=============================================================================
