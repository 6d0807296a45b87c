----------------------- MODULE DashboardHandlerProofs -----------------------
(***************************************************************************)
(* The request handler uses each of its two caches as TTLCache allows, so  *)
(* that what is proved of one cache under any callers holds of both under  *)
(* the handler: for any number of requests, any deadlines, disconnecting   *)
(* clients and a shutdown at any time.                                     *)
(***************************************************************************)
EXTENDS DashboardHandler, TLAPS

\* The theorems of the cache, about the weather's and about the calendar's.
W == INSTANCE TTLCacheProofs WITH
    Callers <- Requests, TTL <- WeatherTTL, ctx <- fetchCtx,
    value <- wValue, valueAt <- wValueAt, inflight <- wInflight, pend <- wPend,
    pc <- wPc, mine <- wMine, got <- wGot, ret <- wRet, floor <- wFloor,
    latest <- wLatest

C == INSTANCE TTLCacheProofs WITH
    Callers <- Requests, TTL <- CalendarTTL, ctx <- fetchCtx,
    value <- cValue, valueAt <- cValueAt, inflight <- cInflight, pend <- cPend,
    pc <- cPc, mine <- cMine, got <- cGot, ret <- cRet, floor <- cFloor,
    latest <- cLatest

-----------------------------------------------------------------------------
\* Weather and W, Calendar and C are instances of the same definitions.
LEMMA WInit == Weather!Init <=> W!Init
BY DEF Weather!Init, W!Init, Weather!Zero, W!Zero, Weather!Failed, W!Failed

LEMMA WNext == Weather!Next <=> W!Next
BY DEF
   Weather!Next, W!Next, Weather!Begin, W!Begin, Weather!Call, W!Call,
   Weather!ContextDone, W!ContextDone, Weather!OtherContext, W!OtherContext,
   Weather!FetchAnswers, W!FetchAnswers, Weather!Step, W!Step, Weather!Hit, W!Hit,
   Weather!Join, W!Join, Weather!Lead, W!Lead, Weather!FetchAborts, W!FetchAborts,
   Weather!FetchCut, W!FetchCut,
   Weather!Commit, W!Commit, Weather!Close, W!Close, Weather!WaitDone, W!WaitDone,
   Weather!WaitCancelled, W!WaitCancelled, Weather!Return, W!Return,
   Weather!Fresh, W!Fresh, Weather!Ok, W!Ok, Weather!Zero, W!Zero,
   Weather!Failed, W!Failed, Weather!Tick, W!Tick, Weather!cacheVars, W!cacheVars,
   Weather!callVars, W!callVars

LEMMA WSpec == Weather!Spec <=> W!Spec
<1>1. [Weather!Next]_(Weather!vars) <=> [W!Next]_(W!vars)
  BY WNext DEF
     Weather!vars, W!vars, Weather!cacheVars, W!cacheVars,
     Weather!callVars, W!callVars
<1> QED BY <1>1, WInit, PTL DEF Weather!Spec, W!Spec

LEMMA WSound == Weather!Spec => [](Weather!SingleFlight /\ Weather!NoOrphanedWaiter)
<1>1. W!CacheAssumption
  BY HandlerAssumption DEF W!CacheAssumption
<1>2. W!Spec => []W!CacheInv
  BY <1>1, W!InvariantHolds
<1>3. W!CacheInv => Weather!SingleFlight /\ Weather!NoOrphanedWaiter
  BY DEF W!CacheInv, Weather!SingleFlight, W!SingleFlight, Weather!NoOrphanedWaiter,
     W!NoOrphanedWaiter, Weather!Fetching, W!Fetching
<1> QED BY <1>2, <1>3, WSpec, PTL

LEMMA CInit == Calendar!Init <=> C!Init
BY DEF Calendar!Init, C!Init, Calendar!Zero, C!Zero, Calendar!Failed, C!Failed

LEMMA CNext == Calendar!Next <=> C!Next
BY DEF
   Calendar!Next, C!Next, Calendar!Begin, C!Begin, Calendar!Call, C!Call,
   Calendar!ContextDone, C!ContextDone, Calendar!OtherContext, C!OtherContext,
   Calendar!FetchAnswers, C!FetchAnswers, Calendar!Step, C!Step, Calendar!Hit, C!Hit,
   Calendar!Join, C!Join, Calendar!Lead, C!Lead, Calendar!FetchAborts, C!FetchAborts,
   Calendar!FetchCut, C!FetchCut,
   Calendar!Commit, C!Commit, Calendar!Close, C!Close, Calendar!WaitDone, C!WaitDone,
   Calendar!WaitCancelled, C!WaitCancelled, Calendar!Return, C!Return,
   Calendar!Fresh, C!Fresh, Calendar!Ok, C!Ok, Calendar!Zero, C!Zero,
   Calendar!Failed, C!Failed, Calendar!Tick, C!Tick, Calendar!cacheVars, C!cacheVars,
   Calendar!callVars, C!callVars

LEMMA CSpec == Calendar!Spec <=> C!Spec
<1>1. [Calendar!Next]_(Calendar!vars) <=> [C!Next]_(C!vars)
  BY CNext DEF
     Calendar!vars, C!vars, Calendar!cacheVars, C!cacheVars,
     Calendar!callVars, C!callVars
<1> QED BY <1>1, CInit, PTL DEF Calendar!Spec, C!Spec

LEMMA CSound == Calendar!Spec => [](Calendar!SingleFlight /\ Calendar!NoOrphanedWaiter)
<1>1. C!CacheAssumption
  BY HandlerAssumption DEF C!CacheAssumption
<1>2. C!Spec => []C!CacheInv
  BY <1>1, C!InvariantHolds
<1>3. C!CacheInv => Calendar!SingleFlight /\ Calendar!NoOrphanedWaiter
  BY DEF C!CacheInv, Calendar!SingleFlight, C!SingleFlight, Calendar!NoOrphanedWaiter,
     C!NoOrphanedWaiter, Calendar!Fetching, C!Fetching
<1> QED BY <1>2, <1>3, CSpec, PTL
-----------------------------------------------------------------------------
InGet == {"idle", "lock", "fetch", "commit", "close", "wait"}

\* A request is in one cache at a time, and in none when it is not in the handler.
OneAtATime ==
    /\ fetchCtx \in [Requests -> BOOLEAN]
    /\ at \in [Requests -> {"idle", "weather", "calendar", "render"}]
    /\ wPc \in [Requests -> InGet] /\ cPc \in [Requests -> InGet]
    /\ \A r \in Requests : at[r] # "weather" => wPc[r] = "idle"
    /\ \A r \in Requests : at[r] # "calendar" => cPc[r] = "idle"


\* What a cache does for a request concerns that request alone.
LEMMA WeatherLocal ==
  ASSUME NEW r \in Requests, wPc \in [Requests -> InGet],
         Weather!Step(r) \/ Weather!FetchAnswers(r)
  PROVE  /\ wPc[r] # "idle"
         /\ UNCHANGED <<now, fetchCtx>>
         /\ wPc' \in [Requests -> InGet]
         /\ \A s \in Requests \ {r} : wPc'[s] = wPc[s]
BY DEF InGet, Weather!Step, Weather!Hit, Weather!Join,
   Weather!Lead, Weather!FetchAborts, Weather!Commit, Weather!Close,
   Weather!WaitDone, Weather!WaitCancelled, Weather!Return, Weather!FetchAnswers

LEMMA CalendarLocal ==
  ASSUME NEW r \in Requests, cPc \in [Requests -> InGet],
         Calendar!Step(r) \/ Calendar!FetchAnswers(r)
  PROVE  /\ cPc[r] # "idle"
         /\ UNCHANGED <<now, fetchCtx>>
         /\ cPc' \in [Requests -> InGet]
         /\ \A s \in Requests \ {r} : cPc'[s] = cPc[s]
BY DEF InGet, Calendar!Step, Calendar!Hit, Calendar!Join,
   Calendar!Lead, Calendar!FetchAborts, Calendar!Commit, Calendar!Close,
   Calendar!WaitDone, Calendar!WaitCancelled, Calendar!Return, Calendar!FetchAnswers

LEMMA OneAtATimeHolds == Spec => []OneAtATime
<1>1. Init => OneAtATime
  BY DEF Init, OneAtATime, InGet, Weather!Init, Calendar!Init
<1>2. OneAtATime /\ [Next]_vars => OneAtATime'
  <2> SUFFICES ASSUME OneAtATime, [Next]_vars PROVE OneAtATime'
    OBVIOUS
  <2> USE DEF OneAtATime
  <2>1. CASE Tick
    BY <2>1 DEF Tick, hVars, wVars, cVars
  <2>2. ASSUME NEW r \in Requests, Arrive(r) PROVE OneAtATime'
    BY <2>2 DEF Arrive, Weather!Call, InGet, cVars
  <2>3. ASSUME NEW r \in Requests, WeatherReturned(r) PROVE OneAtATime'
    BY <2>3 DEF WeatherReturned, Calendar!Call, InGet, wVars, cVars
  <2>4. ASSUME NEW r \in Requests, CalendarReturned(r) PROVE OneAtATime'
    BY <2>4 DEF CalendarReturned, wVars, cVars
  <2>5. ASSUME NEW r \in Requests, Respond(r) PROVE OneAtATime'
    BY <2>5 DEF Respond, wVars, cVars
  <2>6. ASSUME NEW r \in Requests, Disconnect(r) PROVE OneAtATime'
    BY <2>6 DEF Disconnect, hVars, wVars, cVars
  <2>7. ASSUME NEW r \in Requests, InWeather(r) PROVE OneAtATime'
    BY <2>7, WeatherLocal DEF InWeather, hVars, cVars
  <2>8. ASSUME NEW r \in Requests, InCalendar(r) PROVE OneAtATime'
    BY <2>8, CalendarLocal DEF InCalendar, hVars, wVars
  <2>9. CASE Terminate \/ Exit \/ UNCHANGED vars
    BY <2>9 DEF Terminate, Exit, vars, hVars, wVars, cVars
  <2> QED
    BY <2>1, <2>2, <2>3, <2>4, <2>5, <2>6, <2>7, <2>8, <2>9
    DEF Next, Serve, Handle, Stopped
<1> QED BY <1>1, <1>2, PTL DEF Spec

\* A context made or ended outside a cache is a step of the cache's callers.
LEMMA ContextMoves ==
  ASSUME OneAtATime, NEW r \in Requests, NEW done \in BOOLEAN,
         fetchCtx' = [fetchCtx EXCEPT ![r] = done], UNCHANGED now
  PROVE  /\ UNCHANGED wVars /\ (done \/ at[r] # "weather") => [Weather!Next]_(Weather!vars)
         /\ UNCHANGED cVars /\ (done \/ at[r] # "calendar") => [Calendar!Next]_(Calendar!vars)
<1>1. fetchCtx[r] = done \/ fetchCtx' = [fetchCtx EXCEPT ![r] = ~@]
  BY DEF OneAtATime
<1>2. fetchCtx[r] = done => UNCHANGED fetchCtx
  BY DEF OneAtATime
<1>3. CASE fetchCtx[r] = done
  BY <1>2, <1>3 DEF wVars, cVars, Weather!vars, Weather!cacheVars, Weather!callVars,
     Calendar!vars, Calendar!cacheVars, Calendar!callVars
<1>4. CASE fetchCtx[r] # done
  <2>1. UNCHANGED wVars /\ (done \/ at[r] # "weather")
          => Weather!ContextDone(r) \/ Weather!OtherContext(r)
    BY <1>1, <1>4 DEF OneAtATime, wVars, Weather!ContextDone, Weather!OtherContext,
       Weather!cacheVars, Weather!callVars
  <2>2. UNCHANGED cVars /\ (done \/ at[r] # "calendar")
          => Calendar!ContextDone(r) \/ Calendar!OtherContext(r)
    BY <1>1, <1>4 DEF OneAtATime, cVars, Calendar!ContextDone, Calendar!OtherContext,
       Calendar!cacheVars, Calendar!callVars
  <2> QED BY <2>1, <2>2 DEF Weather!Next, Calendar!Next
<1> QED BY <1>3, <1>4

\* Every step of the handler is a step, or none, of the weather's cache and of the
\* calendar's.
LEMMA StepImplements ==
  OneAtATime /\ [Next]_vars =>
      [Weather!Next]_(Weather!vars) /\ [Calendar!Next]_(Calendar!vars)
<1> SUFFICES ASSUME OneAtATime, [Next]_vars
             PROVE  [Weather!Next]_(Weather!vars) /\ [Calendar!Next]_(Calendar!vars)
  OBVIOUS
<1> DEFINE Both == [Weather!Next]_(Weather!vars) /\ [Calendar!Next]_(Calendar!vars)
<1>1. ASSUME UNCHANGED <<now, fetchCtx>>
      PROVE  /\ UNCHANGED wVars => UNCHANGED Weather!vars
             /\ UNCHANGED cVars => UNCHANGED Calendar!vars
  BY <1>1 DEF wVars, cVars, Weather!vars, Weather!cacheVars, Weather!callVars,
     Calendar!vars, Calendar!cacheVars, Calendar!callVars
<1>2. CASE Tick
  <2> DEFINE ending == {r \in Requests : at[r] # "idle" /\ age'[r] >= Budget}
  <2>1. /\ ending \in SUBSET Requests
        /\ fetchCtx' = [r \in Requests |-> fetchCtx[r] \/ r \in ending]
    BY <1>2 DEF Tick
  <2>2. Weather!Tick /\ Calendar!Tick
    <3> HIDE DEF ending
    <3> QED BY <1>2, <2>1 DEF Tick, wVars, cVars, Weather!Tick, Weather!cacheVars,
               Weather!callVars, Calendar!Tick, Calendar!cacheVars, Calendar!callVars
  <2> QED BY <2>2 DEF Weather!Next, Calendar!Next
<1>3. ASSUME NEW r \in Requests, Arrive(r) PROVE Both
  <2>1. Weather!Begin(r)
    BY <1>3 DEF Arrive, Weather!Begin
  <2>2. /\ at[r] # "calendar" /\ UNCHANGED now /\ UNCHANGED cVars
        /\ fetchCtx' = [fetchCtx EXCEPT ![r] = FALSE]
    BY <1>3 DEF Arrive
  <2>3. [Calendar!Next]_(Calendar!vars)
    BY <2>2, ContextMoves
  <2> QED BY <2>1, <2>3 DEF Weather!Next
<1>4. ASSUME NEW r \in Requests, WeatherReturned(r) PROVE Both
  <2>1. UNCHANGED <<now, fetchCtx>> /\ UNCHANGED wVars
    BY <1>4 DEF WeatherReturned
  <2>2. Calendar!Call(r) => Calendar!Begin(r)
    <3>1. fetchCtx' = [fetchCtx EXCEPT ![r] = fetchCtx[r]] /\ fetchCtx[r] \in BOOLEAN
      BY <2>1 DEF OneAtATime
    <3> QED BY <2>1, <3>1 DEF Calendar!Begin
  <2>3. Calendar!Call(r) \/ UNCHANGED cVars
    BY <1>4 DEF WeatherReturned
  <2> QED BY <1>1, <2>1, <2>2, <2>3 DEF Calendar!Next
<1>5. ASSUME NEW r \in Requests, CalendarReturned(r) PROVE Both
  BY <1>1, <1>5 DEF CalendarReturned
<1>6. ASSUME NEW r \in Requests, Respond(r) \/ Disconnect(r) PROVE Both
  <2>1. /\ UNCHANGED now /\ UNCHANGED wVars /\ UNCHANGED cVars
        /\ fetchCtx' = [fetchCtx EXCEPT ![r] = TRUE]
    BY <1>6 DEF Respond, Disconnect
  <2> QED BY <2>1, ContextMoves
<1>7. ASSUME NEW r \in Requests, InWeather(r) PROVE Both
  <2>1. UNCHANGED <<now, fetchCtx>> /\ UNCHANGED cVars
    BY <1>7, WeatherLocal DEF InWeather, OneAtATime
  <2> QED BY <1>1, <1>7, <2>1 DEF InWeather, Weather!Next
<1>8. ASSUME NEW r \in Requests, InCalendar(r) PROVE Both
  <2>1. UNCHANGED <<now, fetchCtx>> /\ UNCHANGED wVars
    BY <1>8, CalendarLocal DEF InCalendar, OneAtATime
  <2> QED BY <1>1, <1>8, <2>1 DEF InCalendar, Calendar!Next
<1>9. CASE Terminate \/ Exit \/ UNCHANGED vars
  <2>1. UNCHANGED <<now, fetchCtx>> /\ UNCHANGED wVars /\ UNCHANGED cVars
    BY <1>9 DEF Terminate, Exit, vars
  <2> QED BY <1>1, <2>1
<1> QED
  BY <1>2, <1>3, <1>4, <1>5, <1>6, <1>7, <1>8, <1>9 DEF Next, Serve, Handle, Stopped

\* The handler uses both caches as their specification allows: what it shares between
\* them, one context and one clock, is nothing that TTLCache excludes.
THEOREM UsesCaches == Spec => Weather!Spec /\ Calendar!Spec
<1>1. Init => Weather!Init /\ Calendar!Init
  BY DEF Init
<1> QED
  BY <1>1, OneAtATimeHolds, StepImplements, PTL DEF Spec, Weather!Spec, Calendar!Spec

\* One fetch at a time in each cache and no waiter left behind, however many requests
\* there are and whatever ends their context.
THEOREM CachesStaySound == Spec => []CachesSound
BY UsesCaches, WSound, CSound, PTL DEF CachesSound


\* The types of what the handler itself keeps, and how the drain stands to the
\* requests: none that is left is younger than it.
DrainInv ==
    /\ age \in [Requests -> 0..(Budget + 1)]
    /\ calProvider \in BOOLEAN
    /\ gone \in [Requests -> BOOLEAN]
    /\ at \in [Requests -> {"idle", "weather", "calendar", "render"}]
    /\ model \in [Requests -> {"none", "some"}]
    /\ calModel \in [Requests -> {"none", "some"}]
    /\ server \in {"up", "draining", "down"}
    /\ drained \in 0..ShutdownTimeout
    /\ server = "up" => drained = 0
    /\ ShutdownTimeout <= Budget =>
          /\ CutsOnlySlow
          /\ server = "draining" => \A r \in Requests : at[r] # "idle" => age[r] >= drained

LEMMA DrainInvHolds == Spec => []DrainInv
<1>1. Init => DrainInv
  BY HandlerAssumption DEF Init, DrainInv, CutsOnlySlow
<1>2. DrainInv /\ [Next]_vars => DrainInv'
  <2> SUFFICES ASSUME DrainInv, [Next]_vars PROVE DrainInv'
    OBVIOUS
  <2> USE HandlerAssumption DEF DrainInv, CutsOnlySlow
  <2>1. CASE server # "down" /\ Tick
    <3>1. \A r \in Requests : age'[r] \in 0..(Budget + 1)
      BY <2>1 DEF Tick
    <3>2. /\ age' \in [Requests -> 0..(Budget + 1)] /\ UNCHANGED <<at, server>>
          /\ drained' \in 0..ShutdownTimeout /\ (server = "up" => drained' = drained)
          /\ drained' <= drained + 1
      BY <2>1, <3>1 DEF Tick, hVars
    <3>3. ShutdownTimeout <= Budget /\ server = "draining" =>
             \A r \in Requests : at[r] # "idle" => age'[r] >= drained'
      <4> SUFFICES ASSUME ShutdownTimeout <= Budget, server = "draining",
                          NEW r \in Requests, at[r] # "idle"
                   PROVE  age'[r] >= drained'
        OBVIOUS
      <4>1. age[r] >= drained /\ age[r] \in 0..(Budget + 1)
        OBVIOUS
      <4>2. age'[r] = IF age[r] <= Budget THEN age[r] + 1 ELSE age[r]
        BY <2>1 DEF Tick
      <4> QED BY <3>2, <4>1, <4>2
    <3> QED BY <2>1, <3>2, <3>3 DEF Tick, hVars
  <2>2. ASSUME NEW r \in Requests, server # "down", Arrive(r) PROVE DrainInv'
    BY <2>2 DEF Arrive, sVars
  <2>3. ASSUME NEW r \in Requests, server # "down", WeatherReturned(r) PROVE DrainInv'
    BY <2>3 DEF WeatherReturned, Shown, sVars
  <2>4. ASSUME NEW r \in Requests, server # "down", CalendarReturned(r) PROVE DrainInv'
    BY <2>4 DEF CalendarReturned, Shown, sVars
  <2>5. ASSUME NEW r \in Requests, server # "down", Respond(r) PROVE DrainInv'
    BY <2>5 DEF Respond, sVars
  <2>6. ASSUME NEW r \in Requests,
               server # "down", Disconnect(r) \/ InWeather(r) \/ InCalendar(r)
        PROVE  DrainInv'
    BY <2>6 DEF Disconnect, InWeather, InCalendar, sVars, hVars
  <2>7. CASE Terminate
    BY <2>7 DEF Terminate, hVars
  <2>8. CASE Exit
    BY <2>8 DEF Exit, Quiet, hVars
  <2>9. CASE UNCHANGED vars
    BY <2>9 DEF vars, sVars, hVars
  <2> QED
    BY <2>1, <2>2, <2>3, <2>4, <2>5, <2>6, <2>7, <2>8, <2>9
    DEF Next, Serve, Handle, Stopped
<1> QED BY <1>1, <1>2, PTL DEF Spec

\* Every variable of the handler and of its caches keeps its type.
THEOREM TypeCorrect == Spec => []TypeOK
<1>1. W!CacheAssumption /\ C!CacheAssumption
  BY HandlerAssumption DEF W!CacheAssumption, C!CacheAssumption
<1>2. W!Spec => []W!TypeOK
  BY <1>1, W!TypeCorrect
<1>3. C!Spec => []C!TypeOK
  BY <1>1, C!TypeCorrect
<1>4. W!TypeOK /\ C!TypeOK /\ DrainInv => TypeOK
  BY DEF W!TypeOK, C!TypeOK, DrainInv, TypeOK, Weather!TypeOK, Calendar!TypeOK,
     W!Outcomes, C!Outcomes, Weather!Outcomes, Calendar!Outcomes,
     W!Zero, C!Zero, Weather!Zero, Calendar!Zero
<1> QED BY <1>2, <1>3, <1>4, UsesCaches, WSpec, CSpec, DrainInvHolds, PTL

\* Why requests end in time: one whose budget is used up has a context that is done,
\* and with that no wait in either cache holds it.
DeadlineInv ==
    /\ age \in [Requests -> 0..(Budget + 1)]
    /\ fetchCtx \in [Requests -> BOOLEAN]
    /\ at \in [Requests -> {"idle", "weather", "calendar", "render"}]
    /\ \A r \in Requests :
          at[r] # "idle" => age[r] <= Budget /\ (age[r] = Budget => fetchCtx[r])

LEMMA WaitsOnlyAlive ==
  ASSUME NEW r \in Requests, at[r] # "idle", Waits(r)
  PROVE  ~fetchCtx[r]
BY DEF Waits, Weather!Blocked, Calendar!Blocked, Weather!FetchCut, Calendar!FetchCut

LEMMA DeadlineInvHolds == Spec => []DeadlineInv
<1> USE HandlerAssumption
<1>1. Init => DeadlineInv
  BY DEF Init, DeadlineInv, Weather!Init
<1>2. DeadlineInv /\ DrainInv' /\ OneAtATime /\ OneAtATime' /\ [Next]_vars => DeadlineInv'
  <2> SUFFICES ASSUME DeadlineInv, DrainInv', OneAtATime, OneAtATime', [Next]_vars,
                      NEW r \in Requests, at'[r] # "idle"
               PROVE  age'[r] <= Budget /\ (age'[r] = Budget => fetchCtx'[r])
    BY DEF DeadlineInv, DrainInv, OneAtATime
  <2> USE DEF DeadlineInv
  <2>1. CASE Tick
    <3>1. at[r] # "idle" /\ Waits(r)
      BY <2>1 DEF Tick, hVars
    <3>2. ~fetchCtx[r] /\ age[r] < Budget
      BY <3>1, WaitsOnlyAlive
    <3>3. age'[r] = age[r] + 1
      BY <2>1, <3>1, <3>2 DEF Tick
    <3>4. fetchCtx'[r] = (fetchCtx[r] \/ (at[r] # "idle" /\ age'[r] >= Budget))
      BY <2>1, Zenon DEF Tick
    <3>5. age'[r] <= Budget /\ (age'[r] = Budget => age'[r] >= Budget)
      BY <3>2, <3>3
    <3> QED BY <3>1, <3>4, <3>5, Zenon
  <2>2. ASSUME NEW s \in Requests, Arrive(s)
        PROVE  age'[r] <= Budget /\ (age'[r] = Budget => fetchCtx'[r])
    BY <2>2 DEF Arrive
  <2>3. ASSUME NEW s \in Requests,
               WeatherReturned(s) \/ CalendarReturned(s) \/ Respond(s) \/ Disconnect(s)
        PROVE  age'[r] <= Budget /\ (age'[r] = Budget => fetchCtx'[r])
    BY <2>3 DEF WeatherReturned, CalendarReturned, Respond, Disconnect, hVars
  <2>4. ASSUME NEW s \in Requests, InWeather(s) \/ InCalendar(s)
        PROVE  age'[r] <= Budget /\ (age'[r] = Budget => fetchCtx'[r])
    <3>1. UNCHANGED <<age, at, fetchCtx>>
      BY <2>4, WeatherLocal, CalendarLocal DEF InWeather, InCalendar, hVars, OneAtATime
    <3> QED BY <3>1
  <2>5. CASE Terminate \/ Exit \/ UNCHANGED vars
    BY <2>5 DEF Terminate, Exit, vars, hVars
  <2> QED
    BY <2>1, <2>2, <2>3, <2>4, <2>5 DEF Next, Serve, Handle, Stopped
<1> QED BY <1>1, <1>2, DrainInvHolds, OneAtATimeHolds, PTL DEF Spec

\* No request is held beyond its budget, however many there are, whatever the TTLs and
\* whichever upstream is silent.
THEOREM RequestsEndInTime == Spec => []AnswersInTime
<1>1. DeadlineInv => AnswersInTime
  BY DEF DeadlineInv, AnswersInTime
<1> QED BY <1>1, DeadlineInvHolds, PTL

\* With a shutdown deadline below the budget of a request, as main.go has it, the exit
\* cuts off only requests that have waited for the whole of it.
THEOREM ExitCutsOnlySlow ==
  ASSUME ShutdownTimeout <= Budget
  PROVE  Spec => []CutsOnlySlow
<1>1. DrainInv => CutsOnlySlow
  BY DEF DrainInv
<1> QED BY <1>1, DrainInvHolds, PTL
=============================================================================
