----------------------- MODULE DaemonLifecycleProofs -----------------------
(***************************************************************************)
(* The single-instance guard is sound for any number of processes, started *)
(* and killed at any moment.                                               *)
(***************************************************************************)
EXTENDS DaemonLifecycle, TLAPS

Inv == TypeOK /\ LifecycleInv

LEMMA InvHolds == Spec => []Inv
<1> USE LifecycleAssumption DEF Inv, TypeOK, LifecycleInv, EachOther, DoneScanning,
        Scanned, Daemons, LoopStates
<1>1. Init => Inv
  BY DEF Init
<1>2. Inv /\ [Next]_vars => Inv'
  <2> SUFFICES ASSUME Inv, [Next]_vars PROVE Inv'
    OBVIOUS
  <2>1. ASSUME NEW p \in Pids, Glob(p) PROVE Inv'
    BY <2>1 DEF Glob, IsLoop
  <2>2. ASSUME NEW p \in Pids, PassOver(p) PROVE Inv'
    BY <2>2 DEF PassOver, IsLoop
  <2>3. ASSUME NEW p \in Pids, Yield(p) PROVE Inv'
    BY <2>3 DEF Yield
  <2>4. ASSUME NEW p \in Pids, Claim(p) \/ SetTraps(p) PROVE Inv'
    BY <2>4 DEF Claim, SetTraps
  <2>5. CASE Watchdog
    BY <2>5 DEF Watchdog, WatchdogContent, WatchdogChecks, WatchdogSpawns, Start, vars
  <2>6. CASE Launch
    BY <2>6 DEF Launch, Fault, Start
  <2>7. ASSUME NEW p \in Pids, Kill(p) PROVE Inv'
    BY <2>7 DEF Kill, Fault, Die
  <2>8. ASSUME NEW p \in Pids, Term(p) PROVE Inv'
    BY <2>8 DEF Term, Fault
  <2>9. CASE Reboot
    BY <2>9 DEF Reboot, Fault
  <2>10. CASE UNCHANGED vars
    BY <2>10 DEF vars
  <2> QED
    BY <2>1, <2>2, <2>3, <2>4, <2>5, <2>6, <2>7, <2>8, <2>9, <2>10
       DEF Next, Faults, Instance
<1> QED BY <1>1, <1>2, PTL DEF Spec

\* Every variable keeps its type; the pidfile holds one process number or is absent.
THEOREM TypeCorrect == Spec => []TypeOK
BY InvHolds, PTL DEF Inv

\* Of any two instances that are past a part of the guard's scan, the later has the
\* earlier on its list or has passed over it: what the scan's listing, taken once and
\* read later, still guarantees.
THEOREM ScansMeet == Spec => []LifecycleInv
BY InvHolds, PTL DEF Inv

\* At most one loop.sh passes its guard, although the guard scans /proc without a
\* lock: of two instances, the one whose listing came last has the other on it.
THEOREM AtMostOneDaemon == Spec => []OneDaemon
<1>1. Inv => OneDaemon
  BY DEF Inv, LifecycleInv, EachOther, DoneScanning, Scanned, Daemons, OneDaemon
<1> QED BY <1>1, InvHolds, PTL

\* The pidfile never names another process than the running daemon: a loser of the
\* guard's race leaves before it writes the file.
THEOREM PidfileSound == Spec => []PidfileNamesDaemon
<1> USE LifecycleAssumption DEF Daemons, PidfileNamesDaemon
<1>1. Init => PidfileNamesDaemon
  BY DEF Init
<1>2. PidfileNamesDaemon /\ OneDaemon' /\ TypeOK /\ [Next]_vars => PidfileNamesDaemon'
  <2> SUFFICES ASSUME PidfileNamesDaemon, OneDaemon', TypeOK, [Next]_vars
               PROVE  PidfileNamesDaemon'
    OBVIOUS
  <2> USE DEF TypeOK, LoopStates
  <2>1. ASSUME NEW p \in Pids, Claim(p) PROVE PidfileNamesDaemon'
    BY <2>1 DEF Claim, OneDaemon
  <2>2. ASSUME NEW p \in Pids, Glob(p) \/ PassOver(p) \/ Yield(p) \/ SetTraps(p)
        PROVE  PidfileNamesDaemon'
    BY <2>2 DEF Glob, PassOver, Yield, SetTraps
  <2>3. CASE Watchdog
    BY <2>3 DEF Watchdog, WatchdogContent, WatchdogChecks, WatchdogSpawns, Start, vars
  <2>4. CASE Faults
    BY <2>4 DEF Faults, Launch, Fault, Start, Kill, Die, Term, Reboot
  <2>5. CASE UNCHANGED vars
    BY <2>5 DEF vars
  <2> QED BY <2>1, <2>2, <2>3, <2>4, <2>5 DEF Next, Instance
<1> QED BY <1>1, <1>2, AtMostOneDaemon, TypeCorrect, PTL DEF Spec
=============================================================================
