-------------------------- MODULE DaemonLifecycle --------------------------
(***************************************************************************)
(* Who runs loop.sh: the single-instance guard and the pidfile of          *)
(* client/loop.sh, the relaunching cron job client/watchdog.sh, and the    *)
(* signals, launches and reboots around them.                              *)
(*                                                                         *)
(* The guard is a scan of /proc, one process at a time; instances start    *)
(* and die while it goes on.  The pidfile lives on /mnt/us and survives a  *)
(* reboot, which hands its number to some other program.                   *)
(***************************************************************************)
EXTENDS Integers, FiniteSets

CONSTANTS
    Pids,           \* process numbers
    None,           \* no pidfile
    MaxFaults,      \* bound: kills, launches by hand and reboots
    Mishaps         \* "term": the daemon is sent TERM or INT
                    \* "reuse": another program gets the number in the pidfile

ASSUME LifecycleAssumption ==
    /\ None \notin Pids
    /\ MaxFaults \in Nat
    /\ Mishaps \subseteq {"term", "reuse"}

VARIABLES
    proc,           \* proc[p]: what process p is and how far it has come
    seen,           \* seen[p]: loop.sh processes p's scan has yet to look at
    pidfile,        \* the number in state/loop.pid
    watchdog,       \* the cron job: "idle", or about to "spawn"
    faults          \* faults so far

vars == <<proc, seen, pidfile, watchdog, faults>>

\* A loop.sh has just been started, is scanning, has written the pidfile, or runs
\* with its traps set; otherwise the number is free or another program's.
LoopStates == {"start", "scan", "claimed", "run"}
IsLoop(p) == proc[p] \in LoopStates
Daemons == {p \in Pids : proc[p] \in {"claimed", "run"}}

TypeOK ==
    /\ proc \in [Pids -> LoopStates \cup {"free", "other"}]
    /\ seen \in [Pids -> SUBSET Pids]
    /\ pidfile \in Pids \cup {None}
    /\ watchdog \in {"idle", "spawn"}
    /\ faults \in 0..MaxFaults

Init ==
    /\ proc = [p \in Pids |-> "free"]
    /\ seen = [p \in Pids |-> {}]
    /\ pidfile = None
    /\ watchdog = "idle"
    /\ faults = 0
-----------------------------------------------------------------------------
\* Defect: the pidfile is the only place the guard looks.
GlobPidfile(p) ==
    /\ proc[p] = "start"
    /\ proc' = [proc EXCEPT ![p] = "scan"]
    /\ seen' = [seen EXCEPT ![p] = {q \in Pids \ {p} : q = pidfile /\ IsLoop(q)}]
    /\ UNCHANGED <<pidfile, watchdog, faults>>

\* Defect: only a daemon with its traps set counts as an instance.
GlobRunning(p) ==
    /\ proc[p] = "start"
    /\ proc' = [proc EXCEPT ![p] = "scan"]
    /\ seen' = [seen EXCEPT ![p] = {q \in Pids \ {p} : proc[q] = "run"}]
    /\ UNCHANGED <<pidfile, watchdog, faults>>

\* Defect: the pidfile is written before the scan.
GlobClaims(p) ==
    /\ proc[p] = "start"
    /\ proc' = [proc EXCEPT ![p] = "scan"]
    /\ seen' = [seen EXCEPT ![p] = {q \in Pids \ {p} : IsLoop(q)}]
    /\ pidfile' = p
    /\ UNCHANGED <<watchdog, faults>>

\* loop.sh: expand /proc/[0-9]*, once.  Only the loop.sh processes matter.
Glob(p) ==
    /\ proc[p] = "start"
    /\ proc' = [proc EXCEPT ![p] = "scan"]
    /\ seen' = [seen EXCEPT ![p] = {q \in Pids \ {p} : IsLoop(q)}]
    /\ UNCHANGED <<pidfile, watchdog, faults>>

\* Look at one entry: the process may be gone or be something else by now.
PassOver(p) ==
    /\ proc[p] = "scan"
    /\ \E q \in seen[p] : ~IsLoop(q) /\ seen' = [seen EXCEPT ![p] = @ \ {q}]
    /\ UNCHANGED <<proc, pidfile, watchdog, faults>>

\* It is another loop.sh: exit, with no trap set yet.
Yield(p) ==
    /\ proc[p] = "scan"
    /\ \E q \in seen[p] : IsLoop(q)
    /\ proc' = [proc EXCEPT ![p] = "free"]
    /\ seen' = [seen EXCEPT ![p] = {}]
    /\ UNCHANGED <<pidfile, watchdog, faults>>

\* Defect: the pidfile is created and the number is not written.
ClaimEmpty(p) ==
    /\ proc[p] = "scan"
    /\ seen[p] = {}
    /\ pidfile' = {}
    /\ proc' = [proc EXCEPT ![p] = "claimed"]
    /\ UNCHANGED <<seen, watchdog, faults>>

\* The scan found nobody: write the pidfile.
Claim(p) ==
    /\ proc[p] = "scan"
    /\ seen[p] = {}
    /\ pidfile' = p
    /\ proc' = [proc EXCEPT ![p] = "claimed"]
    /\ UNCHANGED <<seen, watchdog, faults>>

SetTraps(p) ==
    /\ proc[p] = "claimed"
    /\ proc' = [proc EXCEPT ![p] = "run"]
    /\ UNCHANGED <<seen, pidfile, watchdog, faults>>

Instance(p) == Glob(p) \/ PassOver(p) \/ Yield(p) \/ Claim(p) \/ SetTraps(p)
-----------------------------------------------------------------------------
\* watchdog.sh, every five minutes: long after an earlier start has settled.
Settled == \A p \in Pids : proc[p] \notin {"start", "scan"}

\* Defect: a pidfile is taken for a process.
PidfileExists == pidfile # None

PidAlive == pidfile # None /\ proc[pidfile] # "free"

\* The common case is a quick exit.
WatchdogContent == watchdog = "idle" /\ PidAlive /\ UNCHANGED vars

WatchdogChecks ==
    /\ watchdog = "idle"
    /\ Settled
    /\ ~PidAlive
    /\ watchdog' = "spawn"
    /\ UNCHANGED <<proc, seen, pidfile, faults>>

Start(p) ==
    /\ proc[p] = "free"
    /\ proc' = [proc EXCEPT ![p] = "start"]

WatchdogSpawns ==
    /\ watchdog = "spawn"
    /\ \E p \in Pids : Start(p)
    /\ watchdog' = "idle"
    /\ UNCHANGED <<seen, pidfile, faults>>

Watchdog == WatchdogContent \/ WatchdogChecks \/ WatchdogSpawns
-----------------------------------------------------------------------------
Fault == faults < MaxFaults /\ faults' = faults + 1

\* An operator, or an @reboot entry that is honoured, starts loop.sh.
Launch ==
    /\ Fault
    /\ \E p \in Pids : Start(p)
    /\ UNCHANGED <<seen, pidfile, watchdog>>

Die(p) ==
    /\ proc' = [proc EXCEPT ![p] = "free"]
    /\ seen' = [seen EXCEPT ![p] = {}]

\* kill -9, the OOM killer, or TERM before the traps are set: no cleanup.
Kill(p) ==
    /\ Fault
    /\ IsLoop(p)
    /\ Die(p)
    /\ UNCHANGED <<pidfile, watchdog>>

\* TERM or INT with the traps set: cleanup removes the pidfile, and since it does
\* not exit, the loop goes on.
Term(p) ==
    /\ "term" \in Mishaps
    /\ Fault
    /\ proc[p] = "run"
    /\ pidfile' = None
    /\ UNCHANGED <<proc, seen, watchdog>>

\* Everything dies but the file.  The firmware starts other programs
\* in no time, which leave at least two numbers free.
Reboot ==
    /\ Fault
    /\ \E others \in SUBSET Pids :
          /\ Cardinality(others) + 2 <= Cardinality(Pids)
          /\ pidfile \in others => "reuse" \in Mishaps
          /\ proc' = [p \in Pids |-> IF p \in others THEN "other" ELSE "free"]
    /\ seen' = [p \in Pids |-> {}]
    /\ watchdog' = "idle"
    /\ UNCHANGED pidfile

Faults == Launch \/ Reboot \/ \E p \in Pids : Kill(p) \/ Term(p)

Next == Watchdog \/ Faults \/ \E p \in Pids : Instance(p)

Spec == Init /\ [][Next]_vars

\* crond runs the job whenever the device is up, and the kernel runs processes.
FairSpec == Spec /\ WF_vars(Watchdog) /\ \A p \in Pids : WF_vars(Instance(p))
-----------------------------------------------------------------------------
\* Two daemons would fight over the RTC alarm, the panel and the temporary file:
\* however starts, scans and deaths interleave, at most one passes the guard.
OneDaemon == \A p, q \in Daemons : p = q

\* Why: of any two instances that have listed /proc, one has the other on its list.
Scanned(p) == proc[p] \in {"scan", "claimed", "run"}
EachOther ==
    \A p, q \in Pids :
       Scanned(p) /\ Scanned(q) /\ p # q => q \in seen[p] \/ p \in seen[q]
DoneScanning == \A p \in Daemons : seen[p] = {}
LifecycleInv == EachOther /\ DoneScanning

\* While a daemon runs the pidfile names no other process, whoever starts or exits
\* next to it: the watchdog and the operator's kill both go by it.  It may be
\* absent, since TERM removes it and leaves the daemon.
PidfileNamesDaemon == \A p \in Daemons : pidfile \in {p, None}

\* "Catches the stale pidfile and relaunches loop.sh": once faults cease, a daemon
\* comes up and stays.
DaemonRecovers == <>[](Daemons # {})
=============================================================================
