---------------------------- MODULE SleepDaemon ----------------------------
(***************************************************************************)
(* client/loop.sh: the daemon that suspends the Kindle between refreshes.  *)
(*                                                                         *)
(* The daemon shares the device with things it does not control: powerd,   *)
(* which suspends an idle device that runs on battery; the USB cable,      *)
(* which blocks any suspend; the RTC alarm, which fires once; and fingers. *)
(* Two clocks differ: date(1) goes on while the device is suspended, the   *)
(* monotonic clock of sleep(1) does not.                                   *)
(*                                                                         *)
(* Time is counted in abstract units and kept relative (time since the     *)
(* cycle began, time left to sleep, time to the alarm), so that behaviours *)
(* are unbounded and the state space is not.  Time passes only while the   *)
(* device is suspended or the daemon is in a sleep or a transfer.          *)
(***************************************************************************)
EXTENDS Integers

CONSTANTS
    Intervals,      \* values INTERVAL may have in config.env
    NightInterval,  \* NIGHT_INTERVAL
    StuckMin,       \* SUSPEND_STUCK_MIN
    Gap,            \* WIRELESS_NUDGE_GAP
    FetchMax,       \* FETCH_POLL_TIMEOUT plus the last curl's --max-time
    Cooldown,       \* the fast-return guard's sleep
    MaintPoll,      \* MAINTENANCE_POLL
    IdleLimit,      \* powerd's idle timer
    MaxAge,         \* bound: the age of a cycle saturates here
    NightStart,     \* NIGHT_START and
    NightEnd,       \* NIGHT_END: hours of the day
    Mishaps         \* what the environment may do beyond its usual course:
                    \*   "unplug"   pull the cable while the daemon counts on it
                    \*   "tap"      wake the device right after it went down
                    \*   "deskwork" use maintenance mode without the cable
                    \*   "edit"     change INTERVAL in config.env
                    \*   "noalarm"  refuse the write to wakealarm

ASSUME DaemonAssumption ==
    /\ Intervals \subseteq Nat \ {0}
    /\ NightInterval \in Nat \ {0}
    /\ StuckMin \in Nat /\ Gap \in Nat /\ FetchMax \in Nat /\ Cooldown \in Nat
    /\ MaintPoll \in Nat /\ IdleLimit \in Nat \ {0} /\ MaxAge \in Nat
    /\ \A i \in Intervals \cup {NightInterval} : i \div 2 <= MaxAge
    /\ NightStart \in 0..24 /\ NightEnd \in 0..24
    /\ Mishaps \subseteq {"unplug", "tap", "deskwork", "edit", "noalarm"}

VARIABLES
    asleep,         \* the device is suspended
    usb,            \* the cable is connected
    idle,           \* powerd's idle timer
    alarm,          \* time until the RTC alarm fires, or NoAlarm
    canSuspend,     \* wakealarm and /sys/power/state are writable
    maint,          \* state/maintenance exists
    mishaps,        \* what does happen beyond the usual course, all or nothing
    config,         \* INTERVAL as config.env has it now
    loaded,         \* INTERVAL as the shell has it
    pc,             \* where the daemon is
    phase,          \* which call of suspend_for or fetch_with_poll it is in
    interval,       \* this cycle's interval
    secs,           \* suspend_for's argument; the guard's remainder
    left,           \* what is left of a userspace sleep or of a transfer
    slept,          \* time since t0, while inside echo mem
    age             \* time since cycle_start

envVars == <<asleep, usb, idle, alarm, canSuspend, mishaps, maint, config>>
daemonVars == <<loaded, pc, phase, interval, secs, left, slept, age>>
vars == <<envVars, daemonVars>>

NoAlarm == -1
AllIntervals == Intervals \cup {NightInterval}
Least(a, b) == IF a < b THEN a ELSE b
Waiting == {"maint", "pace", "nudge", "fetch", "cool"}

TypeOK ==
    /\ asleep \in BOOLEAN /\ usb \in BOOLEAN /\ canSuspend \in BOOLEAN
    /\ maint \in BOOLEAN /\ mishaps \in {{}, Mishaps}
    /\ idle \in 0..IdleLimit
    /\ alarm = NoAlarm \/ alarm \in Nat \ {0}
    /\ config \in Intervals /\ loaded \in Intervals
    /\ pc \in Waiting \cup {"top", "suspend", "armed", "mem", "back", "guard"}
    /\ phase \in {"main", "guard", "maint"}
    /\ interval \in AllIntervals
    /\ secs \in Nat /\ left \in Nat /\ slept \in 0..StuckMin
    /\ age \in 0..MaxAge

Init ==
    /\ asleep = FALSE
    /\ usb \in BOOLEAN
    /\ idle = 0
    /\ alarm = NoAlarm
    /\ canSuspend \in BOOLEAN
    /\ mishaps \in {{}, Mishaps}
    /\ maint = FALSE
    /\ config \in Intervals
    /\ loaded = config
    /\ pc = "top"
    /\ phase = "main"
    /\ interval = loaded
    /\ secs = 0 /\ left = 0 /\ slept = 0 /\ age = 0
-----------------------------------------------------------------------------
\* The daemon.  A step of its own takes no time and needs the device awake.
Runs(at) == ~asleep /\ pc = at
Sleeps(at, d) == pc' = at /\ left' = d

\* Top of the loop with the maintenance flag present.
MaintenanceCycle ==
    /\ Runs("top")
    /\ maint
    /\ Sleeps("maint", MaintPoll)
    /\ phase' = "maint"
    /\ age' = 0
    /\ UNCHANGED <<envVars, loaded, interval, secs, slept>>

InNightWindow(h) ==
    IF NightStart <= NightEnd THEN h >= NightStart /\ h < NightEnd
                              ELSE h >= NightStart \/ h < NightEnd

CurrentInterval(hour) == IF InNightWindow(hour) THEN NightInterval ELSE loaded

\* Top of the loop otherwise: the interval is picked by the hour of the clock, and
\* suspend_for is called with it.
StartCycle ==
    /\ Runs("top")
    /\ ~maint
    /\ \E hour \in 0..23 : interval' = CurrentInterval(hour)
    /\ secs' = interval'
    /\ phase' = "main"
    /\ pc' = "suspend"
    /\ age' = 0
    /\ UNCHANGED <<envVars, loaded, left, slept>>

\* suspend_for where the alarm or the suspend is unavailable: sleep(1).
PaceUnavailable ==
    /\ Runs("suspend")
    /\ ~canSuspend
    /\ Sleeps("pace", secs)
    /\ UNCHANGED <<envVars, loaded, phase, interval, secs, slept, age>>

\* Defect: the alarm is armed first and cleared after.
ArmThenClear ==
    /\ Runs("suspend")
    /\ canSuspend
    /\ alarm' = NoAlarm
    /\ pc' = "armed"
    /\ UNCHANGED <<asleep, usb, idle, canSuspend, mishaps, maint, config, loaded, phase,
                   interval, secs, left, slept, age>>

\* Defect: every wait is a userspace sleep.
AlwaysUserspace ==
    /\ Runs("suspend")
    /\ canSuspend
    /\ Sleeps("pace", secs)
    /\ UNCHANGED <<envVars, loaded, phase, interval, secs, slept, age>>

\* Clear the alarm and arm it anew; a refused write is only logged.
ArmAlarm ==
    /\ Runs("suspend")
    /\ canSuspend
    /\ alarm' \in {secs} \cup (IF "noalarm" \in mishaps THEN {NoAlarm} ELSE {})
    /\ pc' = "armed"
    /\ UNCHANGED <<asleep, usb, idle, canSuspend, mishaps, maint, config, loaded, phase,
                   interval, secs, left, slept, age>>

\* echo mem is rejected or returns at once: the cable blocks the suspend, or
\* another wake source is asserted or was counted since wakeup_count was read.
Bounce ==
    /\ Runs("armed")
    /\ usb \/ "tap" \in mishaps
    /\ slept' = 0
    /\ pc' = "back"
    /\ UNCHANGED <<envVars, loaded, phase, interval, secs, left, age>>

\* echo mem suspends the device.
Suspend ==
    /\ Runs("armed")
    /\ ~usb
    /\ asleep' = TRUE
    /\ slept' = 0
    /\ pc' = "mem"
    /\ UNCHANGED <<usb, idle, alarm, canSuspend, mishaps, maint, config, loaded, phase,
                   interval, secs, left, age>>

\* echo mem returns once the device is up again.
MemReturns ==
    /\ Runs("mem")
    /\ pc' = "back"
    /\ UNCHANGED <<envVars, loaded, phase, interval, secs, left, slept, age>>

\* suspend_for returns: to the nudge, or to the next cycle.
Return ==
    \/ phase = "main" /\ Sleeps("nudge", Gap)
    \/ phase = "guard" /\ pc' = "top" /\ UNCHANGED left

\* Defect, the one D22 repaired: echo mem is trusted.
NeverStuck == FALSE

Stuck == slept < StuckMin /\ secs - slept > 0

\* The suspend did not stick: the remainder is a userspace sleep.
PaceRemainder ==
    /\ Runs("back")
    /\ Stuck
    /\ Sleeps("pace", secs - slept)
    /\ UNCHANGED <<envVars, loaded, phase, interval, secs, slept, age>>

\* It did stick: suspend_for is done.
SuspendDone ==
    /\ Runs("back")
    /\ ~Stuck
    /\ Return
    /\ UNCHANGED <<envVars, loaded, phase, interval, secs, slept, age>>

PaceDone ==
    /\ Runs("pace")
    /\ left = 0
    /\ Return
    /\ UNCHANGED <<envVars, loaded, phase, interval, secs, slept, age>>

\* The nudge or the maintenance sleep is over: poll the server.
FetchBegins ==
    /\ Runs("nudge") \/ Runs("maint")
    /\ left = 0
    /\ Sleeps("fetch", FetchMax)
    /\ UNCHANGED <<envVars, loaded, phase, interval, secs, slept, age>>

\* A picture was drawn, or the attempt given up; ImagePipeline has the details.
\* A maintenance cycle continues at the top, the others reach the guard.
FetchEnds ==
    /\ Runs("fetch")
    /\ pc' = IF phase = "maint" THEN "top" ELSE "guard"
    /\ left' = 0
    /\ UNCHANGED <<envVars, loaded, phase, interval, secs, slept, age>>

Early == age < interval \div 2

\* Defect, the one D21 repaired: the guard sleeps the whole remainder.
CoolDownLong ==
    /\ Runs("guard")
    /\ Early
    /\ secs' = 0
    /\ Sleeps("cool", interval - age)
    /\ UNCHANGED <<envVars, loaded, phase, interval, slept, age>>

\* Defect: the cooldown is taken off the remainder twice.
CoolDownTwice ==
    /\ Runs("guard")
    /\ Early
    /\ secs' = interval - age - Cooldown
    /\ Sleeps("cool", Cooldown)
    /\ UNCHANGED <<envVars, loaded, phase, interval, slept, age>>

\* Defect: the operands of the subtraction swapped.
CoolDownSwapped ==
    /\ Runs("guard")
    /\ Early
    /\ secs' = age - interval
    /\ Sleeps("cool", Cooldown)
    /\ UNCHANGED <<envVars, loaded, phase, interval, slept, age>>

\* The fast-return guard: a short cooldown, then the remainder is suspended.
CoolDown ==
    /\ Runs("guard")
    /\ Early
    /\ secs' = interval - age
    /\ Sleeps("cool", Cooldown)
    /\ UNCHANGED <<envVars, loaded, phase, interval, slept, age>>

FullCycle ==
    /\ Runs("guard")
    /\ ~Early
    /\ pc' = "top"
    /\ UNCHANGED <<envVars, loaded, phase, interval, secs, left, slept, age>>

Resuspend ==
    /\ Runs("cool")
    /\ left = 0
    /\ IF secs > Cooldown
          THEN pc' = "suspend" /\ secs' = secs - Cooldown /\ phase' = "guard"
          ELSE pc' = "top" /\ UNCHANGED <<secs, phase>>
    /\ UNCHANGED <<envVars, loaded, interval, left, slept, age>>

Daemon ==
    \/ MaintenanceCycle \/ StartCycle \/ PaceUnavailable \/ ArmAlarm \/ Bounce
    \/ Suspend \/ MemReturns \/ PaceRemainder \/ SuspendDone \/ PaceDone
    \/ FetchBegins \/ FetchEnds \/ CoolDown \/ FullCycle \/ Resuspend
-----------------------------------------------------------------------------
\* The device around it.
TimePasses == asleep \/ (pc \in Waiting /\ left > 0)

\* One unit of wall-clock time.  The monotonic clock stands still in suspend; an
\* alarm that comes due fires once and wakes a suspended device.
Tick ==
    /\ TimePasses
    /\ age' = Least(age + 1, MaxAge)
    /\ slept' = IF pc = "mem" THEN Least(slept + 1, StuckMin) ELSE slept
    /\ left' = IF asleep THEN left ELSE left - 1
    /\ alarm' = IF alarm \in {1, NoAlarm} THEN NoAlarm ELSE alarm - 1
    /\ asleep' = (asleep /\ alarm # 1)
    /\ idle' = IF asleep \/ usb THEN 0 ELSE Least(idle + 1, IdleLimit)
    /\ UNCHANGED <<usb, canSuspend, mishaps, maint, config, loaded, pc, phase, interval, secs>>

\* powerd suspends a device that has been up long enough on battery.
PowerdSuspends ==
    /\ ~asleep /\ ~usb /\ canSuspend
    /\ idle = IdleLimit
    /\ asleep' = TRUE
    /\ UNCHANGED <<usb, idle, alarm, canSuspend, mishaps, maint, config, daemonVars>>

\* A tap or a press of the power button.
StrayWake ==
    /\ asleep
    /\ "tap" \in mishaps \/ slept >= StuckMin
    /\ asleep' = FALSE
    /\ idle' = 0
    /\ UNCHANGED <<usb, alarm, canSuspend, mishaps, maint, config, daemonVars>>

\* Plugging in wakes the device.
PlugIn ==
    /\ ~usb
    /\ usb' = TRUE
    /\ asleep' = FALSE
    /\ idle' = 0
    /\ UNCHANGED <<alarm, canSuspend, mishaps, maint, config, daemonVars>>

Unplug ==
    /\ usb
    /\ \/ "unplug" \in mishaps
       \/ ~canSuspend
       \/ pc \notin {"armed", "mem", "back", "pace"} /\ ~maint /\ phase # "maint"
    /\ usb' = FALSE
    /\ idle' = 0
    /\ UNCHANGED <<asleep, alarm, canSuspend, mishaps, maint, config, daemonVars>>

\* touch and rm of the maintenance flag, over ssh.
SwitchMaintenance ==
    /\ ~asleep
    /\ maint \/ usb \/ "deskwork" \in mishaps
    /\ maint' = ~maint
    /\ UNCHANGED <<asleep, usb, idle, alarm, canSuspend, mishaps, config, daemonVars>>

EditConfig ==
    /\ ~asleep
    /\ "edit" \in mishaps
    /\ config' \in Intervals \ {config}
    /\ UNCHANGED <<asleep, usb, idle, alarm, canSuspend, mishaps, maint, daemonVars>>

Environment ==
    \/ Tick \/ PowerdSuspends \/ StrayWake \/ PlugIn \/ Unplug
    \/ SwitchMaintenance \/ EditConfig

Next == Daemon \/ Environment

Spec == Init /\ [][Next]_vars

\* The shell runs while the device is up, and time goes on.
FairSpec == Spec /\ WF_vars(Daemon) /\ WF_vars(Tick)
-----------------------------------------------------------------------------
\* In the usual course of things, a suspended device has an alarm that will wake
\* it: neither the daemon's own suspend nor one of powerd's leaves it down until
\* somebody taps it.
SleepHasAlarm == asleep /\ mishaps = {} => alarm # NoAlarm

\* "Nothing can suspend us mid-count": a userspace sleep that suspend_for falls
\* back to is never frozen by a suspend.
NothingSuspendsMidCount == pc = "pace" => ~asleep

\* What is true of that: it is not while nobody pulls the cable.
CountRuns == mishaps = {} => NothingSuspendsMidCount

\* In the usual course of things no cycle stalls: it is back at the top of the loop
\* within one interval and one awake window.  This bounds the cycle, not the age of the
\* picture: a cycle that a tap wakes early fetches then and suspends for the rest, and
\* the next one fetches at its end, nearly two intervals later; polls may fail besides.
NeverStalls ==
    mishaps = {} =>
        age <= IF phase = "maint" THEN MaintPoll + FetchMax ELSE interval + Gap + FetchMax

\* Why a cycle is not short: at each point of it, the time that has passed, with what
\* is still to be slept, covers the interval or the pauses already behind.  A cycle
\* old enough for its age to saturate is past caring.
FirstPause == Least(interval, StuckMin) + Gap
Covers(t) == age + t >= interval
AfterPause(t) == age + t >= FirstPause

Located ==
    /\ pc = "suspend" => secs > 0
    /\ pc \in {"suspend", "armed", "mem", "back", "pace"} => phase \in {"main", "guard"}
    /\ pc \in {"nudge", "guard", "cool"} => phase = "main"
    /\ pc = "maint" => phase = "maint"
    /\ pc = "fetch" => phase \in {"main", "maint"}

MainPaced ==
    phase = "main" =>
        /\ pc \in {"suspend", "armed", "mem", "back"} => secs = interval
        /\ pc \in {"mem", "back"} => age >= slept
        /\ pc = "pace" => Covers(left)
        /\ pc \in {"nudge", "fetch", "guard"} =>
              AfterPause(IF pc = "nudge" THEN left ELSE 0)
        /\ pc = "cool" =>
              /\ AfterPause(left - Cooldown)
              /\ Covers(secs - Cooldown + left)

GuardPaced ==
    phase = "guard" /\ pc # "top" =>
        /\ pc \in {"suspend", "armed"} => AfterPause(-Cooldown) /\ Covers(secs)
        /\ pc \in {"mem", "back"} =>
              AfterPause(-Cooldown - slept) /\ (slept < StuckMin => Covers(secs - slept))
        /\ pc = "pace" => Covers(left)

PacedInv == Located /\ (age < MaxAge => MainPaced /\ GuardPaced)

\* No hot spin: whatever wakes the device or keeps it up, and however often, no cycle
\* outside maintenance mode returns to the top of the loop before half its interval, or
\* two suspends that held with the pauses after them, have gone by.  As a cycle
\* refreshes once, there are no more refreshes than cycles; two neighbouring ones may
\* lie closer, the first late in its cycle and the second early in the next.
SpinFloor(i) == Least(i \div 2, 2 * StuckMin + Gap + Cooldown)
NoHotSpin ==
    [][phase # "maint" /\ pc # "top" /\ pc' = "top"
          => age >= SpinFloor(interval)]_vars

\* In the usual course of things the loop comes round again and again.
KeepsRefreshing == []<>(pc = "fetch" \/ mishaps # {})
=============================================================================
