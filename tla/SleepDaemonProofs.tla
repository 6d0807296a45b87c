------------------------- MODULE SleepDaemonProofs -------------------------
(***************************************************************************)
(* What holds of the sleep daemon for every choice of intervals and pauses *)
(* and whatever the cable, the fingers and powerd do: its types, and that  *)
(* it never spins hot; and what holds in the usual course of things, where *)
(* only the order of the durations matters: no suspend without an alarm,   *)
(* no count that is frozen, no cycle that stalls.                          *)
(***************************************************************************)
EXTENDS SleepDaemon, TLAPS

\* What most steps need to know of the durations.
LEMMA Durations ==
  /\ \A i \in Intervals : i \in Nat /\ i > 0
  /\ NightInterval \in Nat /\ NightInterval > 0
  /\ StuckMin \in Nat /\ Gap \in Nat /\ FetchMax \in Nat /\ Cooldown \in Nat
  /\ MaintPoll \in Nat /\ IdleLimit \in Nat /\ IdleLimit > 0 /\ MaxAge \in Nat
  /\ NightStart \in Nat /\ NightEnd \in Nat
BY DaemonAssumption

USE Durations

\* Half of an interval, the only division of the daemon.
LEMMA Half ==
  ASSUME NEW i \in Nat
  PROVE  i \div 2 \in Nat /\ i \div 2 <= i
OBVIOUS

TypeInv == TypeOK /\ Located

LEMMA Typing == Spec => []TypeInv
<1> USE DEF TypeInv, TypeOK, Located, AllIntervals, NoAlarm, Waiting
<1>1. Init => TypeInv
  <2> SUFFICES ASSUME Init PROVE TypeInv
    OBVIOUS
  <2>1. asleep \in BOOLEAN /\ usb \in BOOLEAN /\ canSuspend \in BOOLEAN /\ maint \in BOOLEAN
    BY Zenon DEF Init
  <2> QED BY <2>1 DEF Init
<1>2. TypeInv /\ [Next]_vars => TypeInv'
  <2> SUFFICES ASSUME TypeInv, [Next]_vars PROVE TypeInv'
    OBVIOUS
  <2> USE DEF Runs, Sleeps, envVars, daemonVars
  <2>1. CASE Tick
    <3>1. asleep' \in BOOLEAN
      BY <2>1, Zenon DEF Tick
    <3> QED BY <2>1, <3>1 DEF Tick, TimePasses, Least
  <2>2. CASE MaintenanceCycle \/ StartCycle
    BY <2>2 DEF MaintenanceCycle, StartCycle, CurrentInterval
  <2>3. CASE PaceUnavailable \/ ArmAlarm \/ Bounce \/ MemReturns
    BY <2>3 DEF PaceUnavailable, ArmAlarm, Bounce, MemReturns
  <2>4. CASE Suspend
    <3>1. asleep' \in BOOLEAN
      BY <2>4, Zenon DEF Suspend
    <3> QED BY <2>4, <3>1 DEF Suspend
  <2>5. CASE PaceRemainder \/ SuspendDone \/ PaceDone
    BY <2>5 DEF PaceRemainder, SuspendDone, PaceDone, Return, Stuck
  <2>6. CASE FetchBegins \/ FetchEnds \/ FullCycle
    BY <2>6 DEF FetchBegins, FetchEnds, FullCycle
  <2>7. CASE CoolDown \/ Resuspend
    BY <2>7, Half DEF CoolDown, Resuspend, Early
  <2>8. CASE PowerdSuspends \/ StrayWake \/ PlugIn \/ Unplug
    <3>1. asleep' \in BOOLEAN /\ usb' \in BOOLEAN
      BY <2>8, Zenon DEF PowerdSuspends, StrayWake, PlugIn, Unplug
    <3> QED BY <2>8, <3>1 DEF PowerdSuspends, StrayWake, PlugIn, Unplug
  <2>9. CASE SwitchMaintenance \/ EditConfig
    BY <2>9, ZenonT(60) DEF SwitchMaintenance, EditConfig
  <2>10. CASE UNCHANGED vars
    BY <2>10 DEF vars
  <2> QED
    BY <2>1, <2>2, <2>3, <2>4, <2>5, <2>6, <2>7, <2>8, <2>9, <2>10
       DEF Next, Daemon, Environment
<1> QED BY <1>1, <1>2, PTL DEF Spec

\* Every variable keeps its type: no wait is ever negative, although each is the
\* difference of two readings of the clock.
THEOREM TypeCorrect == Spec => []TypeOK
BY Typing, PTL DEF TypeInv
-----------------------------------------------------------------------------
\* One step keeps the account of the time a cycle has spent.
LEMMA PacedStep == TypeInv /\ TypeInv' /\ PacedInv /\ [Next]_vars => PacedInv'
<1> SUFFICES ASSUME TypeInv, TypeInv', PacedInv, [Next]_vars PROVE PacedInv'
  OBVIOUS
<1> USE DEF TypeInv, TypeOK, Located, AllIntervals, Waiting, PacedInv, MainPaced, GuardPaced, Covers,
            AfterPause, FirstPause, Least, Runs, Sleeps
<1>1. CASE Tick
  BY <1>1 DEF Tick, TimePasses
<1>2. CASE MaintenanceCycle \/ StartCycle
  BY <1>2 DEF MaintenanceCycle, StartCycle, CurrentInterval
<1>3. CASE PaceUnavailable \/ ArmAlarm \/ Bounce \/ Suspend \/ MemReturns
  BY <1>3 DEF PaceUnavailable, ArmAlarm, Bounce, Suspend, MemReturns, envVars
<1>4. CASE PaceRemainder \/ SuspendDone \/ PaceDone
  BY <1>4 DEF PaceRemainder, SuspendDone, PaceDone, Return, Stuck
<1>5. CASE FetchBegins \/ FetchEnds \/ FullCycle
  BY <1>5 DEF FetchBegins, FetchEnds, FullCycle
<1>6. CASE CoolDown
  BY <1>6 DEF CoolDown
<1>7. CASE Resuspend
  BY <1>7 DEF Resuspend
<1>8. CASE PowerdSuspends \/ StrayWake \/ PlugIn \/ Unplug \/ SwitchMaintenance \/ EditConfig
  BY <1>8 DEF PowerdSuspends, StrayWake, PlugIn, Unplug, SwitchMaintenance, EditConfig,
     daemonVars
<1>9. CASE UNCHANGED vars
  BY <1>9 DEF vars, daemonVars
<1> QED
  BY <1>1, <1>2, <1>3, <1>4, <1>5, <1>6, <1>7, <1>8, <1>9 DEF Next, Daemon, Environment

\* The account is right at every point of every cycle: what has passed, with what is
\* still to be slept, covers the interval or the pauses already behind.
THEOREM PacedHolds == Spec => []PacedInv
<1>1. Init => PacedInv
  BY DEF Init, PacedInv, Located, MainPaced, GuardPaced
<1> QED BY <1>1, PacedStep, Typing, PTL DEF Spec

\* No hot spin: whatever the durations, and however often the device is woken or
\* kept up, a cycle that ends has lasted half its interval or two suspends that
\* held, the nudge and the cooldown.
THEOREM NeverSpins == Spec => NoHotSpin
<1> DEFINE Slow == phase # "maint" /\ pc # "top" /\ pc' = "top"
                     => age >= SpinFloor(interval)
<1>1. TypeInv /\ PacedInv /\ [Next]_vars => Slow
  <2> SUFFICES ASSUME TypeInv, PacedInv, [Next]_vars,
                      phase # "maint", pc # "top", pc' = "top"
               PROVE  age >= SpinFloor(interval)
    OBVIOUS
  <2> USE DEF TypeInv, TypeOK, Located, AllIntervals, SpinFloor, Least
  <2>1. interval \div 2 \in Nat /\ interval \div 2 <= interval /\ interval \div 2 <= MaxAge
    BY Half, DaemonAssumption
  <2>2. CASE age = MaxAge
    BY <2>1, <2>2
  <2>3. ASSUME age < MaxAge PROVE age >= SpinFloor(interval)
    <3> USE DEF PacedInv, MainPaced, GuardPaced, Covers, AfterPause, FirstPause, Runs,
                Sleeps
    <3>1. CASE SuspendDone \/ PaceDone
      BY <2>1, <2>3, <3>1 DEF SuspendDone, PaceDone, Return, Stuck
    <3>2. CASE FullCycle
      BY <2>1, <3>2 DEF FullCycle, Early
    <3>3. CASE Resuspend
      BY <2>1, <2>3, <3>3 DEF Resuspend
    <3>4. SuspendDone \/ PaceDone \/ FullCycle \/ Resuspend
      BY DEF Next, Daemon, Environment, MaintenanceCycle, StartCycle, PaceUnavailable,
         ArmAlarm, Bounce, Suspend, MemReturns, PaceRemainder, FetchBegins, FetchEnds,
         CoolDown, Tick, PowerdSuspends, StrayWake, PlugIn, Unplug, SwitchMaintenance,
         EditConfig, vars, daemonVars
    <3> QED BY <3>1, <3>2, <3>3, <3>4
  <2> QED BY <2>2, <2>3
<1> QED BY <1>1, PacedHolds, Typing, PTL DEF Spec, NoHotSpin
-----------------------------------------------------------------------------
\* The usual course of things: none of the mishaps happens.  What the real durations
\* satisfy: the nudge, the polls and the cooldown together are over before powerd's
\* timer runs out, and two cooldowns are shorter than any cycle.
UsualDurations ==
  /\ Gap + FetchMax + Cooldown < IdleLimit
  /\ \A i \in AllIntervals : 2 * Cooldown <= i

OnBattery == ~usb /\ canSuspend

\* Who may be where: the alarm is armed until it has been waited for, and the daemon
\* sleeps long in userspace only where nothing suspends the device.
Guarded ==
  /\ usb => idle = 0
  /\ asleep => pc = "mem" /\ ~usb /\ alarm # NoAlarm
  /\ asleep /\ slept < StuckMin => alarm = secs - slept
  /\ pc = "armed" => alarm = secs /\ secs > 0
  /\ pc \in {"armed", "mem", "back"} => canSuspend
  /\ pc \in {"mem", "back"} /\ ~asleep => idle = 0 /\ (usb \/ ~Stuck)
  /\ pc = "pace" \/ maint \/ phase = "maint" => ~OnBattery

\* powerd's timer never runs out while the daemon is up on battery.
Brief ==
  /\ pc = "nudge" => left <= Gap
  /\ pc = "fetch" => left <= FetchMax
  /\ pc = "cool" => left <= Cooldown
  /\ OnBattery /\ ~asleep =>
       /\ pc = "nudge" => idle + left <= Gap
       /\ pc = "fetch" => idle + left <= Gap + FetchMax
       /\ pc = "guard" => idle <= Gap + FetchMax
       /\ pc = "cool" => idle + left <= Gap + FetchMax + Cooldown
       /\ pc \in {"top", "suspend", "armed"} => idle <= Gap + FetchMax + Cooldown

\* The time that has passed, with what is still to be slept, is within the cycle.
Within(t, d) == age + t <= d
Punctual ==
  IF phase = "maint"
    THEN /\ pc = "maint" => Within(left, MaintPoll)
         /\ pc = "fetch" => Within(left, MaintPoll + FetchMax)
         /\ pc = "top" => Within(0, MaintPoll + FetchMax)
    ELSE /\ pc \in {"suspend", "armed"} => Within(secs, interval)
         /\ pc = "mem" /\ asleep => Within(alarm, interval)
         /\ pc \in {"mem", "back"} /\ ~asleep =>
              Within(0, interval) /\ (Stuck => Within(secs - slept, interval))
         /\ pc = "pace" => Within(left, interval)
         /\ pc = "nudge" => Within(left, interval + Gap)
         /\ pc = "fetch" => Within(left, interval + Gap + FetchMax)
         /\ pc \in {"guard", "top"} => Within(0, interval + Gap + FetchMax)
         /\ pc = "cool" =>
              Within(secs + left, interval + Cooldown) /\ secs >= interval - interval \div 2

UsualInv == mishaps = {} => Guarded /\ Brief /\ Punctual
-----------------------------------------------------------------------------

\* The usual course begins well.
LEMMA UsualInit == Init => UsualInv
BY DEF Init, UsualInv, Guarded, Brief, Punctual, OnBattery, Within, AllIntervals

\* The numbers the steps reckon with, before and after.
LEMMA Numbers ==
  ASSUME TypeInv, TypeInv'
  PROVE  /\ idle \in Nat /\ idle <= IdleLimit /\ left \in Nat /\ secs \in Nat /\ slept \in Nat
         /\ slept <= StuckMin /\ age \in Nat /\ age <= MaxAge /\ interval \in Nat /\ interval > 0
         /\ idle' \in Nat /\ left' \in Nat /\ secs' \in Nat /\ slept' \in Nat /\ age' \in Nat
         /\ interval' \in Nat /\ interval' > 0
         /\ alarm = NoAlarm \/ (alarm \in Nat /\ alarm > 0)
BY DEF TypeInv, TypeOK, AllIntervals

\* A name for each step of the usual course.
LEMMA Steps ==
  ASSUME [Next]_vars
  PROVE  \/ MaintenanceCycle \/ StartCycle \/ PaceUnavailable \/ ArmAlarm \/ Bounce
         \/ Suspend \/ MemReturns \/ PaceRemainder \/ SuspendDone \/ PaceDone
         \/ FetchBegins \/ FetchEnds \/ CoolDown \/ FullCycle \/ Resuspend
         \/ Tick \/ PowerdSuspends \/ StrayWake \/ PlugIn \/ Unplug
         \/ SwitchMaintenance \/ EditConfig \/ UNCHANGED vars
BY Zenon DEF Next, Daemon, Environment

\* powerd finds no moment to suspend the device.
LEMMA NeverIdle ==
  ASSUME UsualDurations, TypeInv, TypeInv', Guarded, Brief
  PROVE  ~PowerdSuspends
<1> SUFFICES ASSUME PowerdSuspends PROVE FALSE
  OBVIOUS
<1>1. ~asleep /\ OnBattery /\ idle = IdleLimit /\ 0 < IdleLimit
  BY DEF PowerdSuspends, OnBattery
<1>2. pc \notin {"pace", "maint", "mem", "back"}
  BY <1>1 DEF Guarded, OnBattery, TypeInv, Located
<1>3. pc \in {"nudge", "fetch", "cool", "top", "suspend", "armed", "guard"}
  BY <1>2 DEF TypeInv, TypeOK, Waiting
<1> QED BY <1>1, <1>3, Numbers DEF Brief, UsualDurations

\* One step of the usual course keeps everyone in place.
LEMMA GuardedStep ==
  ASSUME UsualDurations, TypeInv, TypeInv', Guarded, Brief, mishaps = {}, [Next]_vars
  PROVE  Guarded'
<1> USE DEF Guarded, OnBattery
<1>0. /\ Located
      /\ \A i \in AllIntervals : i > 0
      /\ asleep \in BOOLEAN /\ asleep' \in BOOLEAN /\ usb \in BOOLEAN
  BY DEF TypeInv, TypeOK, AllIntervals
<1>1. CASE Tick
  <2>1. CASE asleep
    <3>1. /\ pc = "mem" /\ pc' = pc /\ idle' = 0 /\ ~usb /\ ~usb' /\ secs' = secs
          /\ canSuspend' = canSuspend /\ maint' = maint /\ phase' = phase
      BY <1>1, <2>1 DEF Tick
    <3>2. slept' < StuckMin => slept' = slept + 1 /\ slept < StuckMin
      BY <1>1, <3>1, Numbers DEF Tick, Least
    <3>3. alarm \in Nat /\ alarm > 0
      BY <2>1, Numbers
    <3>4. CASE alarm = 1
      <4>1. ~asleep'
        BY <1>1, <3>4 DEF Tick
      <4>2. ~Stuck'
        BY <2>1, <3>1, <3>2, <3>4, Numbers DEF Stuck
      <4> QED BY <3>1, <4>1, <4>2
    <3>5. CASE alarm # 1
      <4>1. asleep' /\ alarm' = alarm - 1
        BY <1>1, <2>1, <3>3, <3>5 DEF Tick, NoAlarm
      <4>2. alarm' # NoAlarm
        BY <3>3, <4>1 DEF NoAlarm
      <4>3. slept' < StuckMin => alarm' = secs' - slept'
        BY <2>1, <3>1, <3>2, <4>1, Numbers
      <4> QED BY <3>1, <4>1, <4>2, <4>3
    <3> QED BY <3>4, <3>5
  <2>2. CASE ~asleep
    <3>1. ~asleep' /\ left > 0 /\ pc \in Waiting
      BY <1>1, <2>2 DEF Tick, TimePasses
    <3>2. pc \notin {"armed", "mem", "back"}
      BY <3>1 DEF Waiting
    <3> QED BY <1>1, <2>2, <3>1, <3>2, Numbers DEF Tick
  <2> QED BY <1>0, <2>1, <2>2
<1>2. CASE MaintenanceCycle
  BY <1>2 DEF MaintenanceCycle, Runs, Sleeps, envVars
<1>3. CASE StartCycle
  BY <1>3 DEF StartCycle, Runs, envVars
<1>4. CASE PaceUnavailable
  BY <1>4 DEF PaceUnavailable, Runs, Sleeps, envVars
<1>5. CASE ArmAlarm
  BY <1>0, <1>5 DEF ArmAlarm, Runs, Located
<1>6. CASE Bounce
  BY <1>6 DEF Bounce, Runs, envVars
<1>7. CASE Suspend
  <2>1. secs > 0 /\ alarm = secs /\ canSuspend /\ secs - 0 = secs
    BY <1>7, Numbers DEF Suspend, Runs
  <2> QED BY <1>7, <2>1, Numbers DEF Suspend, Runs, NoAlarm
<1>8. CASE MemReturns
  BY <1>8 DEF MemReturns, Runs, Stuck, envVars
<1>9. CASE PaceRemainder
  BY <1>0, <1>9 DEF PaceRemainder, Runs, Sleeps, Located, envVars
<1>10. CASE SuspendDone \/ PaceDone
  BY <1>0, <1>10 DEF SuspendDone, PaceDone, Return, Runs, Sleeps, Located, envVars
<1>11. CASE FetchBegins \/ FetchEnds
  BY <1>11 DEF FetchBegins, FetchEnds, Runs, Sleeps, envVars
<1>12. CASE FullCycle
  BY <1>12 DEF FullCycle, Runs, envVars
<1>13. CASE CoolDown \/ Resuspend
  BY <1>0, <1>13 DEF CoolDown, Resuspend, Runs, Sleeps, Located, envVars
<1>14. CASE PowerdSuspends
  BY <1>14, NeverIdle
<1>15. CASE StrayWake
  <2>1. ~(slept < StuckMin)
    BY <1>15, Numbers DEF StrayWake
  <2> QED BY <1>15, <2>1 DEF StrayWake, Stuck, daemonVars
<1>16. CASE PlugIn
  BY <1>16 DEF PlugIn, Stuck, daemonVars
<1>17. CASE Unplug
  BY <1>17 DEF Unplug, Stuck, daemonVars
<1>18. CASE SwitchMaintenance
  BY <1>18 DEF SwitchMaintenance, Stuck, daemonVars
<1>19. CASE EditConfig
  BY <1>19 DEF EditConfig, Stuck, daemonVars
<1>20. CASE UNCHANGED vars
  BY <1>20 DEF vars, Stuck, envVars, daemonVars
<1> QED
  BY <1>1, <1>2, <1>3, <1>4, <1>5, <1>6, <1>7, <1>8, <1>9, <1>10, <1>11, <1>12, <1>13, <1>14,
     <1>15, <1>16, <1>17, <1>18, <1>19, <1>20, Steps, Zenon

\* The awake windows stay within powerd's timer.
LEMMA BriefStep ==
  ASSUME UsualDurations, TypeInv, TypeInv', Guarded, Brief, mishaps = {}, [Next]_vars
  PROVE  Brief'
<1> USE DEF Brief, OnBattery
<1>0. Located
  BY DEF TypeInv
<1>1. CASE Tick
  <2>1. CASE asleep
    <3>1. pc = "mem" /\ pc' = pc
      BY <1>1, <2>1 DEF Guarded, Tick
    <3> QED BY <3>1
  <2>2. CASE ~asleep
    <3>1. /\ left' = left - 1 /\ pc' = pc /\ usb' = usb /\ canSuspend' = canSuspend
          /\ pc \in Waiting
      BY <1>1, <2>2 DEF Tick, TimePasses
    <3>2. ~usb => idle' <= idle + 1
      BY <1>1, <2>2, Numbers DEF Tick, Least
    <3> QED BY <2>2, <3>1, <3>2, Numbers DEF Waiting
  <2> QED BY <2>1, <2>2
<1>2. CASE MaintenanceCycle
  BY <1>2 DEF MaintenanceCycle, Sleeps
<1>3. CASE StartCycle
  BY <1>3 DEF StartCycle, Runs, envVars
<1>4. CASE PaceUnavailable \/ Bounce \/ MemReturns \/ Suspend
  BY <1>4 DEF PaceUnavailable, Bounce, MemReturns, Suspend, Sleeps
<1>5. CASE ArmAlarm
  BY <1>5 DEF ArmAlarm, Runs
<1>6. CASE PaceRemainder
  BY <1>6 DEF PaceRemainder, Sleeps
<1>7. CASE SuspendDone
  <2>1. OnBattery => idle = 0
    BY <1>7 DEF SuspendDone, Runs, Guarded
  <2> QED BY <1>7, <2>1 DEF SuspendDone, Return, Sleeps, envVars
<1>8. CASE PaceDone
  <2>1. ~OnBattery
    BY <1>8 DEF PaceDone, Runs, Guarded
  <2> QED BY <1>8, <2>1 DEF PaceDone, Return, Sleeps, envVars
<1>9. CASE FetchBegins
  <2>1. OnBattery => pc = "nudge"
    BY <1>0, <1>9 DEF FetchBegins, Runs, Guarded, Located
  <2> QED BY <1>9, <2>1, Numbers DEF FetchBegins, Runs, Sleeps, envVars
<1>10. CASE FetchEnds
  BY <1>10, Numbers DEF FetchEnds, Runs, envVars
<1>11. CASE CoolDown
  BY <1>11, Numbers DEF CoolDown, Runs, Sleeps, envVars
<1>12. CASE FullCycle
  BY <1>12, Numbers DEF FullCycle, Runs, envVars
<1>13. CASE Resuspend
  BY <1>13, Numbers DEF Resuspend, Runs, envVars
<1>14. CASE PowerdSuspends
  BY <1>14, NeverIdle
<1>15. CASE StrayWake
  <2>1. pc = "mem" /\ pc' = pc
    BY <1>15 DEF StrayWake, Guarded, daemonVars
  <2> QED BY <2>1
<1>16. CASE PlugIn
  BY <1>16 DEF PlugIn, daemonVars
<1>17. CASE Unplug
  <2>1. idle' = 0 /\ pc' = pc /\ left' = left
    BY <1>17 DEF Unplug, daemonVars
  <2> QED BY <2>1, Numbers
<1>18. CASE SwitchMaintenance
  BY <1>18 DEF SwitchMaintenance, daemonVars
<1>19. CASE EditConfig
  BY <1>19 DEF EditConfig, daemonVars
<1>20. CASE UNCHANGED vars
  BY <1>20 DEF vars, envVars, daemonVars
<1> QED
  BY <1>1, <1>2, <1>3, <1>4, <1>5, <1>6, <1>7, <1>8, <1>9, <1>10, <1>11, <1>12, <1>13, <1>14,
     <1>15, <1>16, <1>17, <1>18, <1>19, <1>20, Steps, Zenon

\* What has passed and what is still to be slept stay within the cycle.
LEMMA PunctualStep ==
  ASSUME UsualDurations, TypeInv, TypeInv', Guarded, Guarded', Brief, Punctual, mishaps = {},
         [Next]_vars
  PROVE  Punctual'
<1> USE DEF Punctual, Within
<1>0. Located
  BY DEF TypeInv
<1>1. CASE Tick
  <2>0. /\ age' <= age + 1 /\ pc' = pc /\ phase' = phase /\ interval' = interval /\ secs' = secs
        /\ usb' = usb
    BY <1>1, Numbers DEF Tick, Least
  <2>1. CASE asleep
    <3>1. pc = "mem" /\ ~usb /\ alarm # NoAlarm /\ phase # "maint" /\ age + alarm <= interval
      BY <1>0, <2>1 DEF Guarded, Located
    <3>2. CASE asleep'
      <4>1. alarm' = alarm - 1
        BY <1>1, <3>1, <3>2 DEF Tick
      <4> QED BY <2>0, <3>1, <3>2, <4>1, Numbers
    <3>3. CASE ~asleep'
      <4>1. ~Stuck'
        BY <2>0, <3>1, <3>3 DEF Guarded
      <4>2. alarm >= 1
        BY <3>1, Numbers
      <4> QED BY <2>0, <3>1, <3>3, <4>1, <4>2, Numbers
    <3> QED BY <3>2, <3>3
  <2>2. CASE ~asleep
    <3>1. left' = left - 1 /\ pc \in Waiting
      BY <1>1, <2>2 DEF Tick, TimePasses
    <3> QED BY <2>0, <3>1, Numbers DEF Waiting
  <2> QED BY <2>1, <2>2
<1>2. CASE MaintenanceCycle
  BY <1>2 DEF MaintenanceCycle, Sleeps
<1>3. CASE StartCycle
  BY <1>3, Numbers DEF StartCycle
<1>4. CASE PaceUnavailable
  BY <1>0, <1>4 DEF PaceUnavailable, Runs, Sleeps, Located
<1>5. CASE ArmAlarm
  BY <1>0, <1>5 DEF ArmAlarm, Runs, Located
<1>6. CASE Bounce
  BY <1>0, <1>6, Numbers DEF Bounce, Runs, Located, envVars
<1>7. CASE Suspend
  <2>1. alarm = secs
    BY <1>7 DEF Suspend, Runs, Guarded
  <2> QED BY <1>0, <1>7, <2>1 DEF Suspend, Runs, Located
<1>8. CASE MemReturns
  BY <1>0, <1>8 DEF MemReturns, Runs, Located, Stuck, envVars
<1>9. CASE PaceRemainder
  BY <1>0, <1>9 DEF PaceRemainder, Runs, Sleeps, Located
<1>10. CASE SuspendDone
  BY <1>0, <1>10, Numbers DEF SuspendDone, Return, Runs, Sleeps, Located
<1>11. CASE PaceDone
  BY <1>0, <1>11, Numbers DEF PaceDone, Return, Runs, Sleeps, Located
<1>12. CASE FetchBegins
  BY <1>0, <1>12, Numbers DEF FetchBegins, Runs, Sleeps, Located
<1>13. CASE FetchEnds
  BY <1>0, <1>13, Numbers DEF FetchEnds, Runs, Located
<1>14. CASE CoolDown
  <2>1. phase = "main"
    BY <1>0, <1>14 DEF CoolDown, Runs, Located
  <2>2. interval \div 2 \in Nat
    BY Half, Numbers
  <2> QED BY <1>14, <2>1, <2>2, Numbers DEF CoolDown, Early, Sleeps
<1>15. CASE FullCycle
  BY <1>0, <1>15, Numbers DEF FullCycle, Runs, Located
<1>16. CASE Resuspend
  <2>1. phase = "main" /\ left = 0 /\ age + secs <= interval + Cooldown
        /\ secs >= interval - interval \div 2
    BY <1>0, <1>16, Numbers DEF Resuspend, Runs, Located
  <2>2. 2 * (interval \div 2) <= interval /\ interval \div 2 \in Nat
    BY Numbers
  <2>3. 2 * Cooldown <= interval
    BY DEF UsualDurations, TypeInv, TypeOK
  <2>4. secs >= Cooldown
    BY <2>1, <2>2, <2>3, Numbers
  <2>5. age <= interval + Gap + FetchMax
    BY <2>1, <2>4, Numbers
  <2> QED BY <1>16, <2>1, <2>5, Numbers DEF Resuspend
<1>17. CASE PowerdSuspends
  BY <1>17, NeverIdle
<1>18. CASE StrayWake
  <2>1. pc = "mem" /\ phase # "maint" /\ age + alarm <= interval /\ alarm > 0 /\ alarm \in Nat
    BY <1>0, <1>18, Numbers DEF StrayWake, Guarded, Located
  <2>2. ~Stuck'
    BY <1>18, Numbers DEF StrayWake, Stuck, daemonVars
  <2> QED BY <1>18, <2>1, <2>2, Numbers DEF StrayWake, daemonVars
<1>19. CASE PlugIn
  <2>1. CASE asleep
    <3>1. pc = "mem" /\ phase # "maint" /\ age + alarm <= interval /\ alarm > 0 /\ alarm \in Nat
      BY <1>0, <2>1, Numbers DEF Guarded, Located
    <3>2. Stuck => alarm = secs - slept
      BY <2>1 DEF Guarded, Stuck
    <3> QED BY <1>19, <3>1, <3>2, Numbers DEF PlugIn, Stuck, daemonVars
  <2>2. CASE ~asleep
    <3>1. asleep' = asleep
      BY <1>19, <2>2, Zenon DEF PlugIn, TypeInv, TypeOK
    <3> QED BY <1>19, <2>2, <3>1 DEF PlugIn, Stuck, daemonVars
  <2> QED BY <2>1, <2>2
<1>20. CASE Unplug
  BY <1>20 DEF Unplug, Stuck, daemonVars
<1>21. CASE SwitchMaintenance
  BY <1>21 DEF SwitchMaintenance, Stuck, daemonVars
<1>22. CASE EditConfig
  BY <1>22 DEF EditConfig, Stuck, daemonVars
<1>23. CASE UNCHANGED vars
  BY <1>23 DEF vars, Stuck, envVars, daemonVars
<1> QED
  BY <1>1, <1>2, <1>3, <1>4, <1>5, <1>6, <1>7, <1>8, <1>9, <1>10, <1>11, <1>12, <1>13, <1>14,
     <1>15, <1>16, <1>17, <1>18, <1>19, <1>20, <1>21, <1>22, <1>23, Steps, Zenon

\* The usual course holds together: where the daemon is, how long powerd's timer has
\* run and how long the cycle has lasted depend on each other, and none of the three
\* is inductive alone.
LEMMA UsualHolds == ASSUME UsualDurations PROVE Spec => []UsualInv
<1>1. TypeInv /\ TypeInv' /\ UsualInv /\ [Next]_vars => UsualInv'
  <2> SUFFICES ASSUME TypeInv, TypeInv', UsualInv, [Next]_vars, mishaps' = {}
               PROVE  Guarded' /\ Brief' /\ Punctual'
    BY DEF UsualInv
  <2>1. mishaps = {}
    BY DEF Next, Daemon, Environment, MaintenanceCycle, StartCycle, PaceUnavailable,
       ArmAlarm, Bounce, Suspend, MemReturns, PaceRemainder, SuspendDone, PaceDone,
       FetchBegins, FetchEnds, CoolDown, FullCycle, Resuspend, Tick, PowerdSuspends,
       StrayWake, PlugIn, Unplug, SwitchMaintenance, EditConfig, vars, envVars
  <2>2. Guarded /\ Brief /\ Punctual
    BY <2>1 DEF UsualInv
  <2> QED BY <2>1, <2>2, GuardedStep, BriefStep, PunctualStep
<1> QED BY <1>1, UsualInit, Typing, PTL DEF Spec

\* In the usual course of things a suspended device has an alarm set: powerd never
\* gets to suspend it, and the daemon does so with the alarm it has just armed.
THEOREM SuspendsWithAlarm == ASSUME UsualDurations PROVE Spec => []SleepHasAlarm
<1>1. UsualInv => SleepHasAlarm
  BY DEF UsualInv, Guarded, SleepHasAlarm
<1> QED BY <1>1, UsualHolds, PTL

\* In the usual course of things the userspace sleep that suspend_for falls back to
\* is never frozen by a suspend, however long it is.
THEOREM CountsRunOn == ASSUME UsualDurations PROVE Spec => []CountRuns
<1>1. UsualInv => CountRuns
  BY DEF UsualInv, Guarded, CountRuns, NothingSuspendsMidCount
<1> QED BY <1>1, UsualHolds, PTL

\* In the usual course of things no cycle lasts longer than its interval and one awake
\* window, whether the suspend held, bounced or was cut short and made up for.
THEOREM NoCycleStalls == ASSUME UsualDurations PROVE Spec => []NeverStalls
<1>1. TypeInv /\ UsualInv => NeverStalls
  <2> SUFFICES ASSUME TypeInv, UsualInv, mishaps = {} PROVE NeverStalls
    BY DEF NeverStalls
  <2>1. interval \div 2 \in Nat /\ 2 * (interval \div 2) <= interval
    BY DEF TypeInv, TypeOK, AllIntervals
  <2>2. /\ age \in Nat /\ left \in Nat /\ secs \in Nat /\ interval \in Nat
        /\ 2 * Cooldown <= interval /\ Located
        /\ alarm = NoAlarm \/ alarm \in Nat
    BY DEF UsualDurations, TypeInv, TypeOK, AllIntervals
  <2>3. Guarded /\ Punctual
    BY DEF UsualInv
  <2>4. CASE phase = "maint"
    <3>1. pc \in {"maint", "fetch", "top"}
      BY <2>2, <2>4 DEF Located, TypeInv, TypeOK, Waiting
    <3> QED BY <2>2, <2>3, <2>4, <3>1 DEF Punctual, Within, NeverStalls
  <2>5. CASE phase # "maint"
    <3>1. CASE asleep
      <4>1. pc = "mem" /\ alarm \in Nat
        BY <2>2, <2>3, <3>1 DEF Guarded
      <4> QED BY <2>2, <2>3, <2>5, <3>1, <4>1 DEF Punctual, Within, NeverStalls
    <3>2. CASE pc = "cool"
      BY <2>1, <2>2, <2>3, <2>5, <3>2 DEF Punctual, Within, NeverStalls
    <3>3. CASE ~asleep /\ pc # "cool"
      <4>1. pc \in {"suspend", "armed", "mem", "back", "pace", "nudge", "fetch", "guard", "top"}
        BY <2>2, <2>5, <3>3 DEF Located, TypeInv, TypeOK, Waiting
      <4> QED BY <2>2, <2>3, <2>5, <3>3, <4>1 DEF Punctual, Within, NeverStalls
    <3> QED BY <3>1, <3>2, <3>3
  <2> QED BY <2>4, <2>5
<1> QED BY <1>1, UsualHolds, Typing, PTL
-----------------------------------------------------------------------------
\* in_night_window means what config.env's comments say, with and without a wrap
\* past midnight: an hour is a night hour when the clock, going on from NIGHT_START,
\* comes to it before it comes to NIGHT_END.  With the two equal none is.
THEOREM NightWindow ==
  ASSUME NEW hour \in 0..23, NightStart \in 0..23, NightEnd \in 0..23
  PROVE  InNightWindow(hour)
           <=> (hour - NightStart) % 24 < (NightEnd - NightStart) % 24
<1>1. \A d \in 0..23 : d % 24 = d
  OBVIOUS
<1>2. \A d \in -23..-1 : d % 24 = d + 24
  OBVIOUS
<1>3. ASSUME NEW a \in 0..23, NEW b \in 0..23
      PROVE  (a - b) % 24 = IF a >= b THEN a - b ELSE a - b + 24
  <2>1. CASE a >= b
    BY <1>1, <2>1
  <2>2. CASE a < b
    BY <1>2, <2>2
  <2> QED BY <2>1, <2>2
<1>4. (hour - NightStart) % 24 = IF hour >= NightStart THEN hour - NightStart
                                                        ELSE hour - NightStart + 24
  BY <1>3
<1>5. (NightEnd - NightStart) % 24 = IF NightEnd >= NightStart THEN NightEnd - NightStart
                                                                ELSE NightEnd - NightStart + 24
  BY <1>3
<1> QED BY <1>4, <1>5 DEF InNightWindow
=============================================================================
