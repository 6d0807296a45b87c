# kindle-dashboard: a verification project

TLA+ models of the dashboard server (Go, `server/`) and of the Kindle client (shell, `client/`),
the TLC configurations that check them, and TLAPS proofs about them. `PROJECT.json` has the index:
which definition models which lines, what each run checks, the defect (mutant) each property
catches, the disagreements found, and the hazards the properties are for.

## 1. Inventory

The system draws a dashboard on a wall-mounted Kindle. The server fetches weather and a calendar
feed, caches both and renders a PNG per request. The client wakes the device by its RTC, fetches
the PNG, draws it and suspends again.

| component | state | operations | interacts with |
|---|---|---|---|
| upstream caches, `weather/cache.go`, `calendar/cache.go` | value, fetch instant, the pending fetch | `Get` | callers through a mutex and a channel per fetch; the upstream |
| upstream clients, `weather/openmeteo.go`, `calendar/ics.go` | none | `Fetch` | HTTP, bounded by the caller's context |
| request handler, `main.go` | one context per request | `GET /dashboard.png` | both caches, one after the other, then the renderer |
| recurrence, `calendar/rrule.go`, `expand.go` | none (a walk) | `between`, `Expand` | the parsed feed |
| ICS parser, `calendar/ics.go` | the event being read | `Parse` | the calendar client, `Expand` |
| Open-Meteo decoding, `weather/openmeteo.go`, `data/openmeteo.go` | none | `toForecast`, `buildHourly`, `buildDaily`, `sliceNext24` | the client above, the cards below |
| calendar and demo providers, `data/*.go` | none | `Upcoming`, `Today`, demo weather and events | the caches above, the cards below |
| renderer and grid, `render/dashboard.go`, `grid.go` | none | `Dashboard`, `NewGrid`, `CellRect` | query and sources; calls the cards in order |
| cards, `render/widgets` | none | agenda, month, rain, today, forecast, header, footer | the area they are given; the font cache |
| server start and shutdown, `main.go` | the listener, requests in flight | signals, `Shutdown`, exit | the request handler |
| font cache, `render/fonts` | a map of faces behind a mutex | `Face`, `HasGlyph` | shared by concurrent renders |
| sleep daemon, `client/loop.sh` | cycle clock, RTC alarm, configuration, maintenance flag | main loop, `suspend_for`, the fast-return guard | powerd, USB, RTC, operator |
| daemon lifecycle, `loop.sh` head, `watchdog.sh` | the pidfile, `/proc` | guard, claim, trap, relaunch | cron, signals, reboots |
| image pipeline, `fetch_with_poll`, `draw`, `refresh.sh` | two files, the panel, the screensaver | download, check, rename, draw, copy | the server; each other, through the files |

What is hard, and what makes each part correct:

* **Caches.** Every request is a goroutine. Leaders and waiters interleave with expiry, with failing
  fetches and with contexts that end. Correct means one fetch at a time, no waiter left behind, a
  published result that stays, and data that never gets older from one read to a later one.
* **Handler.** Two caches share one deadline, and requests share fetches. Correct means an answer within
  the budget whatever hangs, and a shutdown that cuts off none but the slow.
* **Forecast.** A reply has parallel arrays that need not be parallel, and local times without an offset.
  Correct means that what the rain card says is true of the reply, and that nothing but a reply without hours to come
  costs the picture.
* **Calendar cards.** Two cards cut one ordered list at the same place in code that is apart; rows have variable
  heights; text is wrapped; days have 23 or 25 hours when the clocks change, and some have no midnight. Correct means that the cards complement each
  other, and that days and titles are what they should be.
* **Geometry.** Nothing clips a card to its cell. Correct means cells that lie apart on the page, and cards whose text and figures stay between the top and the bottom of theirs.
* **Font cache.** Concurrent renders share faces with buffers. Correct means each picture has its own glyphs.
* **ICS parser.** Lines are stored through a pointer that other lines set and clear, and some are read
  with what earlier ones said. Correct means one event per block, as the block describes it, in whatever order its lines come.
* **Recurrence.** Several limits (COUNT, UNTIL, window, exclusions, overrides) act on one walk, and
  their order matters. Correct means the instances RFC 5545 defines, each once.
* **Sleep daemon.** A userspace sleep stands still while the device is suspended, and anything may
  suspend or wake the device at any time. Correct means never asleep without an alarm, with no cycle that stalls and none that is over at once.
* **Lifecycle.** Starts race with each other, and the pidfile outlives kills and reboots. Correct means at most
  one daemon, and one again after any fault.
* **Image pipeline.** Each tool may fail or be killed between any two steps. Correct means that
  only whole pictures are drawn and kept, and that the daemon clears the ghosts of its own draws.

The Go server persists nothing, so a crash of it needs no model: a restart is `Init`. The shell side
persists files, and its models keep them across crashes.

## 2. Plan

Written, in this order, the most important behaviour first:

1. `MonotoneReads` (abstract), `TTLCache`, `TTLCacheProofs`
2. `SleepDaemon`, `SleepDaemonProofs`
3. `DaemonLifecycle`, `DaemonLifecycleProofs`
4. `ImagePipeline`, `ImagePipelineProofs`
5. `DashboardHandler`, which composes two instances of `TTLCache`, `DashboardHandlerProofs`
6. `Recurrence`, `RecurrenceProofs`
7. `FeedParser`, `FeedParserProofs`
8. `Layout`, `Forecast`, `Agenda`, `Cards`, `Demo`, and `Dashboard`, which composes them, with `DashboardProofs`
9. `Faces`

Next:

* Composition: `SleepDaemon` with `ImagePipeline` (what the picture shows after a failed cycle) and
  with `DaemonLifecycle` (a TERM that arrives during `echo mem`).
* An abstract `Panel` (the picture's age stays bounded) that `SleepDaemon` is shown to implement.
* Theorems: what `RecurrenceProofs` leaves out (yearly rules on a leap day) as a theorem about the day that is emitted instead.

The number of runs is kept to twelve, each with a question of its own.

## 3. Modules

### TTLCache, MonotoneReads

`weather.Cache` and `calendar.Cache` are line for line the same algorithm, modelled once. `now` is the
clock behind `c.now()`, `ctx[c]` whether the context of caller `c` is done, and `value`,
`valueAt`, `inflight`, `pend` are the fields of the cache and its `pending` structs. `pc` says where a caller
is in `Get`. Each of the two critical sections is one step (`Hit`, `Join`, `Lead`; `Commit`). The
fetch (`FetchAnswers`, `FetchAborts`), the close of the channel (`Close`) and the select of a waiter
(`WaitDone`, `WaitCancelled`) are steps of their own, so that everything may come between. The payload
is its version, the time at which the upstream produced it. Pending structs are collected when no
goroutine refers to them. This is why `Lead` picks one that nobody holds, and with `|Pendings| = |Callers|`
there always is one. A call begins with any context, one that is done already among them, and contexts may also
end while time passes, so that whoever uses the cache uses it as the model allows (`UsesCaches` proves it of the handler).

`MonotoneReads` is what the cache promises a reader: a successful read returns data of the present or
the past, and never older than what a read that had ended before it began returned. `TTLCache`
implements it (`ReadsSpec`) through its two history variables `floor` and `latest`.

### DashboardHandler

Two instances of `TTLCache`, `Weather` and `Calendar`, share the clock and the contexts. A
request makes a context, reads the weather, then the calendar if one is configured, then renders.
Time passes only when no request can get on without it, since the work of the server is short
against the seconds of the deadline: each `Waits`, that is, `Blocked` in one of the caches by an upstream that is silent (a fetch
that `FetchCut` does not end) or by the leader it joined. A disconnected client is a
context that is done early. At any time a signal may come (`Terminate`): no request arrives from then on, and
the process exits (`Exit`) when its requests are through or `ShutdownTimeout` has passed (`drained` counts it).

### Recurrence

`between` as a walk: `i` is the period, `j` the weekday or month day in it, `count` the candidates emitted,
`out` the result. `Emit` is the closure of that name, `Over` the three breaks, `Occurrences` what
`Expand` makes of it. Time is in slots of a day, with a table of month beginnings, so that the Gregorian
calendar is a constant. All times are in one zone, so daylight saving, floating times and
`sameWallDay` across zones are left out. Masters with `STATUS:CANCELLED` are left out, as they have
no occurrences. Parsing a rule is not modelled: `IsRule` is the type of what `parseRRule` returns, lists that the walk of its frequency does not read
included. `Series` is the reference, the same rule read as RFC 5545 does, BYDAY and BYMONTHDAY of every frequency included, with weeks that begin on Sunday
(`WKST` is ignored by the code, and says so).

### FeedParser

`Parse` as an automaton over logical lines: unfolding, splitting, letter case and escapes are done
with when a line is read. A time as written has a form (`date`, `utc`, `local`, or unreadable), a number and
a TZID; as parsed it is an instant and a zone. `Resolve` is `parseICSTime`, `ParamLoc` is `paramLoc`, and
`RuleOf` keeps of `parseRRule` whether it accepts the rule and how it reads UNTIL. `cur = None` is the nil pointer.
Zones have a fixed offset, without daylight saving. `EXDATE` values are a set. The reference, `Describes`, reads
the blocks of a feed as a whole, with no notion of order; `WellFormed` says for which feeds it is asked for.

### SleepDaemon

The daemon's program counter runs through the main loop and `suspend_for`, called from the loop
(`phase = "main"`) or from the fast-return guard (`"guard"`). Around it are powerd's idle timer, the
cable, the RTC alarm, taps, the maintenance flag and `config.env`. Time is relative, so behaviours
have no end. `slept` saturates at `StuckMin`, the only value it is compared with, and `age` at `MaxAge`.
`Mishaps` names what the environment may do beyond its usual course; a run says which it includes. The
usual course has the cable pulled only when the daemon does not count on it, and no wake in the first
`StuckMin` of a suspend. A behaviour has all the mishaps of the run or none (`mishaps`): `SleepHasAlarm`, `CountRuns`,
`NeverStalls` and `KeepsRefreshing` are asked for without them, `PacedInv` and `NoHotSpin` in any case.
`NeverStalls` and `NoHotSpin` bound the length of a *cycle*, from `cycle_start` to the return to the top of the loop. They say nothing of the age of the picture or
the distance of two fetches: a tap early in a cycle puts its fetch close behind that of the cycle before, and what the guard then sleeps and the next interval together
leave a picture about two intervals old.
The awake window is shorter than powerd's idle timer, as on the device. What a fetch
does is in `ImagePipeline`. `InNightWindow` is the hour test of the main loop and `CurrentInterval` what it leads to; the hour
itself is a free choice at the beginning of each cycle, since a cycle says nothing about the time of day.

### DaemonLifecycle

`Glob` is the shell's expansion of `/proc/[0-9]*`, after which entries are looked at one by one
(`PassOver`, `Yield`). `Claim` writes the pidfile, `SetTraps` sets the traps, and a kill may come
between the two. The watchdog checks and spawns in two steps. It runs every five minutes, which is modelled as `Settled`: it does
not run in the milliseconds of another start. Launches by hand do. A reboot frees every number, gives some to other
programs, and keeps the pidfile.

### ImagePipeline

The daemon and `refresh.sh` are two processes over the same two files, which take turns: a script starts when the other is at
rest, and may find what the other left, also when it died. Running both at once is not modelled (section 6).
Names are bound to inodes: `curl` keeps writing to the inode it opened while `mv` moves the binding.
A file has two parts, so that half a picture and a mixture of two exist. Any tool may fail (curl, od, mv, eips, cp, rm) and a
script may die at any point. `Move` may leave both names as they were, and the scripts go on with the old picture, since neither looks at the status of `mv`; `Reject` may
come of a whole picture, since `od` may fail; `GiveUp` may leave the temporary file. A script dies with its curl: an orphaned curl outliving its shell (at
most ten seconds) is not modelled. Renames are atomic; loss of power inside the file system is not
modelled. `torn` and `missed` are history variables, and so is `partials`, the daemon's partial refreshes since its
last full one; `eips -g` of `refresh.sh` is partial too, and is counted neither by the code nor here.

### Layout, Forecast, Agenda, Cards, Demo, Dashboard

What goes into a picture, without its pixels. A *page* is what a picture is made from: the moment, the query,
the server's setting, the weather (a reply, the demo or nothing) and the events of the calendar. `Dashboard` draws it, one step for
each branch of `render.Dashboard`; a *card* in `cards` is what a widget drew: its area, the heights of its lines of text and rules
(`marks`), the rectangles it fills (`boxes`) and what it says.

* `Layout` is `grid.go` and the scaling of the cards' lengths, in pixels and with Go's division.
* `Forecast` goes from the decoded reply to the summary of the rain card: `ToForecast` with its refusals (`Decodes`),
  `BuildHourly`, `BuildDaily`, `SliceNext`, `Summarise`. Times a reply states wrongly are `Bad`.
* `Agenda` has `Upcoming`, the days (`DayOf`, `DateOnly`, `DayLabel`), the wrapping of titles, the row budget of the agenda, and
  the grid, dots and footer of the month card. Instants are quarters of an hour. The display zone is a table `Midnight` of the instants at which its days begin,
  so that days have 23, 24 or 25 hours. `DateOnly` is `dateOnlyIn`, the instant `time.Date` returns for a day's midnight: in a zone that skips it (`Skipped`), an hour
  before the day west of Greenwich and the day's beginning east of it (`SkippedTo`); where a midnight comes twice, the second one in the zones of `Second`. The month card walks
  with `AddDate`, which keeps the time of the wall clock, so that its days are readings of that clock (`Reads`, `TimeDate`, `AddDate`). A title is the number of runes of each of its words; runes are equally wide (`RuneWidth`), which
  keeps the comparison of widths and drops the font's metrics. A word of no runes is one whose glyphs the font lacks. The loops of the
  code are folds: `Place` is the body of `wrapToWidth`, `Row` of the agenda, `WithGlyphs` of `sanitizeTitle`; `MonthDay` is a day of the
  grid. `Sorted` is the order `sort.Slice` brings the events in, which is total, as events are a set.
* `Cards` are the other cards, and `Demo` is `demo.go`.
* `Dashboard` adds the query parameters and the order of drawing. `PageAssumption` says what a page may be: instants that are in the zone's table,
  events of the types the feed gives them, and of a reply (`ReplyOK`) that its hours, where they can be read, are in order and its chances are at most 100. `RainPanics` is the index out of range in `summarise`, which
  the server recovers from and the picture does not.

The JSON decoder, weather codes and their words, text other than titles and the drawing itself are left out.

### Faces

`fonts.go` and what `drawAt` does with a face. The cache of faces is guarded by a mutex, so finding or making a face is one step
(`Face`). Drawing a glyph has two steps, for `opentype.Face.Glyph` rasterises into a buffer of the face (external, marked so in
`PROJECT.json`) and `font.Drawer` then copies from it.

## 4. Runs

| run | bounds | what it shows |
|---|---|---|
| `TTLCacheSound` | 2 callers, TTL 2, time 0..3 | the inductive invariant, the named safety properties, refinement and liveness, with values that live, expire and are refetched. Two callers that call again give a leader, a late waiter of the fetch before and a new leader; three at once are left to the theorems, which hold for any number |
| `TTLCacheAbsorb` | 1 caller, TTL 1, time 0..2 | *violation*: a failed refetch is reported although a value is held |
| `HandlerSound` | 2 requests, TTLs 1 and 2, budget 2, shutdown 1, time 0..3 | time enough for one deadline and a second request that joins late; a signal at any moment. Shutdown is shorter than the budget, as in the code |
| `FeedParsed` | every order of a start and up to two more properties (with two time zones, unknown and unreadable values), pairs of events, alarms, any 5 lines out of 7 | feeds are read as they mean, and no feed leads to nil |
| `RecurrenceExact` | rules listed in `MCRecurrence`, real calendar 2024-2026, window of 15 days, walk up to 40 periods | all four frequencies, COUNT, UNTIL, exclusions, moved and cancelled overrides, windows before, in and after the series |
| `RecurrenceRunning` | one all-day yearly event, asked for at noon | *violation*: it is not shown |
| `SleepDaemonSound` | durations in the order of the real ones, two configured intervals, all mishaps or none | the device keeps refreshing in its usual course, and under anything no cycle is short |
| `SleepDaemonUnplug` | the same, with the cable pulled at any time | *violation*: the userspace sleep is frozen |
| `Lifecycle` | 3 numbers, 4 faults, TERM among them | a daemon, a rival and a number to spare; recovery after the last fault |
| `Pipeline` | both scripts, one at a time, 4 inodes, a flash every 3 cycles | with failures and crashes at every step |
| `PanelSound` | pages listed in `MCDashboard`: any of the demo's events, two events on the days around both changes of the clock and around a midnight that a zone west of Greenwich skips, three titles of seven shapes, 720 whole and 7 broken replies with a rain card that looks 3 hours ahead, every query | the cards keep their heights and figures in their areas, complement each other, and say what is so |
| `Glyphs` | 2 renders, 2 sizes | *violation*: a picture has a glyph of the other |

`MaxTime`, `MaxFaults`, `MaxAge` and `MaxOccurrences` are the bounds of counters. `MaxTime` stops the clock: what the other
actions do then goes on, so liveness is checked there too. `MaxAge` is above every value `age` is
compared with. `MaxOccurrences` is the code's own 10000, made smaller but never reached
(past it the walk would be cut short; `LongWalk` in section 7 says how large it must be). `HandlerSound` uses a view: it forgets versions, history, and
the state of requests that are idle, none of which its properties or the guards read.
Pages are sets of inputs and not bounds of a state; each family of `MCDashboard` varies one thing and keeps the rest plain, as
the cards that depend on it read nothing else.
`RecurrenceExact`, `RecurrenceRunning`, `FeedParsed`, `PanelSound` and `Glyphs` do not check for deadlock, since a walk, a feed
and a picture end.

Each passing property has a mutant in `PROJECT.json`: a definition with a plausible defect, kept next to
the sound one under a comment "Defect:", under which TLC finds the property violated.

## 5. Fairness

* `TTLCache`: weak fairness of a caller's own steps (the Go scheduler runs runnable goroutines) and of
  the end of its context (the handler gives each a deadline). No fairness of the upstream's answer.
* `SleepDaemon`: weak fairness of the daemon's steps, which are disabled while the device sleeps, and
  of time. Not of wakes, plugs, or powerd.
* `DaemonLifecycle`: weak fairness of the watchdog (`crond` runs the job) and of each running script.
  Faults are bounded, so "once faults cease" is the tail of every behaviour.

## 6. Disagreements found

Four are runs that TLC must find violated, with the quoted text in `PROJECT.json`:

* A stale value is discarded on expiry, so upstream failures do reach the panel in the steady state (D12).
* A recurring event that is running, or all-day today, is not in the agenda.
* Pulling the cable during a userspace sleep freezes it.
* Two requests that draw at the same size share a face's buffer, and one gets a glyph of the other.

The others were met while modelling and are not runs. The models behave in these ways where they
cover the part; where a property would
be false because of one, the property or the inputs of its run say that they leave the case out.

* The calendar is not independent of the weather (`main.go:196`): it gets what is left of the same deadline,
  possibly nothing.
* "Graceful shutdown" (`docs/server.md:24`) has 5 s (`main.go:96`), less than the 8 s a request may take: requests that wait
  for a slow upstream are cut off. `CutsOnlySlow` says that no others are.
* With no hour to come in a reply, the rain card panics (`rain.go:100`).
  `RainTrue` says that nothing else makes it panic.
* The first day of the forecast is called Today whatever its date (`weather_forecast.go:45`).
* "Freezing drizzle · rain 100%" is wider than the forecast card by the metrics of the font. Widths of such lines are not modelled.
* An unknown weather code is shown as a dash, where the comment of `conditionWord` promises its number. Words are not modelled.
* An event the agenda has no room for is shown on neither tile, although `calendar_agenda.go:27-30` has the other tile skip
  exactly what the agenda shows. `TilesComplement` allows it only when the agenda is short of room.
* The month's dots are those of the events that `Expand` kept, so days that are past have none of events that ended.
* The demo's hours are those of the zone of the process, and its days are cut in UTC (`demo.go`), so that its calendar may show them a day off in the display zone. The
  model takes the process to run in the display zone (`AtToday`).
* `mv` is not checked in `draw` (`loop.sh:209`) or `refresh.sh`: if it fails, the old picture is drawn and kept once more, as if it were new. `DrawnWhole` and `KeptWhole` hold there.
* Partial refreshes by `refresh.sh` (`refresh.sh:81`) are not counted by the daemon, so more than GHOST_REFRESH_EVERY may follow each other on the panel. `GhostsCleared` is about the daemon's.
* A tap that ends a suspend after the threshold of `suspend_for` is followed by a fetch, possibly seconds after the one before. The guard then sleeps the rest of the interval without
  another, and the next cycle sleeps a whole one, so that the picture can be about two intervals old (`loop.sh:275-409`). The properties bound cycles.
* `refresh.sh` next to the daemon writes the same temporary file (`refresh.sh:46`) and can draw half a picture; `docs/client.md:84` has it run by hand.
* BYDAY of a daily, monthly or yearly rule, and BYMONTHDAY of any but a monthly one, are accepted and ignored (`rrule.go:81-101`, `184`): an
  event of every month's Tuesdays (`BYDAY=TU`) is shown on the day of the month it began on, where other rules that are not understood are refused, "rather than silently
  mislead" (`rrule.go:107`). (BYDAY with an ordinal, such as 2TU, is refused.) `InOrder` leaves such rules out, and `MCRecurrence` has none.
* In zones that skip a midnight (Santiago, Havana; Cairo, Beirut), the month card is wrong on that day, and west of Greenwich on others of the week: the grid keeps
  the hour `time.Date` made of the midnight, and days are compared with others that have it at 00:00 (`calendar_month.go:46,104,133`). `DaysRight` asks for the grid of
  four weeks that have all their midnights. The names of days are right in every zone, since `dayLabel` rounds.
* BYDAY in another order than the week's loses instances to COUNT or UNTIL (`rrule.go:169`): the first candidate
  past the limit ends the walk. `MCRecurrence` lists weekdays in order.
* The same `time.Date` stands behind an all-day event of the feed on a day without a midnight (`ics.go:275`), and behind instances at a time
  the clocks skip. `FeedParser` and `Recurrence` have no change of the clocks.
* A yearly 29 February becomes 1 March (`rrule.go:217`). `MCRecurrence` has no yearly event on that day.
* RRULE before DTSTART reads a local UNTIL as UTC (`ics.go:161`). `WellFormed` asks for the other order.
* A SUMMARY, or another property, of a VALARM replaces the event's (`ics.go:137`): agenda entries then show the
  alarm's text. `WellFormed` asks for alarms without such properties.
* Maintenance mode on battery is suspended by powerd (`loop.sh:342`, `docs/client.md:125`). In the usual course
  maintenance happens on the cable.
* An edit of `config.env` needs a restart of the daemon (`loop.sh:357` says otherwise).
* TERM removes the pidfile and leaves the daemon running (`loop.sh:135`). `PidfileNamesDaemon` allows its absence.
* A reused number in a stale pidfile keeps the watchdog content (`watchdog.sh:28`). `DaemonRecovers` is checked without
  the mishap `"reuse"`.

## 7. Proofs

All proofs are checked by `tlapm` to the last leaf and hold for every value of the constants that meets
the named assumptions (`CacheAssumption`, `HandlerAssumption`, `DaemonAssumption`, `LifecycleAssumption`,
`PipelineAssumption`, `FeedAssumption`, `RecurrenceAssumption`, `SliceAssumption`, `AgendaAssumption`, `DigitAssumption`,
`PageAssumption`), each stated in the module that declares the constants. What a theorem needs beyond them is in its statement.

* `TTLCacheProofs`. `TypeCorrect`, then `InvariantHolds`. `SingleFlight` is not inductive: nothing in it
  says that a leader's pending struct is the one in `inflight`, or that the value it found stale is still stale at
  its commit. `CacheInv` adds who refers to which struct (`Holding`, `References`), which versions
  everything holds (`Versions`), and `StillStale`. From it follow `OneFetch`, `WaitersHaveLeader`,
  `ResultsFinal`, `FetchesSpaced`, and the refinement `Implements`, by simulation step by step (`StepSimulation`).
* `SleepDaemonProofs`. `NightWindow` says of the hour test, for any window, that it holds in the hours a clock passes from `NIGHT_START`
  until it reaches `NIGHT_END`. `NeverSpins`, that no cycle is short, needs `PacedInv`: at each point of a cycle, the time that has
  passed together with what is still to be slept covers the interval, or the pauses that lie behind it.
  It is proved with all mishaps allowed, and `PacedHolds` states it. The properties of the usual course follow from `UsualInv`, which has three parts:
  who may be where, with which alarm (`Guarded`); powerd's timer never runs out while the daemon is up on battery (`Brief`); and what
  has passed with what is still to be slept fits the cycle (`Punctual`). `SuspendsWithAlarm`, `CountsRunOn` and `NoCycleStalls` rest on it, under
  `UsualDurations`: an awake window shorter than powerd's timer, and no interval shorter than two cool-downs, as on the device.
* `DaemonLifecycleProofs`. `AtMostOneDaemon` follows from `LifecycleInv` (`ScansMeet`): of two instances that have
  listed `/proc`, one has the other on its list. `PidfileSound` follows in turn: only the instance that passed the guard
  writes the file, and by the theorem before there is no other to be named.
* `FeedParserProofs`. `NeverNil`, for feeds of any length and lines in any order: `inEvent` holds exactly when `cur`
  is an event. It needs the types of everything stored (`AssignType`, `EndedType`), to know that none of it is nil.
  `FeedsAreRead` states `ParsesFeed`, for any feeds, zones and numbers of events. Its invariant, `ParseInv`, says what Parse has before
  line `pos`: every block that has ended is an event, in its place (`Built`); `cur` is what the open block says up to here (`Reading`), each time
  resolved in the zone of that moment; and all of `X-WR-TIMEZONE` has been seen once an event begins (`Zoned`), so that this zone is the
  calendar's. There is a lemma for each kind of line (`BeginParse`, `EndParse`, `CalendarParse`, `EventParse`); `EventIs` goes from what was read to
  what `Describes` asks for, and `LinesStay` says that the reference does not change under the steps. That a block has one event needs no `WellFormed`.
* `DashboardHandlerProofs`. `TypeCorrect` first. `UsesCaches`: every step of the handler is a step or a stutter of each cache, so
  `Spec` implements the specifications of both and `CachesStaySound` follows from the theorems of `TTLCacheProofs`, instantiated twice, without a new
  invariant. `ExitCutsOnlySlow` needs to know that a request in flight is as old as the shutdown (`DrainInv`), since none arrives after the
  signal. It assumes `ShutdownTimeout <= Budget`, as in the code. `RequestsEndInTime` needs that a request whose budget is used up has a context that is
  done (`DeadlineInv`), and that nobody with such a context is blocked in either cache (`WaitsOnlyAlive`).
* `ImagePipelineProofs`. `OnlyWholeDrawn`, `OnlyWholeKept` and `GhostsBounded` from `PipeInv`: the inode under
  the name of the picture is whole and is never the one a curl writes to (`TmpInv`), and unless
  a flash was missed the daemon has made no more partial refreshes than the cycle counter says (`GhostInv`).
* `RecurrenceProofs`. `WalksExactly` and `ShowsAll`, for rules of each frequency without the lists that its walk ignores. `Periods` says what every kind of rule has in
  common: periods that follow each other, candidates in order within each that are the days the series matches, and breaks only where nothing to come is in the
  window; it is shown for each frequency apart. `WalkInv` is stated over it: what was emitted so far is what the series has before a day `d`, and the
  reference's COUNT, a rank in a finite set, is the code's counter. Their hypotheses are `InOrder` (BYDAY in weekly and BYMONTHDAY in monthly rules only, and
  in order, no yearly rule on a leap day: outside lie the cases of section 6 in which the code departs from the reference; and, for monthly and yearly rules, a table of
  months without end) and `LongWalk`, which says how large `maxOccurrences` must be to do no harm. `TypesHold` needs none of that but the table.
* `DashboardProofs`. First the grid: `CellsOnPage` and `CellsApart`, for every grid on every page with room for it; products of cells and
  pitches are nonlinear and beyond the SMT solver, so that lemmas isolate them. The loops of the cards are folds, and a fold of the community modules is a recursive
  function under `CHOOSE`: `FoldExists` shows that there is one, and `Chain` that it goes through the states one would expect, so that what a step preserves holds at
  the end (`Induction`). On that rest `WrapIs` (what a title is wrapped to), `AgendaIs` (the rows), `WettestIs` and `SumAhead` (the rain). `Sorted` lists a set of events in
  the order of their ranks (`SortedIs`), which is why two cuts of it complement each other. `MidnightGrows` makes days of the zone out of instants, and `NearMidnight` has what goes for a midnight within an hour of it, which is why events are
  called by the right days in every zone; in weeks that have all their midnights the readings of the wall clock are those of midnights (`Readings`), and the grid is right too: `DaysTrue`. For each card there is a lemma that it keeps to
  its area (`RainKeeps`, `MonthKeeps`, `HeaderKeeps`, ...), on the areas the two orientations have. The invariant of the specification is `Drawn`: which cards are drawn at each `pc`.
  From them follow `TypesHold`, `StaysInCells` (heights and filled rectangles), `TilesTogether`, `DaysTrue`, `TitlesFitWell` and `RainIsTrue`, for all pages, zones, titles and replies that the
  assumptions admit, where the run has lists of them.

Induction is used as a fact about sets of numbers (`Induction` in the modules that need it, from the well-foundedness of `<`), since the theorems of the library that take an
operator cannot be instantiated. That suffices for folds and for recursive functions over numbers.

Only model-checked: liveness (`EveryGetReturns`, `KeepsRefreshing`, `DaemonRecovers`), which needs fairness and is
out of the prover's reach. Every invariant the passing runs check is stated by a theorem.

## 8. Not modelled

* The text level of ICS (unfolding, splitting lines, letter case, escapes) and JSON decoding, which belong to a parser and a library.
* Pixels, wording, widths of text other than titles, the font's glyph coverage, and the words for weather codes: constants and layout.
* Reading the configuration and a listener that fails: either ends the process before it serves.
* Health and preview replies, the request log, `render-sample`, CI: they keep no state.
* The client's prelude (stopping the framework, remounting), its log rotation, battery sampling and the nudge of the network: they
  are commands whose effects lie outside the scripts.
