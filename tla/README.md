# ampered in TLA+

`ampered` is a power manager for a Linux laptop or home server: a daemon that
turns the screen off, suspends the machine and switches power modes, and that
carries a *server cycle*: when the power fails it puts the machine to sleep with
an RTC alarm set, wakes up every few minutes, looks whether the power is back,
and goes to sleep again if it is not.

These modules model its decisions and the tasks around them. TLC checks them on
small instances; TLAPS proves nearly all that is safety for every value of the
constants.

To run things: `tlc -config MCEngine.cfg MCEngine`, `tlapm EngineProofs.tla`.
`PROJECT.json` lists the runs, the lines of the source each definition stands
for, the hazards, the findings, and for every property a mutation of the code
that breaks it.

## The system

One process, `ampered`, runs a tokio runtime. Its *main loop* (`main.rs`) owns
the *engine* (`core.rs`), a pure state machine: it takes one event, gives it to
the engine, gets a list of commands, executes them, and takes the next event. All
other parts are tasks that send events into one channel of 64, or that execute
what they are told. A second process, `ampered-agent`, runs in the user's session
and talks to the compositor; `amperedctl` is the command line.

| component | state it keeps | operations | what makes it correct |
|---|---|---|---|
| Engine, `core.rs` | config, state, mode, AC/battery/low, inhibitors, pending retry, cycle counters | `handle` for 15 kinds of event, `set_config`, startup calls | the cycle suspends only with an armed alarm, gives up after 3 failures, restores everything on its way out; inhibitors are respected; the mode follows the power |
| Timers, `timers.rs` | generation of each running timer; one sleeping task each | start, cancel, fired | a timer fires once, for its last start, and never after cancel |
| Main loop, `main.rs` | queue of commands, Planner, shared state | take an event, execute a command, reload, shut down, start again | commands act in order; answers (alarm, undelivered suspend) come before the next event; panel, mode and file follow the engine |
| logind client, `logind.rs` | delay lock, request channel of 4, `state.json`, mode file | executor, PrepareForSleep listener, inhibitor poll, IdleHint fallback | a request has an outcome; state is on disk before the lock is released |
| RTC and Planner, `sleep/` | hardware alarm, time planned | set, clear, classify a wake | an alarm is set or known not to be; a wake is the alarm's or the user's |
| AgentLink, `agent.rs` | the one registered agent, what to send again | register, unregister, note, send | an agent that reconnects gets the state it needs; late goodbyes change nothing |
| IPC server, `ipc.rs` | connections, subscribers, pending replies | serve, reply, broadcast | every request is answered once, subscribers miss nothing |
| Idle watcher, `idle.rs` | stages, one Wayland notification each, connection | set_stages, idled/resumed, reconnect | input after any stage is reported as activity once |
| Display, `display.rs` | last state sent | on, off | the screen is what the daemon last asked for |
| Backlight, `backlight.rs` | brightness before dimming, last written, fade task | dim, undim, reconfigure | undim restores the user's brightness |
| Supply, `power/supply.rs` | sources, last reading | poll, uevent, recheck | every change is reported, as a change |
| Power modes, `power/modes.rs` | none of its own: sysfs | apply | every knob of the mode has its value in the end, whichever others fail |
| Config, `config.rs` | none | parse, validate | no invalid configuration is accepted |
| logind.conf, `logind_conf.rs`, and the list of degraded subsystems in `main.rs` | the list | start, reload | the list says what is missing and what logind does by itself |
| notify, amperedctl | none | | |

Interactions. Events flow from the agent and the compositor, the supply, IPC
clients, signals, timers and logind to the main loop. Commands flow from it: to
timers (`StartTimer`), the panel and stages (through the agent), sysfs
(`ApplyMode`), logind (`Suspend`, `PowerOff`, by `try_send` into the request
channel), the RTC (`ScheduleWake`, `CancelWake`), IPC (`Reply`, `Broadcast`). Two
answers come back inside the execution of commands: `on_wake_scheduled` after
the alarm was set, and `SleepFailed` when a suspend could not be delivered. logind
announces a sleep with PrepareForSleep; the listener saves the state, sends
`Suspending`, and releases its delay lock.

What is hard:

- *Interleaving.* A suspend that is asked for is executed by another task, is
  announced to a third one, and reaches the engine as an event. Input, timers and
  requests arrive in between, and nothing withdraws a request.
- *Ordering.* The machine must not sleep before the alarm is armed *and* on disk;
  a broadcast must not overtake the change it is about, although commands can
  produce more commands.
- *Failure.* The RTC can refuse, after having cleared the old alarm; logind can
  refuse, or not be there; the request channel can be full; the daemon can die
  at any step while the machine is in its cycle.
- *Timers.* A fire that is queued when its timer is restarted.
- *Long sequences.* The cycle has seven ways out and each has to undo the same
  things; a reload or a mode switch can come in any phase.

## Modules

| module | models |
|---|---|
| `Engine` | `core.rs`: every handler of `Engine::handle`, `set_config`, startup |
| `MCEngine` | configurations and event sets for it |
| `EngineProofs` | theorems about the state of `Engine` and the commands it returns; `Engine` implements `Cycle` |
| `Queues` | lemmas about sequences of things of a kind: what is in them, what comes first and last, what they settle; the least number with a property, induction, functions defined by a loop |
| `QueueProofs` | lemmas: what each handler adds to a queue of commands, kind by kind |
| `Cycle` | the abstract server cycle: phases and power, which `Engine` implements |
| `Timers` | `timers.rs`: the map, the tasks, the channel, generations |
| `TimerService` | the abstract timers the engine expects |
| `Daemon` | extends `Engine`: main loop, logind tasks, RTC, disk, machine, restart |
| `MCDaemon`, `DaemonProofs` | instances of it; theorems about what the daemon carries out |
| `Supply` | `power/supply.rs`: readings, the task, what it sends |
| `Rtc` | `sleep/rtc.rs` and `classify_wake`: operators on times |
| `Round` | extends `Supply` and `Rtc`: a round of the server cycle in time, with `Cycle` as the engine |
| `MCSources` | instances of `Supply` and `Round` |
| `IdleHint` | the poll of logind's IdleHint in `logind.rs` |
| `SourcesProofs` | theorems about `Supply`, `Rtc`, `Round`, `IdleHint`, `Timers` and `Degraded`; `Timers` implements `TimerService`, `Round` implements `Cycle` |
| `Ipc` | `ipc.rs`: connections, pending replies, subscriptions |
| `Socket` | `listen` of `ipc.rs` and `cleanup` of `main.rs`: who has the socket |
| `MCServer`, `ServerProofs` | instances; theorems about both |
| `Degraded` | `logind_conf.rs`, and the start and reload of `main.rs` as far as `status.degraded` goes |
| `PowerModes` | `power/modes.rs`: the writes of a mode |
| `MCParts` | instances of `Timers`, `IdleHint`, `Degraded` and `PowerModes` |
| `Backlight` | `backlight.rs`: dim, restore, reload, the fade task |
| `MCBacklight` | instance of it |
| `SysfsProofs` | theorems about `Backlight` and `PowerModes` |
| `AgentLink` | `agent.rs` and `serve_agent` of `ipc.rs`: the daemon's end of the agent stream |
| `Session` | extends `AgentLink`: the agent process, the idle watcher, the display, the compositor |
| `MCSession`, `SessionProofs` | instances of it; theorems |

Where one MC module has several modules, a variable `part` chooses at the start which
of them runs; the others stand still. That is many specifications checked in one
run, not one that composes them. `Daemon`, `Session` and `Round` compose.

### Engine

Each handler of `core.rs` is an action with the handler's name
(`on_awake_window` is `OnAwakeWindow`). The list of commands a handler returns is
`queue'`. A handler takes a parameter `out`: the commands that come before its
own. In `Engine` it is what the calling handler has pushed before (`power_is_back`
is called in the middle of `on_ac_changed`); in `Daemon` it is also what the main
loop has not executed yet, because `handle_now` is called in the middle of a
queue. `Become` is the end of `handle`: the state change is broadcast after
everything else, with the phase of the cycle if that changed.

Left out is what no decision reads: durations (but not whether `sleep_retry` is
zero), texts, `idle_connected` and the status, the list of batteries behind the
percentage. The stages of a mode are named by the mode. A request that stops at
the IPC server (`Subscribe`, `Agent`) never reaches the engine.

`Spec` is the engine in an arbitrary environment: any of `Events` at any time,
any answer. This is more than the daemon can do, which makes what holds of it hold
a fortiori; what needs the daemon's order is checked in `Daemon`. Two facts about
the caller are part of it: the answer to `ScheduleWake` precedes the next event,
and nothing follows `Shutdown`.

### Timers and TimerService

A `Start` makes a generation, records it, aborts the task it replaces and spawns
one. `abort` takes effect where a task awaits, so one past its sleep still sends.
`Receive` is one turn of the loop in `fired`: it drops what is not current. The
environment restarts and cancels freely. `TimerService` has one deadline per id
that is `counting` or `elapsed` and no generation and no queue. The refinement
maps a running timer to `counting` as long as its task sleeps; the dropping of a
stale fire is a stutter. `Daemon` uses `TimerService`'s view, reduced further to
the set of running timers, any of which may be due.

### Cycle, Supply, Rtc and Round

`Cycle` is what is left of the engine if only the phase of the cycle and the power it
knows of are looked at: what starts a cycle, what each phase may be followed by, and
that power ends it where the machine waits awake. `Engine` implements it
(`ImplementsCycle`: the phase is `state` inside the cycle and `Out` outside).

`Supply` is the task of `supply.rs`, with its `select!` over the poll, the uevents, and
the requests of a resume. `Snapshot` reads a directory of devices the way the code
does, with the scope of batteries, fields that are missing and the rounded mean. A
reading is compared with the one before, and the difference is sent, event by event,
into a channel that may be full. Reading and the netlink socket may fail. Kernel
messages that wait are one flag, and rechecks that are due at the same time are one.

`Rtc` has the operators of the alarm: the horizon, the cut to seconds, the two writes
of which the second may fail, and the classification of a wake.

`Round` puts both around `Cycle`, in ticks: the mains, a controller that after a wake
shows the old state for up to `Stale`, the rechecks, the awake window, the alarm and
the clock at which the main loop looks at it, `Latency` late. What the engine decides
beyond `Cycle` (timers, attempts, the alarm) is written here with the conditions of
`core.rs`. What the engine is told, and its way out, conjoin the action of `Cycle`; that
what its timers do (`Arm`) is one too is part of `RoundIsACycle`.

### IdleHint

One turn of the poll in `logind.rs`: it sleeps 30 s, copies the shared `fallback`, reads
two properties of logind one after the other, decides (`fallback_event`) and sends,
waiting for room. `fallback` changes under it: modes move the timeout, reloads switch it
off and on, the agent's compositor disengages it. History: `delivered` (the stage was
sent in this stretch) and `dropped` (it forgot one because it had to stay out).

### Ipc and Socket

`Ipc` has a task per connection (`serve_connection`, `stream_events`), the map of
replies that are pending and the main loop with its channel; clients ask, ask ahead,
stop reading and hang up. A request is numbered by its client so that an answer can be
told from another. `Ring` is the capacity of the broadcast channel, whose slow readers
skip what is gone. `Socket` is about the path: a daemon looks whether somebody answers
there, removes what does not, binds, and at its end removes the path. In these steps
other daemons may be started, stopped or killed.

### Degraded and PowerModes

`Degraded` has the files, each a sequence of lines, or missing, or there and
unreadable; directories are numbered by precedence, drop-ins by name. `CollectFiles`,
`LoginSection`, `EffectiveKeys` and `LoginSettings` are the functions of `logind_conf.rs`;
its loops over lines and over files are recursive functions on the number of the line
(`SectionAt`, `KeysAt`) and of the file (`KeysAfter`). `StartDaemon` and `Reload` fill the list of degraded
subsystems: which devices a reload looks for again depends on which sections have
changed, while logind.conf is read each time. The property compares the list with the
devices in use, and with what the files say by a definition of its own (the last
assignment below a `[Login]` of a file no earlier directory shadows). Entries of
`status` that are computed when it is asked for (power, agent, display, wayland) and
those fixed at the start (conflicts, ipc, hibernate, logind) are left out. A reload whose
configuration is rejected changes nothing and is no step.

`PowerModes` makes one step of each write of `ModeApplier::apply`, in the order of its
four sections. Any write may fail; the kernel refuses an `epp` while the governor of
that processor is `performance` (`Accepts`, external); processors come and go between
the writes and other daemons write to the same files. The code sorts the
processors; no write of one bears on another, and the order is left open. `spoilt` is
history: the files about which nothing is claimed, because their write failed or
somebody else has written since. `RightlyRefused` names the preferences that are not
promised: among them those that only the `sysfs` table of a mode names, which are
written before the governor. If the mode before ran at `performance`, the kernel refuses
them although the new mode has another governor. The order is the one
`docs/08-power-modes.md` gives.

### Daemon

`Daemon` extends `Engine`, so that a command is executed in the same state space.
Its actions are the atomic steps between which tasks interleave:

- `Run...`: the main loop executes the head of `queue` (`execute` in `main.rs`).
  `RunScheduleWake` sets the alarm and calls `OnWakeScheduled`, `RunSuspend`
  tries the channel and calls `OnSleepFailed` if it is full.
- `TakeEvent`, `TakeTimer`: with the queue empty, the next event or a timer.
  `Remembers` is the write to `SharedState` that follows both.
- `Arrives`: anybody else's event. The supply reports changes only; a stage
  that the compositor does not have is not reached.
- `ExecuteRequest`: one turn of the executor: inhibitors listed afresh, then
  logind accepts, refuses, or is busy with another sleep.
- `FallAsleep`, `UserWakes`, `AlarmWakes`, `OutsideSuspend`: the machine.
- `SaveState`, `ReportSleep`, `ReportWake`: the listener, whose send may have to
  wait for room, with the lock still held.
- `Crash`, `Restart`: at any step; `Restart` is `run` up to the loop, with what is
  on disk and whatever power and configuration there is then.

`Attempt` is what the code logs and goes on without, beside a `Faulty`
configuration: `state.json` or the mode file not written or not removed, the alarm
not cleared, no delay lock.

### Backlight

The main loop calls `dim_to`, `restore`, `reconfigure` and `settle`, one at a
time; `call` is the one under way. Each begins by stopping the fade (`StopFade`) and
goes on when the task has ended (`DimRead`, `RestoreRead`, `SwitchDevice`,
`Settled`): `stop_fade` awaits it. The task alternates between `FadeTurn`, which
looks at the cancel flag and stores `written`, and `FadeWrite`, so that a call or
somebody else may come between the two. Every read and write may fail. `External`
is anybody else's write to the file. `Target`, `Interpolate`, `RawFromPercent` and
`Discover` are the functions of the source, with its divisions.

What the user is owed is history, written by the model and read by no action:
`user` is the brightness the user has chosen; `kept` what somebody has set while
dimmed, which ADR-9 says stays; `level` where the dim went. The properties stop
claiming anything once `upset` (somebody writes in the middle of a fade or a call, a
read or write of ours fails, the next dim cuts a restore short, a reload forgets
the dim) or `stale` (see "Noticed" below), until the user sets the brightness
again. Setting just the value of the dim counts as no change: ADR-9 accepts that.

### AgentLink and Session

`AgentLink` has the state shared by main loop and IPC server (`link`, one mutex, so
each of its operations is one step), a task per connection (`streams`), and the
main loop's channel (`events`). `Register` closes the stream before it, by dropping
its sender; the task of that stream notices later (`LoopEnds`) and still serves
what it has until then. `ServeEnd` is `unregister`, and `SayGoodbye` the `Activity`
that follows it, after the lock is gone. `down` and `up` are the two directions of the
socket; `down` begins with the channel the ops are sent through.

`Session` adds the other end. `agent` is the process (`Agent`, its connection, its
`Display`), `watcher` the reconnect loop with the session it is in, `compositor` what
the compositor knows of the watcher. The actions follow the code: `ReadOp` is
`Agent::apply`, `Forward` is `Agent::forward`, `TakeRequest` the request branch of
`session`, `Dispatch` a turn of its event queue, `SessionStarts` everything up to
the first events, with the draining of the requests at the top of `reconnect_loop`.
`ApplyScreen` is `Display::set` with its four outcomes: remembered, handed to the
watcher, nothing to do it with, or a helper command, which may fail. The daemon, the
agent and the compositor die at any step. The engine is reduced to what stages,
activity and a resume make of the screen; a run of the whole `Engine` against it
would only add phases in which stages are ignored.

History: `wanted` is the last `Screen` sent. `lost` says that it may not have
arrived or could not be carried out, or that the display takes it for done because it
remembers one that was not. `deaf` says that the engine has been left away from
Active by one of two things the code does not handle (see "Noticed").

## Runs

Every passing run explores its state space completely.

| run | question | bounds |
|---|---|---|
| `engine` | does the cycle keep its promises about suspends, failures, the critical action, stages and exits, whatever events and reloads arrive, and is it a `Cycle`; do mode and low bit follow the power; does any unforced suspend pass an inhibitor? | 2 configurations of the cycle (with and without inhibitors, hibernate and poweroff, a reload that drops the mode in use) and 2 with inhibitors (retry or not, both triggers, a reload that drops all modes and `[auto_mode]`), side by side and without a reload from the one pair to the other; battery 10, 12, 100: critical, inside and outside the hysteresis bands of the thresholds 10 and 97, the second one cut off at 100; one IPC inhibitor |
| `parts` | are these the timers of `TimerService`, and does each fire; does the poll of IdleHint say idleness once and its end; is the list of degraded subsystems true; does a mode take hold? | 2 timers, 4 starts; 2 timeouts, a channel of 1; 2 directories, 3 drop-ins of 2 names and 2 main files, 2 of them there at a time; 4 modes, one processor |
| `daemon_home` | does the machine ever sleep in the cycle without its alarm, or with a state on disk that does not say so; is an alarm left behind; is there a state that waits for nothing; do panel, mode file, applied mode and subscribers follow; does a daemon that died in the long sleep go on? | channels of 1 (the request channel overflows), an RTC that arms, fails, or fails having cleared, one death at any step, others suspend; a server, one beside which writing a file, clearing the alarm and taking the lock may fail, and a desktop |
| `daemon_live` | does the cycle go round? | AC, the RTC failing, logind refusing |
| `backlight` | does the brightness come back; do dims stay within bounds; does every call return? | a panel of 5 values, 2 devices, a dim to 25 % with no floor in 3 steps, or with a floor of 50 % in a single write, switched by reloads |
| `session` | does an agent end up with what the daemon wants, is `status` honest, can input end idleness, does the screen come on, whoever dies? | 2 connections, 2 upsets (deaths, mode switches, reloads, sleeps), `wlr` with and without fallback commands, stages on and off, a compositor with both protocols |
| `sources` | is any change of power left unsaid; does the cycle go back to sleep only on what a late controller allows; is a wake taken for what it was; do mains that stay end the cycle? | channels of 2 and 1, 4 directories, one that cannot be read; a second of 2 ticks, the check interval of 6, a window of 4 with rechecks at 1 and 3, a controller late by 2 |
| `server` | is every request answered, by its own answer, and does every subscriber that reads see the last broadcast; is a daemon that accepts found at its path? | 2 clients with 2 requests each, 2 broadcasts, channels of 1; 4 daemons one after the other, of which the last may go deaf |

The runs that expect a violation are the findings below.

*Why the bounds are enough.* The capacities 64 and 4 are only ever tested for
"full": channels of 1 make full ones common while leaving every order of single
commands and task steps. (A larger channel of the main loop, together with a death,
lets TLC keep a reported sleep waiting in it for a whole grace period, which the
code's timing excludes.) One mode is enough where modes are not the
question, since a mode only enters as a name. `SignalCap = 0` means that no
*second* sleep is announced before the listener has handled the first (two
signals, a sleep and its wake, can still wait); more would need a listener stopped
for the length of a suspend. Four starts of two timers let one be restarted
twice while its fires are queued. The counters of the code that are not bounded
(generations, inhibitor ids, restarts) are bounded by `MaxGeneration`,
`MaxInhibits`, `MaxRestarts`; the failures are bounded by the code.

`backlight` takes every interleaving of the fade with calls and outside writes, any
number of them; three steps have a first, a middle and a last one, and five values
make the division of `interpolate` round. `session` is bounded by `MaxUpsets` and
`MaxStreams`, since every death can only be followed by a connection; two of them are
enough for an agent to meet the remains of the stream before it while the compositor
restarts. `Room` and `OpRoom` keep the user and the daemon from starting something
new while more than that is under way. The main loop's channel holds one event
(`EventRoom`), so streams wait for it often. One kind of compositor is enough for the
run; without the power protocol the display is as it is between two compositors,
which the run has, and without the idle protocol there are no stages.

In `sources` the times keep the order they have in the code: rechecks before the end of
the window, the poll longer than it, a second shorter than the slack. In `server` a
second request waits while the first is under way, and two broadcasts overrun a ring of
one. `OneAtATime` and `MayGoDeaf = {4}` are bounds that the property needs: without the
first, two daemons that start together can remove each other's socket (see
"Noticed"); a daemon that has gone deaf before another is started is the finding
`server_twice`. In `parts` two files that are there at a time are enough for a
drop-in to come after another, or after the main file, and for a directory to shadow
another; one processor, since none touches another's files.

*Assumptions that are part of the model.*

- `Prompt`: a suspend that is asked for or announced goes ahead, and the main loop hears
  of it and of its end (milliseconds), before a timer (at least the 30 seconds of the
  retry window) fires. All runs of `Daemon` assume it; of the theorems only
  `RestartGoesOnHolds` and `ServerSleepsWithAlarmHolds` do. With `Prompt = FALSE` in `MCDaemon_home.cfg`,
  `ServerSleepsWithAlarm` fails: the window that fires in `Armed` schedules the next
  attempt without knowing that the last suspend is still under way, the machine
  sleeps twice, and the second time the alarm has gone off already.
- `Outside`: the configurations beside which somebody else (a lid, `systemctl`) suspends
  the machine. `ServerSleepsWithAlarm` claims nothing for those: a lid that is closed
  between two attempts puts the machine to sleep before the alarm of the next one is set.
- The alarm does not go off while the machine is awake (the check interval is
  two minutes or more, the way into sleep takes seconds).
- `Faulty`: the configurations beside which writing `state.json` and the mode file,
  clearing the alarm, and taking the delay lock may fail. The code logs each of these and
  goes on, so beside them `NoOrphanAlarm`, `ServerSleepsWithAlarm`, `RestartGoesOn` and the
  mode file in `ModeIsCarriedOut` cannot be promised and claim nothing; all other
  properties hold there too. In `daemon_home` the faulty server dies only with an empty
  queue and hears nothing new after its restart, which keeps the run small.
- The listener can subscribe to PrepareForSleep and read its signals.
- The wake-up of a user may look like the alarm's, within the slack.
- logind refuses a request while it is preparing another sleep.
- One agent process at a time, the user unit's; and a compositor that starts, or that
  leaves the console to itself, has the screen on.
- A stage's timeout is longer than what an event takes (`Room`), and a stage idles
  after the ones before it.

- In `Round`: a controller shows the mains of before a wake for less time than passes
  before the last recheck, the window lasts longer than that, and `alarm_slack` is at
  least a second and at least what the daemon takes to look at the clock. The defaults
  (45 s, 10 s, 90 s) satisfy this; `validate` asks only for a slack shorter than the check
  interval. Less, not as long: the proof of `WindowSeesPower` failed there, and with
  `Stale = 3` TLC shows why. A recheck that is due when the controller gets round to the
  truth may read just before it, and no other follows in the window.

*Deadlock* is checked in `daemon_live` and `sources`. Elsewhere the system may stop: in
`engine` and `daemon_home` it may be told to shut down, in `parts` the environment may
start no timer any more, `backlight` ends with `settle`, in `session` the connections
run out and in `server` requests, broadcasts and daemons do.

*Fairness.* `daemon_live` assumes strong fairness of the main loop's two steps
(executing and taking), of each timer, of the executor, the listener's steps, of
falling asleep and of the alarm. The runtime runs every task that can go on;
`select!` in the main loop polls its sources in random order, so neither events
nor timers starve the other; senders that wait for a full channel are served in
order; logind suspends a machine nobody delays; an armed RTC wakes it. It
is strong because these steps are disabled and enabled again for reasons of
their own: the machine is asleep, the queue is being executed, a channel is full.
Nothing is assumed of the outside: neither events, nor the user, nor power. A
refusal of logind or a failing RTC may go on forever: the cycle then ends after
three. In `parts`, `Timers` needs weak fairness only: a thread that can go on does; so
does `backlight`. The poll of `IdleHint` needs, beside this, strong fairness of its two
questions to logind (`AsksHint`, `AsksSince`): logind may fail to answer any number of
times, but answers now and then. In `sources` and `server`, weak fairness of all tasks
together, and of time: `Round` assumes nothing of the mains or the user. `session` needs even less, weak fairness of all tasks together:
that they do not all stop while one could go on. Nothing is assumed of the user or
the compositor, nor that anybody who died comes back.

## Findings

Each is a run that TLC ends with a counterexample, and an entry in
`PROJECT.json` that quotes the text it disagrees with.

- `daemon_dark`: power lost and back while the screen is off or dimmed goes
  `ScreenOff -> Grace -> Active` without `Undim` and `Screen(true)`.
- `daemon_reload`: a reload that disables the cycle drops the RTC handle first and
  the armed alarm stays.
- `session_dark`: a daemon that restarts while the screen is off does not light it, and
  an agent that restarts then is not told to: only display and stages are sent again.

- `server_twice`: after one failed `accept` the daemon runs on without its listener; a
  second daemon takes the path over, and the end of the first one removes it.

*Noticed, and not kept as runs.* Some of these are what the history variables excuse.

In the daemon: two `amperedctl sleep` that are refused leave `Suspending` for good
(`suspend_from` is overwritten, and both outcomes return to `Suspending`, core.rs:524
and 575) unless `sleep_retry` takes it further or the user comes back. A suspend by somebody else in `Grace` takes the idle
stages into the cycle, since only `arm(first)` removes them. `state.json` outlives
the cycle it describes. `leave_cycle` cancels no timer and only some of its callers
do, although its comment says "with the alarm and timers gone" (core.rs:786). When input
in `Armed`, during the retry window, is the third failure, the window runs on in Active,
where it does nothing when it fires. A reload
re-applies a manual mode that the configuration has dropped, while a start drops it.
The valid `low_battery_percent = 100` makes a full battery low.

In the backlight: `fade_to` with nothing to do returns before it stores `written`, so
a later restore compares with an older fade's value and can overwrite what somebody
has set while dimmed (`stale`; `docs/05-backlight.md` has the assignment
unconditionally). A dim during the ramp of a restore takes a step of the ramp for
the user's brightness (`CutShort`), although the comment there says that "`pre_dim` must
be the brightness the user had, not a step of that ramp" (backlight.rs:217-218). A restore whose read fails has dropped `pre_dim`.

In the session: stages replaced while idle (a mode switch, AC) destroy the
notifications whose `resumed` would have come, and if the engine stays in ScreenOff it
hears of the user only after the next idle period (`deaf`). An agent that is replaced
before its loss was noticed gets no goodbye, so what it had reported stands (`deaf`
too), although `docs/11-ipc-cli.md` has a lost agent count as activity. `Display`
remembers what it has handed to the watcher, even if the watcher then drops it with
its compositor; the next equal request is suppressed (`lost`). So is the
`Screen(true)` of a resume, which `docs/06-display-dpms.md` sends because the state of
the panel after a sleep is unknown, if the screen was last asked to be on. A reload
from `wlr` to `command` lets a `Screen(true)` of the command overtake a
`Screen(false)` that waits in the watcher; the run keeps to `wlr`. A session with a
compositor that has the power manager but not `ext_idle_notifier_v1` sends no
`IdleBackendChanged` when it ends (`announced` in `idle.rs`), so the display stays
reported as available with nothing to switch it. Two agents running
at once would replace each other for ever.

Around the cycle: `on_awake_window` decides a critical action on readings that may be
from before the sleep. `validate` lets `awake_window` be shorter than the last recheck,
and `alarm_slack` shorter than a second, with which the cut to seconds makes the alarm's
wake a user's. A battery that is removed sends no event, so its last percentage stands.
Power lost while a suspend is under way starts no cycle, before or after the sleep.

In the IPC server: the check of a socket, its removal and the bind are three steps, in
which a second daemon can bind (`OneAtATime = FALSE` shows it). `Subscribe` is
answered with `Ok` before the receiver is created: what is broadcast between the two is
not seen. In the poll of `IdleHint`: a compositor that appears after the stage was sent
makes the poller forget it, so no `Activity` follows (`dropped`), and if it leaves
again the same stretch counts as two. In `logind_conf.rs`: a drop-in that is a link to
`/dev/null`, which for systemd hides those of the same name in later directories, is no
file for `is_file` and hides nothing.

## Proofs

| theorem | says |
|---|---|
| `NoRetryInCycleHolds` | `Spec => []NoRetryInCycle` |
| `GivesUpInTimeHolds` | `Spec => []GivesUpInTime` |
| `ModeFollowsPowerHolds` | `Spec => []ModeFollowsPower` |
| `LowFollowsBatteryHolds` | `Spec => []LowFollowsBattery` |
| `EngineImplementsCycle` | `Spec => ImplementsCycle` |
| `ExitsCycleLitHolds` | `Spec => ExitsCycleLit` |
| `NoStagesPastGraceHolds` | `Spec => NoStagesPastGrace` |
| `TypeOKHolds` | `Spec => []TypeOK`, the returned commands included |
| `RespectsInhibitorsHolds` | `Spec => RespectsInhibitors` |
| `CycleSuspendsOnlyArmedHolds` | `Spec => CycleSuspendsOnlyArmed` |
| `CriticalActionIsWarrantedHolds` | `Spec => CriticalActionIsWarranted` |
| `DaemonKeepsCycle` | `DaemonSpec => [](NoRetryInCycle /\ GivesUpInTime)` |
| `DaemonFollowsPower` | `DaemonSpec => [](ModeFollowsPower /\ LowFollowsBattery)` |
| `DaemonKeepsTypes` | `DaemonSpec => []TypeOK` |
| `ExecutesAsMeant` | `DaemonSpec => []AsMeant`: a suspend, a poweroff or a ScheduleWake in the queue is called for by the state, and is the only one |
| `NeverStuckHolds` | `DaemonSpec => []NeverStuck`, but for a `Suspending` that was asked for in `Suspending` |
| `SubscribersFollowHolds` | `DaemonSpec => []SubscribersFollow` |
| `ModeIsCarriedOutHolds` | `DaemonSpec => []ModeIsCarriedOut`, if `Faulty = {}` |
| `NoOrphanAlarmHolds` | `DaemonSpec => []NoOrphanAlarm`, if no step disables the cycle (`ServerStays`) and `Faulty = {}` |
| `ActiveIsLitHolds` | `DaemonSpec => []ActiveIsLit`, if the cycle begins in Active and no restart finds the panel dark (`StaysLit`) |
| `RestartGoesOnHolds` | `DaemonSpec => RestartGoesOn`, under `Prompt`, if `Faulty = {}` |
| `ServerSleepsWithAlarmHolds` | `DaemonSpec => ServerSleepsWithAlarm`, under `Prompt`, if no reload leaves `Outside` (`OutsideStays`) and `Faulty = {}` |
| `AgentIsUpToDateHolds` | `Spec => []AgentIsUpToDate` of `Session` |
| `AvailabilityIsHonestHolds` | `Spec => []AvailabilityIsHonest`, if no compositor has the power manager without the idle notifier |
| `InputIsHeardHolds` | `Spec => []InputIsHeard` |
| `ScreenComesOnHolds` | `Spec => []ScreenComesOn`, if `Displays` has no `command` beside a `wlr` |
| `ReachableHolds` | `SocketSpec => []Reachable`, if `OneAtATime` and `MayGoDeaf \subseteq {MaxStarts}` |
| `AnswersItsOwnHolds` | `Spec => []AnswersItsOwn` of `Ipc` |
| `NothingUnsaidHolds` | `SupplySpec => []NothingUnsaid` |
| `ReportsChangesHolds` | `SupplySpec => ReportsChanges`: an `AcChanged` is a change for whoever took the events before it |
| `OncePerStretchHolds` | `HintSpec => OncePerStretch` |
| `ArmedIsAsked`, `WakesAreTold` | what `set` has armed, and how a wake is classified, for all times |
| `WindowSeesPowerHolds` | `RoundSpec => WindowSeesPower` |
| `WakesAreKnownHolds` | `RoundSpec => WakesAreKnown` |
| `RoundIsACycle` | `RoundSpec => Cycle!Spec` |
| `OneTaskPerTimerHolds` | `Spec => [](TypeOK /\ OneTaskPerTimer)` of `Timers` |
| `TimersImplementService` | `Spec => ImplementsService` |
| `BrightnessComesBackHolds` | `Spec => [](TypeOK /\ BrightnessComesBack /\ DimsWithinBounds)` of `Backlight` |
| `KnobsTakeHoldHolds` | `ModesSpec => []KnobsTakeHold` |
| `StatusIsHonestHolds` | `DegradedSpec => []StatusIsHonest` |

They hold for any configurations, modes, events, timers and bounds; the
assumptions are `EngineAssumption`, `DaemonAssumption`, `TimersAssumption`,
`BacklightAssumption`, `NoneAssumption`, `PowerModesAssumption`, `SupplyAssumption`,
`RtcAssumption`, `RoundAssumption`, `IdleHintAssumption`, `IpcAssumption`, `SocketAssumption`,
`AgentLinkAssumption`, `SessionAssumption` and `DegradedAssumption`, which TLC evaluates
in the runs. The type invariants of `Engine`, `Timers`, `Backlight`, `Supply` and `Ipc` are
proved with them and no run repeats them.

What the theorems assume beyond that, each says, and each was found by trying to prove
it without. `ServerStays` and `StaysLit` are the findings `daemon_reload` and
`daemon_dark`, and what a daemon that starts does not do: it neither clears an alarm nor
lights a panel that it finds dark or dimmed. `OutsideStays` says the same of who else
suspends the machine as the runs do by their configurations, and `Prompt` is what the
timing of the code gives (above). The exception of `NeverStuckHolds` and the
conditions on compositors and displays are three of the things noticed above. The runs
satisfy them all, but for `Faulty = {}` (below): their configurations keep `[server]` or are in `daemon_reload`, nobody
asks for a sleep twice, no reload leads out of `Outside`, and `Kinds` and `Displays` are
such. `Faulty = {}` is an assumption of four theorems about `Daemon`: what could not be
written or cleared under one configuration outlives a reload into another. The
others, and all that is said of the engine in the daemon, hold for any `Faulty`.
`daemon_home` checks the four properties beside a server that is faulty, too, since no
reload leads away from it; they except that server themselves.

*Engine.* The two properties are proved together. `NoRetryInCycle` says that no
retry is pending inside the cycle, and that `suspend_from` is never a phase:
without the second half a refused suspend could take a pending retry back into
the cycle. `GivesUpInTime` needs that the count is a number. The inductive
invariant `CycleInv` is their conjunction; the proof has a lemma for
each handler, stated for every `out`.

`ModeFollowsPower` and `LowFollowsBattery` are the other inductive invariant,
`PowerInv`, together with the types of configuration, mode, power and battery.
The lemma about `compute_low` is the arithmetic of the hysteresis for every
threshold; the one about `select_auto_mode` says that a choice is the assigned one.
Every handler leaves the mode alone or chooses again for the power it leaves
behind (`Selects`); only `auto` over IPC, a battery report and a reload need more.

*Cycle.* `EngineImplementsCycle` rests on `CycleInv` and on the power being a Boolean
(`PowerInv`): `Cycle` has to know that a suspend announced or refused does not come
back into a phase. Each handler has a lemma that says which action of `Cycle` it is, or
that phase and power stay as they are; a handler that ends in another one takes over
its lemma.

*Commands.* What a step returns is a sequence put together from those of the
handlers it calls, so the lemmas first say which commands are `Calm`, neither a suspend
nor a poweroff, and that joining such sequences keeps them so. Then each handler returns
only calm commands (`Quiet`) or is one of three: a sleep asked for outside the cycle
(`AsksForSleep`), the sleep of the cycle after the answer that the alarm is armed
(`SleepsArmed`), and the critical action (`ActsCritical`), each with the condition under
which the code gets there. The three action properties are read off these. The
invariant, `CommandInv`, is `CycleInv`, `PowerInv`, the types of the other variables
(`Rest`) and of what is in `queue`. `ExitsCycleLit` says instead that three commands are
there for sure: the lemmas follow them through the concatenations of `leave_cycle`, and
every other handler is shown to be no exit, but for the shutdown. `NoStagesPastGrace`
is `Quiet` again, with the commands that set no mode's stages (`Bare`): past Grace
`mode_commands` returns no others.

*Daemon.* Both invariants hold of `DaemonSpec` too. This does not follow from the
theorems about `Spec`: the answers to `ScheduleWake` and to an undelivered suspend
come in the middle of a queue (hence the lemmas for every `out`), a resume carries
the Planner's verdict, and the process dies and starts again from what is on disk.
`DaemonInv` adds that what waits in the channel is typed, since the power comes
from there.

The promises about an idle daemon (`queue = <<>>`) are about what commands have done by
then, so their invariants are about the commands that wait. `Settles(q, kind, good, done)`
of `Queues` says that the last command of `kind` in `q` is a `good` one, or that there is
none and it is `done` already. Each promise is one such sentence or two: `Telling` for
the subscribers, `Applying` and `Filing` for the mode and its file, `Clearing` for the
alarm, `Lighting` and `Brightening` for the panel; the invariants are `ToldInv`,
`ModeInv`, `AlarmInv` and `LitInv`. What all of them need is `Sorted`: types, and that a
reload stands alone at the end of a queue, since only it changes what is promised behind
the engine's back. `QueueProofs` has a lemma for each handler, `Goes(out, old)`: it adds
to `out` a body in which the kinds come in the order of the code, with the announcement
of the state last, and which carries the commands a state that is entered calls for. `WaitInv`
for `NeverStuck` follows what a state waits for on its way through the system: timers that
are still to be started, an alarm that is still to be asked for, and `UnderWay`, the
suspend in the executor's channel, with logind, in the listener, or in the main loop's
channel as its outcome; a daemon that dozes has a resume in `signals` or `events`.

`AsMeant` follows from `OrderInv`: at most one command that sleeps, powers off or sets the
alarm is in the queue, the one the state is `Due`, and where the alarm is being set or the
machine on its way to sleep, none that clears it. A handler is called with an empty
queue, or for the answer to the one command of this kind, which has just been taken off.

`RestartGoesOn` speaks of a file that was written two tasks ago. `MemInv` is about what is
remembered (`saved`, from which the listener writes): in the cycle it says so, the alarm
the Planner takes to be ahead is armed, and, where none is refused (`Faulty = {}`), the
lock is held wherever the listener rests.
`FileInv`: as soon as the engine has heard of the sleep, or a `Suspending` waits for it, or
the listener has written, `state.json` says that this is the cycle, and goes on saying so
while the plan stands. `Prompt` is needed where a timer fires: without it `Grace` could
end in `Armed` behind a sleep that was announced, and saved, before.

`ServerSleepsWithAlarm` needs to know where an attempt is. `SleepInv` has four stages for
it: `Preparing` (the queue may still hold the `ScheduleWake`, or the suspend is asked for:
in the queue or the executor's channel, once, with the alarm ahead and remembered),
`GoingDown` (PrepareForSleep is out, the lock is held), `Down` (on disk, the engine has
heard of it or will), and `UpAgain` (a wake is in `signals` or `events`, behind the
`Suspending`, if that still waits). A suspend can be executed only in the first, the
machine falls asleep only in the third, and there `MemInv` has the alarm. That the four are
all there is rests on `OrderInv`, no second suspend, and on what comes first in `events`
(`FirstIn`): a wake that overtook its sleep would be taken for the end of the one before.

*Session.* Nothing here is one actor's, so the invariants are about what is on its way
between them: `down` and `up` of a stream, the agent's `inbox`, the watcher's `requests`,
the compositor's `wire` and the main loop's `events`. `Wired` says what the two ends of a
stream know of each other: the registered connection is served, the agent's is at most
the registered one, and a stream that nobody serves comes to nothing. `Watches` is the
same for watcher and compositor. `UpToDate`: the last `stages` in `requests`, or in
`down`, or what the watcher has, are the link's, and so is the display (`LatestStages`,
`LatestDisplay`). `Honest`: either the agent will still look, because a `Backend` is in
its inbox, or the last report in `up`, or else the link, says what is so. `Heard`: at each
place idleness has come to (wire, inbox, stream, `events`, or the engine itself) it is
followed there by an `activity`, or one is on its way from further back, or will be,
because a goodbye, a hung-up stream or a session without its compositor makes one, or the
watcher's first stage is idle in the compositor (`QueueSpeaks` down to
`CompositorSpeaks`). `Lit`: the last screen request in `down` is `On`, or there is none
and the watcher's last request is, or there is none either and the screen is on
(`Lightens`, `Lights`); or a request waits without a session, which will drop it and
count it as `lost` (`Doomed`); and the agent remembers no `on` that is not so.

*Timers.* `OneTaskPerTimer` needs to know that generations in use never exceed
`nextGeneration` (`Bounded`): only then is a new one unlike any task that is still
sending or queued. From the invariant each step of `Timers` maps to one of
`TimerService` or to a stutter: `Wake` of a task is `Elapse`, since the task is its
timer's; `Send` and the dropping of a stale fire change nothing.

*Backlight.* At rest the brightness is the user's, but every step of a fade has to know
where the panel is on its way there. The invariant is `TypeOK`, `Shape` (which
optional values go with which state and call) and `Owed`: undimmed, the panel is on its
way up to `user` (`OnItsWayUp`), dimmed, on its way down from it (`OnItsWayDown`), at
the value `interpolate` gives for the step the task is at, with `written` one step ahead
between a turn and a write. The arithmetic (`Share` and what follows it) is that a
fade stays between its ends, starts at the one and ends at the other, for every panel
and number of steps. That `Owed` claims nothing once `upset` or `stale` is part of the
property.

*PowerModes.* For each file and value the mode wants, `KnobInv` says that the section of
its knob is still to come (`Later`), or that the last write left to the file is of the
value, or that none is left and the file holds it (`InHand`, with the `Settles` of
`Queues`); or else the file is spoilt, or the value is one the kernel refuses for good
reason. A section lists the file of each processor that is online exactly once, hence
the lemmas about `SetToSeq` and `Cpufreq`. That a preference is not refused needs the
governor to have been written by then: `InTurn` ties what is left to write to its
section, and the sections to their order. A first attempt did not get through for a
preference that a `sysfs` table names; TLC then found the case, with the mode `tabled`
of `MCParts`, and `RightlyRefused` now names it.

*Degraded.* The invariant `HonestInv` is `StatusIsHonest` with the types of files and
configuration, and every step keeps it if `Check` says what the files say (`CheckSays`).
That is no step of anything: it is that the loops of `logind_conf.rs` compute what the property says by
quantifiers, for files of any length and any number of them. `Queues` has what this takes,
without theorems over operators: a set of numbers has a least one (`FirstNumber`, by
well-founded induction), so a set that has 0 and the next of each number it has is all of
them (`Induction`), and a function that is defined by the step of a loop is one
(`Recursion`). From these, by induction over lines: a line stands in the section of the
last head before it (`SectionAtIs`), and a file leaves each key at what its last
assignment says, or as it was (`KeysAtIs`); by induction over names: the files leave it at
the last assignment of the last file that has one (`KeysAfterIs`). `FoundIs` picks the
first directory that has a name. Together `EffectiveSay` and `FinalIs`: the key is set to
what `Final` says.

*Supply and IdleHint.* `NothingUnsaid` speaks of the rest between two reads; the invariant
says at every step that what the main loop knows, then the channel, then what the task
has still to send (`unsent`) together tell the reading before. `Tells` of a sequence,
and what appending and taking do to it, are the lemmas. `ReportsChanges`, on which
`Daemon` relies for the power events that arrive, follows from the same invariant.
`OncePerStretch` needs that `fired` is remembered as long as a stage was delivered,
unless the poller had to stay out.

*Rtc.* The arithmetic of the cut to seconds: an alarm is less than a second early,
so a slack of at least a second takes it for what it is.

*Round.* `RoundInv` has three parts beside types. `Stages` says where the machine is in
its sleep: it rests (`Resting`), is on its way into sleep (`Going`) or out of it
(`Returning`), and for each which of `Suspending` and `Resumed` waits in the channel among
the reports of power (`Plain`, `Only`, `Both`), since the engine may hear of a sleep when
it is over. `Going` also has the alarm and the time the Planner remembers at less than a
second from each other; `Returning` has who woke the machine and when: on its way from
there to the classification, no more than `Latency` passes. `WakesAreKnown` follows with the
arithmetic of *Rtc*. `Window` counts down to the last recheck and from it to the end of the
window: before, the recheck is still due and the controller has `Stale` less what has passed;
when it is due, the controller shows the truth, and the recheck, its request or its
reading is there (`ToLast = 0`); past it, power that is on has come since. In between is
`WouldBeTold`, where `Supply`'s invariant comes in: a reading with power cannot be at rest
with an engine that goes on checking.

*Ipc and Socket.* The invariant of `Ipc` has a part for each client (`Lines`, `Turn`:
requests that wait, the one under way and the answers that are written are numbered
without a gap) and one for the replies under way (`Ids`, `Underway`): an id belongs to one
task, that waits, so a reply can only go there. That a client hangs up while its
request is under way is what makes the second part necessary. The invariant of
`Socket`: one daemon starts at a time and in order, whoever removes or binds found nobody
listening, and a listener that fails is the last daemon's, after whose start no other
comes. Both are assumptions of the theorem; `server_twice` shows what is lost without
the second.

Only model-checked: liveness (`EveryTimerFires`, `CycleGoesRound`, `CallsReturn`,
`InputLeadsOut`, `PowerEndsCycle`, `EveryRequestIsAnswered`, `SubscribersCatchUp`,
`IdlenessEnds`), which is out of the prover's reach. Every invariant and every action
property of the passing runs is proved.

## Not modelled

Of the session the outputs that come and go, power objects that fail, globals that
appear late and the `sleep` stage are left out, and of the stream the report of the idle
backend. The inhibitor poll of `logind.rs` keeps nothing: its result is an event that
arrives. `notify.rs` tells systemd and `amperedctl` prints one answer; neither decides
anything. Of the configuration the models have what decisions read: `Valid` in `Engine`
for `[auto_mode]` and the percentages, the assumptions of `Round` for the interval and
the slack. The order of the timeouts of a mode, which `validate` checks, no code relies on.
Parsing and formatting are data, except where a decision depends on them, and so is the
search for conflicting daemons at the start.

## Plan

Done: all parts of the table above but `notify` and `amperedctl`, with their runs; the
abstract timers and the abstract cycle with their refinements; theorems about every
invariant and every action property that a run checks. What is open:

- the actions of engine and daemon under one abstract specification of the daemon's
  restart, of which `Cycle` knows nothing;
- outputs that come and go, and the `sleep` stage, in `Session`.
