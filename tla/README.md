# fusion-supervisor in TLA+

`fusion-sv` is a process supervisor: a daemon that starts some fifty services
of a monorepo through their own `start.sh`, probes them, restarts the ones that
die, watches an optional docker compose plane, and answers a CLI, a tray and a
web console. This directory models the part of it that decides *when a service
is started, restarted, given up or reported*, how its processes are replaced,
who gets the daemon's lock, what maintenance keeps and what the tray shows; it
model-checks them with TLC and proves the main invariants with TLAPS. Paths below are relative to the
repository; `mod.rs` is `src/supervisor/mod.rs`.

## Inventory

| component | state it keeps | operations | hard behaviour | what makes it correct |
|---|---|---|---|---|
| RestartPolicy (`supervisor/policy.rs`) | deque of crash times | record_crash, next_delay, is_capped, reset | window edges, pruning only on push | no more than `max` crashes of one outage in a window |
| ServiceRunner (`supervisor/runner.rs`) | state, three streaks, breaker latch, `restart_after`, drain deadline | tick, mark_start_failed, mark_stopped, begin_drain, cancel_drain, invoke_start | deadlines that outlive their cause; three accounts for failures; races with an operator's script | restarts need evidence; manual stops hold; outages and drains end |
| SupervisorCore, one service (`mod.rs`) | the runner | up_one, down_one, restart_one, drain, cancel_drain, rollout | stop and start are not instantaneous; sleeps with the lock held | operations compose with the tick in any order |
| SupervisorCore, the fleet (`mod.rs`, `manifest.rs`, `dep_map.rs`) | runners in order, boot pins | up_all, down_all, up_boot_set, boot_group, set_boot_pin, drain_all, status_all | layers in series, starts in parallel, partial failure, dependency gate | order of layers, membership of groups, pins survive restarts |
| Compose supervision (`mod.rs` tick_compose, `compose_tracker.rs`) | a snapshot per container | observe, reap | flapping, intermediate states, failing `ps` | no failed container is forgotten; escalation once per run |
| Alerter (`alert.rs`) | last ServiceDown per service | should_emit, record_emitted, alert | two dedup stages in a row | a dropped alert never hides an outage for good |
| Daemon (`main.rs`) | core mutex and who waits for it, tick task, boot task, workers, shutdown sender | run_daemon, the tick loop, reconcile, shutdown, signals | everything contends for one mutex; commands are synchronous and take a worker; panics; a process that ends in the middle | supervision goes on, every turn comes, shutdown ends |
| RPC and HTTP (`rpc/`, `http_server.rs`) | one task per connection | dispatch of every operation, shutdown | two faces, one lock, one sender; a request in two segments; an accept that fails | a request is about the service it names, and is answered |
| Backup (`backup.rs`, `mod.rs`) | last backup time, the sets on the target | run_backup, check_backup_schedule, prune_old | one of two dumps fails or is torn; retry storms; a target that comes and goes | the last good dump survives; due means tried, once |
| HistoryStore (`store.rs`) | health, event and pin tables | record, query, cleanup_old, boot pins | failing and half-done sweeps, rows with a wrong time | nothing stays for ever, nothing recent is pruned; pin and cache agree |
| Start commands (`start_map.rs`) | pidfile, processes, the port | daemon_start_cmd, daemon_stop_cmd, exec_start_spec | processes that ignore TERM or are not in the pidfile; commands that outlive their daemon; reused identifiers | a replaced process is gone; waits are bounded |
| Environment (`env_map.rs`) | none: the daemon's environment, dotenv files, settings | native_env_for, shell_env_for, health_audit_key, strip lists | a snapshot that is stale, two compose planes, fail-closed or not | a process gets the key it must have and no other |
| Tray (`tray/src`) | painted model, command queue, open confirmation | poll, post, click, self-heal | three threads; answers that are late; a busy daemon looks like a dead one | order and confirmation of commands; the panel converges |
| manifest, probe, probe_map, dep_map, compose, config, metrics, cli | none (tables, parsing, rendering, I/O) | pure functions and commands | path tables, docker's text | their result is an input of the models |
| web, scripts, ci | user interfaces, deployment | polling | none that reaches the daemon's state | not modelled |

How they interact: the tick task, the RPC server, the HTTP server and the boot
task share one `SupervisorCore` behind a tokio mutex. The tick calls every
runner, then tick_compose, the backup schedule and the retention sweep. Runner
and tick_compose hand alerts to the one Alerter, which logs, stores and posts
them. Runners are built with two closures, probe and start, which are the only
way they touch the outside world; the operations of the core also call the
probe and the start function directly.

What is hard is not any single function but that a service is pushed by four
hands at once: the tick, the clients, the process itself and an operator with
a shell. `PROJECT.json` lists the hazards line by line.

## Modules

| module | models | kind |
|---|---|---|
| `Policy` | `policy.rs`, and the delay curves of `runner.rs` | pure operators |
| `Runner` | one service: `runner.rs`, its operations in `mod.rs`, its round in `main.rs` | state machine |
| `ServiceContract` | what a client may rely on: who may move a service where | abstract specification |
| `RunnerContract` | the refinement mapping of Runner | refinement |
| `CoreContract` | what the core mutex promises: one operation at a time, in the order they asked | abstract specification |
| `DaemonContract` | the refinement mapping of Daemon | refinement |
| `ComposeAlerts` | `tick_compose`, `compose_tracker.rs`, `alert.rs` | state machine |
| `Fleet` | the operations over many services in `mod.rs`: layers, gate, semaphore, compose plane, boot set, groups, pins | state machine |
| `Daemon` | `main.rs`, `rpc/server.rs`, `http_server.rs`: tasks, the core mutex, connections, the process | state machine |
| `Maintenance` | `backup.rs`, the schedules in `mod.rs`, the sweep of `store.rs` | state machine |
| `Launch` | `start_map.rs`, `env_map.rs`, the replacing operations of `mod.rs` | state machine |
| `Tray` | `tray/src`: UI thread, poller, worker | state machine |
| `MCRunner`, `MCRunnerContract`, `MCComposeAlerts`, `MCFleet`, `MCDaemon`, `MCMaintenance`, `MCLaunch`, `MCTray` | instances | TLC |
| `RunnerProofs`, `ContractProofs`, `ComposeAlertsProofs`, `FleetProofs`, `DaemonProofs`, `MaintenanceProofs`, `LaunchProofs`, `TrayProofs` | theorems | TLAPS |

One service is looked at on three levels. `ServiceContract` says what is
promised; `Runner` implements it, with every operation one action; `Launch` opens
the stop and start commands inside those operations up. `Fleet` opens the
operations up in the other direction, over many services. `Daemon` is who may
run an operation when, and `Tray` a client of that.

### Runner

`r` is the `ServiceRunner`, field by field under the code's names. A timestamp
in the future (`restart_after`, `drain_grace_until`) is the number of seconds
left, one in the past (`last_start_ts`, the crash deque) its age; `None` is -1.
The code only ever compares timestamps, so nothing is lost, and ages stop at
the first value the code cannot tell from an older one. Streaks stop where the
code's comparisons and curves no longer tell two values apart (`Bump` with
`FailBound`, `FastBound`, `ConfigBound`, `StartFailBound`).

Every operation runs from its first line to its last under the core mutex, so
each is one action: the tick with one action per branch of `tick` and
`handle_unhealthy` (draining, healthy, wrong path, parked, first failure, below
the streak, schedule, hold, give up, restart), `Up`/`BootUp`, `Down`,
`RestartOne`, `Drain`, `CancelDrain`, `Rollout`, `DaemonRestart`. Rollout keeps
the mutex while it sleeps; it is split at its sleeps (`prewarm`), and while it
waits only the world outside moves. `Elapse` is one second of the sleep between
rounds, `LockDelays` the extra seconds other holders of the lock cost a round.

External, and named so: the process (`proc`: gone, booting, up, stopping), the
operator's script, and what start commands do (`starts`, drawn once per
behaviour from `StartModes`). A stop command may do nothing, may return while
the process still answers, or may succeed. A service is probed on its port, by
HTTP or TCP, or on a unix socket (`probe`, drawn from `Probes`); of the services
of this commit fusion-projects alone has a socket. A dead one is refused on its
port, which counts towards a restart, while a failed connect to a socket does not
(`Dead`, `restart_eligible`). Operations ask the registered port by TCP whatever the
tick does, and the one of a socket service is dead (`Listening`, `Silent`). A probe
of a live process may also time out or answer with a wrong status (`FlakyProbes`,
for each kind).

`intent`, `refused`, `start_failed`, `attempts` and `by` are history: nothing but
they themselves depends on them. They say what the operator last asked for, how
many restart-eligible probes failed since a healthy one, whether a start failed
since, when restarts were charged as crashes, and whether the last step came
from outside or from the daemon.

Left out: alert texts and deduplication (`raised` is what a step hands to the
Alerter), health rows, the `operator_race_notified` log latch, seconds spent
inside stop_and_verify, and the reading of a round's time before the lock.

### ServiceContract and RunnerContract

The contract knows a phase (on, trouble, off, failed, draining), the operator's
last word and who took the last step. From outside a service may be asked into
almost any phase; the daemon on its own may only find it alive, lose it, give
up one that is in trouble, and finish a drain or a rollout. `RunnerContract` reads
the phase off `r.state` (Healthy and Starting are on, Unhealthy and Restarting
trouble) and takes `intent` for the operator's word and `by` for who took the
step; `Contract` is the contract's specification under this mapping.

### ComposeAlerts

`records` are the tracker's snapshots and `last_down` the Alerter's memory,
with timestamps as ages; a container without a snapshot is `NoRecord`, which
the code treats like one whose last alert is older than everything. `Round` is
one tick_compose whose ps succeeded: every listed container is observed, the
alerts that pass both stages are `emitted`, the snapshots of the others are
reaped. `PsFailed` is a round without an answer, `gap` the time it costs.
Between two rounds docker may do anything.

### Fleet

Where Runner makes an operation one action, Fleet opens it up: `op` is the
operation that holds the core mutex (its kind, its members, the layers it has
`rest` to do, and the `plane` it is in), `task` what has become of each of its
services, `joined` the services whose outcome it has written back. In the order
of `up_native_where`: `Gate` (a closed gate marks the service Stopped and passes
it over) or, for down, `SpawnStop`; `Launch` when one of the
`max_concurrent_start` permits is free, which may find the port answering or
the environment unresolvable; `CommandReturns`; `Join`, once the whole batch is
spawned, writes the runner's state (`Written`); `NextLayer` when every member
of the layer is joined. The tasks of a batch run in any order; handles are
awaited in any order too, where the code goes by the batch, which changes no
state that anyone can read in between. `UpSidecar`, `UpBusiness` and
`ComposeDown` are the compose plane around the natives, each of which may end
the operation. `Summary` is what `boot_group` counts. Pins are two variables,
`pin_table` and the cache `boot_pins`, written by two steps. `DaemonRestart`
may come between any two steps.

A service is only its runner's state here: `Tick` moves it as Runner's tick may,
and the commands, the ports and docker answer as they like. restart, rollout,
drain and cancel_drain of one service are left to Runner. A start task that
panics, whose join error the code drops, is left out. `BootTier` and `Layer` are
the two orders of `manifest.rs`; `Docker` is a docker command that fails, which
ends the operation, or succeeds.

### Daemon

`queue` is the tokio mutex: its head holds it, the rest wait in the order they
came. The tick loop takes it twice a round, once to read the interval and once,
in a spawned task, to work; `boot` takes it once; `conn` is each connection, its
request and how far it is. A request is what it needs: nothing (ping, a refused
token), or an operation under the lock, on no service (status, which asks docker
and reads logs there, and backup), on one or on all. Commands are synchronous
calls, so each occupies one of `Workers` (`blocked`), and everything that needs a
worker is guarded by `Scheduled`; `hung` are commands that never return.

Sockets and timers have one driver, which an idle worker polls. One that has
just polled it may run the task it woke and go into a command with it, and no
worker that sleeps takes its place (tokio issue 4730). `lost` is that, chosen
freely at each command until the commands have returned; what a socket or a
timer has to wake, a request, the next round, a signal, is guarded by `Polled`.
Panics end a round or a
connection and drop the guard. `Signal`, `Shutdown` and `MainReturns` follow
run_daemon's select: the runtime drops what waits at an await, and a command at
work delays `Exit`. `Killed` and `Start` come at any time. The http face reads a
request once; `part` says whether its body had arrived by then.

`CoreContract` is the mutex as the rest of the program takes it: users ask, enter
in the order they asked, leave, and have the start and stop commands of the core
to themselves meanwhile; the process may close and open again. `DaemonContract`
reads who is inside off the tasks' own states (`AtWork`) and not off the queue,
whose tail is the line, so that `OneOperation` says that the two agree: nobody
works without its turn, nobody is served before one who asked earlier, and no
operation begins while a command of another is at work, as after a panic or a
shutdown in the middle of one.

What an operation does to services is Runner's and Fleet's. Left out: static
files, tokens beyond "refused", a second daemon, which removes the socket of the
first and binds it anew (server.rs:31), and the status of the read views.

### Maintenance

`at` is where the holder of the lock stands inside a backup or a sweep, so that
a kill (`DaemonRestart`) may come between a dump and the next. `sets` are the
backup sets on the target, newest first, each with its two parts absent, torn
or good; `Native` says on which plane the dumps are taken, and a dump of the
compose plane always fails (below); `fresh` says the newest bears today's date, so that a second run writes
over it. `Round` is check_backup_schedule with the rows the tick writes,
`PgDump` and `Qdrant` the dumps with every way to fail, `Pruned` the removal by
date, any part of which may fail; `SweepHealth` and `SweepEvent` the two
statements of cleanup_old. `EditEnv` sets or unsets the target, which is read at
every check. Rows of the history are independent, so one watched row, chosen
when it is written, stands for all: an invariant of it is one of each.

### Launch

`proc` are processes, known by identifiers that are used again; `pidfile` and
`Listeners` are the two ways the supervisor has of finding one. `shell` are bash
commands at work: the one the core waits for and, after the daemon was killed,
an orphan of it, because a command has a process group of its own. Stop is read
pidfile, wait or kill, remove, scan the port, wait or kill; start is spawn, then
write the pidfile. Between any two lines of either, processes bind, die and
other commands run. The operations (up, down, restart, rollout and the tick's
recovery) are sequences of those commands; a service started by a script of its
own has a script that ends as it likes.

The environment is followed by one value per service, its key: `present` are the
places that hold one (the environment the daemon was started with, the dotenv
file, the settings the value comes from), and a value is named by its place, so
that "the process got a stale key" is visible. `Carried` is what the process
ends up with after injection, stripping, sourcing and inheritance; `resolve` is
the resolution in `env_map.rs`, with the database of the connection for each of
the two compose planes.

Left out: Qdrant, Redis and urls with a default value; caffeinate; that user and
password of a connection string are resolved one by one.

### Tray

`shown` and `reachable` are the model the UI paints, `pending` the confirmation
bubble, `queue` the commands, `batch` and `posted` what the worker took. The
poller asks /boot, which waits for the core lock, and asks /health only when it
got no answer; a daemon that lives may leave that unanswered too, when commands
have its workers or its driver, and the dot turns gray (`HealthReturns`). The daemon is as much of Daemon as a client can see: commands in
the order they arrive, done one by one under a lock, lost with the process. A
click on a row changes `shown` at once (`set_state`); the next poll writes over
it. Left out: boot pins, window geometry, drawing, the single-instance lock.

## What the runs check

| run | instance | shows |
|---|---|---|
| `operators` | every client operation, daemon restarts, an operator's script, every outcome of a start, misleading probes of services on a port or a socket; windows and caps at 1 or 2 | `TypeOK`, `RestartEvidence`, `OutageBudget`, `StopHolds`, `ParkedStaysParked`, `OnlyCrashesCharged`, and `Contract`, the refinement |
| `liveness` | steady starts, drains, rollouts, late rounds, one crash, probes that tell the truth; outages of services on a port, drains of any | `OutageResolved`, `DrainEnds` |
| `compose_rounds` | two containers, five docker conditions and absence, window 4, threshold 3, rounds 1 or 2 apart, failing ps | `TypeOK`, `ReminderDue`, `EscalatesAtThreshold` |
| `fleet` | three services in two layers, one permit, two of them with sidecars, one with an environment to resolve, one that is pinned and unpinned; every operation, failing docker, restarts anywhere | `TypeOK`, `LayersInOrder`, `PinsAgree`, `BootSetHonoured`, `SummaryHonest`, `OperationNeverStuck`, `OperationAdvances` |
| `daemon` | one CLI and one HTTP connection that ask for ping, restart and shutdown, three workers, two commands at a time that may hang or take the driver along, panics, signals, kills, starts | `TypeOK`, `OneOperation`, the refinement, `SupervisionGoesOn`, `EveryTurnComes`, `AliveWhileBusy`, `ShutdownEnds` |
| `maintenance` | the native plane, retention of one set, three names on the target, schedules of two and one, rows kept for two, one failed sweep in a row | `TypeOK`, `NotForgotten`, `HistoryBounded`, `DumpKept`, `NoRetryStorm` |
| `launch` | three identifiers, nine kinds of service, every subset of places that hold a key, one orphaned command | `TypeOK`, `Replaced`, `NeverBlocked`, `RightKey` |
| `tray` | one service, core or not, two clicks, one outage | `TypeOK`, `OrderKept`, `ConfirmedFirst`, `Converges`, `EveryClickTried` |

Four runs end in a counterexample; each is a sentence of the repository that the
code does not keep:

- `crash_loop` (`OutageResolved` at the constants of the code, without the
  assumption that a started process comes up): README.md:126-127 calls the
  crash window the final backstop. A service whose start succeeds and whose
  port stays silent is never given up: after three fast failures the attempts
  are 300 s apart (runner.rs:33-39, 385-386), and the window forgets each before
  the next.
- `alerts_kept`: README.md:137-138 says the sweep prunes what is older than the
  retention and the events answer what alerted last week. A failed backup's
  alert is stamped 0 (backup.rs:468), so the next sweep deletes its row.
- `split_request`: server.rs:144 and cli/mod.rs:41-43 call a `down <svc>` that
  stops everything dangerous. An HTTP request whose body arrives after its head
  has no parameters (http_server.rs:130), and down without one is down of all.
- `planes`: mod.rs:104 says a restart connects a service as up does. up asks
  whether there is a compose backend, a restart whether compose is enabled
  (mod.rs:82); with the sidecar file missing they differ.

Other sentences the code does not keep, seen while modelling and part of the
models' behaviour, without a run of their own:

- README.md:130 says a successful start clears the retry schedule; up_one and
  up_native_where leave `restart_after` and `start_retry` (mod.rs:345, 496).
- README.md:140 says manual stops stay down; a healthy probe after `down` adopts
  the dying process, and its exit is then restarted (runner.rs:259). `StopHolds`
  and the contract's "adopted" say exactly that much.
- README.md:129 says exit 78 fires ServiceConfigFatal; from the up path it marks
  the service Failed and only logs (runner.rs:563).
- README.md:126 has crash recovery for every service, README.md:127 for refused
  connects and time-outs alone. fusion-projects, probed on a socket
  (probe_map.rs:37-40), falls between them: a connect to its socket that fails is not
  restart-eligible (probe.rs:78-83), so a dead one is neither restarted nor given up
  and stays Unhealthy until somebody comes. `OutageResolved` leaves out services on a
  socket for that reason.
- api.rs:108-109 of the tray and README.md:240 take /health to be answered while
  the core is busy. It needs a worker and the driver, and commands take both; a
  daemon that lives then turns the dot gray after 2 s (tray main.rs:395-409), and
  the self-heal that the panel offers would start everything. `AliveWhileBusy` says
  what holds: an answer comes as soon as the commands that took the driver return.
- A backup of the compose plane never succeeds: backup.rs:93 passes `&full[1..]` to
  docker and so drops the word `compose`.
- backup.rs:305-307 means an absent qdrant not to be an error. A run whose snapshot
  was torn and that is repeated on the same day, after the container has gone,
  therefore counts as a success (backup.rs:308-326) and prunes the older sets
  with their good snapshots. `DumpKept` is about the postgres dump.
- compose_tracker.rs:184 and alert.rs:16 say a change of the docker state is
  alerted inside the window; the Alerter drops it (alert.rs:101).
- README.md:219 says a T0 service is always started at boot unless pinned manual;
  one whose dependency gate is closed when the boot task comes by is marked
  Stopped, which the tick leaves alone (mod.rs:273). The docker backend of this
  commit never closes the gate, for the reason given under "Not modelled".
- mod.rs:373 wants sidecars stopped last; README.md:141 and the code stop compose
  first.
- README.md:240: the tray's self-heal runs `fusion-sv up`, a client, which without
  a daemon exits (tray main.rs:578-591); README.md:238 says a restart asks first,
  and the row menu sends it at once. After a cancelled stop the row shows
  Stopped until the next poll.
- start_map.rs:473 is about a stop that answers ok and stopped nothing. A second
  `up` while the first process still boots, or a daemon killed between spawn and
  pidfile, leaves a process that neither listens nor is named; a `down` then
  answers ok and it survives. `Replaced` is about the processes an operation
  could find.
- env_map.rs:3 wants fail-closed. up refuses to start without a key; a restart and
  a recovery go on without one (mod.rs:102-124), and a value in the daemon's own
  environment wins over an edited file. fusion-health without its audit file
  inherits a key of the same name. `RightKey` says which keys are safe from that.

## Bounds

In `operators` and `liveness` every threshold is reduced to the smallest value at
which "below", "at" and "past" it differ (streaks and caps 2, crash budget 1,
two-step curves, windows of 2 to 8 seconds); the code treats all values between
two thresholds alike. `MaxFaults` bounds process crashes in `liveness`; in
`operators` a flaky probe and the script stand for them. Operations are not
bounded, and ages and counters saturate, so the state spaces are finite without
a state constraint. `crash_loop` has the real constants. In `ComposeAlerts`
containers do not influence each other; two are taken so that one may vanish or
fail while the other does not. `DedupSec` 4 with rounds 1 or 2 apart allows
several rounds in a window and rounds that jump its edge; the bound of
ReminderDue is reached in that instance, so it is tight. `GapBound` limits the
seconds of failing ps.

`Fleet` is finite as it stands. Two services share a layer and one permit, so
that they race, and one is alone in the layer before, so that there is an order
to keep; `Pinnable` limits the pins to the one service for which a pin makes a
difference both ways.

`Daemon`: one connection per face, the tick and the boot task make a queue of
four; two commands of three workers leave one over, which is what
AliveWhileBusy is about (with as many commands as workers nothing answers).
`Asked` takes one kind of request for each way of using a connection: at once,
with the lock, and with the sender. The boot task is an operation on all services;
one that a client asks for is in `split_request`.

`Maintenance`: `MaxSets` 3 with a retention of 1 has complete, partial and surplus
sets side by side; `MaxMisses` bounds failed sweeps in a row, and HistoryBounded
counts them. One unit of time is the gap between two rounds or more, and a day
may end with any of them. `Native = TRUE` is the plane of the default configuration; on the
other no dump succeeds and there is nothing to keep.

`Launch`: three identifiers are a listener, a process that still boots and a new
one; NeverBlocked leaves out the states in which the instance, not the system,
has run out of them. One orphan is followed, which a second kill replaces only
when it is gone. A service has one key, so kinds of keys do not meet. Symmetry
in the identifiers is sound: the run has invariants and properties of single
steps only.

`Tray`: two clicks are enough for one to overtake another, one outage for one to
be lost; clicks on one service already conflict, and groups reach it by its
tier.

## Fairness

Runner's `FairSpec` assumes weak fairness of the tick round, of time, of the
turns of a rollout and of the boot task: tokio polls spawned tasks, and every
sleep and round in `run_daemon` ends. Nothing is assumed of clients, of the
operator or of the processes. `CooperativeSpec` adds that a booting process comes
up and a stopping one exits; `OutageResolved` needs it, as `crash_loop` shows. A
`start.sh` that never returns is outside both; Daemon has it.

Daemon's `Fairness`: what is ready and has a worker is run, a command that does
not hang returns, and a process that has begun to end ends. A request and the
sleep of the tick loop wait for the driver, which may be lost and come back again
and again; whenever it is polled it wakes all that is due, hence their strong
fairness. Its properties except `Stuck`, a state with a hung command, where they
concern the mutex; `AliveWhileBusy` excepts less, a driver lost while a command hangs.
Panics, faults and the next start are owed by nobody.

Tray's `FairSpec`: the worker and the poller go on, and a daemon that lives works
its commands off. Neither a user's next click nor a daemon's restart is assumed;
Converges is about runs in which the daemon stays in the end.

Fleet, Maintenance, Launch and ComposeAlerts state no fairness. That an operation
of Fleet ends is checked in two halves: `OperationNeverStuck`, while an operation
holds the mutex one of its own steps is enabled, and `OperationAdvances`, each of
them ends it or brings a plane, a layer or a service further and none takes back
what another has done; there are three planes, five layers and four stages of a
service. `NeverBlocked` is the first half for Launch, and the second a theorem
(below); there the waits are bounded in the source (start_map.rs:487, mod.rs:553).

## What is proved

All theorems hold for every value of the constants allowed by
`PolicyAssumption`, `RunnerAssumption`, `AlertAssumption`, `FleetAssumption`,
`DaemonAssumption`, `MaintenanceAssumption`, `LaunchAssumption` and
`TrayAssumption`: any window, cap, curve, streak, set of operations, set of
outcomes, any set of containers, any finite registry, any set of connections and
number of workers, any schedule and retention, any finite set of process
identifiers, any number of clicks and outages, and any positive number of permits
(`max_concurrent_start = 0`, which config.rs accepts, hangs every batch and is
excluded). DaemonAssumption also says that a connection is not called `tick` or
`boot`, the names of the two tasks in the queue of the mutex. TLC evaluates the
assumptions in every run.

Runner and its refinement:

- `TypeCorrect`: `Spec => []TypeOK` for Runner.
- `Invariant`: `Spec => []IInv` with `IInv == TypeOK /\ StreakBacked /\
  RestartEvidence /\ PrewarmAsked /\ StopHolds`. RestartEvidence is not
  inductive: Restarting is entered when `fail_streak` reaches the threshold, so
  one must know that the counter is backed by refused probes or by a start that
  failed (`StreakBacked`). StopHolds is not inductive because a rollout that
  waits turns Stopped into Healthy; `PrewarmAsked` says such a rollout was
  asked for after the last stop.
- `RestartNeedsEvidence`, `ManualStopHolds`: the two properties, from it.
- `ParkedStays`: `Spec => ParkedStaysParked`, case by case over the actions,
  under the invariant.
- `CrashesCharged`: `Spec => OnlyCrashesCharged`. A step keeps the
  crash log, forgets it or lets it grow older (`QuietTickLogs`, `OtherLogs`),
  unless a restart or a give-up is due (`DueLogs`); ageing lengthens nothing the
  window covers (`AgeingForgets`).
- `BudgetHolds`: `Spec => []OutageBudget`. The history `attempts` and the deque
  are pruned at different moments, the deque only when the next crash comes, and
  a give-up charges a crash that no restart followed, so neither is a part of
  the other that could be named. The invariant `BudgetInv` says that there is an
  injection of the restarts into crashes of the same age (`Accounted`), and that
  the restarts are in order of age and all current. Ageing shifts the injection
  (`AgedAccount`); recording a crash pops only stale ones, none of which a current
  restart is mapped to (`PoppedIsPrefix`, `RecordedAccount`); the cap on the deque
  then bounds the restarts by the pigeonhole principle (`AccountedBound`).
- `KeepsContract`: `Spec => Contract`, Runner implements ServiceContract. Initial
  states map to initial states, each operation from outside to its step of the
  contract, and each branch of the tick, of time and of the process to a step of
  the daemon or to none. It needs Runner's invariant and one more: while a
  rollout waits the service is Starting (`PrewarmStarting`).
- `DrainsRunOut`, `RestartsComeDue`: the halves of `DrainEnds` and `OutageResolved`
  that speak of single steps. A drain has a grace period from its first moment
  (`DrainBounded`, since only a drain leads there, and none is begun during one),
  which nothing renews; a scheduled restart is pushed off by no probe and no
  hold. What the liveness runs add is that the rounds and the seconds come.

ComposeAlerts:

- `AlertTypeCorrect` and `AlertInvariant`. ReminderDue is not
  inductive: `SilenceBounded` ties the silence of a container to the Alerter's
  last ServiceDown while that is remembered, and to the tracker's last decision
  otherwise; `FailuresAgree` ties the counters to the history of failures.
- `RemindersCome`: no run of failures is silent for more than two windows at
  the rounds that see it. `EscalationExact`: ContainerCrashLoop is raised in
  the round that completes a run of `Escalation` failures and in no other.

Fleet:

- `TypeCorrect` and `Invariant`, `IInv == TypeOK /\ PlanesOfKinds /\
  LayerLoop /\ WrittenBack /\ PermitsKept /\ PinsAgree /\ PinsOfOperations`, one
  lemma per conjunct. LayersInOrder, BootSetHonoured and SummaryHonest describe
  one moment of an operation; inductive is the loop's account of itself: a member
  is joined or its layer is still to do, a task exists only in the layer whose
  turn it is, and what is joined has the state its outcome gives it.
- `LayersTakenInOrder`, `BootSetIsHonoured`, `SummaryIsHonest`, `PinsSurvive`:
  the properties, from it.
- `OperationsAdvance` (`OperationAdvances`): a member's stage is read off `task` and
  `joined`. The layer loop's account shows that a member is gated, spawned or run
  before it is joined and never after, so that none is done twice.
- `OperationGoesOn`: in every reachable state of an operation one of the guards
  listed in `CanGoOn` holds. If a permit is missing, a task runs that holds it; if
  the batch is spawned, what has not come back is running; if all is joined, the
  layer is done; and of a set of layers that is not empty one is current. The
  guards are written out, because ENABLED is out of the prover's reach; TLC finds
  `CanGoOn` and the ENABLED of `OperationNeverStuck` equivalent on the instance.

Daemon:

- `Invariant`, `IInv == Typed /\ Queued /\ Taken`. That two tasks are never at
  work under the mutex (`CoreExclusive`), and that the task at its head still
  exists (`NeverPoisoned`), are not inductive on the queue alone: the queue and
  the states of the tick, the boot task and the connections are two accounts,
  kept by different steps. `Queued` says that they agree: a task is in the queue,
  once, exactly when its state says that it waits, reads or works, and only the
  head works. `Taken` says that workers in a command belong to a holder at work
  until the process ends. `TypeCorrect`, which contains those claims about the
  workers, follows.
- `OperationsInTurn` (`OneOperation`): Daemon implements CoreContract. A task that
  joins the queue is Ask, the head that begins to work Enter, a task that ends its
  turn Leave when it was at work and Pass when it only looked; `MainReturns` and
  `Killed` are Close, and a command that outlives its daemon returns into a core
  that is closed. `Queued` makes the line the rest of the queue whoever moves
  (`JoinAsks`, `LeaveLeaves`, `StayEnters`), and `Taken` lets an operation enter only
  a core without commands.

Maintenance:

- `ScheduleAgrees`, and from it `AlwaysTried` (`NotForgotten`) and `AttemptsApart`
  (`NoRetryStorm`). The daemon keeps one stamp for both questions;
  the invariant says that it is no older than the last scheduled attempt and that
  the wait of the target is no longer than it is old, except while a scheduled
  backup is itself at work, and that the round of each unit of time leaves a
  stamp that is not due.
- `RowsAreCovered`, and from it `HistoryStaysBounded` (`HistoryBounded`): a row is
  no older than the retention, the sweeps missed and the time since the last one.
  Between the two statements of a sweep only the first table is young, and a row
  may carry a stamp older than itself, so both ages are bounded.
- `TargetAgrees`: besides, the sets on the target stay within their number, while a
  dump is under way the newest is today's, and once the snapshot is, that set has
  a good postgres file.
- `DumpStays` (`DumpKept`): the last good postgres dump is lost to a second run of
  its own day only. The newest `Retention` sets are never surplus, and a run that
  prunes has just dumped the newest. The same of the snapshot beside the dump is
  false, as said above.
- `TypeCorrect`, from all of this and the bounds of ages and misses.

Launch:

- `Invariant`, `IInv == Typed /\ OneListener /\ CommandsKept /\ OldSeen /\
  OldGone /\ OpAt /\ KeysHanded`. `OldProcessesGone` (`Replaced`) is about the
  moment an operation answers; its reason is spread over the lines of the stop
  command. `OldSeen` says, for each line, that a process the operation found and
  that still lives is one the command is yet to see: by the pidfile, as the one it
  waits for, or behind the port. `OldGone` says that none is left from the port
  check on. An orphan of a killed daemon may remove the pidfile meanwhile, so the
  first of these counts only while there is no orphan, which is when the
  operation counts the pidfile among what it found.
- `OperationsAdvance`, `OperationGoesOn`: an operation on one service ends. Every
  step of the core and of its command leads to a later step (`StepNo`) or a later
  line (`LineNo`) or to the end, and nothing else, be it a process, an edited file or
  an orphaned command, takes it back; and some guard of a next line is true
  (`CoreCanGoOn`, `CommandCanGoOn`, equivalent on the instance to the ENABLED of
  `NeverBlocked`), if an identifier is left to spawn with. `OpAt` is the reason:
  a step that waits for a command has one.
- `KeysAreRight` (`RightKey`): `KeysHanded` follows the key from `resolve` to the
  command, which may outlive the daemon that resolved it. `TypeCorrect`.

Tray:

- `AlwaysConfirmed` (`ConfirmedFirst`): every action is a click, a decision or
  leaves bubble and queue alone, and the rows the user may click are services the
  daemon named.
- `OrderHolds` (`OrderKept`): each of the daemon's, the worker's and the UI's
  sequence is in the order of the clicks, each is before the next, and a pending
  bubble, which may be confirmed after any time, is later than all (`OrderInv`;
  nothing can be clicked while it is open). `TypeCorrect`.

The proofs have one step per action, one lemma per group of operations, and
keep record updates apart from arithmetic.

Only model-checked: `OperationNeverStuck` and `NeverBlocked`, which are about
ENABLED, whose versions with the guards written out are the theorems named
`OperationGoesOn`; and the liveness properties of Runner, Daemon and Tray under
their fairness. Both are out of the prover's reach. Every other property of the
passing runs, invariant, action property or refinement, is a theorem.

## Not modelled, and why

Probing, shell text, docker commands, SQL, HTTP and JSON are I/O or pure tables;
only their outcomes reach the state machines, as nondeterministic choices.
Metrics and status render state and change nothing; the web console and the
scripts are clients; loading a configuration gives the constants. A defect of
the docker plane was met on the way and is out of the models' reach:
`DockerCompose::run` passes `&full[1..]` to `docker` and so drops the word
`compose`, after which every docker command fails and, since a gate whose `ps`
fails is open, no dependency gate closes. Fleet and ComposeAlerts let docker fail
and also answer as it would with the word.

Also outside: the wall clock, which may step, and the time a round reads before
it waits for the lock (main.rs:164); a panic of a start task inside a batch,
whose join error is dropped; a start that is refused for a missing directory
(start_map.rs:451), which ends as one for a missing env_file does, the case
Launch has; the second daemon that takes the socket over
(server.rs:31) and an accept error's lock-out of new clients, which `AcceptFails`
has but nobody promises anything about; two trays started at the same moment
(tray main.rs:186); and a panic of the tray's worker, which loses the rest of its
batch.

## Plan

Done: all the modules of the table, checked; the refinements of `ServiceContract`
and `CoreContract`; the safety properties of every module, proved; that the
operations of Fleet and Launch end, proved in two halves.

Left, most important first:

1. The tray composed with Daemon, so that a `/health` without an answer comes
   from the workers and the driver and not from a free choice, and with it what
   a self-heal of a daemon that lives does to a manual stop.
2. The liveness of Daemon from the fairness it states, once a prover for it is
   there; `OperationsInTurn` has the order of service that it rests on.
3. A panic of a start task in Fleet; native services in ComposeAlerts, whose
   alerts share the Alerter; the tray's pins.
