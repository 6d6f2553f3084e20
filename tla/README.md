# audio_device_manager in TLA+

A verification project for `audio_device_manager`, a header-only C++ library that lists audio
devices, follows their changes and sends them commands through one backend per audio system. It
consists of TLA+ modules translated from `src/include/audio_device_manager/`, TLC runs over small
instances, and proofs that TLAPS checks for every value of the constants. `PROJECT.json` lists
components, runs, mutants (bugs each property is known to catch), findings, hazards and theorems;
its `map` names the source lines of every definition.

## 1. The system

```
 application threads                     callbacks
      |  set_*_async, refresh_async          ^                ^
      v                                      | on_done        | on_change
 AudioDeviceManager --- devices_ --- PendingRefresh --- scheduler thread
      |  request_*                ^ on_backend_event   ^ acknowledge_backend
      v                           |                    |
 AudioBackend:  AsyncWorker (one thread, FIFO)   IntervalWorker (polls)
      |  handle_*                 ^ push_update_event
      v                           |
 PulseAudio (mainloop thread) | ALSA (blocking calls) | WASAPI (COM threads) | Mock (tests)
```

| Component | State | Operations | Talks to |
| --- | --- | --- | --- |
| `AsyncWorker` (async.hpp) | `queue_`, `stop_`, `mutex_`, `cv_`, thread | constructor, `post`, `run`, destructor | tasks it runs |
| `IntervalWorker` (async.hpp) | `stop_`, thread, interval | `start`, `stop`, `run` | a callback |
| `AudioBackend` (audio_backend.hpp) | `on_change_`, `worker_`, `poll_worker_` | `request_*`, `subscribe`, `unsubscribe`, `push_update_event`, `shutdown_workers` | both workers, the derived class's `handle_*`, the manager's callback |
| `Device` (device.hpp) | atomics: `connected_`, `muted_`, `is_default_`, `volume_`, levels | getters, `set_*`, `apply_snapshot`, `mark_disconnected` | requests of its backend |
| `AudioDeviceManager` (audio_device_manager.hpp) | `devices_`, `subscribers_`, `pending_refresh`, scheduler flags, `backends_` | `register_backend`, `get_devices*`, `prune_disconnected`, `subscribe`, `refresh*`, `on_backend_event`, the scheduler thread, destructor | backends, subscribers |
| `PulseAudioBackend` | context, mainloop, `device_cache_`, a `RefreshState` per refresh | `try_init`, `handle_*`, seven libpulse callbacks | the server, asynchronously |
| `AlsaBackend` | `device_cache_` | `handle_*`, a scan of all cards | the kernel, by blocking calls |
| `WasapiBackend` | `enumerator_`, `notification_client_`, `volume_subscriptions_` | `try_init`, `handle_*`, a scan of the endpoints of both flows, COM notifications, destructor | COM, on its own threads |
| `MockBackend` | `snapshots_` | `push_snapshot`, `handle_*` | tests |
| `DynamicLibrary`, `types` | none that changes | symbol lookup, ids, snapshots | |

What is hard in it: every object is used by several threads (application, worker, poll worker,
scheduler, mainloop or COM threads); callbacks run on the library's threads and may call back in;
destruction happens in stages while threads still run; reports are read piece by piece from a system
that changes meanwhile; and an external server can die between a question and its answer. What makes
each component correct is stated with its module in section 3; the places where it can go wrong are
the `hazards` of `PROJECT.json`, each at its line.

## 2. How the modules fit together

```
 TaskQueue  <--implements--  AsyncWorker          IntervalWorker
     ^ INSTANCE
 AudioBackend (requests, callbacks, two-stage destruction)
     |  its FIFO order and QuietAfterStop are what these rest on
 Refresh    <--implements--  ManagerLifecycle     NotifyScheduler                  (the manager)
 DeviceView <--implements--  DeviceMap
 PulseAudioBackend     AlsaBackend     WasapiBackend     MockBackend               (the backends)
```

A component that is used by another is replaced there by what it is shown to do: `AudioBackend` has
the worker as an instance of `TaskQueue`, which `AsyncWorker` implements (checked as a property and
proved as a theorem); polls stop when the derived destructor begins to wait, which is
`QuietAfterStop` of `IntervalWorker`; `NotifyScheduler` detaches backends only when none is inside
the change callback, which is `NoDeliveryOnceUnsubscribed` of `AudioBackend`. `ManagerLifecycle`
extends `Refresh` with the destruction of the manager and the thread of its scheduler, and every
step of it is a step of `Refresh` or a stutter (proved). `DeviceMap` ends where `schedule_notify()`
sets its flag, `NotifyScheduler` begins there; what it shows its subscribers is a `DeviceView`
(checked and proved). Each `MC` module gives the constants that are no plain values; each `.cfg`
begins with what its instance is for; a `...Proofs` module holds the theorems about the module it is
named after, `AudioBackendProofs` those about `IntervalWorker` and `MockBackend` as well, and
`ManagerLifecycleProofs` those about `Refresh`.

## 3. Modules, runs and what they show

An action stands for a section of code that holds a mutex, or for what happens between two of them;
a definition named `...` with the comment "Mutation:" is not part of a specification, it is the
plausible bug a property is tested with.

| Run | Instance | Distinct states |
| --- | --- | --- |
| `AsyncWorker` | 2 clients, 3 tasks, 1 shutdown | 608 |
| `AsyncWorkerUninit` | as above, any value in the memory of `stop_` | a counterexample |
| `IntervalWorker` | intervals up to 3 ticks, 3 starts | 244 |
| `AudioBackend` | 2 requests, 1 push from outside, 1 destruction | 63 922 |
| `ManagerLifecycle` | 2 backends, 3 calls, 1 destruction | 144 914 |
| `NotifyScheduler` | 2 sources, 2 subscriptions, a limit of 2 ticks | 8 742 |
| `DeviceMap` | 2 backends, 3 devices, 2 levels, reports of up to 2 | 349 371 |
| `MockBackend` | 3 devices, a test's thread and the worker | 394 204 |
| `PulseAudio` | 2 sinks, 2 levels, the first refresh and 2 changes, refused answers or requests, death | 354 737 |
| `PulseServerDies` | 1 sink, death | a counterexample |
| `Alsa` | 2 numbers, 2 cards, 2 changes, 1 command | 721 838 |
| `Wasapi` | 2 endpoints, one of each flow, 2 levels, 3 events | 1 221 956 |

The type invariant of every module is a theorem and no property of a run. Some say more than types:
that only elements with a switch are muted (`AlsaBackend`), and that COM owes nothing to a callback
that was unregistered (`WasapiBackend`).

**TaskQueue**. The executor other modules assume: submitted tasks start in order, one at a time,
until it is closed with nothing left.

**AsyncWorker**. `Post` and `NotifyOne` are the two halves of `post()` (the notification is sent
after the unlock); `Wait`, `Take`, `TaskReturns`, `Return` are the loop of `run()`; `Stop`,
`NotifyAll`, `Join` the destructor. The condition variable has one waiter, so a notification is a
change of the worker's program counter. The constant `UninitStop` holds the values `stop_` may have
before its initialiser has run: the thread is declared before the flag. The run shows: no lost
wake-up, drained when destroyed, every task runs, the destructor returns, and the refinement
`ImplementsTaskQueue`. Two clients suffice for a post to fall between another's unlock and its
notification; the third task is the one that is posted by a task. Run `AsyncWorkerUninit`: with any
memory `EveryTaskRuns` fails.

**IntervalWorker**. `start`, the three steps of `stop`, and a thread whose `wait_for` may time out,
be notified or wake up spuriously. The run shows that a stop at the beginning, inside and at the end
of an interval returns without waiting for it, nothing runs after it, and a worker that is started
again calls back.

**AudioBackend**. `Request` to `SetValue` follow one request through the worker: handler, optional
push, `on_done`, promise. A callback may make a request (`OnDoneRequests`) and may wait for a future
(`OnDoneGets`, `GetReturns`), as `set_volume()` of a `Device` does. `Subscribe`, `Unsubscribe`,
`PushUpdateEvent` work under `on_change_mutex_`, held by whoever is in `delivering`. `life` goes
from the derived constructor over the drain in the derived destructor and the drain in
`~AudioBackend()` to the join. Polls come from the base constructor on, events until a task of the
destructor has run, and callbacks may make requests as long as the worker runs. The run shows:
futures resolve unless the worker waits for itself, nothing is delivered after `unsubscribe()`,
destruction ends, and what the program asked for before it is handled by the derived part.

**Refresh**. `RegisterBackend` is the part of `register_backend()` a refresh depends on;
`StartRefresh`, `JoinRefresh`, `RequestRefresh` and the two steps of the early exit are
`refresh_async()`; `Acknowledge`, `AcknowledgeLast` and `ResolvePromises` are
`acknowledge_backend()` and `complete()`; callbacks may make calls themselves. It has no run of its
own: `ManagerLifecycle` takes each of its steps.

**ManagerLifecycle**. `Refresh` and what ends it: `Destroy` (backends detached, scheduler told to
stop), `DestroyMembers` (the scheduler is joined, the members declared after `backends_` go, and
with `pending_refresh` its promises), `DestroyBackends` (their workers have drained). The scheduler
may be in a round in which a subscriber calls `refresh_async()` or waits in `refresh()`.
`UseAfterDestruction` is the step of a worker or a call that finds a member gone; it leaves the
manager `broken`. The run shows: acknowledgements count for the refresh that asked, the starter's
answer is fresh, callbacks run once, every call is answered unless a callback of the early exit
makes a call itself or the manager goes first, a program that waits for its calls never breaks the
manager, and the destructor returns. Three calls let a second refresh begin while the callbacks of
the first still run, two backends let one acknowledge before and one after a call that joins, or one
before and one after the members are gone. The next call to be made is a fixed one: calls are alike
until they are made.

**NotifyScheduler**. The scheduler thread with its two waits, the rate limit in ticks,
subscriptions, and the destructor. The run shows: a change that a subscriber has not heard of is in
somebody's hands and the thread does not sleep on it (`NoChangeIsForgotten`), rounds begin a limit
apart, every subscriber hears of every change, the destructor does not wait for the clock. Times
beyond the limit are one: no guard tells them apart.

**DeviceMap**. `BeginEvent`, `ApplySnapshot`, `EndEvent` are `on_backend_event()`, one step per
snapshot because the fields of a `Device` are read without the mutex; `PruneDisconnected`. `EndEvent`
joins the sweep, the unlock and the call of `schedule_notify()`; the gap between the unlock and the
flag is in `NotifyScheduler`, whose `Change` and `ScheduleNotify` are two steps. The run
shows (the two devices of a report may be the same): the connected devices are those of the last
reports, subscribers are told of every difference, and of nothing else unless a report names a
device twice. `DeviceView` is what a subscriber may rely on, in three definitions: a report is
merged at once, devices it does not name are disconnected and otherwise as they were, and only
`prune_disconnected()` forgets one. Its `view` is `announced`, the map as of the last notification.

**PulseAudioBackend**. Worker and mainloop thread alternate under the mainloop lock: a section up to
`mainloop_wait_()` or a whole callback is an action. The server is external: a log of its states,
one ordered connection, answers that name the state they were read from. It may answer any request
with an error (`Refuse`: it refused, or the answer did not come in time), while the context stays
ready: `info` is then NULL and the lists are asked for without the names of the defaults, or a list
ends with `eol < 0`, after any of its devices, and counts as read. `failed` of a `RefreshState` and
of a report are the parts that were lost so. A refused subscription leaves `subscribed` FALSE: no
events come, and nobody is told. The server may also die at any moment, which cancels operations
without calling their callbacks. The run shows: callbacks never write to a frame that is gone, `Ok`
means carried out, handlers return (commands always, refreshes while the server lives), a refresh
returns with a report all three parts of which were answered after it began even when refreshes of
events overlap, and the last report shows what a live server has, but for the parts that were
refused to it, as soon as nothing is on its way (`SettledReportIsCurrent`), which it comes to be
(`ReportsCatchUp`). Two sinks compete for a default. Changes, refused answers and requests after the
first share the bound `MaxEvents` = 2. Two changes let the refresh of an event read the first before,
and a request begin after, the second, so that a report that is finished first is an old one; one
change and one request let an event arrive before, during and after a command or a second refresh; a
change and a refused answer meet in the refresh of its event, and two refused answers in one report.
Sources take the same path as sinks, one callback later. Run `PulseServerDies`: a refresh waits for
ever.

**AlsaBackend**. One action per call that looks at a card anew; cards come, go and change numbers,
other processes set levels, mute, lock controls or keep a mixer busy. Elements and PCM devices are sets: a
command meets the elements of a name in any order, the order of a report is not told apart. In the
run one of the cards has two elements of the same name. It shows: the cache and the last report
agree, the status of a command is true (a mute that returns `Ok` switched something, a failed write
of a volume is reported whichever element it was), and polling catches up with the cards. Two
changes can put one card in the place of another between report, lookup, opening and writing.

**WasapiBackend**. `RunInit`, `RunRelease`, `RunRefresh`, `RunCommand` are the tasks of the worker;
`ReadDefault`, `Enumerate`, `Device`, `Read`, `Push` a refresh, one action per call into COM that
sees the endpoints anew, the endpoints of a collection in any order; `FindDevice`, `SetLevel`,
`SetRole` the commands, the last of which sets three roles one after the other and may fail after
the first. `Notify` is what a COM thread does.
COM is external: it lets any call fail, the interfaces of an endpoint that goes away are `invalid`
for good, and it calls nothing that was unregistered. The run shows: once the task of the destructor
has run COM holds no callback and the backend no interface, whatever was queued behind it; a handler
runs without its overriders only if a notification came while the destructor waited; notifications
alone make the last report true in the end; what a command that returned `Ok` set is in the next
report. Two endpoints, one of each flow, suffice for a scan in which one endpoint changes behind it
and one in front of it; three events for a change during the refresh another caused, with a call
that fails in it.

**MockBackend**. The list, and the copies that are published after its mutex was released. The run
shows that subscriber and backend agree unless two copies were on their way at once.

### What the code does otherwise

Two disagreements are runs of their own, in which TLC finds a behaviour of the code that a document
or a comment excludes (`findings` of `PROJECT.json`): `AsyncWorkerUninit` and `PulseServerDies`. The
others are built into the properties as named exceptions or are hazards with a note, so that each
property says what the code does keep:

* A poll during the derived constructor, an event during the derived destructor and a request of
  a callback during it are handled by an object without its derived part, a pure virtual call
  (`HandlersAreImplemented` leaves out `poll`, `event` and `late`; without one of the exceptions
  TLC shows the call). In `WasapiBackend` it is the notification that comes before the task that
  unregisters it has run (`OnlyLateNotificationsAbort`).
* A callback on the worker thread that waits for a future of the same backend, as every
  `set_*()` of a `Device` does, waits for itself (`SelfWait`).
* A manager that is destroyed with a refresh pending is told of acknowledgements after
  `pending_refresh` and its mutex are gone, and so is one a subscriber of which makes a call
  during the destruction (`waited` in `MembersOutliveUse`); the promises of the pending
  calls are broken (`abandoned` in `EveryCallIsAnswered`).
* A call that joins a pending refresh may be answered with reports older than itself, and without
  a backend that was registered since (`StarterIsFresh` speaks of starters), where
  audio_device_manager.hpp:199 says "blocks until all have reported back".
* Without backends a callback that calls `refresh_async()` locks a mutex its caller holds
  (`Reentered` in `EveryCallIsAnswered`).
* A callback may begin after its subscription was removed: `Call` takes it from the copy.
* A default device that is unplugged keeps `is_default` next to the new default.
* A report that names a device twice is announced each time (`NamedTwice` in `NoopIsSilent`);
  `AlsaBackend` makes such reports.
* Concurrent publishers of `MockBackend` may leave the subscriber with the older list (`raced`).
* A PulseAudio report is read in three parts: it may list a device and no default until the next.
* If a PulseAudio answer is an error `handle_refresh()` returns `Ok` and pushes a report without
  defaults, without the sinks or without the sources, or the rest of them (pulseaudio_backend.hpp:235,
  271, 296). Nothing asks again: the report stays until the next event or request (`failed` in
  `SettledReportIsCurrent` and `ReportsCatchUp`; a manager disconnects the devices it lacks).
  Without the exception TLC shows such a report that stays. A subscription the server refused is
  not noticed either: it has no callback (`subscribed` in the same two).
* While a mixer is busy ALSA devices are reported under other ids, those of the PCM devices.
* `run_set_volume()` returns `Ok` for a card that has no such element any more; `run_set_mute()`
  returns `Unsupported`, but `Ok` when the last of several elements could be set and another not.
* A WASAPI endpoint that goes away and comes back between two refreshes keeps the interface that
  was activated before: its volume is not read and its changes are not told any more (`Sound` and
  `invalid`). A refresh in which a call failed is not repeated (`failed`), nor is a registration
  that failed (`registered` in `Sound`).

### Fairness

Threads that can take a step eventually do, handlers and callbacks return, and notified threads wake
up: weak fairness per thread. Environments are free to stop: nobody has to make a request,
subscribe, change a device or destroy an object. The clock is fair only as the assumption
`TimePasses` of `KeepsCallingBack` and `EveryChangeIsNotified`; destructors and `stop()` are shown
not to need it. A PulseAudio server that lives answers and sends its events (`ServerAnswers`,
`ServerNotifies`); nothing makes it live. COM delivers the notifications it owes. In `AlsaBackend`
`HandleRefresh` is strongly fair because the poll worker queues a refresh for ever and the queue is
first-in first-out: no command can overtake it. Deadlock is checked everywhere but in
`ManagerLifecycle`, where the self-deadlock of the early exit is a behaviour of the code.

### Bounds

Calls, tasks, commands and changes are finite sets or counters named in the `.cfg` files
(`MaxChanges`, `MaxCommands`, `MaxPushes`, `MaxStarts`, `MaxReport`, `MaxEvents`). Where a queue
could grow without limit (`poll` and `event` refreshes, those of COM notifications) one of a kind is
queued at a time, or one in a row; a second one would only repeat the first. `RefreshesAssumption`
makes sure that the addresses of `RefreshState`s never run out. Identifiers, names and levels are
distinguished only as far as the code compares them; volume, mute and limits are one `level` where
it treats them alike.

## 4. Proofs

Each of the eight `...Proofs` modules follows one pattern: an inductive invariant made of named
parts (`IInv` in most), a lemma per action, or group of alike actions, that it is kept, and the
theorems that follow from it. They hold for every value of the constants. What the type invariant
and the property leave to be said, and why:

* `AsyncWorkerProofs`. `TypeSafe`; `WakeupsAreNotLost`; `DestructorDrains`, if
  `UninitStop = {FALSE}`: needs `DrainInv`, that `stop_` means that the
  destructor has begun, that the loop is left only with an empty queue, and that every task that
  was posted is queued, running or finished (`NoTaskDropped`). `WorkerImplementsQueue`, same
  assumption: initial states map to initial states, and each step
  to a step of `TaskQueue` or a stutter; a post cannot follow the closing because the loop is
  left only once the destructor has begun.
* `AudioBackendProofs`. `SilentOnceUnsubscribed`: whoever delivers holds `on_change_mutex_`, without
  which nobody unsubscribes. `DerivedPartHandles` rests on an invariant about positions in the
  queue: once the destruction has begun everything whose handler must find the derived part stands
  in front of the drain task (`EarlyBeforeDrained`), which is there at most once and has not been
  signalled before it was taken out (`DrainedOnce`); before that only polls (`OnlyPollsAtFirst`).
  `RequestsAreNotLost`: a request that was made stands in the queue, is the one that runs, or has
  its answer (`NoRequestIsLost`), and the worker takes tasks from whoever may post one
  (`WorkerTakesTasks`); from that `FuturesAreReady`, all of them once the destructor has returned.
* `AudioBackendProofs`, about the two parts around it. `NothingRunsOnceStopped`, of
  `IntervalWorker`: `stop()` works on a thread that was started and not yet joined
  (`StopHasAThread`). `StopIsNotMissed`: a thread that is joined is awake and has `stop_` still to
  look at (`StopIsHeard`), and one that nobody stops finds `stop_` false (`OnlyStopEnds`).
  `SubscriberEndsUpWithTheList`, of `MockBackend`: until two copies overlap, a copy that is on its
  way is the list, and the only one (`CopyIsTheList`).
* `ManagerLifecycleProofs`, about `Refresh`. `AcksAreNeverConfused` is not inductive as it stands.
  `AckInv` follows the one
  refresh that can be pending through all places a request for it can be in: still to be sent,
  queued, being handled. A backend is pending exactly if one request for it is in one of these
  places, and all requests belong to the starter of the pending refresh. `StartersAreFresh` adds
  that a backend which has acknowledged was read since the starter's call, and that backends
  registered later are not among those the call asked for. `CallbacksRunOnlyOnce` adds
  `AnswersInv`, that a call is gathered by the pending refresh or by one that is being completed,
  or resolved, never two of them, and `OnceInv`, that the callbacks to run are among the promises
  to resolve, without repetition.
* `ManagerLifecycleProofs`, about the manager. `ManagerImplementsRefresh`: every step is one of
  `Refresh` or leaves its variables alone, so that its three theorems carry over.
  `ManagerTypeCorrect` needs that the promises that went are those that were gathered, which nobody
  changes any more (`AbandonedAreGathered`). `CallsAreInHand`: a call that has had the mutex is
  gathered, promised or resolved (`HandInv`), and a backend is pending exactly if a request for it
  is under way (`AckInv`), so that until its future is ready somebody has every call to answer.
  `WaitingIsSafe`: if every call was answered when the destruction began no queue, worker or call
  holds anything (`AnsweredIsQuiet`, from the invariants of `Refresh`), and nothing but a subscriber
  can begin something.
* `NotifySchedulerProofs`. `RoundsKeepTheirDistance`, an action property: `last_notify_` dates the
  last round whenever it is read (`LastNotifyDatesTheRound`). `ChangesAreNotForgotten`:
  `NoChangeIsForgotten` is inductive as it stands, given the types.
* `DeviceMapProofs`. `MapShowsTheLastReports` holds between events; within one, devices that are not
  of the busy backend are settled (`OthersAreSettled`), and those it has seen show the last of their
  snapshots among those applied so far (`SeenIsShown`), the rest of the report being what is left of
  it (`RestIsTheEnd`). `EveryChangeIsAnnounced`: while no change was found the map is what was
  announced (`SilenceIsNoChange`). `NothingNewIsSilent`, an action property: only keys that were
  seen differ from what was announced, and one does if `any_change` is set, unless a key was seen
  before its last snapshot (`ChangesAreSeen`, `SeenTwice`). `MapImplementsView`: the end of an event
  is the merge of its whole report into what was announced, whether it announces it or not; every
  other step of an event leaves the view alone.
* `PulseAudioBackendProofs`. `FramesOutlive` (no callback reaches a frame that is gone) rests on
  `LinkInv`: for what a `RefreshState` in use waits is on its way, once, and of one that is free
  nothing is (`WaitsForWhatComes`, `NoneTwice`); addresses do not run out because every state of the
  server is an event (`VersionsAreEvents`). `ReportsAreFresh` on `FreshInv`: while a handler waits,
  what older refreshes have still to receive comes before what it waits for (`WaitsForNews`), so
  that nothing old is left when it goes on (`NothingOldIsLeft`); an answer that is an error takes the
  place of what it refuses, so both say of it what they say of any other. `OkIsTrue`, an action property, on
  `CommandInv`: one command is under way, its answer still to come as long as its handler waits, and
  a success means that the server was in a state the command leads to (`Carried`). `ReportsSettle`
  on `SettleInv`: unless an event is owed or on its way there is a version since which the state of
  the server is the same, and either a refresh under way will report something at least as new, or
  nothing older is left in the connection and the last report is as new (`ChangesAreCaught`), in
  each of its parts that was read: the theorem is about those (`Latest(report.failed)`), and about
  a server that accepted the subscription.
  `SomethingWakesWhoWaits`: who waits has been signalled, or what signals it is in the connection
  (`AwakeInv` and `WaitsForWhatComes`); only a refresh whose server died waits for what will not
  come.
* `WasapiBackendProofs`. The invariant has four parts. Positions in the queue: the task of
  `try_init()` is first, that of the destructor stands once, and every command in front of it
  (`InitFirst`, `ReleaseOnce`, `HandledFirst`), from which `CommandsAreHandledInTime` and
  `OnlyLateOnesAbort`. What is held: nothing once the task of the destructor has run, and while a
  handler runs what it uses (`HandlersHoldOn`), from which `ReleasedForGood`. And for `OkIsReported`
  what the last command promised (`PromiseIsKept`) and how much of it a scan has seen
  (`ScanInv`). `NotificationsSuffice` on `CaughtInv`: while COM has no change of the endpoints to
  tell and no refresh is queued, what a scan has read is what there is, endpoint by endpoint, up to
  the levels whose callback has still to tell (`ScanIsCurrent`, `Accurate`), and between scans the
  last report is.
* `AlsaBackendProofs`. `ReportedOnesAreKnown`: the cache is ahead of the report between
  `SwapCache` and `PushUpdateEvent` alone (`CacheInv`). `CommandsReportTheTruth`: the status is
  true of the elements so far, in whatever order a mixer has them (`StatusInv`). The types need
  that a handler has a card number, and a scan an open card, while it works (`HandlerInv`).
  `UndisturbedReportsAreTrue`, whose hypothesis is that no change falls into a refresh: what was
  collected is what the cards up to the one in hand are (`ScanIsTrue`).

The proofs assume nothing but the named assumptions of the modules, which TLC evaluates in the runs.
They are about bounds (`BoundsAssumption`, `RefreshesAssumption`, ...: natural numbers, enough
addresses), about values that do not coincide (`NoneAssumption`, `IdsAssumption`, ...), about levels
that exist (`LevelsAssumption`), and about what the devices of a system are (`TypesAssumption`,
`FlowAssumption`, `ChannelsAssumption`, `PcmsAssumption`: a device has one of two directions).

Every safety property of the runs is stated by a theorem. Only model-checked: liveness under
fairness, which is beyond the prover, and with it the liveness half of `ImplementsTaskQueue`. What
can go wrong short of fairness is proved for every value of the constants, as the safety half of
these properties:

| Liveness (TLC) | Its safety half (TLAPS) |
| --- | --- |
| `EveryTaskRuns`, `DestructorReturns` of `AsyncWorker` | `WakeupsAreNotLost`, `DestructorDrains` |
| `StopReturns`, `KeepsCallingBack` of `IntervalWorker` | `StopIsNotMissed` |
| `EveryFutureResolves` of `AudioBackend` | `RequestsAreNotLost`, `FuturesAreReady` |
| `EveryCallIsAnswered` of `ManagerLifecycle` | `CallsAreInHand` |
| `EveryChangeIsNotified`, `DestructorReturns` of `NotifyScheduler` | `ChangesAreNotForgotten` |
| `HandlersReturn`, `ReportsCatchUp` of `PulseAudioBackend` | `SomethingWakesWhoWaits`, `ReportsSettle` |
| `ReportsCatchUp` of `WasapiBackend` | `NotificationsSuffice` |
| `ReportsCatchUp` of `AlsaBackend` | `UndisturbedReportsAreTrue` |

## 5. Not modelled

* A `register_backend()` that races with a refresh: `backends_` has no mutex, the race is
  undefined behaviour the code leaves to its caller. Registration between calls is modelled.
* `get_devices*()`, which copy and sort references, and the getters of `Device`, single atomic
  loads.
* `DynamicLibrary`, `resolve_symbols()`, `is_supported()`, `try_init()` of `AlsaBackend`: they
  look up symbols once, and what they find is constant.
* Conversions between floats and the integers of an audio system: levels are exact here. The
  hazards of the truncation in `AlsaBackend` and of negative volumes in `PulseAudioBackend` are
  matters of float arithmetic, which TLA+ has no account of.
* Reference counts of COM objects, `CoInitializeEx`, names of devices: they decide nothing.
* The example `pipewiretest.cpp`, which does not use the library, and the build files.

## 6. Plan

Done are the modules above: workers, backend base class, manager, backends, the manager's
destruction, the abstract specifications `TaskQueue`, `Refresh` and `DeviceView`, and the proofs of
every safety property and of the safety half of the liveness properties listed in section 4. What
could follow:

1. An abstract specification of a backend as the manager sees it (requests that are answered,
   reports of a changing list), implemented by `MockBackend` and `AlsaBackend`.
2. A theorem that `NotifyScheduler` may take its backends from `AudioBackend`: what it assumes of
   their callbacks is `NoDeliveryOnceUnsubscribed`.
3. `VolumeScale`: the conversions of the backends over small ranges of scaled integers, against a
   rounding reference.
