------------------------------ MODULE AudioBackend ------------------------------
(***************************************************************************)
(* class AudioBackend of audio_backend.hpp: requests that run on the       *)
(* worker thread and answer through a callback and a future, the change    *)
(* callback guarded by on_change_mutex_, the poll worker, and the          *)
(* destruction in two stages (the derived part first).                     *)
(*                                                                         *)
(* worker_ is a TaskQueue (AsyncWorker implements it) and poll_worker_ is  *)
(* reduced to what IntervalWorker shows of it: ticks until stop() returns. *)
(* The handle_* functions are the derived part's: here they only take      *)
(* time, and push an update event or not.                                  *)
(*                                                                         *)
(* The poll worker is started by the base constructor, and the event       *)
(* source of WasapiBackend (a COM thread) is silenced by a task of its     *)
(* destructor; a callback runs, and may ask for more, as long as the       *)
(* worker thread does.                                                     *)
(***************************************************************************)
EXTENDS Integers, Sequences, SequencesExt

CONSTANTS
  Requests,          \* calls of request_*; each is made at most once
  MaxPushes          \* bound: update events pushed by a thread outside the worker

Phases == {"constructing", "alive", "draining", "base", "joining", "destroyed"}

Refreshes == {"initial", "poll", "event"}     \* refreshes nobody waits for
Drains    == {"drained", "drainedAgain"}      \* tasks of shutdown_workers()
Tasks     == Requests \cup Refreshes \cup Drains

ASSUME RequestsAssumption == Requests \cap (Refreshes \cup Drains) = {} /\ MaxPushes \in Nat

VARIABLES
  life,              \* of the object; in "base" only the base part is left
  backlog, running, open,          \* worker_
  wpc,               \* where the worker is: idle, handle, deliver, on_done, get, resolve
  awaited,           \* the request whose future the on_done callback waits for, if any
  subscribed,        \* on_change_ is set
  delivering,        \* who is inside on_change_, and holds on_change_mutex_
  pushes,
  posted, resolved,  \* requests made, requests whose future is ready
  signalled,         \* drain tasks that have run
  late               \* history: requests a callback made during the destruction

workerVars == <<backlog, running, open>>
changeVars == <<subscribed, delivering, pushes>>
promiseVars == <<posted, resolved, signalled, late>>
vars == <<life, workerVars, wpc, awaited, changeVars, promiseVars>>

Worker == INSTANCE TaskQueue

TypeOK ==
  /\ life \in Phases
  /\ backlog \in Seq(Tasks)
  /\ running = <<>> \/ \E t \in Tasks : running = <<t>>
  /\ open \in BOOLEAN
  /\ wpc \in {"idle", "handle", "deliver", "on_done", "get", "resolve"}
  /\ awaited \subseteq posted
  /\ wpc = "get" <=> awaited # {}
  /\ wpc = "idle" => running = <<>>
  /\ subscribed \in BOOLEAN
  /\ delivering \in {"nobody", "worker", "pusher"}
  /\ pushes \in 0..MaxPushes
  /\ posted \subseteq Requests
  /\ resolved \subseteq posted
  /\ signalled \subseteq Drains
  /\ late \subseteq posted

\* The base constructor has returned: both worker threads run.  The derived
\* constructor has not finished.
Init ==
  /\ life = "constructing"
  /\ Worker!Init
  /\ wpc = "idle"
  /\ awaited = {}
  /\ subscribed = FALSE
  /\ delivering = "nobody"
  /\ pushes = 0
  /\ posted = {}
  /\ resolved = {}
  /\ signalled = {}
  /\ late = {}

ConstructorReturns ==
  /\ life = "constructing"
  /\ life' = "alive"
  /\ UNCHANGED <<workerVars, wpc, changeVars, promiseVars, awaited>>

--------------------------------------------------------------------------------
(* Requests *)

\* handle_request(), called by a thread of the program.
Request(r) ==
  /\ life = "alive"
  /\ r \notin posted
  /\ posted' = posted \cup {r}
  /\ Worker!Submit(r)
  /\ UNCHANGED <<life, wpc, changeVars, resolved, signalled, late, awaited>>

\* A refresh whose future is discarded.  Bound: one of each kind is queued.
RequestRefresh(t) ==
  /\ ~Contains(backlog, t)
  /\ Worker!Submit(t)

\* poll_worker_ calls request_refresh().
Poll ==
  /\ life \in {"constructing", "alive"}
  /\ RequestRefresh("poll")
  /\ UNCHANGED <<life, wpc, changeVars, promiseVars, awaited>>

\* The backend's event source calls request_refresh(), until a task of the
\* destructor has unregistered it.
Event ==
  /\ life \in {"alive", "draining"}
  /\ "drained" \notin signalled
  /\ RequestRefresh("event")
  /\ UNCHANGED <<life, wpc, changeVars, promiseVars, awaited>>

--------------------------------------------------------------------------------
(* The change callback *)

\* Mutation: unsubscribe() and subscribe() do not take on_change_mutex_.
Unguarded == TRUE
\* on_change_mutex_ can be taken.
MutexFree == delivering = "nobody"

\* subscribe() asks for a first report.
InitialRefresh == RequestRefresh("initial")

Subscribe ==
  /\ life = "alive"
  /\ ~subscribed
  /\ MutexFree
  /\ subscribed' = TRUE
  /\ InitialRefresh
  /\ UNCHANGED <<life, wpc, delivering, pushes, promiseVars, awaited>>

Unsubscribe ==
  /\ life = "alive"
  /\ subscribed
  /\ MutexFree
  /\ subscribed' = FALSE
  /\ UNCHANGED <<life, workerVars, wpc, delivering, pushes, promiseVars, awaited>>

\* push_update_event() by `who`: takes the mutex and calls on_change_ under it.
PushUpdateEvent(who) ==
  /\ delivering = "nobody"
  /\ delivering' = IF subscribed THEN who ELSE "nobody"

\* A thread other than the worker pushes an event (MockBackend::push_snapshot).
Push ==
  /\ life = "alive"
  /\ pushes < MaxPushes
  /\ pushes' = pushes + 1
  /\ PushUpdateEvent("pusher")
  /\ UNCHANGED <<life, workerVars, wpc, subscribed, promiseVars, awaited>>

PushReturns ==
  /\ delivering = "pusher"
  /\ delivering' = "nobody"
  /\ UNCHANGED <<life, workerVars, wpc, subscribed, pushes, promiseVars, awaited>>

--------------------------------------------------------------------------------
(* The worker thread *)

StartTask ==
  /\ Worker!Start
  /\ wpc' = IF running'[1] \in Drains THEN "resolve" ELSE "handle"
  /\ UNCHANGED <<life, changeVars, promiseVars, awaited>>

\* handle_*() returns without having pushed an event; handle_refresh always has.
HandlerReturns ==
  /\ wpc = "handle"
  /\ running[1] \notin Refreshes
  /\ wpc' = "on_done"
  /\ UNCHANGED <<life, workerVars, changeVars, promiseVars, awaited>>

HandlerPushes ==
  /\ wpc = "handle"
  /\ PushUpdateEvent("worker")
  /\ wpc' = IF subscribed THEN "deliver" ELSE "on_done"
  /\ UNCHANGED <<life, workerVars, subscribed, pushes, promiseVars, awaited>>

DeliveryReturns ==
  /\ wpc = "deliver"
  /\ wpc' = "on_done"
  /\ delivering' = "nobody"
  /\ UNCHANGED <<life, workerVars, subscribed, pushes, promiseVars, awaited>>

\* The on_done callback returns, or there is none.
OnDone ==
  /\ wpc = "on_done"
  /\ wpc' = "resolve"
  /\ UNCHANGED <<life, workerVars, changeVars, promiseVars, awaited>>

\* It may call request_*() itself: "callbacks may themselves call refresh_async"...
OnDoneRequests(r) ==
  /\ wpc = "on_done"
  /\ running[1] \in Requests
  /\ r \notin posted
  /\ posted' = posted \cup {r}
  /\ late' = IF life = "alive" THEN late ELSE late \cup {r}
  /\ Worker!Submit(r)
  /\ UNCHANGED <<life, wpc, awaited, changeVars, resolved, signalled>>

\* ... and wait for a future, which with the request before is what Device::set_volume(),
\* set_mute(), set_default() and refresh() do.  Bound: a callback waits at most once.
OnDoneGets(r) ==
  /\ wpc = "on_done"
  /\ running[1] \in Requests
  /\ r \in posted
  /\ wpc' = "get"
  /\ awaited' = {r}
  /\ UNCHANGED <<life, workerVars, changeVars, promiseVars>>

GetReturns ==
  /\ wpc = "get"
  /\ awaited \subseteq resolved
  /\ wpc' = "resolve"
  /\ awaited' = {}
  /\ UNCHANGED <<life, workerVars, changeVars, promiseVars>>

\* Mutation: set_value() is skipped.
NothingResolved == resolved
\* promise->set_value() of the running request.
RequestResolved == resolved \cup (Requests \cap {running[1]})

\* set_value(): the task is over.
SetValue ==
  /\ wpc = "resolve"
  /\ wpc' = "idle"
  /\ resolved' = RequestResolved
  /\ signalled' = signalled \cup (Drains \cap {running[1]})
  /\ Worker!Finish
  /\ UNCHANGED <<life, changeVars, posted, late, awaited>>

--------------------------------------------------------------------------------
(* Destruction *)

\* Mutation: the derived destructor does not call shutdown_workers().
NoDrain == UNCHANGED workerVars
\* shutdown_workers() posts a task and waits for it.
PostDrained == Worker!Submit("drained")

\* Mutation: shutdown_workers() does not wait for the task it posts.
NotWaiting == TRUE
\* What shutdown_workers() waits for in the derived destructor.
HasDrained == "drained" \in signalled

\* The derived destructor calls shutdown_workers(): the poll worker is stopped
\* (no tick after that) and a task is posted to wait for.  No other thread of
\* the program is inside the backend any more.
Destroy ==
  /\ life = "alive"
  /\ delivering # "pusher"
  /\ life' = "draining"
  /\ PostDrained
  /\ UNCHANGED <<wpc, changeVars, promiseVars, awaited>>

\* The derived part is gone; ~AudioBackend() drains a second time.
DerivedDestroyed ==
  /\ life = "draining"
  /\ HasDrained
  /\ life' = "base"
  /\ Worker!Submit("drainedAgain")
  /\ UNCHANGED <<wpc, changeVars, promiseVars, awaited>>

\* The members go: ~AsyncWorker() raises stop_ and joins.
DestroyWorker ==
  /\ life = "base"
  /\ "drainedAgain" \in signalled
  /\ life' = "joining"
  /\ UNCHANGED <<workerVars, wpc, changeVars, promiseVars, awaited>>

WorkerExits ==
  /\ life = "joining"
  /\ Worker!Close
  /\ UNCHANGED <<life, wpc, changeVars, promiseVars, awaited>>

WorkerJoined ==
  /\ life = "joining"
  /\ ~open
  /\ life' = "destroyed"
  /\ UNCHANGED <<workerVars, wpc, changeVars, promiseVars, awaited>>

\* A callback waits for a future that only its own thread makes ready.
SelfWait == ~(awaited \subseteq resolved)

\* The states in which the system may stop.
Destroyed == (life = "destroyed" \/ SelfWait) /\ UNCHANGED vars

WorkerThread ==
  \/ StartTask \/ HandlerReturns \/ HandlerPushes \/ DeliveryReturns
  \/ OnDone \/ GetReturns \/ SetValue \/ WorkerExits
OwnerThread == ConstructorReturns \/ DerivedDestroyed \/ DestroyWorker \/ WorkerJoined

Next ==
  \/ WorkerThread
  \/ OwnerThread
  \/ Destroy
  \/ \E r \in Requests : Request(r) \/ OnDoneRequests(r) \/ OnDoneGets(r)
  \/ Poll
  \/ Event
  \/ Subscribe
  \/ Unsubscribe
  \/ Push
  \/ PushReturns
  \/ Destroyed

\* Threads run, handlers and callbacks return.  Nobody is obliged to make a
\* request, to poll, to subscribe or to destroy the backend.
Fairness == WF_vars(WorkerThread) /\ WF_vars(OwnerThread) /\ WF_vars(PushReturns)

Spec == Init /\ [][Next]_vars /\ Fairness
--------------------------------------------------------------------------------
(* Properties *)

\* What the program and its subscriber ask for before the destruction begins is
\* handled while there is a derived part to do it: handle_*() "need to be
\* implemented for each backend" (audio_backend.hpp:27, 63-66, 107-113), and the
\* call is a pure virtual one otherwise.  Nothing keeps a poll of the constructor,
\* an event or a callback's request of the destructor from such a call.
HandlersAreImplemented ==
  wpc = "handle" /\ running[1] \notin {"poll", "event"} \cup late =>
    life \in {"alive", "draining"}

\* Once unsubscribe() has returned, on_change_ is not running and is not called
\* again: push_update_event() holds on_change_mutex_ around the call
\* (audio_backend.hpp:54-57, 102-105).  ~AudioDeviceManager() relies on it.
NoDeliveryOnceUnsubscribed == delivering # "nobody" => subscribed

\* Every future handed out becomes ready, also when the backend is destroyed
\* with the request still queued (audio_backend.hpp:88-100, 107-113), except when a callback
\* on the worker thread waits for one the worker has still to resolve (device.hpp:87-102).
EveryFutureResolves == \A r \in Requests : r \in posted ~> r \in resolved \/ SelfWait

\* The destructor returns: no drain waits for a task nobody runs, but for that of a
\* worker that waits for itself.
DestructorReturns == life = "draining" ~> life = "destroyed" \/ SelfWait
================================================================================
