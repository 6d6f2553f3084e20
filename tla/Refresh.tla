-------------------------------- MODULE Refresh --------------------------------
(***************************************************************************)
(* AudioDeviceManager::refresh_async(): a call either starts a refresh of  *)
(* every registered backend or joins the one that is pending; the thread   *)
(* that delivers the last acknowledgement runs the callbacks of all calls  *)
(* that were gathered and makes their futures ready.                       *)
(*                                                                         *)
(* Every section under pending_refresh_mutex_ is one action.  A callback   *)
(* runs on a backend's worker thread, or under the mutex on the caller's   *)
(* thread when there is no backend, and may call refresh_async() itself.   *)
(* Each worker is the first-in first-out executor of TaskQueue; only the   *)
(* refreshes that carry an acknowledgement are kept in its queue here.     *)
(***************************************************************************)
EXTENDS Sequences, SequencesExt

CONSTANTS
  Backends,          \* available backends, each of a type of its own
  Calls,             \* calls of refresh_async(); each is made at most once
  None, App          \* no pending refresh; not called by a callback

ASSUME DistinctAssumption ==
  /\ Backends \cap Calls = {}
  /\ App \notin Backends \cup Calls
  /\ None \notin [backends : SUBSET Backends, calls : Seq(Calls)]

VARIABLES
  backends_,         \* registered backends
  pending,           \* pending_refresh: backends still to acknowledge, calls gathered
  stage,             \* of a call: unmade, locking, exiting, posting, returned
  parent,            \* whose callback made the call: a backend's worker, a call, App
  todo,              \* backends a call has still to send request_refresh()
  queue,             \* per backend, the calls whose request is queued
  wpc,               \* per worker: idle, handle, ack, complete, callback
  job,               \* per worker, the call whose request it executes
  callbacks,         \* per worker, the rest of the callbacks complete() has to run
  promises,          \* per worker, the calls complete() has to resolve
  calledBack,        \* calls whose callback has been entered
  resolved,          \* calls whose future is ready
  starters,          \* history: calls that started a refresh
  unread             \* history: per call, backends not read since it was made

callVars   == <<stage, parent, todo>>
workerVars == <<queue, wpc, job, callbacks, promises>>
history    == <<starters, unread>>
vars == <<backends_, pending, callVars, workerVars, calledBack, resolved, history>>

Pending == [backends : SUBSET Backends, calls : Seq(Calls)]

TypeOK ==
  /\ backends_ \subseteq Backends
  /\ pending \in Pending \cup {None}
  /\ stage \in [Calls -> {"unmade", "locking", "exiting", "posting", "returned"}]
  /\ parent \in [Calls -> Backends \cup Calls \cup {App}]
  /\ todo \in [Calls -> SUBSET Backends]
  /\ queue \in [Backends -> Seq(Calls)]
  /\ wpc \in [Backends -> {"idle", "handle", "ack", "complete", "callback"}]
  /\ job \in [Backends -> Calls \cup {None}]
  /\ callbacks \in [Backends -> Seq(Calls)]
  /\ promises \in [Backends -> SUBSET Calls]
  /\ calledBack \subseteq Calls
  /\ resolved \subseteq calledBack
  /\ starters \subseteq Calls
  /\ unread \in [Calls -> SUBSET backends_]

Init ==
  /\ backends_ = {}
  /\ pending = None
  /\ stage = [c \in Calls |-> "unmade"]
  /\ parent = [c \in Calls |-> App]
  /\ todo = [c \in Calls |-> {}]
  /\ queue = [b \in Backends |-> <<>>]
  /\ wpc = [b \in Backends |-> "idle"]
  /\ job = [b \in Backends |-> None]
  /\ callbacks = [b \in Backends |-> <<>>]
  /\ promises = [b \in Backends |-> {}]
  /\ calledBack = {}
  /\ resolved = {}
  /\ starters = {}
  /\ unread = [c \in Calls |-> {}]

--------------------------------------------------------------------------------
(* register_backend(), which iterates over and appends to backends_ without a
   mutex: the application calls it while no call of refresh_async() runs. *)

RegisterBackend(b) ==
  /\ b \notin backends_
  /\ \A c \in Calls : stage[c] \in {"unmade", "returned"}
  /\ backends_' = backends_ \cup {b}
  /\ UNCHANGED <<pending, callVars, workerVars, calledBack, resolved, history>>

--------------------------------------------------------------------------------
(* refresh_async() *)

\* The call is made by x: App, or whoever runs the callback it is made in.
Invoke(c, x) ==
  /\ stage[c] = "unmade"
  /\ stage' = [stage EXCEPT ![c] = "locking"]
  /\ parent' = [parent EXCEPT ![c] = x]
  /\ unread' = [unread EXCEPT ![c] = backends_]
  /\ UNCHANGED <<backends_, pending, todo, workerVars, calledBack, resolved, starters>>

\* A callback that made a call does not go on before the call has returned.
InCall(x) == \E c \in Calls : parent[c] = x /\ stage[c] \in {"locking", "exiting", "posting"}

\* pending_refresh_mutex_ is held across a step only by an early exit.
MutexFree == \A c \in Calls : stage[c] # "exiting"

Call(c) == Invoke(c, App)

\* No backends registered: the callback is run before the mutex is released.
EarlyExit(c) ==
  /\ stage[c] = "locking"
  /\ MutexFree
  /\ backends_ = {}
  /\ stage' = [stage EXCEPT ![c] = "exiting"]
  /\ calledBack' = calledBack \cup {c}
  /\ UNCHANGED <<backends_, pending, parent, todo, workerVars, resolved, history>>

EarlyExitCallbackCalls(c, d) ==
  /\ stage[c] = "exiting"
  /\ ~InCall(c)
  /\ Invoke(d, c)

\* Mutation: the early return forgets promise.set_value().
Forgotten(c) == resolved
\* promise.set_value() of the early return.
Answered(c) == resolved \cup {c}

EarlyExitReturns(c) ==
  /\ stage[c] = "exiting"
  /\ ~InCall(c)
  /\ stage' = [stage EXCEPT ![c] = "returned"]
  /\ resolved' = Answered(c)
  /\ UNCHANGED <<backends_, pending, parent, todo, workerVars, calledBack, history>>

\* Mutation: a new refresh waits for one backend less than it asks.
AllButOne == backends_ \ {CHOOSE b \in backends_ : TRUE}
\* The backends a new refresh waits for.
AllBackends == backends_

\* Nothing pending: the call starts a refresh...
StartRefresh(c) ==
  /\ stage[c] = "locking"
  /\ MutexFree
  /\ backends_ # {}
  /\ pending = None
  /\ pending' = [backends |-> AllBackends, calls |-> <<c>>]
  /\ stage' = [stage EXCEPT ![c] = "posting"]
  /\ todo' = [todo EXCEPT ![c] = backends_]
  /\ starters' = starters \cup {c}
  /\ UNCHANGED <<backends_, parent, workerVars, calledBack, resolved, unread>>

\* Mutation: a call that joins requests the refresh again.
RequestsAgain == backends_
\* What a call that joins a pending refresh has to request.
NothingToRequest == {}

\* ... otherwise it is gathered by the pending one.
JoinRefresh(c) ==
  /\ stage[c] = "locking"
  /\ MutexFree
  /\ pending # None
  /\ pending' = [backends |-> pending.backends, calls |-> Append(pending.calls, c)]
  /\ todo' = [todo EXCEPT ![c] = NothingToRequest]
  /\ stage' = [stage EXCEPT ![c] = IF todo'[c] = {} THEN "returned" ELSE "posting"]
  /\ UNCHANGED <<backends_, parent, workerVars, calledBack, resolved, history>>

\* One turn of the loop over backends_, outside the mutex.
RequestRefresh(c, b) ==
  /\ stage[c] = "posting"
  /\ b \in todo[c]
  /\ queue' = [queue EXCEPT ![b] = Append(@, c)]
  /\ todo' = [todo EXCEPT ![c] = @ \ {b}]
  /\ stage' = [stage EXCEPT ![c] = IF todo'[c] = {} THEN "returned" ELSE "posting"]
  /\ UNCHANGED <<backends_, pending, parent, wpc, job, callbacks, promises, calledBack, resolved, history>>

--------------------------------------------------------------------------------
(* The worker thread of a backend *)

TakeRequest(b) ==
  /\ wpc[b] = "idle"
  /\ queue[b] # <<>>
  /\ job' = [job EXCEPT ![b] = Head(queue[b])]
  /\ queue' = [queue EXCEPT ![b] = Tail(@)]
  /\ wpc' = [wpc EXCEPT ![b] = "handle"]
  /\ UNCHANGED <<backends_, pending, callVars, callbacks, promises, calledBack, resolved, history>>

\* handle_refresh() has read the devices and pushed the event.
HandleRefresh(b) ==
  /\ wpc[b] = "handle"
  /\ wpc' = [wpc EXCEPT ![b] = "ack"]
  /\ unread' = [c \in Calls |-> unread[c] \ {b}]
  /\ UNCHANGED <<backends_, pending, callVars, queue, job, callbacks, promises, calledBack, resolved, starters>>

\* Who has still to acknowledge after b.
StillPending(b) == pending.backends \ {b}

\* acknowledge_backend(): not the last one, or nothing is pending.
Acknowledge(b) ==
  /\ wpc[b] = "ack"
  /\ MutexFree
  /\ pending # None => StillPending(b) # {}
  /\ pending' = IF pending = None THEN None
                ELSE [backends |-> StillPending(b), calls |-> pending.calls]
  /\ wpc' = [wpc EXCEPT ![b] = "idle"]
  /\ job' = [job EXCEPT ![b] = None]
  /\ UNCHANGED <<backends_, callVars, queue, callbacks, promises, calledBack, resolved, history>>

\* Mutation: the completed refresh stays in the active slot.
SlotKept == pending
\* std::move clears the active slot before calling out.
SlotCleared == None

\* acknowledge_backend(): the last one takes the refresh and completes it.
AcknowledgeLast(b) ==
  /\ wpc[b] = "ack"
  /\ MutexFree
  /\ pending # None
  /\ StillPending(b) = {}
  /\ pending' = SlotCleared
  /\ callbacks' = [callbacks EXCEPT ![b] = pending.calls]
  /\ promises' = [promises EXCEPT ![b] = ToSet(pending.calls)]
  /\ wpc' = [wpc EXCEPT ![b] = "complete"]
  /\ job' = [job EXCEPT ![b] = None]
  /\ UNCHANGED <<backends_, callVars, queue, calledBack, resolved, history>>

\* complete(): the next callback begins; a call made without one has a callback
\* that does nothing.
CallBack(b) ==
  /\ wpc[b] = "complete"
  /\ callbacks[b] # <<>>
  /\ calledBack' = calledBack \cup {Head(callbacks[b])}
  /\ callbacks' = [callbacks EXCEPT ![b] = Tail(@)]
  /\ wpc' = [wpc EXCEPT ![b] = "callback"]
  /\ UNCHANGED <<backends_, pending, callVars, queue, job, promises, resolved, history>>

CallbackCalls(b, c) ==
  /\ wpc[b] = "callback"
  /\ ~InCall(b)
  /\ Invoke(c, b)

CallbackReturns(b) ==
  /\ wpc[b] = "callback"
  /\ ~InCall(b)
  /\ wpc' = [wpc EXCEPT ![b] = "complete"]
  /\ UNCHANGED <<backends_, pending, callVars, queue, job, callbacks, promises, calledBack, resolved, history>>

\* complete() resolves the futures when all callbacks have returned.
CallbacksDone(b) == callbacks[b] = <<>>

\* complete(): the loop over the promises, which no other step interferes with.
ResolvePromises(b) ==
  /\ wpc[b] = "complete"
  /\ CallbacksDone(b)
  /\ resolved' = resolved \cup promises[b]
  /\ promises' = [promises EXCEPT ![b] = {}]
  /\ wpc' = [wpc EXCEPT ![b] = "idle"]
  /\ UNCHANGED <<backends_, pending, callVars, queue, job, callbacks, calledBack, history>>

WorkerThread(b) ==
  \/ TakeRequest(b) \/ HandleRefresh(b) \/ Acknowledge(b) \/ AcknowledgeLast(b)
  \/ CallBack(b) \/ CallbackReturns(b) \/ ResolvePromises(b)

\* A call that was made is carried on by its thread.
CallingThread(c) ==
  \/ EarlyExit(c) \/ EarlyExitReturns(c) \/ StartRefresh(c) \/ JoinRefresh(c)
  \/ \E b \in Backends : RequestRefresh(c, b)

\* Every call has been made and answered.
AllAnswered == resolved = Calls /\ UNCHANGED vars

Next ==
  \/ \E c \in Calls : Call(c) \/ CallingThread(c)
  \/ \E c, d \in Calls : EarlyExitCallbackCalls(c, d)
  \/ \E b \in Backends : RegisterBackend(b) \/ WorkerThread(b) \/ \E c \in Calls : CallbackCalls(b, c)
  \/ AllAnswered

\* Threads run and handle_refresh() returns; nobody is obliged to call.
Fairness ==
  /\ \A b \in Backends : WF_vars(WorkerThread(b))
  /\ \A c \in Calls : WF_vars(CallingThread(c))

Spec == Init /\ [][Next]_vars /\ Fairness
--------------------------------------------------------------------------------
(* Properties *)

\* An acknowledgement counts for the refresh that asked for it and is missing
\* from it, although it names only the backend's type: no late or second one
\* can complete a later refresh (audio_device_manager.hpp:189-193, 217-225).
AcksAreNotConfused ==
  \A b \in Backends : wpc[b] = "ack" =>
    pending # None /\ b \in pending.backends /\ job[b] = pending.calls[1]

\* A call that started a refresh gets what it asked for: when its future is
\* ready, every backend registered then has read its devices after the call was made
\* (audio_device_manager.hpp:154-158).  A call that joins gets what is pending.
StarterIsFresh == \A c \in starters \cap resolved : unread[c] = {}

\* A callback is run once: one that has been entered is in no list of callbacks
\* to run, pending or being completed (audio_device_manager.hpp:203-227).
CallbacksRunOnce ==
  \A c \in calledBack :
    /\ pending # None => c \notin ToSet(pending.calls)
    /\ \A b \in Backends : c \notin ToSet(callbacks[b])

\* A callback that runs under pending_refresh_mutex_ has called refresh_async().
Reentered == \E c, d \in Calls : parent[d] = c
================================================================================
