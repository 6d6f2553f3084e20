------------------------------ MODULE AsyncWorker ------------------------------
(***************************************************************************)
(* class AsyncWorker of async.hpp: one thread, a queue_ of tasks guarded   *)
(* by mutex_, the condition variable cv_ and the flag stop_.               *)
(*                                                                         *)
(* Every section of the code that holds mutex_ is one action; what happens *)
(* outside the mutex (the notify calls, the task itself, the join) is an   *)
(* action of its own.  cv_ has a single waiter, the worker thread, so its  *)
(* wait set is the program counter value "wait".                           *)
(*                                                                         *)
(* Member order matters: thread_ is declared before stop_, so the thread   *)
(* runs before the constructor stores FALSE in stop_.  Until that store    *)
(* stop_ holds whatever the allocation held: UninitStop is the set of the  *)
(* values this may be ({FALSE}: the memory happened to be zero).           *)
(***************************************************************************)
EXTENDS Sequences

CONSTANTS
  Clients,           \* threads that call post() from outside
  Tasks,             \* the tasks; a task is posted at most once
  UninitStop         \* values of stop_ before its initialiser ran

ASSUME UninitStopAssumption == UninitStop \in (SUBSET BOOLEAN) \ {{}}

VARIABLES
  life,              \* of the object: constructing, alive, stopping, joining, destroyed
  stop_, queue_,
  wpc,               \* worker thread: start, loop, wait, task, end, exited
  running,           \* <<t>> while the worker is inside task t, else <<>>
  notifying,         \* clients between the unlock and the notify_one() of post()
  posted, finished   \* history: tasks posted, tasks that have returned

vars == <<life, stop_, queue_, wpc, running, notifying, posted, finished>>

TypeOK ==
  /\ life \in {"constructing", "alive", "stopping", "joining", "destroyed"}
  /\ stop_ \in BOOLEAN
  /\ queue_ \in Seq(Tasks)
  /\ wpc \in {"start", "loop", "wait", "task", "end", "exited"}
  /\ running = <<>> \/ \E t \in Tasks : running = <<t>>
  /\ notifying \subseteq Clients
  /\ posted \subseteq Tasks
  /\ finished \subseteq posted
  /\ \A i \in DOMAIN queue_ : queue_[i] \in posted \ finished

\* The constructor has started thread_; stop_ is not initialised yet.
Init ==
  /\ life = "constructing"
  /\ stop_ \in UninitStop
  /\ queue_ = <<>>
  /\ wpc = "start"
  /\ running = <<>>
  /\ notifying = {}
  /\ posted = {}
  /\ finished = {}

\* The default member initialiser of stop_ runs, outside mutex_.
ConstructorReturns ==
  /\ life = "constructing"
  /\ life' = "alive"
  /\ stop_' = FALSE
  /\ UNCHANGED <<queue_, wpc, running, notifying, posted, finished>>

\* A notification moves the worker out of cv_.wait, back to its predicate.
Woken == IF wpc = "wait" THEN "loop" ELSE wpc

\* Mutation: post() without its notify_one().
NoNotifier(c) == notifying
\* A client that pushed a task still has its notify_one() to make.
Notifier(c) == notifying \cup {c}

\* post(): the section under mutex_.
Post(c, t) ==
  /\ life = "alive"
  /\ c \notin notifying
  /\ t \notin posted
  /\ queue_' = Append(queue_, t)
  /\ posted' = posted \cup {t}
  /\ notifying' = Notifier(c)
  /\ UNCHANGED <<life, stop_, wpc, running, finished>>

\* post(): notify_one(), after the mutex is released.
NotifyOne(c) ==
  /\ c \in notifying
  /\ notifying' = notifying \ {c}
  /\ wpc' = Woken
  /\ UNCHANGED <<life, stop_, queue_, running, posted, finished>>

\* post() called by the running task itself.  Its notify_one() finds nobody
\* waiting: the only waiter is this thread.
PostFromTask(t) ==
  /\ wpc = "task"
  /\ t \notin posted
  /\ queue_' = Append(queue_, t)
  /\ posted' = posted \cup {t}
  /\ UNCHANGED <<life, stop_, wpc, running, notifying, finished>>

\* Mutation: a wait predicate that looks at the queue only.
WaitsUnlessQueued == queue_ = <<>>
\* The negation of the wait predicate of run().
NothingToDo == ~stop_ /\ queue_ = <<>>

\* Mutation: run() returns on stop_ although tasks are queued.
ReturnsOnStop == stop_
\* The return condition of run().
Drained == stop_ /\ queue_ = <<>>

\* on_thread_start() returns and run() is entered.
OnThreadStart ==
  /\ wpc = "start"
  /\ wpc' = "loop"
  /\ UNCHANGED <<life, stop_, queue_, running, notifying, posted, finished>>

Wait ==
  /\ wpc = "loop"
  /\ NothingToDo
  /\ wpc' = "wait"
  /\ UNCHANGED <<life, stop_, queue_, running, notifying, posted, finished>>

Return ==
  /\ wpc = "loop"
  /\ Drained
  /\ wpc' = "end"
  /\ UNCHANGED <<life, stop_, queue_, running, notifying, posted, finished>>

\* Mutation: the task is copied out of the queue but not popped.
NotPopped == queue_
\* pop().
Popped == Tail(queue_)

Take ==
  /\ wpc = "loop"
  /\ queue_ # <<>>
  /\ wpc' = "task"
  /\ running' = <<Head(queue_)>>
  /\ queue_' = Popped
  /\ UNCHANGED <<life, stop_, notifying, posted, finished>>

TaskReturns ==
  /\ wpc = "task"
  /\ wpc' = "loop"
  /\ finished' = finished \cup {running[1]}
  /\ running' = <<>>
  /\ UNCHANGED <<life, stop_, queue_, notifying, posted>>

\* on_thread_end() returns and the thread exits.
OnThreadEnd ==
  /\ wpc = "end"
  /\ wpc' = "exited"
  /\ UNCHANGED <<life, stop_, queue_, running, notifying, posted, finished>>

\* A wait may return with no notification; nothing may depend on it.
SpuriousWakeup ==
  /\ wpc = "wait"
  /\ wpc' = "loop"
  /\ UNCHANGED <<life, stop_, queue_, running, notifying, posted, finished>>

\* ~AsyncWorker(), called when no call of post() is in progress.
Stop ==
  /\ life = "alive"
  /\ notifying = {}
  /\ life' = "stopping"
  /\ stop_' = TRUE
  /\ UNCHANGED <<queue_, wpc, running, notifying, posted, finished>>

NotifyAll ==
  /\ life = "stopping"
  /\ life' = "joining"
  /\ wpc' = Woken
  /\ UNCHANGED <<stop_, queue_, running, notifying, posted, finished>>

Join ==
  /\ life = "joining"
  /\ wpc = "exited"
  /\ life' = "destroyed"
  /\ UNCHANGED <<stop_, queue_, wpc, running, notifying, posted, finished>>

\* The one state in which the system may stop.
Destroyed == life = "destroyed" /\ UNCHANGED vars

WorkerThread == OnThreadStart \/ Wait \/ Return \/ Take \/ TaskReturns \/ OnThreadEnd
OwnerThread  == ConstructorReturns \/ NotifyAll \/ Join

Next ==
  \/ WorkerThread
  \/ OwnerThread
  \/ Stop
  \/ SpuriousWakeup
  \/ \E c \in Clients : NotifyOne(c) \/ \E t \in Tasks : Post(c, t)
  \/ \E t \in Tasks : PostFromTask(t)
  \/ Destroyed

\* Threads that can run do run and tasks return.  Nothing obliges a client to
\* post, the owner to destroy the worker, or a wait to wake up by itself.
Fairness ==
  /\ WF_vars(WorkerThread)
  /\ WF_vars(OwnerThread)
  /\ \A c \in Clients : WF_vars(NotifyOne(c))

Spec == Init /\ [][Next]_vars /\ Fairness
--------------------------------------------------------------------------------
(* Properties *)

\* No lost wake-up: whenever the worker sleeps although there is a task to run
\* or a request to stop, some thread is about to notify cv_ (async.hpp:32-37,
\* 24-28: both notify after releasing the mutex).
NoLostWakeup ==
  wpc = "wait" /\ (queue_ # <<>> \/ stop_) => notifying # {} \/ life = "stopping"

\* The destructor is a drain: when it returns every task ever posted has run,
\* those posted by other tasks during the shutdown included (async.hpp:47).
DrainedWhenDestroyed == life = "destroyed" => finished = posted

\* Every posted task is eventually run to its end (device.hpp:44-46 lets the
\* caller block on it).
EveryTaskRuns == \A t \in Tasks : t \in posted ~> t \in finished

\* The destructor's join() returns.
DestructorReturns == life = "stopping" ~> life = "destroyed"

\* The worker is a first-in first-out executor.
Queue == INSTANCE TaskQueue WITH backlog <- queue_, running <- running,
                                 open <- wpc \notin {"end", "exited"}
ImplementsTaskQueue == Queue!Spec
================================================================================
