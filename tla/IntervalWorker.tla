----------------------------- MODULE IntervalWorker -----------------------------
(***************************************************************************)
(* class IntervalWorker of async.hpp: a thread that calls a callback every *)
(* interval until stop(), and that can be started again afterwards.        *)
(*                                                                         *)
(* The thread holds mutex_ except inside wait_for and inside the callback, *)
(* so what it does between those two is one action.  Time is discrete:     *)
(* Tick lets one unit pass; `waited` saturates at the interval because a   *)
(* thread that wakes up late behaves as one that is on time.               *)
(***************************************************************************)
EXTENDS Integers

CONSTANTS
  MaxInterval,       \* bound: start() is called with -1..MaxInterval
  MaxStarts          \* bound: start() starts a thread at most this often

ASSUME BoundsAssumption == MaxInterval \in Nat /\ MaxStarts \in Nat

VARIABLES
  joinable,          \* thread_.joinable()
  stop_,
  interval,          \* captured by the lambda of the thread in thread_
  tpc,               \* that thread: none, check, wait, callback, exited
  waited,            \* time it has spent in the present wait_for
  opc,               \* the owner inside stop(): idle, notify, join
  starts             \* history: threads started

intervalVars == <<joinable, stop_, interval, tpc, waited, opc, starts>>

IntervalTypeOK ==
  /\ joinable \in BOOLEAN
  /\ stop_ \in BOOLEAN
  /\ interval \in 0..MaxInterval
  /\ tpc \in {"none", "check", "wait", "callback", "exited"}
  /\ waited \in 0..interval
  /\ opc \in {"idle", "notify", "join"}
  /\ starts \in 0..MaxStarts

IntervalInit ==
  /\ joinable = FALSE
  /\ stop_ = FALSE
  /\ interval = 0
  /\ tpc = "none"
  /\ waited = 0
  /\ opc = "idle"
  /\ starts = 0

\* Mutation: start() leaves stop_ as the last stop() set it.
KeptStop == stop_
\* What start() stores in stop_.
InitialStop == FALSE

\* The intervals start() accepts.
Positive(ms) == ms > 0

\* start(): does nothing while a thread is there or for an interval that is
\* not positive.
Start(ms) ==
  /\ opc = "idle"
  /\ ~joinable
  /\ Positive(ms)
  /\ starts < MaxStarts
  /\ joinable' = TRUE
  /\ stop_' = InitialStop
  /\ interval' = ms
  /\ tpc' = "check"
  /\ waited' = 0
  /\ starts' = starts + 1
  /\ UNCHANGED opc

\* stop(): returns unless thread_ is joinable; the section under mutex_.
Stop ==
  /\ opc = "idle"
  /\ joinable
  /\ stop_' = TRUE
  /\ opc' = "notify"
  /\ UNCHANGED <<joinable, interval, tpc, waited, starts>>

\* Mutation: stop() forgets to notify cv_.
StillAsleep == tpc
\* notify_all() sends a waiting thread back to its predicate.
Woken == IF tpc = "wait" THEN "check" ELSE tpc

NotifyAll ==
  /\ opc = "notify"
  /\ opc' = "join"
  /\ tpc' = Woken
  /\ UNCHANGED <<joinable, stop_, interval, waited, starts>>

\* Mutation: stop() detaches the thread where it should join it.
JoinsAnything == TRUE
\* What join() waits for.
ThreadExited == tpc = "exited"

Join ==
  /\ opc = "join"
  /\ ThreadExited
  /\ joinable' = FALSE
  /\ tpc' = IF tpc = "exited" THEN "none" ELSE tpc
  /\ opc' = "idle"
  /\ UNCHANGED <<stop_, interval, waited, starts>>

\* wait_for() looks at its predicate before it sleeps and after a wake-up.
CheckStop ==
  /\ tpc = "check"
  /\ tpc' = IF stop_ THEN "exited" ELSE "wait"
  /\ UNCHANGED <<joinable, stop_, interval, waited, opc, starts>>

\* The deadline is set when wait_for() is entered and runs from there.
Tick ==
  /\ tpc \in {"check", "wait"}
  /\ waited < interval
  /\ waited' = waited + 1
  /\ UNCHANGED <<joinable, stop_, interval, tpc, opc, starts>>

\* A timed-out wait_for() returns its predicate: TRUE ends the loop.
AfterTimeout == IF stop_ THEN "exited" ELSE "callback"

TimedOut ==
  /\ tpc = "wait"
  /\ waited = interval
  /\ tpc' = AfterTimeout
  /\ waited' = 0
  /\ UNCHANGED <<joinable, stop_, interval, opc, starts>>

\* A wake-up without a notification keeps the deadline; after the deadline every
\* wake-up is a timeout.
SpuriousWakeup ==
  /\ tpc = "wait"
  /\ waited < interval
  /\ tpc' = "check"
  /\ UNCHANGED <<joinable, stop_, interval, waited, opc, starts>>

\* The callback returns, the mutex is taken again and a new wait begins.
CallbackReturns ==
  /\ tpc = "callback"
  /\ tpc' = "check"
  /\ UNCHANGED <<joinable, stop_, interval, waited, opc, starts>>

Thread == CheckStop \/ TimedOut \/ CallbackReturns
Owner  == NotifyAll \/ Join

\* The owner has used up its starts and keeps no thread.
Quiet == starts = MaxStarts /\ ~joinable /\ UNCHANGED intervalVars

IntervalNext ==
  \/ Thread
  \/ Tick
  \/ SpuriousWakeup
  \/ Owner
  \/ Stop
  \/ \E ms \in -1..MaxInterval : Start(ms)
  \/ Quiet

\* Threads run and the callback returns.  The clock is not in IntervalFairness:
\* stop() must not depend on it.  What the interval promises assumes TimePasses.
IntervalFairness == WF_intervalVars(Thread) /\ WF_intervalVars(Owner)
TimePasses       == WF_intervalVars(Tick)

IntervalSpec == IntervalInit /\ [][IntervalNext]_intervalVars /\ IntervalFairness
--------------------------------------------------------------------------------
(* Properties *)

\* Once stop() has returned no callback is running and none starts until the
\* next start(): the destructors rely on it (audio_backend.hpp:107-112).
QuietAfterStop == ~joinable => tpc = "none"

\* stop() returns, and without waiting for the interval to elapse: no sleep
\* swallows it, and the clock has no fairness (async.hpp:83-91 notifies after it
\* has released the mutex).
StopReturns == opc # "idle" ~> opc = "idle"

\* As time passes a started thread calls back again and again, the ones that are
\* started after a stop() as well, until it is stopped (async.hpp:61-62
\* "periodically invokes a callback [...] Can be started and stopped at will").
KeepsCallingBack == TimePasses => (tpc = "check" ~> tpc = "callback" \/ opc # "idle")
================================================================================
