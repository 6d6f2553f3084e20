---------------------------- MODULE NotifyScheduler ----------------------------
(***************************************************************************)
(* The scheduler thread of AudioDeviceManager: changes that the backends   *)
(* report are gathered in scheduler_pending_ and passed on to the          *)
(* subscribers at most once per notify_rate_limit_.                        *)
(*                                                                         *)
(* Every section under scheduler_mutex_ or subscribers_mutex_ is one       *)
(* action.  The thread sleeps in two places: in wait() for a change and in *)
(* wait_for() for the rest of the rate limit.  Time is discrete and counts *)
(* up to RateLimit, past which nothing depends on it.                      *)
(***************************************************************************)
EXTENDS Integers

CONSTANTS
  Sources,           \* backend threads that run on_backend_event()
  Subscriptions,     \* ids given out by subscribe()
  RateLimit,         \* notify_rate_limit_, in ticks
  Nobody             \* no callback is running

ASSUME RateLimitAssumption == RateLimit \in Nat
ASSUME NobodyAssumption == Nobody \notin Subscriptions

VARIABLES
  life,              \* of the manager: alive, detached, stopping, joining, destroyed
  scheduler_pending_, scheduler_stop_,
  since,             \* now - last_notify_
  spc,               \* scheduler thread: check, wait, wait_for, copy, call, returned
  reporting,         \* sources between the change and its schedule_notify()
  subscribers_,      \* registered subscriptions
  ids,               \* subscriptions not given out yet
  copied,            \* callbacks copied by notify_subscribers() and not called yet
  calling,           \* the subscription whose callback is running
  unaware,           \* history: registered and not called since a change
  quiet              \* history: time since the last round of callbacks began

schedulerVars == <<scheduler_pending_, scheduler_stop_, since, spc>>
subscriberVars == <<subscribers_, ids>>
roundVars == <<copied, calling>>
vars == <<life, schedulerVars, reporting, subscriberVars, roundVars, unaware, quiet>>

TypeOK ==
  /\ life \in {"alive", "detached", "stopping", "joining", "destroyed"}
  /\ scheduler_pending_ \in BOOLEAN
  /\ scheduler_stop_ \in BOOLEAN
  /\ since \in 0..RateLimit
  /\ spc \in {"check", "wait", "wait_for", "copy", "call", "returned"}
  /\ reporting \subseteq Sources
  /\ subscribers_ \subseteq Subscriptions
  /\ ids \subseteq Subscriptions \ subscribers_
  /\ copied \subseteq Subscriptions \ ids
  /\ calling \in (Subscriptions \ ids) \cup {Nobody}
  /\ calling # Nobody => spc = "call"
  /\ unaware \subseteq Subscriptions \ ids
  /\ quiet \in 0..RateLimit

\* last_notify_ is the epoch of the clock, long ago.
Init ==
  /\ life = "alive"
  /\ scheduler_pending_ = FALSE
  /\ scheduler_stop_ = FALSE
  /\ since = RateLimit
  /\ spc = "check"
  /\ reporting = {}
  /\ subscribers_ = {}
  /\ ids = Subscriptions
  /\ copied = {}
  /\ calling = Nobody
  /\ unaware = {}
  /\ quiet = RateLimit

--------------------------------------------------------------------------------
(* Subscribers *)

Subscribe(s) ==
  /\ life = "alive"
  /\ s \in ids
  /\ ids' = ids \ {s}
  /\ subscribers_' = subscribers_ \cup {s}
  /\ UNCHANGED <<life, schedulerVars, reporting, roundVars, unaware, quiet>>

\* unsubscribe(), or the destruction of the Subscription handle; the id is not given
\* out again, as next_subscription_id_ only grows.
Unsubscribe(s) ==
  /\ life = "alive"
  /\ s \in subscribers_
  /\ subscribers_' = subscribers_ \ {s}
  /\ UNCHANGED <<ids, life, schedulerVars, reporting, roundVars, unaware, quiet>>

--------------------------------------------------------------------------------
(* Backend threads *)

\* on_backend_event() has changed devices_, and released devices_mutex_.
Change(b) ==
  /\ life = "alive"
  /\ b \notin reporting
  /\ reporting' = reporting \cup {b}
  /\ unaware' = unaware \cup subscribers_
  /\ UNCHANGED <<life, schedulerVars, subscriberVars, roundVars, quiet>>

\* Mutation: schedule_notify() forgets to notify.
StillAsleep == spc
\* notify_one() ends wait(); in wait_for() the predicate looks at the stop only.
Notified == IF spc = "wait" THEN "check" ELSE spc

\* schedule_notify().
ScheduleNotify(b) ==
  /\ b \in reporting
  /\ reporting' = reporting \ {b}
  /\ scheduler_pending_' = TRUE
  /\ spc' = IF scheduler_pending_ THEN spc ELSE Notified
  /\ UNCHANGED <<life, scheduler_stop_, since, subscriberVars, roundVars, unaware, quiet>>

--------------------------------------------------------------------------------
(* The scheduler thread *)

WaitForChange ==
  /\ spc = "check"
  /\ ~scheduler_stop_ /\ ~scheduler_pending_
  /\ spc' = "wait"
  /\ UNCHANGED <<life, scheduler_pending_, scheduler_stop_, since, reporting,
                 subscriberVars, roundVars, unaware, quiet>>

\* Mutation: last_notify_ is left as it is.
LastNotifyKept == since
\* last_notify_ = now.
LastNotifyIsNow == 0

\* The rate limit has elapsed: a round of callbacks begins.
StartRound ==
  /\ spc = "check"
  /\ ~scheduler_stop_ /\ scheduler_pending_
  /\ since = RateLimit
  /\ scheduler_pending_' = FALSE
  /\ since' = LastNotifyIsNow
  /\ quiet' = 0
  /\ spc' = "copy"
  /\ UNCHANGED <<life, scheduler_stop_, reporting, subscriberVars, roundVars, unaware>>

WaitForLimit ==
  /\ spc = "check"
  /\ ~scheduler_stop_ /\ scheduler_pending_
  /\ since < RateLimit
  /\ spc' = "wait_for"
  /\ UNCHANGED <<life, scheduler_pending_, scheduler_stop_, since, reporting,
                 subscriberVars, roundVars, unaware, quiet>>

LimitElapsed ==
  /\ spc = "wait_for"
  /\ since = RateLimit
  /\ spc' = "check"
  /\ UNCHANGED <<life, scheduler_pending_, scheduler_stop_, since, reporting,
                 subscriberVars, roundVars, unaware, quiet>>

\* notify_subscribers(): the section under subscribers_mutex_.
CopyCallbacks ==
  /\ spc = "copy"
  /\ copied' = subscribers_
  /\ spc' = "call"
  /\ UNCHANGED <<life, scheduler_pending_, scheduler_stop_, since, reporting,
                 subscriberVars, calling, unaware, quiet>>

\* notify_subscribers(): one of the copied callbacks is called, in any order.
Call(s) ==
  /\ spc = "call"
  /\ calling = Nobody
  /\ s \in copied
  /\ copied' = copied \ {s}
  /\ calling' = s
  /\ unaware' = unaware \ {s}
  /\ UNCHANGED <<life, schedulerVars, reporting, subscriberVars, quiet>>

CallbackReturns ==
  /\ calling # Nobody
  /\ calling' = Nobody
  /\ UNCHANGED <<life, schedulerVars, reporting, subscriberVars, copied, unaware, quiet>>

\* Mutation: scheduler_pending_ is cleared when the callbacks have returned.
ClearedAfterRound == FALSE
\* What a round that ends does to scheduler_pending_: it was cleared before.
PendingAfterRound == scheduler_pending_

EndRound ==
  /\ spc = "call"
  /\ calling = Nobody
  /\ copied = {}
  /\ spc' = "check"
  /\ scheduler_pending_' = PendingAfterRound
  /\ UNCHANGED <<life, scheduler_stop_, since, reporting, subscriberVars, roundVars,
                 unaware, quiet>>

\* scheduler_run() returns.
Return ==
  /\ spc = "check"
  /\ scheduler_stop_
  /\ spc' = "returned"
  /\ UNCHANGED <<life, scheduler_pending_, scheduler_stop_, since, reporting,
                 subscriberVars, roundVars, unaware, quiet>>

SpuriousWakeup ==
  /\ spc = "wait"
  /\ spc' = "check"
  /\ UNCHANGED <<life, scheduler_pending_, scheduler_stop_, since, reporting,
                 subscriberVars, roundVars, unaware, quiet>>

Later(t) == IF t < RateLimit THEN t + 1 ELSE t

Tick ==
  /\ since' = Later(since)
  /\ quiet' = Later(quiet)
  /\ UNCHANGED <<life, scheduler_pending_, scheduler_stop_, spc, reporting,
                 subscriberVars, roundVars, unaware>>

--------------------------------------------------------------------------------
(* ~AudioDeviceManager() *)

\* unsubscribe() of every backend returns when no event of it is being handled
\* (NoDeliveryOnceUnsubscribed of AudioBackend).
DetachBackends ==
  /\ life = "alive"
  /\ reporting = {}
  /\ life' = "detached"
  /\ UNCHANGED <<schedulerVars, reporting, subscriberVars, roundVars, unaware, quiet>>

Stop ==
  /\ life = "detached"
  /\ life' = "stopping"
  /\ scheduler_stop_' = TRUE
  /\ UNCHANGED <<scheduler_pending_, since, spc, reporting, subscriberVars, roundVars,
                 unaware, quiet>>

\* Mutation: the wait for the rate limit does not look at scheduler_stop_.
WokenFromWait == Notified
\* notify_all() ends both waits, as the predicate of each is true now.
Woken == IF spc \in {"wait", "wait_for"} THEN "check" ELSE spc

NotifyAll ==
  /\ life = "stopping"
  /\ life' = "joining"
  /\ spc' = Woken
  /\ UNCHANGED <<scheduler_pending_, scheduler_stop_, since, reporting, subscriberVars,
                 roundVars, unaware, quiet>>

Join ==
  /\ life = "joining"
  /\ spc = "returned"
  /\ life' = "destroyed"
  /\ UNCHANGED <<schedulerVars, reporting, subscriberVars, roundVars, unaware, quiet>>

\* The one state in which the system may stop.
Destroyed == life = "destroyed" /\ UNCHANGED vars

SchedulerThread ==
  \/ WaitForChange \/ StartRound \/ WaitForLimit \/ LimitElapsed
  \/ CopyCallbacks \/ (\E s \in Subscriptions : Call(s)) \/ CallbackReturns \/ EndRound
  \/ Return
OwnerThread == Stop \/ NotifyAll \/ Join

Next ==
  \/ SchedulerThread
  \/ SpuriousWakeup
  \/ OwnerThread
  \/ DetachBackends
  \/ \E b \in Sources : Change(b) \/ ScheduleNotify(b)
  \/ \E s \in Subscriptions : Subscribe(s) \/ Unsubscribe(s)
  \/ Tick
  \/ Destroyed

\* Threads run and callbacks return.  The destructor must not depend on the
\* clock, so its fairness is only an assumption of EveryChangeIsNotified.
Fairness ==
  /\ WF_vars(SchedulerThread)
  /\ WF_vars(OwnerThread)
  /\ \A b \in Sources : WF_vars(ScheduleNotify(b))

TimePasses == WF_vars(Tick)

Spec == Init /\ [][Next]_vars /\ Fairness
--------------------------------------------------------------------------------
(* Properties *)

\* Two rounds of callbacks begin at least notify_rate_limit_ apart, however the
\* changes arrive and however long the callbacks take
\* (audio_device_manager.hpp:270-283).
RoundsAreSpaced == [][spc = "check" /\ spc' = "copy" => quiet = RateLimit]_vars

\* A change a registered subscriber has not been called for is never forgotten: a
\* backend is about to call schedule_notify(), it is pending, or a round has still to
\* copy or to call that subscriber.  And the thread does not sleep on it, nor on a
\* stop whose notify_all() has been called (audio_device_manager.hpp:256-262, 267-282).
NoChangeIsForgotten ==
  /\ \A s \in unaware \cap subscribers_ :
       reporting # {} \/ scheduler_pending_ \/ spc = "copy" \/ s \in copied
  /\ spc = "wait" => ~scheduler_pending_
  /\ spc \in {"wait", "wait_for"} /\ scheduler_stop_ => life = "stopping"

\* As time passes every subscriber registered at a change is called after it, so
\* that no change goes unnoticed, unless it unsubscribes or the manager is
\* destroyed (audio_device_manager.hpp:132 "invoked whenever the audio device
\* state changes").
EveryChangeIsNotified ==
  TimePasses => \A s \in Subscriptions :
    s \in unaware ~> s \notin unaware \/ s \notin subscribers_ \/ life # "alive"

\* The destructor returns without waiting for the rate limit to elapse.
DestructorReturns == life = "detached" ~> life = "destroyed"
================================================================================
