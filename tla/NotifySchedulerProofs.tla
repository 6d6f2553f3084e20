-------------------------- MODULE NotifySchedulerProofs --------------------------
(***************************************************************************)
(* Type correctness of NotifyScheduler, that its rounds of callbacks are   *)
(* spaced, and that no change is forgotten.  The strengthening of the      *)
(* second is that last_notify_ dates the round that began last, in         *)
(* whatever state the thread, the backends and the destructor are; the     *)
(* third is inductive together with the types.                             *)
(***************************************************************************)
EXTENDS NotifyScheduler, TLAPS

LastNotifyDatesTheRound == since = quiet

IInv == TypeOK /\ LastNotifyDatesTheRound

LEMMA Initially == ASSUME Init PROVE IInv
<1>1. 0 \in 0..RateLimit /\ RateLimit \in 0..RateLimit
  BY RateLimitAssumption
<1> QED
  BY <1>1 DEF Init, IInv, TypeOK, LastNotifyDatesTheRound

\* The subscribers come and go.
LEMMA SubscribersKeep ==
  ASSUME IInv, NEW s \in Subscriptions, Subscribe(s) \/ Unsubscribe(s)
  PROVE  IInv'
<1> USE NobodyAssumption
    DEF IInv, TypeOK, LastNotifyDatesTheRound, schedulerVars, roundVars
<1>1. CASE Subscribe(s)
  BY <1>1 DEF Subscribe
<1>2. CASE Unsubscribe(s)
  BY <1>2 DEF Unsubscribe
<1> QED
  BY <1>1, <1>2

LEMMA BackendsKeep ==
  ASSUME IInv, NEW b \in Sources, Change(b) \/ ScheduleNotify(b)
  PROVE  IInv'
<1> USE DEF IInv, TypeOK, LastNotifyDatesTheRound, subscriberVars, roundVars
<1>1. CASE Change(b)
  BY <1>1 DEF Change, schedulerVars
<1>2. CASE ScheduleNotify(b)
  BY <1>2 DEF ScheduleNotify, Notified
<1> QED
  BY <1>1, <1>2

LEMMA SchedulerKeeps == ASSUME IInv, SchedulerThread PROVE IInv'
<1> USE RateLimitAssumption, NobodyAssumption
    DEF IInv, TypeOK, LastNotifyDatesTheRound, schedulerVars, subscriberVars, roundVars
<1>1. CASE WaitForChange
  BY <1>1 DEF WaitForChange
<1>2. CASE StartRound
  <2>1. 0 \in 0..RateLimit
    OBVIOUS
  <2> QED
    BY <1>2, <2>1 DEF StartRound, LastNotifyIsNow
<1>3. CASE WaitForLimit
  BY <1>3 DEF WaitForLimit
<1>4. CASE LimitElapsed
  BY <1>4 DEF LimitElapsed
<1>5. CASE CopyCallbacks
  BY <1>5 DEF CopyCallbacks
<1>6. ASSUME NEW s \in Subscriptions, Call(s) PROVE IInv'
  BY <1>6 DEF Call
<1>7. CASE CallbackReturns
  BY <1>7 DEF CallbackReturns
<1>8. CASE EndRound
  BY <1>8 DEF EndRound, PendingAfterRound
<1>9. CASE Return
  BY <1>9 DEF Return
<1> QED
  BY <1>1, <1>2, <1>3, <1>4, <1>5, <1>6, <1>7, <1>8, <1>9 DEF SchedulerThread

LEMMA OwnerKeeps == ASSUME IInv, OwnerThread \/ DetachBackends PROVE IInv'
<1> USE DEF IInv, TypeOK, LastNotifyDatesTheRound, schedulerVars, subscriberVars, roundVars
<1>1. CASE Stop
  BY <1>1 DEF Stop
<1>2. CASE NotifyAll
  BY <1>2 DEF NotifyAll, Woken
<1>3. CASE Join
  BY <1>3 DEF Join
<1>4. CASE DetachBackends
  BY <1>4 DEF DetachBackends
<1> QED
  BY <1>1, <1>2, <1>3, <1>4 DEF OwnerThread

LEMMA TickKeeps == ASSUME IInv, Tick PROVE IInv'
  BY RateLimitAssumption
  DEF Tick, Later, IInv, TypeOK, LastNotifyDatesTheRound, subscriberVars, roundVars

LEMMA Inductive == ASSUME IInv, [Next]_vars PROVE IInv'
<1>1. CASE UNCHANGED vars \/ Destroyed
  BY <1>1 DEF Destroyed, vars, schedulerVars, subscriberVars, roundVars,
              IInv, TypeOK, LastNotifyDatesTheRound
<1>2. CASE SpuriousWakeup
  BY <1>2 DEF SpuriousWakeup, subscriberVars, roundVars,
              IInv, TypeOK, LastNotifyDatesTheRound
<1> QED
  BY <1>1, <1>2, SubscribersKeep, BackendsKeep, SchedulerKeeps, OwnerKeeps, TickKeeps DEF Next

THEOREM Invariant == Spec => []IInv
<1>1. Init => IInv
  BY Initially
<1>2. IInv /\ [Next]_vars => IInv'
  BY Inductive
<1> QED
  BY <1>1, <1>2, PTL DEF Spec

\* The sets of subscriptions stay apart: an id that is still to be given out has no
\* callback in a round, and a callback runs only within one.
THEOREM TypeCorrect == Spec => []TypeOK
<1>1. IInv => TypeOK
  BY DEF IInv
<1> QED
  BY <1>1, Invariant, PTL

\* Of all the steps only StartRound leads from check to copy.
LEMMA RoundsStartOnce ==
  ASSUME IInv, [Next]_vars, spc = "check", spc' = "copy"
  PROVE  StartRound
<1> USE DEF schedulerVars
<1>1. ~UNCHANGED vars /\ ~Destroyed /\ ~SpuriousWakeup /\ ~Tick /\ ~DetachBackends
  BY DEF vars, Destroyed, SpuriousWakeup, Tick, DetachBackends
<1>2. ~OwnerThread
  BY DEF OwnerThread, Stop, NotifyAll, Join, Woken
<1>3. ~\E b \in Sources : Change(b) \/ ScheduleNotify(b)
  BY DEF Change, ScheduleNotify, Notified
<1>4. ~\E s \in Subscriptions : Subscribe(s) \/ Unsubscribe(s)
  BY DEF Subscribe, Unsubscribe
<1>5. SchedulerThread
  BY <1>1, <1>2, <1>3, <1>4 DEF Next
<1> QED
  BY <1>5 DEF SchedulerThread, WaitForChange, WaitForLimit, LimitElapsed, CopyCallbacks,
              Call, CallbackReturns, EndRound, Return, IInv, TypeOK

\* Two rounds of callbacks begin at least notify_rate_limit_ apart, for any limit and
\* any number of backends and subscribers (audio_device_manager.hpp:270-283).
THEOREM RoundsKeepTheirDistance == Spec => RoundsAreSpaced
<1>1. IInv /\ [Next]_vars => [spc = "check" /\ spc' = "copy" => quiet = RateLimit]_vars
  <2> SUFFICES ASSUME IInv, [Next]_vars, spc = "check", spc' = "copy"
               PROVE  quiet = RateLimit
    OBVIOUS
  <2>1. StartRound
    BY RoundsStartOnce
  <2> QED
    BY <2>1 DEF StartRound, IInv, LastNotifyDatesTheRound
<1> QED
  BY <1>1, Invariant, PTL DEF Spec, RoundsAreSpaced

--------------------------------------------------------------------------------
(* No change is forgotten. *)

LEMMA RoundForgetsNothing ==
  ASSUME IInv, NoChangeIsForgotten, SchedulerThread PROVE NoChangeIsForgotten'
<1> USE DEF NoChangeIsForgotten, schedulerVars, subscriberVars, roundVars
<1>1. CASE WaitForChange
  BY <1>1 DEF WaitForChange
<1>2. CASE StartRound
  BY <1>2 DEF StartRound
<1>3. CASE WaitForLimit \/ LimitElapsed
  BY <1>3 DEF WaitForLimit, LimitElapsed
<1>4. CASE CopyCallbacks
  BY <1>4 DEF CopyCallbacks
<1>5. ASSUME NEW s \in Subscriptions, Call(s) PROVE NoChangeIsForgotten'
  BY <1>5 DEF Call
<1>6. CASE CallbackReturns
  BY <1>6 DEF CallbackReturns
<1>7. CASE EndRound
  BY <1>7 DEF EndRound, PendingAfterRound
<1>8. CASE Return
  BY <1>8 DEF Return
<1> QED
  BY <1>1, <1>2, <1>3, <1>4, <1>5, <1>6, <1>7, <1>8 DEF SchedulerThread

LEMMA OthersForgetNothing ==
  ASSUME IInv, NoChangeIsForgotten, [Next]_vars, ~SchedulerThread PROVE NoChangeIsForgotten'
<1> USE DEF NoChangeIsForgotten, schedulerVars, subscriberVars, roundVars
<1>1. CASE OwnerThread
  <2>1. CASE Stop
    BY <2>1 DEF Stop, IInv, TypeOK
  <2>2. CASE NotifyAll
    BY <2>2 DEF NotifyAll, Woken
  <2>3. CASE Join
    BY <2>3 DEF Join
  <2> QED
    BY <1>1, <2>1, <2>2, <2>3 DEF OwnerThread
<1>2. CASE SpuriousWakeup \/ DetachBackends \/ Tick
  BY <1>2 DEF SpuriousWakeup, DetachBackends, Tick
<1>3. ASSUME NEW b \in Sources, Change(b) PROVE NoChangeIsForgotten'
  BY <1>3 DEF Change
<1>4. ASSUME NEW b \in Sources, ScheduleNotify(b) PROVE NoChangeIsForgotten'
  BY <1>4 DEF ScheduleNotify, Notified
<1>5. ASSUME NEW s \in Subscriptions, Subscribe(s) PROVE NoChangeIsForgotten'
  BY <1>5 DEF Subscribe, IInv, TypeOK
<1>6. ASSUME NEW s \in Subscriptions, Unsubscribe(s) PROVE NoChangeIsForgotten'
  BY <1>6 DEF Unsubscribe
<1>7. CASE Destroyed \/ UNCHANGED vars
  BY <1>7 DEF Destroyed, vars
<1> QED
  BY <1>1, <1>2, <1>3, <1>4, <1>5, <1>6, <1>7 DEF Next

\* For any backends, subscribers and limit: a subscriber that has not been called since
\* a change still has a call ahead of it, and the thread does not sleep on a change or
\* on a stop it will not be woken for (audio_device_manager.hpp:256-262, 267-282).
THEOREM ChangesAreNotForgotten == Spec => []NoChangeIsForgotten
<1>1. Init => NoChangeIsForgotten
  BY DEF Init, NoChangeIsForgotten
<1>2. IInv /\ NoChangeIsForgotten /\ [Next]_vars => NoChangeIsForgotten'
  BY RoundForgetsNothing, OthersForgetNothing
<1> QED
  BY <1>1, <1>2, Invariant, PTL DEF Spec
================================================================================
