---------------------------- MODULE ManagerLifecycle ----------------------------
(***************************************************************************)
(* The destruction of an AudioDeviceManager while refreshes are pending.   *)
(*                                                                         *)
(* The destructor detaches the backends, stops the scheduler and joins it; *)
(* then the members go in the reverse order of their declaration:          *)
(* pending_refresh and its mutex before backends_, whose workers go on     *)
(* handling requests and acknowledging them until their queues are empty.  *)
(* The scheduler thread may be in a round of notifications, in which a     *)
(* subscriber calls refresh_async() or waits in refresh().  A step that    *)
(* uses a member that is gone leaves the manager broken, and ends it.      *)
(***************************************************************************)
EXTENDS Refresh

VARIABLES
  phase,             \* alive, joining, draining, destroyed
  spc,               \* scheduler thread: free, call, get
  scall,             \* the call of refresh_async() its subscriber is in
  broken,            \* a member was used after its destruction
  abandoned,         \* calls whose promise went with pending_refresh
  waited             \* history: when the destructor began every call was answered, and
                     \* no subscriber has made another since

refreshVars == vars
managerVars == <<phase, spc, scall, broken, abandoned, waited>>
allVars == <<refreshVars, managerVars>>

ManagerTypeOK ==
  /\ phase \in {"alive", "joining", "draining", "destroyed"}
  /\ spc \in {"free", "call", "get"}
  /\ scall \in Calls \cup {None}
  /\ broken \in BOOLEAN /\ waited \in BOOLEAN
  /\ abandoned \subseteq Calls \ resolved

ManagerInit ==
  /\ Init
  /\ phase = "alive"
  /\ spc = "free" /\ scall = None
  /\ broken = FALSE /\ abandoned = {}
  /\ waited = TRUE

--------------------------------------------------------------------------------
(* What Refresh does, while its members are there *)

MembersThere == phase \notin {"draining", "destroyed"}
Made == {c \in Calls : stage[c] # "unmade"}

\* Calls are alike until they are made, so any will do for the next one.
NextCall == CHOOSE c \in Calls : c \notin Made

\* The program calls and registers; it does neither once it destroys the manager.
Program ==
  /\ phase = "alive"
  /\ (Made # Calls /\ Call(NextCall)) \/ (\E b \in Backends : RegisterBackend(b))
  /\ UNCHANGED managerVars

\* A call is under the mutex or in the loop over backends_.
CallStep(c) == MembersThere /\ CallingThread(c) /\ UNCHANGED managerVars

\* What a worker does with its queue and with the refresh it completes is its own.
WorkerStep(b) ==
  /\ wpc[b] = "ack" => MembersThere
  /\ WorkerThread(b)
  /\ UNCHANGED managerVars

CallbackStep ==
  /\ Made # Calls
  /\ \/ \E b \in Backends : CallbackCalls(b, NextCall)
     \/ \E c \in Calls : EarlyExitCallbackCalls(c, NextCall)
  /\ UNCHANGED managerVars

\* A call or an acknowledgement finds pending_refresh_mutex_ or backends_ gone.
UseAfterDestruction ==
  /\ ~MembersThere
  /\ \/ \E b \in Backends : wpc[b] = "ack"
     \/ \E c \in Calls : stage[c] \in {"locking", "exiting", "posting"}
  /\ broken' = TRUE
  /\ UNCHANGED <<refreshVars, phase, spc, scall, abandoned, waited>>

--------------------------------------------------------------------------------
(* The scheduler thread *)

\* In a round, which has begun before the thread could see the stop, a subscriber
\* calls refresh_async()...
SubscriberCalls ==
  /\ spc = "free" /\ MembersThere
  /\ backends_ # {} /\ Made # Calls
  /\ Call(NextCall)
  /\ spc' = "call" /\ scall' = NextCall
  /\ waited' = (waited /\ phase = "alive")
  /\ UNCHANGED <<phase, broken, abandoned>>

\* ... and waits for the future, which is refresh(), or goes on.
CallReturns ==
  /\ spc = "call" /\ stage[scall] = "returned"
  /\ \/ spc' = "get" /\ UNCHANGED scall
     \/ spc' = "free" /\ scall' = None
  /\ UNCHANGED <<refreshVars, phase, broken, abandoned, waited>>

GetReturns ==
  /\ spc = "get" /\ scall \in resolved
  /\ spc' = "free" /\ scall' = None
  /\ UNCHANGED <<refreshVars, phase, broken, abandoned, waited>>

SchedulerThread == CallReturns \/ GetReturns

--------------------------------------------------------------------------------
(* ~AudioDeviceManager() *)

\* No call of the program is still running; the backends are detached, which a
\* worker that handles a refresh may delay, and the scheduler is told to stop.
Destroy ==
  /\ phase = "alive"
  /\ \A c \in Calls \ {scall} : parent[c] = App => stage[c] \in {"unmade", "returned"}
  /\ phase' = "joining"
  /\ waited' = (Made \subseteq resolved)
  /\ UNCHANGED <<refreshVars, spc, scall, broken, abandoned>>

\* scheduler_thread_.join() returns.
Joined == spc = "free"

\* The members up to backends_ go, and with pending_refresh its promises.
DestroyMembers ==
  /\ phase = "joining"
  /\ Joined
  /\ phase' = "draining"
  /\ abandoned' = IF pending = None THEN {} ELSE ToSet(pending.calls)
  /\ UNCHANGED <<refreshVars, spc, scall, broken, waited>>

\* ~AudioBackend() of each has returned.
DestroyBackends ==
  /\ phase = "draining"
  /\ \A b \in Backends : queue[b] = <<>> /\ wpc[b] = "idle"
  /\ phase' = "destroyed"
  /\ UNCHANGED <<refreshVars, spc, scall, broken, abandoned, waited>>

OwnerThread == DestroyMembers \/ DestroyBackends

--------------------------------------------------------------------------------

Over == broken \/ phase = "destroyed"
Finished == (Over \/ resolved = Calls) /\ UNCHANGED allVars

ManagerNext ==
  \/ /\ ~Over
     /\ \/ Program \/ CallbackStep \/ UseAfterDestruction
        \/ (\E c \in Calls : CallStep(c)) \/ (\E b \in Backends : WorkerStep(b))
        \/ SchedulerThread \/ SubscriberCalls
        \/ Destroy \/ OwnerThread
  \/ Finished

\* The threads of Refresh, the scheduler and the destructor run.
ManagerFairness ==
  /\ \A b \in Backends : WF_allVars(~Over /\ WorkerStep(b))
  /\ \A c \in Calls : WF_allVars(~Over /\ CallStep(c))
  /\ WF_allVars(~Over /\ UseAfterDestruction)
  /\ WF_allVars(~Over /\ SchedulerThread)
  /\ WF_allVars(~Over /\ OwnerThread)

ManagerSpec == ManagerInit /\ [][ManagerNext]_allVars /\ ManagerFairness
--------------------------------------------------------------------------------
(* Properties *)

\* A program that waits for every future before it destroys the manager never has
\* a backend acknowledge to members that are gone, unless a subscriber makes another call
\* while the destructor runs (audio_device_manager.hpp:24-32, 306).
MembersOutliveUse == broken => ~waited

\* The destructor returns whatever is pending, also when it joins a scheduler whose
\* subscriber waits in refresh().
DestructorReturns == phase = "joining" ~> Over

\* Every call is answered, also one made by a callback ("callbacks may themselves
\* call refresh_async", audio_device_manager.hpp:226), except when a callback
\* that the early exit runs under the mutex makes one, which locks it again
\* (audio_device_manager.hpp:163-172), and when pending_refresh is destroyed with its
\* promise, which the future shows, or the manager is broken.
EveryCallIsAnswered == <>[](Made \subseteq resolved \cup abandoned \/ Reentered \/ broken)
================================================================================
