--------------------------- MODULE AsyncWorkerProofs ---------------------------
(***************************************************************************)
(* What TLAPS proves of AsyncWorker, for any number of clients and tasks.  *)
(*                                                                         *)
(* TypeOK and NoLostWakeup hold whatever the memory of stop_ held.  That   *)
(* the destructor drains the queue, and that the worker is a first-in      *)
(* first-out executor, need UninitStop = {FALSE}: a worker that reads a    *)
(* garbage TRUE leaves its loop and tasks are posted to nobody.            *)
(***************************************************************************)
EXTENDS AsyncWorker, Integers, TLAPS

\* TypeOK says that no queued task has finished; for that to be inductive a task
\* must be in the queue once, and not in it while it runs.
TypeInv ==
  /\ TypeOK
  /\ \A i, j \in DOMAIN queue_ : queue_[i] = queue_[j] => i = j
  /\ \A t \in Tasks :
       running = <<t>> => t \in posted \ finished /\ \A i \in DOMAIN queue_ : queue_[i] # t
  /\ running = <<>> <=> wpc # "task"

\* The constructor, the threads and the destructor keep every variable in its
\* type, and only posted tasks are queued, run and finished (async.hpp:32-53).
THEOREM TypeCorrect == Spec => []TypeInv
<1>1. Init => TypeInv
  BY UninitStopAssumption DEF Init, TypeInv, TypeOK
<1>2. TypeInv /\ [Next]_vars => TypeInv'
  <2> SUFFICES ASSUME TypeInv, [Next]_vars PROVE TypeInv'
    OBVIOUS
  <2> USE DEF TypeInv, TypeOK
  <2>1. CASE WorkerThread
    <3>1. CASE OnThreadStart BY <3>1 DEF OnThreadStart
    <3>2. CASE Wait BY <3>2 DEF Wait
    <3>3. CASE Return BY <3>3 DEF Return
    <3>4. CASE Take
      <4>1. /\ Head(queue_) = queue_[1] /\ 1 \in DOMAIN queue_
            /\ Tail(queue_) \in Seq(Tasks)
            /\ \A i \in DOMAIN Tail(queue_) : /\ i + 1 \in DOMAIN queue_
                                              /\ i + 1 # 1
                                              /\ Tail(queue_)[i] = queue_[i + 1]
        BY <3>4 DEF Take
      <4>2. Head(queue_) \in Tasks /\ Head(queue_) \in posted \ finished
        BY <4>1
      <4>3. \A i \in DOMAIN Tail(queue_) : Tail(queue_)[i] # Head(queue_)
        BY <4>1
      <4>4. \A i, j \in DOMAIN Tail(queue_) : Tail(queue_)[i] = Tail(queue_)[j] => i = j
        BY <4>1
      <4>5. \A i \in DOMAIN Tail(queue_) : Tail(queue_)[i] \in posted \ finished
        BY <4>1
      <4> QED BY <3>4, <4>1, <4>2, <4>3, <4>4, <4>5 DEF Take, Popped
    <3>5. CASE TaskReturns
      <4>1. PICK t \in Tasks : running = <<t>> BY <3>5 DEF TaskReturns
      <4> QED BY <3>5, <4>1 DEF TaskReturns
    <3>6. CASE OnThreadEnd BY <3>6 DEF OnThreadEnd
    <3> QED BY <2>1, <3>1, <3>2, <3>3, <3>4, <3>5, <3>6 DEF WorkerThread
  <2>2. CASE OwnerThread
    BY <2>2 DEF OwnerThread, ConstructorReturns, NotifyAll, Join, Woken
  <2>3. CASE Stop BY <2>3 DEF Stop
  <2>4. CASE SpuriousWakeup BY <2>4 DEF SpuriousWakeup
  <2>5. ASSUME NEW c \in Clients, NotifyOne(c) PROVE TypeInv'
    BY <2>5 DEF NotifyOne, Woken
  <2>6. ASSUME NEW c \in Clients, NEW t \in Tasks, Post(c, t) PROVE TypeInv'
    BY <2>6 DEF Post, Notifier
  <2>7. ASSUME NEW t \in Tasks, PostFromTask(t) PROVE TypeInv'
    BY <2>7 DEF PostFromTask
  <2>8. CASE Destroyed \/ UNCHANGED vars BY <2>8 DEF Destroyed, vars
  <2> QED BY <2>1, <2>2, <2>3, <2>4, <2>5, <2>6, <2>7, <2>8 DEF Next
<1> QED BY <1>1, <1>2, PTL DEF Spec

\* TypeOK, the type invariant the runs check, for every value of the constants.
THEOREM TypeSafe == Spec => []TypeOK
<1>1. TypeInv => TypeOK BY DEF TypeInv
<1> QED BY <1>1, TypeCorrect, PTL

\* No wake-up is lost, whatever stop_ held before its initialiser ran: the
\* worker never sleeps on a non-empty queue or on a request to stop unless a
\* notification is on its way (async.hpp:32-37, 24-28, 46).
THEOREM WakeupsAreNotLost == Spec => []NoLostWakeup
<1>1. Init => NoLostWakeup
  BY DEF Init, NoLostWakeup
<1>2. TypeInv /\ NoLostWakeup /\ [Next]_vars => NoLostWakeup'
  <2> SUFFICES ASSUME TypeInv, NoLostWakeup, [Next]_vars PROVE NoLostWakeup'
    OBVIOUS
  <2> USE DEF NoLostWakeup
  <2>1. CASE WorkerThread
    BY <2>1 DEF WorkerThread, OnThreadStart, Wait, NothingToDo, Return, Take,
                TaskReturns, OnThreadEnd
  <2>2. CASE OwnerThread
    BY <2>2 DEF OwnerThread, ConstructorReturns, NotifyAll, Join, Woken
  <2>3. CASE Stop \/ SpuriousWakeup BY <2>3 DEF Stop, SpuriousWakeup
  <2>4. ASSUME NEW c \in Clients, NotifyOne(c) PROVE NoLostWakeup'
    BY <2>4 DEF NotifyOne, Woken
  <2>5. ASSUME NEW c \in Clients, NEW t \in Tasks, Post(c, t) PROVE NoLostWakeup'
    BY <2>5 DEF Post, Notifier
  <2>6. ASSUME NEW t \in Tasks, PostFromTask(t) PROVE NoLostWakeup'
    BY <2>6 DEF PostFromTask
  <2>7. CASE Destroyed \/ UNCHANGED vars BY <2>7 DEF Destroyed, vars
  <2> QED BY <2>1, <2>2, <2>3, <2>4, <2>5, <2>6, <2>7 DEF Next
<1> QED BY <1>1, <1>2, TypeCorrect, PTL DEF Spec
--------------------------------------------------------------------------------
(* The drain: stop_ starts as FALSE. *)

\* stop_ is raised by the destructor only.
StopMeansDestructor == stop_ <=> life \in {"stopping", "joining", "destroyed"}

\* The thread leaves its loop only on a stop and an empty queue.
LoopLeftDrained == wpc \in {"end", "exited"} => stop_ /\ queue_ = <<>>

\* A posted task is queued, running or finished: none is dropped.
NoTaskDropped ==
  \A t \in posted : \/ t \in finished
                    \/ running = <<t>>
                    \/ \E i \in DOMAIN queue_ : queue_[i] = t

\* The strengthening of DrainedWhenDestroyed.
DrainInv ==
  /\ StopMeansDestructor
  /\ LoopLeftDrained
  /\ NoTaskDropped
  /\ life = "destroyed" => wpc = "exited"

\* While the worker can still be posted to, and while a task runs, its loop
\* has not been left: what is appended then is taken.
LEMMA PostedIsQueued ==
  ASSUME TypeInv, NoTaskDropped, NEW t \in Tasks,
         queue_' = Append(queue_, t), posted' = posted \cup {t},
         running' = running, finished' = finished
  PROVE  NoTaskDropped'
<1> USE DEF TypeInv, TypeOK
<1>1. /\ Len(queue_') = Len(queue_) + 1
      /\ queue_'[Len(queue_) + 1] = t
      /\ \A i \in DOMAIN queue_ : i \in DOMAIN queue_' /\ queue_'[i] = queue_[i]
  OBVIOUS
<1>2. \E i \in DOMAIN queue_' : queue_'[i] = t
  BY <1>1
<1> QED BY <1>1, <1>2 DEF NoTaskDropped

\* The inductive step of the drain, one step of the proof per action.
LEMMA DrainInductive ==
  TypeInv /\ DrainInv /\ [Next]_vars => DrainInv'
<1> SUFFICES ASSUME TypeInv, DrainInv, [Next]_vars PROVE DrainInv'
  OBVIOUS
<1> USE DEF DrainInv, StopMeansDestructor, LoopLeftDrained
<1> TypeOK BY DEF TypeInv
<1>1. CASE WorkerThread
  <2>1. CASE OnThreadStart \/ Wait \/ Return \/ OnThreadEnd
    BY <2>1 DEF OnThreadStart, Wait, Return, OnThreadEnd, Drained, NoTaskDropped, TypeOK
  <2>2. CASE Take
    <3>1. queue_ \in Seq(Tasks) /\ queue_ # <<>> /\ running = <<>>
      BY <2>2 DEF Take, TypeInv, TypeOK
    <3>2. \A i \in DOMAIN queue_ : \/ queue_[i] = Head(queue_)
                                   \/ \E j \in DOMAIN Tail(queue_) : Tail(queue_)[j] = queue_[i]
      <4> TAKE i \in DOMAIN queue_
      <4>1. CASE i = 1 BY <3>1, <4>1
      <4>2. CASE i # 1
        <5>1. i - 1 \in DOMAIN Tail(queue_) /\ Tail(queue_)[i - 1] = queue_[i]
          BY <3>1, <4>2
        <5> QED BY <5>1
      <4> QED BY <4>1, <4>2
    <3>3. NoTaskDropped'
      BY <2>2, <3>1, <3>2 DEF Take, Popped, NoTaskDropped
    <3> QED BY <2>2, <3>1, <3>3 DEF Take, Popped, TypeOK
  <2>3. CASE TaskReturns
    <3>1. PICK u \in Tasks : running = <<u>> BY <2>3 DEF TaskReturns, TypeInv, TypeOK
    <3>2. NoTaskDropped' BY <2>3, <3>1 DEF TaskReturns, NoTaskDropped
    <3> QED BY <2>3, <3>2 DEF TaskReturns, TypeOK
  <2> QED BY <1>1, <2>1, <2>2, <2>3 DEF WorkerThread
<1>2. CASE OwnerThread \/ Stop \/ SpuriousWakeup \/ \E c \in Clients : NotifyOne(c)
  BY <1>2 DEF OwnerThread, ConstructorReturns, NotifyAll, Join, Stop, SpuriousWakeup,
              NotifyOne, Woken, NoTaskDropped, TypeOK
<1>3. ASSUME NEW c \in Clients, NEW t \in Tasks, Post(c, t) PROVE DrainInv'
  <2>1. NoTaskDropped' BY <1>3, PostedIsQueued DEF Post
  <2> QED BY <1>3, <2>1 DEF Post, TypeOK
<1>4. ASSUME NEW t \in Tasks, PostFromTask(t) PROVE DrainInv'
  <2>1. NoTaskDropped' BY <1>4, PostedIsQueued DEF PostFromTask
  <2> QED BY <1>4, <2>1 DEF PostFromTask, TypeOK
<1>5. CASE Destroyed \/ UNCHANGED vars
  BY <1>5 DEF Destroyed, vars, NoTaskDropped
<1> QED BY <1>1, <1>2, <1>3, <1>4, <1>5 DEF Next

\* DrainInv is an invariant of a worker whose stop_ starts as FALSE.
LEMMA DrainInvariant ==
  ASSUME UninitStop = {FALSE} PROVE Spec => []DrainInv
<1>1. Init => DrainInv
  BY DEF Init, DrainInv, StopMeansDestructor, LoopLeftDrained, NoTaskDropped
<1> QED BY <1>1, DrainInductive, TypeCorrect, PTL DEF Spec

\* ~AsyncWorker() returns only when every task ever posted has run to its end,
\* those posted during the shutdown by other tasks included (async.hpp:23-30, 47).
THEOREM DestructorDrains ==
  ASSUME UninitStop = {FALSE} PROVE Spec => []DrainedWhenDestroyed
<1>1. TypeInv /\ DrainInv => DrainedWhenDestroyed
  <2> SUFFICES ASSUME TypeInv, DrainInv, life = "destroyed" PROVE finished = posted
    BY DEF DrainedWhenDestroyed
  <2>1. wpc = "exited" /\ queue_ = <<>> /\ running = <<>>
    BY DEF DrainInv, LoopLeftDrained, TypeInv
  <2>2. posted \subseteq finished
    BY <2>1 DEF DrainInv, NoTaskDropped
  <2> QED BY <2>2 DEF TypeInv, TypeOK
<1> QED BY <1>1, TypeCorrect, DrainInvariant, PTL
--------------------------------------------------------------------------------
(* The worker implements TaskQueue. *)

\* A worker whose stop_ starts as FALSE implements the first-in first-out
\* executor of TaskQueue: every step is one of its steps or a stutter.
THEOREM WorkerImplementsQueue ==
  ASSUME UninitStop = {FALSE} PROVE Spec => Queue!SafeSpec
<1>1. Init => Queue!Init
  BY DEF Init, Queue!Init
<1>2. TypeInv /\ DrainInv /\ [Next]_vars => [Queue!Next]_Queue!queueVars
  <2> SUFFICES ASSUME TypeInv, DrainInv, [Next]_vars
               PROVE  Queue!Next \/ UNCHANGED Queue!queueVars
    OBVIOUS
  <2> USE DEF Queue!queueVars
  <2>1. CASE WorkerThread
    <3>1. CASE OnThreadStart \/ Wait \/ OnThreadEnd
      BY <3>1 DEF OnThreadStart, Wait, OnThreadEnd
    <3>2. CASE Return
      <4>1. Queue!Close BY <3>2 DEF Return, Drained, Queue!Close, TypeInv
      <4> QED BY <4>1 DEF Queue!Next
    <3>3. CASE Take
      <4>1. Queue!Start BY <3>3 DEF Take, Popped, Queue!Start, TypeInv
      <4> QED BY <4>1 DEF Queue!Next
    <3>4. CASE TaskReturns
      <4>1. Queue!Finish BY <3>4 DEF TaskReturns, Queue!Finish, TypeInv
      <4> QED BY <4>1 DEF Queue!Next
    <3> QED BY <2>1, <3>1, <3>2, <3>3, <3>4 DEF WorkerThread
  <2>2. CASE OwnerThread \/ Stop \/ SpuriousWakeup \/ \E c \in Clients : NotifyOne(c)
    BY <2>2 DEF OwnerThread, ConstructorReturns, NotifyAll, Join, Stop, SpuriousWakeup,
                NotifyOne, Woken
  <2>3. ASSUME NEW c \in Clients, NEW t \in Tasks, Post(c, t) PROVE Queue!Next
    <3>1. wpc \notin {"end", "exited"}
      BY <2>3 DEF Post, DrainInv, StopMeansDestructor, LoopLeftDrained
    <3>2. Queue!Submit(t) BY <2>3, <3>1 DEF Post, Queue!Submit
    <3> QED BY <3>2 DEF Queue!Next
  <2>4. ASSUME NEW t \in Tasks, PostFromTask(t) PROVE Queue!Next
    <3>1. Queue!Submit(t) BY <2>4 DEF PostFromTask, Queue!Submit
    <3> QED BY <3>1 DEF Queue!Next
  <2>5. CASE Destroyed \/ UNCHANGED vars BY <2>5 DEF Destroyed, vars
  <2> QED BY <2>1, <2>2, <2>3, <2>4, <2>5 DEF Next
<1> QED BY <1>1, <1>2, TypeCorrect, DrainInvariant, PTL DEF Spec, Queue!SafeSpec
================================================================================
