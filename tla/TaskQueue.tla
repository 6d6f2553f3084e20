------------------------------- MODULE TaskQueue -------------------------------
(***************************************************************************)
(* What an AsyncWorker promises to the code that posts tasks to it: a      *)
(* first-in first-out executor.  Tasks are started in the order in which   *)
(* they were submitted, one at a time, none is dropped, and the executor   *)
(* closes only when nothing is left to run.  AsyncWorker is shown to       *)
(* implement this specification; AudioBackend is built on top of it.       *)
(***************************************************************************)
EXTENDS Sequences

CONSTANT Tasks       \* what may be submitted

VARIABLES
  backlog,           \* submitted and not yet started, oldest first
  running,           \* <<t>> while the worker thread is inside t, else <<>>
  open               \* FALSE once the worker thread has left its loop

queueVars == <<backlog, running, open>>

Init ==
  /\ backlog = <<>>
  /\ running = <<>>
  /\ open = TRUE

Submit(t) ==
  /\ open
  /\ backlog' = Append(backlog, t)
  /\ UNCHANGED <<running, open>>

Start ==
  /\ open
  /\ running = <<>>
  /\ backlog # <<>>
  /\ running' = <<Head(backlog)>>
  /\ backlog' = Tail(backlog)
  /\ UNCHANGED open

Finish ==
  /\ running # <<>>
  /\ running' = <<>>
  /\ UNCHANGED <<backlog, open>>

Close ==
  /\ open
  /\ backlog = <<>>
  /\ running = <<>>
  /\ open' = FALSE
  /\ UNCHANGED <<backlog, running>>

Next == (\E t \in Tasks : Submit(t)) \/ Start \/ Finish \/ Close

\* The safety half of the promise, the half AsyncWorkerProofs establishes.
SafeSpec == Init /\ [][Next]_queueVars

\* The whole promise: what is submitted is started, what is started finishes.
Spec == SafeSpec /\ WF_queueVars(Start) /\ WF_queueVars(Finish)
================================================================================
