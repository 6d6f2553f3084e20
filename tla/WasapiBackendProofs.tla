-------------------------- MODULE WasapiBackendProofs --------------------------
(***************************************************************************)
(* What TLAPS proves of WasapiBackend, for any endpoints, levels and       *)
(* number of events: the types, what is left once the destructor's task    *)
(* has run, that a command that returned Ok is in the next report, and     *)
(* that the report of endpoints that have settled is what they are.        *)
(*                                                                         *)
(* The first of these is about positions in the queue of the worker, the   *)
(* other two about how far a refresh has come: an endpoint is still ahead  *)
(* of it, or it is the one in hand, or it is among the snapshots.          *)
(***************************************************************************)
EXTENDS WasapiBackend, TLAPS

Marks == {"init", "refresh", "release", "drained"}
Tasks == {Job(k) : k \in Marks} \cup Command

WorldOK ==
  /\ active \subseteq Ids
  /\ level \in [Ids -> Levels]
  /\ default \in [ToSet(Flows) -> Ids \cup {None}]
ComOK ==
  /\ owed \subseteq registered /\ registered \subseteq Ids \cup {Endpoints}
  /\ invalid \subseteq volume_subscriptions_ /\ volume_subscriptions_ \subseteq Ids
QueueOK == queue \in Seq(Tasks) /\ signalled \subseteq {"init", "release", "drained"}
FlagsOK == enumerator_ \in BOOLEAN /\ failed \in BOOLEAN /\ late \in BOOLEAN
PlaceOK ==
  /\ events \in 0..MaxEvents
  /\ life \in {"constructing", "alive", "releasing", "base", "destroyed"}
  /\ wpc \in {"idle", "default", "enumerate", "device", "read", "push", "find", "set", "aborted"}
  /\ result \in {"none", "Ok", "DeviceNotFound", "BackendError", "Unsupported"}
  /\ flow \in 1..Len(Flows)
CommandOK ==
  /\ command \in Command \cup {None} /\ roles \in 0..Roles
  /\ promise \in Command \cup {None}
ScanOK ==
  /\ default_id \in Ids \cup {None}
  /\ collection \subseteq Ids /\ device \in Ids \cup {None} /\ snapshots \subseteq Snapshot
  /\ report \in (SUBSET Snapshot) \cup {None}

\* A handler has what it works on.
HandlerInv ==
  /\ wpc \in {"find", "set"} => command \in Command
  /\ wpc = "read" => device \in Ids
  /\ roles < Roles

Positions == 1..Len(queue)
Early     == life \in {"constructing", "alive"}

\* The task of the constructor is the first of all.
InitFirst ==
  \A i \in Positions : queue[i].kind = "init" =>
    i = 1 /\ life = "constructing" /\ "init" \notin signalled

\* The destructor posts its task once, and goes on when it has run.
ReleaseOnce ==
  /\ \A i, j \in Positions : queue[i].kind = "release" /\ queue[j].kind = "release" => i = j
  /\ Early \/ "release" \in signalled => \A i \in Positions : queue[i].kind # "release"
  /\ Early => "release" \notin signalled
  /\ life \in {"base", "destroyed"} => "release" \in signalled

\* Tasks whose handler must find the derived part: commands, and refreshes nobody asked
\* for after the destructor had begun.
Handled(t, lateNow) == t \in Command \/ (t.kind = "refresh" /\ ~lateNow)

HandledFirst ==
  /\ \A i, j \in Positions : queue[i].kind = "release" /\ Handled(queue[j], late) => j < i
  /\ "release" \in signalled => \A j \in Positions : ~Handled(queue[j], late)

QueueInv == InitFirst /\ ReleaseOnce /\ HandledFirst

Scanning == wpc \in {"default", "enumerate", "device", "read", "push"}

\* A refresh works on an enumerator, and no handler is on its way when it is released.
HandlersHoldOn ==
  /\ Scanning => enumerator_
  /\ Scanning \/ wpc \in {"find", "set"} => "release" \notin signalled

HeldInv == NothingHeldOnceReleased /\ HandlersHoldOn /\ OnlyLateNotificationsAbort

\* What the last command set is what the endpoints have, as long as nothing changed.
PromiseIsKept ==
  promise # None =>
    /\ promise.id \in active
    /\ promise.kind = "level" => level[promise.id] = promise.level
    /\ promise.kind = "default" => default[FlowOf(promise.id)] = promise.id

\* The default of its flow, once a refresh has read it, is the one of the command.
HasItsDefault == promise.kind = "default" => default_id = promise.id

\* Where a refresh has its endpoint: in a flow still to come, in this one, or behind.
Ahead  == Flows[flow] # FlowOf(promise.id) /\ flow = 1
InFlow == Flows[flow] = FlowOf(promise.id)
InHand ==
  \/ wpc = "default"
  \/ wpc = "enumerate" /\ HasItsDefault
  \/ wpc \in {"device", "read"} /\ promise.id \in collection /\ HasItsDefault
  \/ wpc = "read" /\ device = promise.id /\ HasItsDefault

ScanInv ==
  Scanning /\ promise # None /\ ~failed /\ promise.id \notin invalid =>
    \/ Shows(promise, snapshots)
    \/ Ahead /\ wpc # "push"
    \/ InFlow /\ InHand

IInv == TypeOK /\ HandlerInv /\ QueueInv /\ HeldInv /\ PromiseIsKept /\ ScanInv
--------------------------------------------------------------------------------
(* Data *)

LEMMA TypeParts == TypeOK <=> /\ WorldOK /\ ComOK /\ QueueOK /\ FlagsOK
                              /\ PlaceOK /\ CommandOK /\ ScanOK
<1>1. QueueOK <=> /\ queue \in Seq({Job(k) : k \in {"init", "refresh", "release", "drained"}} \cup Command)
                  /\ signalled \subseteq {"init", "release", "drained"}
  BY Zenon DEF QueueOK, Tasks, Marks
<1> QED
  BY <1>1, Zenon DEF TypeOK, WorldOK, ComOK, FlagsOK, PlaceOK, CommandOK, ScanOK

LEMMA FlowsLemma ==
  /\ Len(Flows) = 2 /\ Flows[1] = "render" /\ Flows[2] = "capture"
  /\ ToSet(Flows) = {"render", "capture"}
  BY DEF Flows, ToSet

LEMMA CommandLemma ==
  ASSUME NEW c \in Command
  PROVE  /\ c.kind \in {"level", "default"} /\ c.id \in Ids
         /\ c.kind = "level" => c.level \in Levels
         /\ c # None
  BY NoneAssumption DEF Command

LEMMA TaskLemma ==
  /\ \A k \in Marks : Job(k) \in Tasks /\ Job(k).kind = k
  /\ \A t \in Tasks : t.kind \in {"level", "default"} <=> t \in Command
  /\ \A k \in Marks : Job(k) \notin Command
<1>1. \A k \in Marks : Job(k) \in Tasks /\ Job(k).kind = k
  BY DEF Tasks, Job
<1>2. \A k \in Marks : Job(k).kind \notin {"level", "default"}
  BY <1>1 DEF Marks
<1> QED
  BY <1>1, <1>2, CommandLemma DEF Tasks

LEMMA AppendLemma ==
  ASSUME NEW q \in Seq(Tasks), NEW t \in Tasks
  PROVE  /\ Append(q, t) \in Seq(Tasks) /\ Len(q) \in Nat
         /\ Len(Append(q, t)) = Len(q) + 1
         /\ \A i \in 1..(Len(q) + 1) :
              Append(q, t)[i] = IF i = Len(q) + 1 THEN t ELSE q[i]
  OBVIOUS

LEMMA TailLemma ==
  ASSUME NEW q \in Seq(Tasks), q # <<>>
  PROVE  /\ Tail(q) \in Seq(Tasks) /\ Len(q) \in Nat /\ Len(q) >= 1
         /\ Head(q) = q[1] /\ Head(q) \in Tasks
         /\ Len(Tail(q)) = Len(q) - 1
         /\ \A i \in 1..(Len(q) - 1) : Tail(q)[i] = q[i + 1]
  OBVIOUS

--------------------------------------------------------------------------------
(* The queue *)

\* How the life of the object goes on: each step waits for the task before it.
LifeStep ==
  \/ life' = life
  \/ life = "constructing" /\ life' = "alive" /\ "init" \in signalled
  \/ life = "alive" /\ life' = "releasing"
  \/ life = "releasing" /\ life' = "base" /\ "release" \in signalled
  \/ life = "base" /\ life' = "destroyed"

LEMMA LifeKeeps ==
  ASSUME QueueOK, PlaceOK, QueueInv, LifeStep, queue' = queue, signalled' = signalled,
         late => late'
  PROVE  QueueInv'
<1>1. Positions' = Positions
  BY DEF Positions
<1>2. \A i \in Positions : Handled(queue[i], late') => Handled(queue[i], late)
  BY DEF Handled
<1> HIDE DEF Positions, Handled
<1>3. InitFirst'
  BY <1>1 DEF InitFirst, QueueInv, LifeStep
<1>4. ReleaseOnce'
  BY <1>1 DEF ReleaseOnce, Early, QueueInv, LifeStep
<1>5. HandledFirst'
  BY <1>1, <1>2 DEF HandledFirst, QueueInv
<1> QED
  BY <1>3, <1>4, <1>5 DEF QueueInv

\* The destructor's task is posted at its beginning; commands come before it, and
\* refreshes after it are late.
LEMMA AppendKeeps ==
  ASSUME QueueOK, PlaceOK, QueueInv, LifeStep, NEW t \in Tasks, queue' = Append(queue, t),
         signalled' = signalled, late => late', t.kind # "init",
         t.kind = "release" => life = "alive" /\ life' = "releasing",
         Handled(t, late') => life' \in {"constructing", "alive"}
  PROVE  QueueInv' /\ QueueOK'
<1>1. /\ queue' \in Seq(Tasks) /\ Len(queue) \in Nat /\ Len(queue') = Len(queue) + 1
      /\ \A i \in 1..(Len(queue) + 1) :
           queue'[i] = IF i = Len(queue) + 1 THEN t ELSE queue[i]
  BY AppendLemma DEF QueueOK
<1>2. /\ Len(queue) + 1 \in Positions' /\ queue'[Len(queue) + 1] = t
      /\ \A i \in Positions' : i = Len(queue) + 1 \/ (i \in Positions /\ queue'[i] = queue[i])
      /\ \A i \in Positions : i < Len(queue) + 1 /\ ~(Len(queue) + 1 < i)
  BY <1>1 DEF Positions
<1>3. \A i \in Positions : Handled(queue[i], late') => Handled(queue[i], late)
  BY DEF Handled
<1>4. \A i \in Positions' : queue'[i].kind = "release" =>
        \/ i \in Positions /\ queue'[i] = queue[i] /\ ~Early
        \/ i = Len(queue) + 1 /\ life = "alive" /\ life' = "releasing"
  BY <1>2 DEF QueueInv, ReleaseOnce
<1> HIDE DEF Positions
<1>5. InitFirst'
  BY <1>2 DEF InitFirst, QueueInv, LifeStep
<1>6. ReleaseOnce'
  BY <1>2, <1>4 DEF ReleaseOnce, Early, QueueInv, LifeStep
<1>7. HandledFirst'
  <2>1. ASSUME NEW i \in Positions', NEW j \in Positions',
               queue'[i].kind = "release", Handled(queue'[j], late') PROVE j < i
    <3>1. CASE i = Len(queue) + 1
      <4>1. CASE j = Len(queue) + 1
        BY <1>2, <1>4, <2>1, <3>1, <4>1
      <4> QED
        BY <1>2, <3>1, <4>1
    <3>2. CASE i # Len(queue) + 1
      <4>1. i \in Positions /\ queue[i].kind = "release" /\ ~Early
        BY <1>2, <1>4, <2>1, <3>2
      <4>2. j # Len(queue) + 1
        BY <1>2, <2>1, <4>1 DEF LifeStep, Early
      <4> QED
        BY <1>2, <1>3, <2>1, <4>1, <4>2 DEF QueueInv, HandledFirst
    <3> QED
      BY <3>1, <3>2
  <2>2. ASSUME "release" \in signalled', NEW j \in Positions' PROVE ~Handled(queue'[j], late')
    <3>1. ~Early
      BY <2>2 DEF QueueInv, ReleaseOnce
    <3>2. life' \notin {"constructing", "alive"}
      BY <3>1 DEF LifeStep, Early
    <3> QED
      BY <1>2, <1>3, <2>2, <3>2 DEF QueueInv, HandledFirst
  <2> QED
    BY <2>1, <2>2 DEF HandledFirst
<1> QED
  BY <1>1, <1>5, <1>6, <1>7 DEF QueueInv, QueueOK

\* A task leaves the queue, and may signal that it has run.
LEMMA TailKeeps ==
  ASSUME QueueOK, PlaceOK, QueueInv, queue # <<>>, queue' = Tail(queue), life' = life, late' = late,
         signalled \subseteq signalled', signalled' \subseteq {"init", "release", "drained"},
         \A s \in signalled' \ signalled : Head(queue).kind = s
  PROVE  QueueInv' /\ QueueOK' /\ Head(queue) \in Tasks
<1>1. /\ queue' \in Seq(Tasks) /\ Len(queue) \in Nat /\ Len(queue) >= 1
      /\ Head(queue) = queue[1] /\ Head(queue) \in Tasks
      /\ Len(queue') = Len(queue) - 1
      /\ \A i \in 1..(Len(queue) - 1) : queue'[i] = queue[i + 1]
  BY TailLemma DEF QueueOK
<1>2. /\ 1 \in Positions
      /\ \A i \in Positions' : /\ i \in Int /\ i + 1 \in Positions /\ i + 1 # 1 /\ ~(i + 1 < 1)
                              /\ queue'[i] = queue[i + 1]
  BY <1>1 DEF Positions
<1>3. \A t : Handled(t, late') <=> Handled(t, late)
  BY DEF Handled
<1> HIDE DEF Positions
<1>4. InitFirst'
  BY <1>2 DEF InitFirst, QueueInv
<1>5. \A i \in Positions' : queue'[i].kind = "release" => Head(queue).kind # "release"
  BY <1>1, <1>2 DEF ReleaseOnce, QueueInv
<1>6. ReleaseOnce'
  <2>1. ASSUME NEW i \in Positions', NEW j \in Positions',
               queue'[i].kind = "release", queue'[j].kind = "release" PROVE i = j
    <3>1. /\ i + 1 \in Positions /\ queue[i + 1].kind = "release"
          /\ j + 1 \in Positions /\ queue[j + 1].kind = "release"
      BY <1>2, <2>1
    <3>2. \A k, l \in Positions : queue[k].kind = "release" /\ queue[l].kind = "release" => k = l
      BY DEF ReleaseOnce, QueueInv
    <3>3. i + 1 = j + 1
      BY <3>1, <3>2
    <3> QED
      BY <1>2, <3>3
  <2>2. ASSUME Early' \/ "release" \in signalled', NEW i \in Positions'
        PROVE  queue'[i].kind # "release"
    BY <1>2, <1>5, <2>2 DEF ReleaseOnce, QueueInv, Early
  <2>3. Early' => "release" \notin signalled'
    BY <1>1, <1>2 DEF ReleaseOnce, QueueInv, Early
  <2>4. life' \in {"base", "destroyed"} => "release" \in signalled'
    BY DEF ReleaseOnce, QueueInv
  <2> QED
    BY <2>1, <2>2, <2>3, <2>4 DEF ReleaseOnce
<1>7. HandledFirst'
  <2>1. ASSUME NEW i \in Positions', NEW j \in Positions',
               queue'[i].kind = "release", Handled(queue'[j], late') PROVE j < i
    <3>1. j + 1 < i + 1
      BY <1>2, <1>3, <2>1 DEF HandledFirst, QueueInv
    <3> QED
      BY <1>2, <3>1
  <2>2. ASSUME "release" \in signalled', NEW j \in Positions' PROVE ~Handled(queue'[j], late')
    BY <1>1, <1>2, <1>3, <2>2 DEF HandledFirst, QueueInv
  <2> QED
    BY <2>1, <2>2 DEF HandledFirst
<1> QED
  BY <1>1, <1>4, <1>6, <1>7 DEF QueueInv, QueueOK

--------------------------------------------------------------------------------
(* The steps *)

\* The actions that leave the worker's queue and the life of the object alone.
Outside == EndpointsChange \/ FindDevice \/ SetLevel \/ SetRole
           \/ ReadDefault \/ Enumerate \/ Device \/ Read \/ Push

LEMMA OutsideLemma ==
  ASSUME Outside
  PROVE  queue' = queue /\ signalled' = signalled /\ life' = life /\ late' = late
<1>1. CASE EndpointsChange
  BY <1>1 DEF EndpointsChange, workerVars
<1>2. CASE FindDevice \/ SetLevel \/ SetRole
  BY <1>2 DEF FindDevice, SetLevel, SetRole, handlerSame, workerVars
<1>3. CASE ReadDefault \/ Enumerate \/ Device \/ Read
  BY <1>3 DEF ReadDefault, Enumerate, Device, Read, scanSame, taskSame, workerVars
<1>4. CASE Push
  BY <1>4 DEF Push, taskSame, workerVars
<1> QED
  BY <1>1, <1>2, <1>3, <1>4 DEF Outside

AnyStep ==
  \/ Outside \/ RunInit \/ RunRelease \/ RunDrained \/ RunRefresh \/ RunCommand
  \/ Constructed \/ RequestCommand \/ Destroy \/ Released \/ Drained
  \/ \E n \in Ids \cup {Endpoints} : Notify(n)

LEMMA NextLemma == [Next]_vars => AnyStep \/ UNCHANGED vars
  BY Zenon DEF Next, AnyStep, Outside, Worker, Owner, Done

LEMMA QueueStep == ASSUME IInv, [Next]_vars PROVE QueueInv' /\ QueueOK'
<1>1. QueueOK /\ PlaceOK /\ FlagsOK /\ QueueInv
  BY TypeParts DEF IInv
<1>2. queue \in Seq(Tasks)
  BY <1>1 DEF QueueOK
<1>3. \A k \in {"init", "release", "drained"} : signalled \cup {k} \subseteq {"init", "release", "drained"}
  BY <1>1 DEF QueueOK
<1> DEFINE Refresh == Job("refresh")
<1>4. Refresh \in Tasks /\ Refresh.kind = "refresh" /\ Refresh \notin Command
  BY TaskLemma DEF Marks
<1>5. ASSUME LifeStep, late => late', RequestRefresh, signalled' = signalled,
             late' \/ life' \in {"constructing", "alive"}
      PROVE  QueueInv' /\ QueueOK'
  <2>1. CASE queue' = queue
    BY <1>1, <1>5, <2>1, LifeKeeps DEF QueueOK
  <2>2. CASE queue' = Append(queue, Refresh)
    <3>1. Handled(Refresh, late') => life' \in {"constructing", "alive"}
      BY <1>4, <1>5 DEF Handled
    <3>2. Refresh.kind # "init" /\ Refresh.kind # "release"
      BY <1>4
    <3> HIDE DEF Refresh
    <3> QED
      BY <1>1, <1>4, <1>5, <2>2, <3>1, <3>2, AppendKeeps
  <2> QED
    BY <1>5, <2>1, <2>2 DEF RequestRefresh
<1>6. CASE Outside
  <2>1. LifeStep /\ queue' = queue /\ signalled' = signalled /\ late' = late
    BY <1>6, OutsideLemma DEF LifeStep
  <2> QED
    BY <1>1, <2>1, LifeKeeps DEF QueueOK
<1>7. CASE RunInit \/ RunRelease \/ RunDrained
  <2>1. PICK k \in {"init", "release", "drained"} : Take(k) /\ Signal(k)
    BY <1>7 DEF RunInit, RunRelease, RunDrained
  <2>2. life' = life /\ late' = late
    BY <1>7 DEF RunInit, RunRelease, RunDrained, taskSame
  <2>3. \A s \in signalled' \ signalled : Head(queue).kind = s
    BY <2>1 DEF Take, Signal
  <2> QED
    BY <1>1, <1>3, <2>1, <2>2, <2>3, TailKeeps DEF Take, Signal
<1>8. CASE RunRefresh \/ RunCommand
  <2>1. queue # <<>> /\ queue' = Tail(queue) /\ signalled' = signalled /\ life' = life /\ late' = late
    BY <1>8 DEF RunRefresh, RunCommand, Take, taskSame
  <2> QED
    BY <1>1, <2>1, TailKeeps DEF QueueOK
<1>9. CASE Constructed
  <2>1. LifeStep /\ life' = "alive" /\ signalled' = signalled /\ late' = late
        /\ (RequestRefresh \/ queue' = queue)
    BY <1>9 DEF Constructed, LifeStep, ownerSame
  <2>2. CASE queue' = queue
    BY <1>1, <2>1, <2>2, LifeKeeps DEF QueueOK
  <2> QED
    BY <1>5, <2>1, <2>2
<1>10. CASE RequestCommand
  <2>1. PICK job \in Command \cup {Refresh} : queue' = Append(queue, job)
    BY <1>10 DEF RequestCommand, Post
  <2>2. life = "alive" /\ life' = life /\ signalled' = signalled /\ late' = late
    BY <1>10 DEF RequestCommand
  <2>3. job \in Tasks /\ job.kind \in {"level", "default", "refresh"}
    BY <1>4, CommandLemma, TaskLemma DEF Tasks
  <2> HIDE DEF Refresh
  <2> QED
    BY <1>1, <2>1, <2>2, <2>3, AppendKeeps DEF LifeStep
<1>11. CASE Destroy \/ Released
  <2>1. PICK k \in {"release", "drained"} :
          /\ queue' = Append(queue, Job(k)) /\ signalled' = signalled /\ late' = late
          /\ LifeStep /\ (k = "release" => life = "alive" /\ life' = "releasing")
    BY <1>11 DEF Destroy, Released, HasReleased, LifeStep, ownerSame, Post
  <2>2. Job(k) \in Tasks /\ Job(k).kind = k /\ Job(k) \notin Command
    BY TaskLemma DEF Marks
  <2>3. ~Handled(Job(k), late')
    BY <2>2 DEF Handled
  <2> QED
    BY <1>1, <2>1, <2>2, <2>3, AppendKeeps
<1>12. CASE Drained
  <2>1. LifeStep /\ queue' = queue /\ signalled' = signalled /\ late' = late
    BY <1>12 DEF Drained, LifeStep, workerVars, ownerSame
  <2> QED
    BY <1>1, <2>1, LifeKeeps DEF QueueOK
<1>13. ASSUME NEW n \in Ids \cup {Endpoints}, Notify(n) PROVE QueueInv' /\ QueueOK'
  <2>1. /\ RequestRefresh /\ life' = life /\ signalled' = signalled
        /\ late' = (late \/ life \notin {"constructing", "alive"})
    BY <1>13 DEF Notify
  <2> QED
    BY <1>5, <2>1 DEF LifeStep
<1>14. CASE UNCHANGED vars
  <2>1. LifeStep /\ queue' = queue /\ signalled' = signalled /\ late' = late
    BY <1>14 DEF vars, workerVars, LifeStep
  <2> QED
    BY <1>1, <2>1, LifeKeeps DEF QueueOK
<1> QED
  BY <1>6, <1>7, <1>8, <1>9, <1>10, <1>11, <1>12, <1>13, <1>14, NextLemma DEF AnyStep

\* The task at the head of the queue.
LEMMA HeadLemma ==
  ASSUME QueueOK, QueueInv, queue # <<>>
  PROVE  /\ Head(queue) \in Tasks
         /\ Head(queue).kind = "init" => "release" \notin signalled
         /\ Handled(Head(queue), late) => "release" \notin signalled
<1>1. 1 \in Positions /\ Head(queue) = queue[1] /\ Head(queue) \in Tasks
  BY TailLemma DEF QueueOK, Positions
<1> QED
  BY <1>1 DEF QueueInv, InitFirst, HandledFirst, ReleaseOnce, Early

\* What the backend and COM hold of each other grows in its constructor, and while a
\* handler runs.
LEMMA HeldStep == ASSUME IInv, [Next]_vars PROVE HeldInv'
<1>1. QueueOK /\ QueueInv /\ HeldInv
  BY TypeParts DEF IInv
<1>2. ASSUME "release" \in signalled, signalled' = signalled,
             registered' \subseteq registered, owed' \subseteq registered, wpc' = wpc,
             volume_subscriptions_' = volume_subscriptions_, enumerator_' = enumerator_, late => late'
      PROVE  HeldInv'
  BY <1>1, <1>2 DEF HeldInv, NothingHeldOnceReleased, HandlersHoldOn, OnlyLateNotificationsAbort, Scanning
<1>3. ASSUME Scanning \/ wpc \in {"find", "set"}, signalled' = signalled, enumerator_' = enumerator_,
             wpc' # "aborted", Scanning' => Scanning
      PROVE  HeldInv'
  BY <1>1, <1>3 DEF HeldInv, NothingHeldOnceReleased, HandlersHoldOn, OnlyLateNotificationsAbort
<1>4. ASSUME "release" \notin signalled, signalled' = signalled, wpc' = wpc, enumerator_' = enumerator_,
             late => late'
      PROVE  HeldInv'
  BY <1>1, <1>4 DEF HeldInv, NothingHeldOnceReleased, HandlersHoldOn, OnlyLateNotificationsAbort, Scanning
<1>5. CASE EndpointsChange
  <2>1. /\ signalled' = signalled /\ wpc' = wpc /\ late' = late
        /\ volume_subscriptions_' = volume_subscriptions_ /\ enumerator_' = enumerator_
    BY <1>5 DEF EndpointsChange, workerVars, held
  <2>2. registered' \subseteq registered /\ owed' \subseteq owed \cup registered
    BY <1>5 DEF EndpointsChange, Replug, Tell
  <2> QED
    BY <1>1, <1>2, <1>4, <2>1, <2>2 DEF HeldInv, NothingHeldOnceReleased
<1>6. CASE FindDevice \/ SetLevel \/ SetRole
  BY <1>3, <1>6 DEF FindDevice, SetLevel, SetRole, handlerSame, workerVars, held, Return, Scanning
<1>7. CASE ReadDefault \/ Enumerate \/ Device \/ Read
  <2>1. Scanning /\ signalled' = signalled /\ enumerator_' = enumerator_
    BY <1>7 DEF ReadDefault, Enumerate, Device, Read, scanSame, workerVars, Scanning
  <2>2. wpc' # "aborted"
    BY <1>7 DEF ReadDefault, Enumerate, Device, Read, NextFlow, Subscribe
  <2> QED
    BY <1>3, <2>1, <2>2
<1>8. CASE Push
  BY <1>3, <1>8 DEF Push, workerVars, Scanning
<1>9. CASE RunInit
  <2>1. "release" \notin signalled
    BY <1>1, <1>9, HeadLemma DEF RunInit, Take
  <2>2. "release" \notin signalled' /\ wpc' = wpc /\ wpc = "idle"
    BY <1>9, <2>1 DEF RunInit, Take, Signal
  <2> QED
    BY <2>2 DEF HeldInv, NothingHeldOnceReleased, HandlersHoldOn, OnlyLateNotificationsAbort, Scanning
<1>10. CASE RunRelease
  BY <1>10 DEF RunRelease, Take, EnumeratorReset, HeldInv, NothingHeldOnceReleased, HandlersHoldOn,
               OnlyLateNotificationsAbort, Scanning
<1>11. CASE RunDrained
  <2>1. "release" \in signalled' => "release" \in signalled
    BY <1>11 DEF RunDrained, Signal
  <2>2. UNCHANGED <<registered, owed, volume_subscriptions_, enumerator_, wpc>> /\ wpc = "idle"
    BY <1>11 DEF RunDrained, Take, com, held
  <2> QED
    BY <1>1, <2>1, <2>2 DEF HeldInv, NothingHeldOnceReleased, HandlersHoldOn,
                            OnlyLateNotificationsAbort, Scanning
<1>12. CASE RunRefresh
  <2>1. /\ UNCHANGED <<registered, owed, volume_subscriptions_, enumerator_, signalled, life, late>>
        /\ queue # <<>> /\ Head(queue).kind = "refresh"
        /\ wpc' = IF life \in {"base", "destroyed"} THEN "aborted"
                  ELSE IF enumerator_ THEN "default" ELSE "idle"
    BY <1>12 DEF RunRefresh, Take, com, held, taskSame
  <2>2. life \in {"base", "destroyed"} => late
    BY <1>1, <2>1, HeadLemma DEF Handled, QueueInv, ReleaseOnce
  <2>3. wpc' = "default" => enumerator_ /\ "release" \notin signalled
    BY <1>1, <2>1 DEF HeldInv, NothingHeldOnceReleased
  <2> QED
    BY <1>1, <2>1, <2>2, <2>3 DEF HeldInv, NothingHeldOnceReleased, HandlersHoldOn,
                                  OnlyLateNotificationsAbort, Scanning
<1>13. CASE RunCommand
  <2>1. /\ UNCHANGED <<registered, owed, volume_subscriptions_, enumerator_, signalled>>
        /\ queue # <<>> /\ Head(queue).kind \in {"level", "default"} /\ wpc' = "find"
    BY <1>13 DEF RunCommand, Take, com, held
  <2>2. Head(queue) \in Tasks
    BY <1>1, <2>1, HeadLemma
  <2>3. "release" \notin signalled
    BY <1>1, <2>1, <2>2, HeadLemma, TaskLemma DEF Handled
  <2> QED
    BY <2>1, <2>3 DEF HeldInv, NothingHeldOnceReleased, HandlersHoldOn,
                      OnlyLateNotificationsAbort, Scanning
<1>14. CASE \/ Constructed \/ RequestCommand \/ Destroy \/ Released \/ Drained \/ UNCHANGED vars
            \/ \E n \in Ids \cup {Endpoints} : Notify(n)
  <2>1. UNCHANGED <<registered, volume_subscriptions_, enumerator_, signalled, wpc>> /\ owed' \subseteq owed
    BY <1>14 DEF Constructed, RequestCommand, Destroy, Released, Drained, Notify, vars, ownerSame,
                 com, held, workerVars
  <2>2. CASE \E n \in Ids \cup {Endpoints} : Notify(n)
    <3>1. late => late'
      BY <2>2 DEF Notify
    <3> QED
      BY <1>1, <2>1, <3>1 DEF HeldInv, NothingHeldOnceReleased, HandlersHoldOn,
                              OnlyLateNotificationsAbort, Scanning
  <2>3. CASE Constructed \/ RequestCommand \/ Destroy \/ Released \/ Drained \/ UNCHANGED vars
    <3>1. late' = late
      BY <2>3 DEF Constructed, RequestCommand, Destroy, Released, Drained, vars, ownerSame
    <3> QED
      BY <1>1, <2>1, <3>1 DEF HeldInv, NothingHeldOnceReleased, HandlersHoldOn,
                              OnlyLateNotificationsAbort, Scanning
  <2> QED
    BY <1>14, <2>2, <2>3
<1> QED
  BY <1>5, <1>6, <1>7, <1>8, <1>9, <1>10, <1>11, <1>12, <1>13, <1>14, NextLemma DEF AnyStep, Outside

\* The history of commands: every change takes the promise back, and the command that
\* changes something makes one.
LEMMA PromiseStep == ASSUME IInv, [Next]_vars PROVE PromiseIsKept'
<1>1. WorldOK /\ CommandOK /\ PromiseIsKept /\ HandlerInv
  BY TypeParts DEF IInv
<1>2. CASE EndpointsChange \/ RunCommand
  BY <1>2 DEF EndpointsChange, RunCommand, PromiseIsKept
<1>3. CASE SetLevel
  <2>1. CASE UNCHANGED <<level, promise>>
    BY <1>1, <1>3, <2>1 DEF SetLevel, PromiseIsKept
  <2>2. CASE /\ command.id \in active /\ promise' = command
             /\ level' = [level EXCEPT ![command.id] = command.level]
    <3>1. command.id \in Ids /\ command.kind = "level" /\ active' = active
      BY <1>1, <1>3, CommandLemma DEF SetLevel, HandlerInv
    <3>2. level'[command.id] = command.level
      BY <1>1, <2>2, <3>1 DEF WorldOK
    <3> QED
      BY <2>2, <3>1, <3>2 DEF PromiseIsKept
  <2> QED
    BY <1>3, <2>1, <2>2 DEF SetLevel
<1>4. CASE SetRole
  <2>1. active' = active /\ level' = level /\ command.kind = "default" /\ command \in Command
    BY <1>1, <1>4 DEF SetRole, HandlerInv
  <2>2. CASE UNCHANGED <<default, promise>>
    BY <1>1, <2>1, <2>2 DEF PromiseIsKept
  <2>3. CASE promise' = None
    BY <2>3 DEF PromiseIsKept
  <2>4. CASE /\ command.id \in active /\ promise' = command
             /\ default' = [default EXCEPT ![FlowOf(command.id)] = command.id]
    <3>1. FlowOf(command.id) \in ToSet(Flows)
      BY <2>1, CommandLemma, FlowAssumption
    <3>2. default'[FlowOf(command.id)] = command.id
      BY <1>1, <2>4, <3>1 DEF WorldOK
    <3> QED
      BY <2>1, <2>4, <3>2 DEF PromiseIsKept
  <2> QED
    BY <1>4, <2>2, <2>3, <2>4 DEF SetRole
<1>5. CASE \/ FindDevice \/ ReadDefault \/ Enumerate \/ Device \/ Read \/ Push
           \/ RunInit \/ RunRelease \/ RunDrained \/ RunRefresh
           \/ Constructed \/ RequestCommand \/ Destroy \/ Released \/ Drained \/ UNCHANGED vars
           \/ \E n \in Ids \cup {Endpoints} : Notify(n)
  <2>1. UNCHANGED <<active, level, default, promise>>
    BY <1>5 DEF FindDevice, ReadDefault, Enumerate, Device, Read, Push, RunInit, RunRelease, RunDrained,
                RunRefresh, Constructed, RequestCommand, Destroy, Released, Drained, Notify, vars,
                handlerSame, taskSame, scanSame, ownerSame, world, handlerVars
  <2> QED
    BY <1>1, <2>1 DEF PromiseIsKept
<1> QED
  BY <1>2, <1>3, <1>4, <1>5, NextLemma DEF AnyStep, Outside

\* A refresh on its way to the endpoint of the last command, whose answers nobody changes.
LEMMA ScanStep == ASSUME IInv, [Next]_vars PROVE ScanInv'
<1>1. /\ WorldOK /\ ComOK /\ PlaceOK /\ CommandOK /\ ScanOK
      /\ PromiseIsKept /\ HandlerInv /\ ScanInv
  BY TypeParts DEF IInv
<1> SUFFICES ASSUME Scanning', promise' # None, ~failed', promise'.id \notin invalid'
             PROVE  \/ Shows(promise, snapshots)'
                    \/ Ahead' /\ wpc' # "push"
                    \/ InFlow' /\ InHand'
  BY DEF ScanInv
<1>2. flow \in {1, 2} /\ Len(Flows) = 2 /\ Flows[1] = "render" /\ Flows[2] = "capture"
  BY <1>1, FlowsLemma DEF PlaceOK
<1>3. CASE RunRefresh
  <2>1. wpc' = "default" /\ flow' = 1
    BY <1>3 DEF RunRefresh, Scanning
  <2> QED
    BY <2>1 DEF Ahead, InFlow, InHand
<1>4. CASE ReadDefault \/ Enumerate \/ Device \/ Read
  <2>1. Scanning /\ UNCHANGED <<active, level, default, promise, invalid>>
    BY <1>4 DEF ReadDefault, Enumerate, Device, Read, Scanning, scanSame, taskSame, world, handlerVars
  <2>2. PICK c \in Command : c = promise /\ c = promise'
    BY <1>1, <2>1 DEF CommandOK
  <2>3. /\ c.id \in Ids /\ c.id \in active /\ c.id \notin invalid /\ c.kind \in {"level", "default"}
        /\ c.kind = "level" => level[c.id] = c.level
        /\ c.kind = "default" => default[FlowOf(c.id)] = c.id
        /\ FlowOf(c.id) \in {"render", "capture"}
    BY <1>1, <2>1, <2>2, CommandLemma, FlowAssumption, FlowsLemma DEF PromiseIsKept
  <2>4. ~failed
    BY <1>4 DEF ReadDefault, Enumerate, Device, Read, Subscribe, Got, Missed
  <2>5. \/ Shows(c, snapshots)
        \/ Flows[flow] # FlowOf(c.id) /\ flow = 1 /\ wpc # "push"
        \/ Flows[flow] = FlowOf(c.id) /\ InHand
    BY <1>1, <2>1, <2>2, <2>3, <2>4 DEF ScanInv, Ahead, InFlow
  <2>6. snapshots \subseteq snapshots'
    BY <1>4 DEF ReadDefault, Enumerate, Device, Read, Subscribe, PushBack
  <2>7. Shows(c, snapshots) => Shows(c, snapshots')
    BY <2>6 DEF Shows
  <2> SUFFICES ASSUME ~Shows(c, snapshots), ~Shows(c, snapshots')
               PROVE  \/ Flows[flow'] # FlowOf(c.id) /\ flow' = 1 /\ wpc' # "push"
                      \/ Flows[flow'] = FlowOf(c.id) /\ InHand'
    BY <2>2, <2>7 DEF Ahead, InFlow
  <2>8. CASE ReadDefault
    BY <1>2, <2>2, <2>3, <2>5, <2>8 DEF ReadDefault, DefaultOf, Missed, HasItsDefault, InHand
  <2>9. CASE Enumerate
    <3>1. collection' = OfFlow(active, Flows[flow]) /\ wpc' = "device" /\ flow' = flow
          /\ default_id' = default_id /\ wpc = "enumerate"
      BY <2>9 DEF Enumerate, Missed
    <3> QED
      BY <1>2, <2>2, <2>3, <2>5, <3>1 DEF OfFlow, HasItsDefault, InHand
  <2>10. CASE Device
    <3>1. wpc = "device" /\ default_id' = default_id
      BY <2>10 DEF Device
    <3>2. CASE collection = {} /\ NextFlow
      BY <1>2, <2>2, <2>3, <2>5, <3>1, <3>2 DEF NextFlow, InHand, HasItsDefault
    <3>3. ASSUME NEW id \in collection, collection' = collection \ {id}, Subscribe(id), flow' = flow
          PROVE  \/ Flows[flow'] # FlowOf(c.id) /\ flow' = 1 /\ wpc' # "push"
                 \/ Flows[flow'] = FlowOf(c.id) /\ InHand'
      <4>1. wpc' \in {"device", "read"} /\ (c.id = id => wpc' = "read" /\ device' = id)
        BY <2>3, <3>1, <3>3 DEF Subscribe, Missed
      <4> QED
        BY <1>2, <2>2, <2>5, <3>1, <3>3, <4>1 DEF InHand, HasItsDefault
    <3> QED
      BY <2>10, <3>2, <3>3 DEF Device, Missed
  <2>11. CASE Read
    <3>1. /\ wpc = "read" /\ wpc' = "device" /\ UNCHANGED <<flow, default_id, collection>>
          /\ snapshots' = snapshots \cup
               {[id |-> device, is_default |-> device = default_id,
                 level |-> IF device \in invalid THEN NoLevel ELSE level[device]]}
      BY <2>11 DEF Read, PushBack, Missed
    <3>2. device = c.id /\ HasItsDefault => Shows(c, snapshots')
      <4> SUFFICES ASSUME device = c.id, HasItsDefault PROVE Shows(c, snapshots')
        OBVIOUS
      <4> DEFINE new == [id |-> device, is_default |-> device = default_id,
                         level |-> IF device \in invalid THEN NoLevel ELSE level[device]]
      <4>0. /\ new \in snapshots' /\ new.id = c.id /\ new.level = level[c.id]
            /\ c.id = default_id => new.is_default
        BY <2>3, <3>1
      <4>1. PICK s \in snapshots' : /\ s.id = c.id /\ s.level = level[c.id]
                                    /\ c.id = default_id => s.is_default
        <5> HIDE DEF new
        <5> QED
          BY <4>0
      <4>2. CASE c.kind = "level"
        BY <2>3, <4>1, <4>2 DEF Shows
      <4>3. CASE c.kind = "default"
        <5>1. c.id = default_id
          BY <2>2, <4>3 DEF HasItsDefault
        <5>2. s.is_default
          BY <4>1, <5>1
        <5> QED
          BY <4>1, <4>3, <5>2 DEF Shows
      <4> QED
        BY <2>3, <4>2, <4>3
    <3> QED
      BY <1>2, <2>2, <2>5, <3>1, <3>2 DEF InHand, HasItsDefault
  <2> QED
    BY <1>4, <2>8, <2>9, <2>10, <2>11
<1>5. CASE EndpointsChange \/ FindDevice \/ SetLevel \/ SetRole \/ Push \/ RunCommand
  <2>1. CASE EndpointsChange
    BY <2>1 DEF EndpointsChange
  <2>2. CASE FindDevice \/ SetLevel \/ SetRole \/ Push \/ RunCommand
    BY <2>2 DEF FindDevice, SetLevel, SetRole, Push, RunCommand, Return, Scanning
  <2> QED
    BY <1>5, <2>1, <2>2
<1>6. CASE RunInit \/ RunRelease \/ RunDrained
  BY <1>6 DEF RunInit, RunRelease, RunDrained, Take, Scanning
<1>7. CASE \/ Constructed \/ RequestCommand \/ Destroy \/ Released \/ Drained \/ UNCHANGED vars
           \/ \E n \in Ids \cup {Endpoints} : Notify(n)
  <2>1. UNCHANGED <<wpc, promise, invalid, scanVars>>
    BY <1>7 DEF Constructed, RequestCommand, Destroy, Released, Drained, Notify, vars, ownerSame,
                com, handlerVars
  <2> QED
    BY <1>1, <2>1 DEF ScanInv, Scanning, Ahead, InFlow, InHand, HasItsDefault, Shows, scanVars
<1> QED
  BY <1>3, <1>4, <1>5, <1>6, <1>7, NextLemma DEF AnyStep, Outside

\* The handler that begins takes a command, a refresh takes a device.
LEMMA HandlerKeeps == ASSUME IInv, [Next]_vars PROVE HandlerInv'
<1>1. QueueOK /\ CommandOK /\ ScanOK /\ HandlerInv /\ QueueInv
  BY TypeParts DEF IInv
<1>2. roles \in 0..2 /\ roles < 3
  BY <1>1 DEF CommandOK, HandlerInv, Roles
<1>3. CASE RunCommand
  <2>1. queue # <<>> /\ Head(queue).kind \in {"level", "default"} /\ command' = Head(queue)
        /\ wpc' = "find" /\ roles' = roles
    BY <1>3 DEF RunCommand, Take
  <2> QED
    BY <1>1, <2>1, HeadLemma, TaskLemma DEF HandlerInv
<1>4. CASE FindDevice \/ SetLevel
  BY <1>1, <1>2, <1>4 DEF FindDevice, SetLevel, Return, HandlerInv, Roles
<1>5. CASE SetRole
  BY <1>1, <1>2, <1>5 DEF SetRole, Return, HandlerInv, Roles
<1>6. CASE ReadDefault \/ Enumerate \/ Device \/ Read \/ Push
  <2>1. roles' = roles
    BY <1>6 DEF ReadDefault, Enumerate, Device, Read, Push, scanSame, handlerVars
  <2>2. wpc' \notin {"find", "set"} /\ (wpc' = "read" => device' \in Ids)
    BY <1>1, <1>6 DEF ReadDefault, Enumerate, Device, Read, Push, Subscribe, NextFlow, ScanOK
  <2> QED
    BY <1>1, <2>1, <2>2 DEF HandlerInv
<1>7. CASE RunInit \/ RunRelease \/ RunDrained \/ RunRefresh
  <2>1. roles' = roles /\ wpc' \notin {"find", "set", "read"}
    BY <1>7 DEF RunInit, RunRelease, RunDrained, RunRefresh, Take, handlerVars
  <2> QED
    BY <1>1, <2>1 DEF HandlerInv
<1>8. CASE \/ EndpointsChange \/ Constructed \/ RequestCommand \/ Destroy \/ Released \/ Drained
           \/ UNCHANGED vars \/ \E n \in Ids \cup {Endpoints} : Notify(n)
  <2>1. UNCHANGED <<wpc, command, device, roles>>
    BY <1>8 DEF EndpointsChange, Constructed, RequestCommand, Destroy, Released, Drained, Notify, vars,
                ownerSame, handlerVars, scanVars
  <2> QED
    BY <1>1, <2>1 DEF HandlerInv
<1> QED
  BY <1>3, <1>4, <1>5, <1>6, <1>7, <1>8, NextLemma DEF AnyStep, Outside

--------------------------------------------------------------------------------
(* Types *)

LEMMA WorldStep == ASSUME IInv, [Next]_vars PROVE WorldOK'
<1>1. WorldOK /\ HandlerInv
  BY TypeParts DEF IInv
<1>2. CASE EndpointsChange
  <2>1. CASE \E i \in Ids : LET ids == SymDiff(active, {i}) IN \E d \in Defaults(ids) : Replug(ids, d)
    BY <1>1, <2>1 DEF Replug, Defaults, SymDiff, WorldOK
  <2>2. CASE \E d \in Defaults(active) : default' = d /\ UNCHANGED <<active, level>>
    BY <1>1, <2>2 DEF Defaults, WorldOK
  <2>3. CASE \E i \in active, v \in Levels :
               level' = [level EXCEPT ![i] = v] /\ UNCHANGED <<active, default>>
    BY <1>1, <2>3 DEF WorldOK
  <2> QED
    BY <1>2, <2>1, <2>2, <2>3 DEF EndpointsChange
<1>3. CASE SetLevel
  <2>1. command.id \in Ids /\ command.level \in Levels
    BY <1>1, <1>3, CommandLemma DEF SetLevel, HandlerInv
  <2>2. active' = active /\ default' = default
    BY <1>3 DEF SetLevel
  <2>3. level' = level \/ level' = [level EXCEPT ![command.id] = command.level]
    BY <1>3 DEF SetLevel
  <2> QED
    BY <1>1, <2>1, <2>2, <2>3 DEF WorldOK
<1>4. CASE SetRole
  <2>1. command.id \in Ids /\ active' = active /\ level' = level
    BY <1>1, <1>4, CommandLemma DEF SetRole, HandlerInv
  <2>2. default' = default \/ default' = [default EXCEPT ![FlowOf(command.id)] = command.id]
    BY <1>4 DEF SetRole
  <2> QED
    BY <1>1, <2>1, <2>2 DEF WorldOK
<1>5. CASE \/ FindDevice \/ ReadDefault \/ Enumerate \/ Device \/ Read \/ Push
           \/ RunInit \/ RunRelease \/ RunDrained \/ RunRefresh \/ RunCommand
           \/ Constructed \/ RequestCommand \/ Destroy \/ Released \/ Drained \/ UNCHANGED vars
           \/ \E n \in Ids \cup {Endpoints} : Notify(n)
  <2>1. UNCHANGED <<active, level, default>>
    BY <1>5 DEF FindDevice, ReadDefault, Enumerate, Device, Read, Push, RunInit, RunRelease, RunDrained,
                RunRefresh, RunCommand, Constructed, RequestCommand, Destroy, Released, Drained, Notify,
                vars, handlerSame, taskSame, scanSame, ownerSame, world
  <2> QED
    BY <1>1, <2>1 DEF WorldOK
<1> QED
  BY <1>2, <1>3, <1>4, <1>5, NextLemma DEF AnyStep, Outside

LEMMA ComStep == ASSUME IInv, [Next]_vars PROVE ComOK'
<1>1. ComOK /\ ScanOK
  BY TypeParts DEF IInv
<1>2. CASE EndpointsChange
  <2>1. volume_subscriptions_' = volume_subscriptions_
    BY <1>2 DEF EndpointsChange, held
  <2>2. ASSUME NEW ids, NEW d, Replug(ids, d) PROVE ComOK'
    <3>1. Endpoints \notin active \ ids \/ Endpoints \in active
      OBVIOUS
    <3>2. active \subseteq Ids
      BY TypeParts DEF IInv, WorldOK
    <3> QED
      BY <1>1, <2>1, <2>2, <3>2, IdsAssumption DEF Replug, ComOK
  <2>3. ASSUME NEW whom, Tell(whom), UNCHANGED <<registered, invalid>> PROVE ComOK'
    BY <1>1, <2>1, <2>3 DEF Tell, ComOK
  <2> QED
    BY <1>2, <2>2, <2>3 DEF EndpointsChange
<1>3. CASE FindDevice \/ SetLevel \/ SetRole
  <2>1. UNCHANGED <<registered, invalid, volume_subscriptions_>>
    BY <1>3 DEF FindDevice, SetLevel, SetRole, handlerSame, held
  <2>2. owed' \subseteq owed \cup registered
    BY <1>3 DEF FindDevice, SetLevel, SetRole, Tell
  <2> QED
    BY <1>1, <2>1, <2>2 DEF ComOK
<1>4. CASE ReadDefault \/ Enumerate \/ Device \/ Read
  <2>1. UNCHANGED <<owed, invalid>>
    BY <1>4 DEF ReadDefault, Enumerate, Device, Read, scanSame
  <2>2. \/ UNCHANGED <<registered, volume_subscriptions_>>
        \/ \E id \in collection : /\ volume_subscriptions_' = volume_subscriptions_ \cup {id}
                                   /\ registered' \in {registered, registered \cup {id}}
    BY <1>4 DEF ReadDefault, Enumerate, Device, Read, Subscribe
  <2> QED
    BY <1>1, <2>1, <2>2 DEF ComOK, ScanOK
<1>5. CASE Push
  BY <1>1, <1>5 DEF Push, Undelivered, ComOK
<1>6. CASE RunInit
  <2>1. /\ UNCHANGED <<owed, invalid, volume_subscriptions_>>
        /\ registered' \in {registered, registered \cup {Endpoints}}
    BY <1>6 DEF RunInit
  <2> QED
    BY <1>1, <2>1 DEF ComOK
<1>7. CASE RunRelease
  BY <1>7 DEF RunRelease, ComOK
<1>8. CASE \/ RunDrained \/ RunRefresh \/ RunCommand
           \/ Constructed \/ RequestCommand \/ Destroy \/ Released \/ Drained \/ UNCHANGED vars
           \/ \E n \in Ids \cup {Endpoints} : Notify(n)
  <2>1. UNCHANGED <<registered, invalid, volume_subscriptions_>> /\ owed' \subseteq owed
    BY <1>8 DEF RunDrained, RunRefresh, RunCommand, Constructed, RequestCommand, Destroy, Released,
                Drained, Notify, vars, ownerSame, com, held
  <2> QED
    BY <1>1, <2>1 DEF ComOK
<1> QED
  BY <1>2, <1>3, <1>4, <1>5, <1>6, <1>7, <1>8, NextLemma DEF AnyStep, Outside

LEMMA FlagsStep == ASSUME IInv, [Next]_vars PROVE FlagsOK'
<1>1. FlagsOK
  BY TypeParts DEF IInv
<1>2. enumerator_' \in BOOLEAN
  BY <1>1, NextLemma
     DEF FlagsOK, AnyStep, Outside, FindDevice, SetLevel, SetRole, ReadDefault, Enumerate, Device, Read,
         Push, RunInit, RunRelease, RunDrained, RunRefresh, RunCommand, Constructed, RequestCommand,
         Destroy, Released, Drained, Notify, EndpointsChange, vars, ownerSame, handlerSame, scanSame,
         held, EnumeratorReset
<1>3. failed' \in BOOLEAN
  BY <1>1, NextLemma
     DEF FlagsOK, AnyStep, Outside, FindDevice, SetLevel, SetRole, ReadDefault, Enumerate, Device, Read,
         Push, RunInit, RunRelease, RunDrained, RunRefresh, RunCommand, Constructed, RequestCommand,
         Destroy, Released, Drained, Notify, EndpointsChange, vars, ownerSame, handlerSame, Subscribe,
         Got, Missed, scanVars
<1>4. late' \in BOOLEAN
  <2>1. CASE \E n \in Ids \cup {Endpoints} : Notify(n)
    BY <2>1 DEF Notify
  <2>2. CASE ~\E n \in Ids \cup {Endpoints} : Notify(n)
    <3>1. late' = late
      BY <2>2, NextLemma
         DEF AnyStep, Outside, FindDevice, SetLevel, SetRole, ReadDefault, Enumerate, Device, Read,
             Push, RunInit, RunRelease, RunDrained, RunRefresh, RunCommand, Constructed, RequestCommand,
             Destroy, Released, Drained, EndpointsChange, vars, ownerSame, handlerSame, scanSame, taskSame
    <3> QED
      BY <1>1, <3>1 DEF FlagsOK
  <2> QED
    BY <2>1, <2>2
<1> QED
  BY <1>2, <1>3, <1>4 DEF FlagsOK

LEMMA PlaceStep == ASSUME IInv, [Next]_vars PROVE PlaceOK'
<1>1. PlaceOK
  BY TypeParts DEF IInv
<1>2. events' \in 0..MaxEvents
  <2>1. Event \/ Succeeds
    BY NextLemma
       DEF AnyStep, Outside, FindDevice, SetLevel, SetRole, ReadDefault, Enumerate, Device, Read,
           Push, RunInit, RunRelease, RunDrained, RunRefresh, RunCommand, Constructed, RequestCommand,
           Destroy, Released, Drained, Notify, EndpointsChange, vars, ownerSame, Subscribe, Got, Missed,
           Fails, Succeeds
  <2> QED
    BY <1>1, <2>1, BoundAssumption DEF PlaceOK, Event, Succeeds
<1>3. life' \in {"constructing", "alive", "releasing", "base", "destroyed"}
  BY <1>1, NextLemma, OutsideLemma
     DEF PlaceOK, AnyStep, RunInit, RunRelease, RunDrained, RunRefresh, RunCommand, Constructed,
         RequestCommand, Destroy, Released, Drained, Notify, vars, taskSame
<1>4. wpc' \in {"idle", "default", "enumerate", "device", "read", "push", "find", "set", "aborted"}
  BY <1>1, NextLemma
     DEF PlaceOK, AnyStep, Outside, FindDevice, SetLevel, SetRole, ReadDefault, Enumerate, Device, Read,
         Push, RunInit, RunRelease, RunDrained, RunRefresh, RunCommand, Constructed, RequestCommand,
         Destroy, Released, Drained, Notify, EndpointsChange, vars, ownerSame, Subscribe, NextFlow, Return
<1>5. result' \in {"none", "Ok", "DeviceNotFound", "BackendError", "Unsupported"}
  BY <1>1, NextLemma
     DEF PlaceOK, AnyStep, Outside, FindDevice, SetLevel, SetRole, ReadDefault, Enumerate, Device, Read,
         Push, RunInit, RunRelease, RunDrained, RunRefresh, RunCommand, Constructed, RequestCommand,
         Destroy, Released, Drained, Notify, EndpointsChange, vars, ownerSame, scanSame, handlerVars, Return
<1>6. flow' \in 1..Len(Flows)
  <2>1. flow' = flow \/ flow' = 1 \/ (flow < Len(Flows) /\ flow' = flow + 1)
    BY NextLemma
       DEF AnyStep, Outside, FindDevice, SetLevel, SetRole, ReadDefault, Enumerate, Device, Read,
           Push, RunInit, RunRelease, RunDrained, RunRefresh, RunCommand, Constructed, RequestCommand,
           Destroy, Released, Drained, Notify, EndpointsChange, vars, ownerSame, handlerSame, scanVars,
           NextFlow
  <2> QED
    BY <1>1, <2>1, FlowsLemma DEF PlaceOK
<1> QED
  BY <1>2, <1>3, <1>4, <1>5, <1>6 DEF PlaceOK

LEMMA CommandStep == ASSUME IInv, [Next]_vars PROVE CommandOK'
<1>1. CommandOK /\ HandlerInv /\ QueueOK /\ QueueInv
  BY TypeParts DEF IInv
<1>2. roles' \in 0..Roles
  BY <1>1, NextLemma
     DEF CommandOK, HandlerInv, Roles, AnyStep, Outside, FindDevice, SetLevel, SetRole, ReadDefault,
         Enumerate, Device, Read, Push, RunInit, RunRelease, RunDrained, RunRefresh, RunCommand,
         Constructed, RequestCommand, Destroy, Released, Drained, Notify, EndpointsChange, vars,
         ownerSame, scanSame, handlerVars, Return
<1>3. CASE RunCommand
  <2>1. Head(queue) \in Command
    BY <1>1, <1>3, HeadLemma, TaskLemma DEF RunCommand, Take
  <2> QED
    BY <1>2, <1>3, <2>1 DEF RunCommand, CommandOK
<1>4. CASE ~RunCommand
  <2>1. command' \in {command, None}
    BY <1>4, NextLemma
       DEF AnyStep, Outside, FindDevice, SetLevel, SetRole, ReadDefault, Enumerate, Device, Read,
           Push, RunInit, RunRelease, RunDrained, RunRefresh, Constructed, RequestCommand,
           Destroy, Released, Drained, Notify, EndpointsChange, vars, ownerSame, scanSame,
           handlerVars, Return
  <2>2. promise' \in {promise, command, None}
    BY <1>4, NextLemma
       DEF AnyStep, Outside, FindDevice, SetLevel, SetRole, ReadDefault, Enumerate, Device, Read,
           Push, RunInit, RunRelease, RunDrained, RunRefresh, Constructed, RequestCommand,
           Destroy, Released, Drained, Notify, EndpointsChange, vars, ownerSame, scanSame, handlerVars
  <2> QED
    BY <1>1, <1>2, <2>1, <2>2 DEF CommandOK
<1> QED
  BY <1>3, <1>4

LEMMA ScanTypeStep == ASSUME IInv, [Next]_vars PROVE ScanOK'
<1>1. WorldOK /\ ScanOK /\ PlaceOK /\ HandlerInv
  BY TypeParts DEF IInv
<1>2. ASSUME NEW id \in Ids, NEW l \in Levels \cup {NoLevel}
      PROVE  [id |-> id, is_default |-> id = default_id, level |-> l] \in Snapshot
  BY DEF Snapshot
<1>3. CASE ReadDefault
  <2>1. DefaultOf(flow) \in Ids \cup {None}
    BY <1>1, FlowsLemma DEF DefaultOf, WorldOK, PlaceOK
  <2> QED
    BY <1>1, <1>3, <2>1 DEF ReadDefault, ScanOK
<1>4. CASE Enumerate
  BY <1>1, <1>4 DEF Enumerate, OfFlow, WorldOK, ScanOK
<1>5. CASE Device
  <2>1. UNCHANGED <<default_id, report>> /\ collection' \subseteq collection
    BY <1>5 DEF Device
  <2>2. device' \in Ids \cup {None}
    BY <1>1, <1>5 DEF Device, Subscribe, ScanOK
  <2>3. snapshots' = snapshots \/ \E id \in collection : PushBack(id, NoLevel)
    BY <1>5 DEF Device, Subscribe
  <2>4. snapshots' \subseteq Snapshot
    BY <1>1, <1>2, <2>3 DEF PushBack, ScanOK
  <2> QED
    BY <1>1, <2>1, <2>2, <2>4 DEF ScanOK
<1>6. CASE Read
  <2>1. UNCHANGED <<default_id, report, collection>> /\ device' = None /\ device \in Ids
    BY <1>1, <1>6 DEF Read, HandlerInv
  <2>2. level[device] \in Levels
    BY <1>1, <2>1 DEF WorldOK
  <2>3. \E l \in Levels \cup {NoLevel} : PushBack(device, l)
    BY <1>6, <2>2 DEF Read
  <2>4. snapshots' \subseteq Snapshot
    BY <1>1, <1>2, <2>1, <2>3 DEF PushBack, ScanOK
  <2> QED
    BY <1>1, <2>1, <2>4 DEF ScanOK
<1>7. CASE Push
  BY <1>1, <1>7 DEF Push, ScanOK
<1>8. CASE RunRefresh
  BY <1>1, <1>8 DEF RunRefresh, ScanOK
<1>9. CASE \/ FindDevice \/ SetLevel \/ SetRole \/ EndpointsChange
           \/ RunInit \/ RunRelease \/ RunDrained \/ RunCommand
           \/ Constructed \/ RequestCommand \/ Destroy \/ Released \/ Drained \/ UNCHANGED vars
           \/ \E n \in Ids \cup {Endpoints} : Notify(n)
  <2>1. UNCHANGED <<default_id, collection, device, snapshots, report>>
    BY <1>9 DEF FindDevice, SetLevel, SetRole, EndpointsChange, RunInit, RunRelease, RunDrained,
                RunCommand, Constructed, RequestCommand, Destroy, Released, Drained, Notify, vars,
                handlerSame, ownerSame, scanVars
  <2> QED
    BY <1>1, <2>1 DEF ScanOK
<1> QED
  BY <1>3, <1>4, <1>5, <1>6, <1>7, <1>8, <1>9, NextLemma DEF AnyStep, Outside

--------------------------------------------------------------------------------
(* Theorems *)

LEMMA Initially == ASSUME Init PROVE IInv
<1>1. active \subseteq Ids /\ default \in [ToSet(Flows) -> Ids \cup {None}]
  BY DEF Init, Defaults
<1>2. level \in [Ids -> Levels]
  BY LevelAssumption DEF Init
<1>3. queue \in Seq(Tasks) /\ Len(queue) = 1 /\ queue[1].kind = "init" /\ queue[1] \notin Command
  BY TaskLemma DEF Init, Marks
<1>4. WorldOK /\ ComOK /\ QueueOK
  BY <1>1, <1>2, <1>3 DEF Init, WorldOK, ComOK, QueueOK
<1>5. PlaceOK
  BY BoundAssumption, FlowsLemma DEF Init, PlaceOK
<1>6. FlagsOK
  BY DEF Init, FlagsOK
<1>7. CommandOK /\ ScanOK
  BY DEF Init, CommandOK, ScanOK, Roles
<1>8. HandlerInv /\ HeldInv /\ PromiseIsKept /\ ScanInv
  BY DEF Init, HandlerInv, Roles, HeldInv, NothingHeldOnceReleased, HandlersHoldOn,
         OnlyLateNotificationsAbort, Scanning, PromiseIsKept, ScanInv
<1>9. QueueInv
  BY <1>3 DEF Init, QueueInv, InitFirst, ReleaseOnce, HandledFirst, Handled, Positions, Early
<1> QED
  BY <1>4, <1>5, <1>6, <1>7, <1>8, <1>9, TypeParts DEF IInv

LEMMA Inductive == IInv /\ [Next]_vars => IInv'
<1> SUFFICES ASSUME IInv, [Next]_vars PROVE IInv'
  OBVIOUS
<1>1. TypeOK' <=> /\ WorldOK' /\ ComOK' /\ QueueOK' /\ FlagsOK' /\ PlaceOK' /\ CommandOK' /\ ScanOK'
  BY TypeParts, PTL
<1>2. TypeOK'
  BY <1>1, WorldStep, ComStep, QueueStep, FlagsStep, PlaceStep, CommandStep, ScanTypeStep
<1> QED
  BY <1>2, HandlerKeeps, QueueStep, HeldStep, PromiseStep, ScanStep DEF IInv

LEMMA Invariant == Spec => []IInv
<1>1. Init => IInv
  BY Initially
<1> QED
  BY <1>1, Inductive, PTL DEF Spec

\* For any endpoints, levels and number of events every variable keeps its type: COM owes
\* nothing to a callback it does not know, and is known to no endpoint without a subscription.
THEOREM TypeCorrect == Spec => []TypeOK
<1>1. IInv => TypeOK
  BY DEF IInv
<1> QED
  BY <1>1, Invariant, PTL

\* Once the task of ~WasapiBackend() has run COM has no callback of the backend, and the
\* backend nothing of COM, for good (wasapi_backend.hpp:247-267).
THEOREM ReleasedForGood == Spec => []NothingHeldOnceReleased
<1>1. IInv => NothingHeldOnceReleased
  BY DEF IInv, HeldInv
<1> QED
  BY <1>1, Invariant, PTL

\* A handler that is gone is called for a notification that came too late, and for
\* nothing else.
THEOREM OnlyLateOnesAbort == Spec => []OnlyLateNotificationsAbort
<1>1. IInv => OnlyLateNotificationsAbort
  BY DEF IInv, HeldInv
<1> QED
  BY <1>1, Invariant, PTL

\* Commands always find the derived part that handles them: none is left in the queue
\* when the task of the destructor has run (wasapi_backend.hpp:247-267).
THEOREM CommandsAreHandledInTime ==
  Spec => [](wpc \in {"find", "set"} => life \notin {"base", "destroyed"})
<1>1. IInv => (wpc \in {"find", "set"} => life \notin {"base", "destroyed"})
  BY DEF IInv, HeldInv, HandlersHoldOn, QueueInv, ReleaseOnce
<1> QED
  BY <1>1, Invariant, PTL

\* The report of a refresh in which no call failed shows what the last command that
\* returned Ok has set, if nothing changed since.
THEOREM OkIsReported == Spec => CommandsShow
<1>1. ASSUME IInv, [Next]_vars
      PROVE  [\A c \in Command : (wpc = "push" /\ wpc' = "idle" /\ promise = c /\ result = "Ok"
                /\ ~failed /\ c.id \notin invalid) => Shows(c, report')]_vars
  <2> SUFFICES ASSUME NEW c \in Command, wpc = "push", wpc' = "idle", promise = c,
                      ~failed, c.id \notin invalid
               PROVE  Shows(c, report')
    OBVIOUS
  <2>1. Push
    <3>1. ~(RunInit \/ RunRelease \/ RunDrained \/ RunRefresh \/ RunCommand)
      BY DEF RunInit, RunRelease, RunDrained, RunRefresh, RunCommand, Take
    <3>2. ~(FindDevice \/ SetLevel \/ SetRole \/ ReadDefault \/ Enumerate \/ Device \/ Read)
      BY DEF FindDevice, SetLevel, SetRole, ReadDefault, Enumerate, Device, Read
    <3>3. ~(Constructed \/ RequestCommand \/ Destroy \/ Released \/ Drained \/ EndpointsChange)
      BY DEF Constructed, RequestCommand, Destroy, Released, Drained, EndpointsChange, ownerSame
    <3>4. ~(UNCHANGED vars \/ \E n \in Ids \cup {Endpoints} : Notify(n))
      BY DEF vars, Notify
    <3> QED
      BY <1>1, <3>1, <3>2, <3>3, <3>4, NextLemma DEF AnyStep, Outside
  <2>2. report' = snapshots
    BY <2>1 DEF Push
  <2>3. c # None
    BY CommandLemma
  <2>4. Shows(c, snapshots)
    BY <1>1, <2>3 DEF IInv, ScanInv, Scanning, InHand
  <2> QED
    BY <2>2, <2>4
<1> QED
  BY <1>1, Invariant, PTL DEF Spec, CommandsShow

--------------------------------------------------------------------------------
(* The report of endpoints that have settled: the safety half of ReportsCatchUp *)

RefreshQueued == \E i \in Positions : queue[i] = Job("refresh")

\* The NotificationClient hears of the endpoints and has nothing more to tell, and no
\* call of the last refresh failed.
Watching ==
  /\ life = "alive" /\ Endpoints \in registered \ owed
  /\ ~failed /\ ~RefreshQueued

\* A snapshot shows its endpoint, its level unless its VolumeCallback was not registered
\* or has still to tell of it.
Accurate(s) ==
  /\ s.id \in active \cap volume_subscriptions_
  /\ s.is_default <=> default[FlowOf(s.id)] = s.id
  /\ s.id \in registered \ owed => s.level = level[s.id]

Covers(snaps, ids) == {s.id : s \in snaps} = ids /\ \A s \in snaps : Accurate(s)

\* The endpoints a refresh has read.
Behind(i) ==
  \/ flow = 2 /\ FlowOf(i) = Flows[1]
  \/ wpc = "push"
  \/ /\ wpc \in {"device", "read"} /\ FlowOf(i) = Flows[flow]
     /\ i \notin collection /\ (wpc = "read" => i # device)

ScanIsCurrent ==
  /\ Covers(snapshots, {i \in active : Behind(i)})
  /\ wpc \in {"enumerate", "device", "read"} => default_id = default[Flows[flow]]
  /\ wpc \in {"device", "read"} => collection \subseteq OfFlow(active, Flows[flow])
  /\ wpc = "read" => device \in (OfFlow(active, Flows[flow]) \cap volume_subscriptions_) \ collection
  /\ wpc = "push" => flow = 2

ReportIsCurrent == report \subseteq Snapshot /\ Covers(report, active)

\* COM knows no callback of an endpoint that went away, and none without an enumerator.
RegisteredInv == invalid \cap registered = {} /\ (registered # {} => enumerator_)

CaughtInv == Watching => IF Scanning THEN ScanIsCurrent ELSE ReportIsCurrent

\* While nothing is owed, queued or running the report shows the endpoints there are.
SettledReportIsPresent ==
  Sound /\ owed = {} /\ ~RefreshQueued /\ ~Scanning => report = Present

\* A refresh leaves the queue only to run.
LEMMA QueuedStays ==
  ASSUME QueueOK, RefreshQueued,
         \/ queue' = queue
         \/ \E t \in Tasks : queue' = Append(queue, t)
         \/ queue # <<>> /\ Head(queue).kind # "refresh" /\ queue' = Tail(queue)
  PROVE  RefreshQueued'
<1>1. PICK i \in Positions : queue[i] = Job("refresh")
  BY DEF RefreshQueued
<1>2. CASE queue' = queue
  BY <1>1, <1>2 DEF RefreshQueued, Positions
<1>3. ASSUME NEW t \in Tasks, queue' = Append(queue, t) PROVE RefreshQueued'
  <2>1. i \in Positions' /\ queue'[i] = queue[i]
    BY <1>1, <1>3, AppendLemma DEF QueueOK, Positions
  <2> QED
    BY <1>1, <2>1 DEF RefreshQueued
<1>4. CASE queue # <<>> /\ Head(queue).kind # "refresh" /\ queue' = Tail(queue)
  <2>1. Job("refresh").kind = "refresh"
    BY DEF Job
  <2>2. i # 1
    BY <1>1, <1>4, <2>1, TailLemma DEF QueueOK
  <2>3. i - 1 \in Positions' /\ queue'[i - 1] = queue[i]
    BY <1>1, <1>4, <2>2, TailLemma DEF QueueOK, Positions
  <2> QED
    BY <1>1, <2>3 DEF RefreshQueued
<1> QED
  BY <1>2, <1>3, <1>4

LEMMA RequestIsQueued == ASSUME QueueOK, RequestRefresh PROVE RefreshQueued'
<1>1. Job("refresh") \in Tasks
  BY TaskLemma DEF Marks
<1>2. CASE queue # <<>> /\ Last(queue) = Job("refresh") /\ queue' = queue
  <2>1. Len(queue) \in Positions /\ queue[Len(queue)] = Job("refresh")
    BY <1>2 DEF QueueOK, Positions, Last
  <2> QED
    BY <1>2, <2>1 DEF RefreshQueued, Positions
<1>3. CASE queue' = Append(queue, Job("refresh"))
  <2>1. Len(queue) + 1 \in Positions' /\ queue'[Len(queue) + 1] = Job("refresh")
    BY <1>1, <1>3, AppendLemma DEF QueueOK, Positions
  <2> QED
    BY <2>1 DEF RefreshQueued
<1> QED
  BY <1>2, <1>3 DEF RequestRefresh

LEMMA RegisteredStep == ASSUME IInv, RegisteredInv, [Next]_vars PROVE RegisteredInv'
<1>1. WorldOK /\ ComOK /\ HeldInv /\ ScanOK
  BY TypeParts DEF IInv
<1>2. CASE EndpointsChange
  <2>1. enumerator_' = enumerator_
    BY <1>2 DEF EndpointsChange, held
  <2>2. registered' \subseteq registered /\ invalid' \cap registered' = {}
    BY <1>2 DEF EndpointsChange, Replug, RegisteredInv
  <2> QED
    BY <2>1, <2>2 DEF RegisteredInv
<1>3. CASE Device
  <2>1. UNCHANGED <<invalid, enumerator_>> /\ enumerator_
    BY <1>1, <1>3 DEF Device, scanSame, HeldInv, HandlersHoldOn, Scanning
  <2>2. \/ registered' = registered
        \/ \E id \in Ids : id \notin volume_subscriptions_ /\ registered' = registered \cup {id}
    BY <1>1, <1>3 DEF Device, Subscribe, ScanOK
  <2> QED
    BY <1>1, <2>1, <2>2 DEF RegisteredInv, ComOK
<1>4. CASE RunInit
  <2>1. /\ invalid' = invalid /\ (enumerator_ => enumerator_')
        /\ \/ registered' = registered
           \/ registered' = registered \cup {Endpoints} /\ enumerator_'
    BY <1>4 DEF RunInit
  <2> QED
    BY <1>1, <2>1, IdsAssumption DEF RegisteredInv, ComOK
<1>5. CASE RunRelease
  BY <1>5 DEF RunRelease, RegisteredInv
<1>6. CASE Push
  BY <1>6 DEF Push, RegisteredInv
<1>7. CASE \/ FindDevice \/ SetLevel \/ SetRole \/ ReadDefault \/ Enumerate \/ Read
           \/ RunDrained \/ RunRefresh \/ RunCommand
           \/ Constructed \/ RequestCommand \/ Destroy \/ Released \/ Drained \/ UNCHANGED vars
           \/ \E n \in Ids \cup {Endpoints} : Notify(n)
  <2>1. UNCHANGED <<invalid, registered, enumerator_>>
    BY <1>7 DEF FindDevice, SetLevel, SetRole, ReadDefault, Enumerate, Read, RunDrained, RunRefresh,
                RunCommand, Constructed, RequestCommand, Destroy, Released, Drained, Notify, vars,
                handlerSame, scanSame, ownerSame, com, held
  <2> QED
    BY <2>1 DEF RegisteredInv
<1> QED
  BY <1>2, <1>3, <1>4, <1>5, <1>6, <1>7, NextLemma DEF AnyStep, Outside

\* What a snapshot shows stays as it is while its endpoint does.
LEMMA AccurateStays ==
  ASSUME NEW s, Accurate(s),
         active' = active, default' = default, s.id \in volume_subscriptions_',
         s.id \in registered' \ owed' => s.id \in registered \ owed /\ level'[s.id] = level[s.id]
  PROVE  Accurate(s)'
  BY DEF Accurate

LEMMA CoversStays ==
  ASSUME NEW snaps, NEW ids, Covers(snaps, ids), active' = active, default' = default,
         \A i \in ids :
           /\ i \in volume_subscriptions_'
           /\ i \in registered' \ owed' => i \in registered \ owed /\ level'[i] = level[i]
  PROVE  Covers(snaps, ids)'
<1>1. \A s \in snaps : s.id \in ids /\ Accurate(s)
  BY DEF Covers
<1>2. \A s \in snaps : Accurate(s)'
  BY <1>1, AccurateStays
<1> QED
  BY <1>2 DEF Covers

\* A step that leaves the refresh, the report and what they show alone.
LEMMA StaysCaught ==
  ASSUME CaughtInv, Watching' => Watching,
         UNCHANGED <<active, default, flow, default_id, snapshots, collection, device, report>>,
         \A i \in active \cap volume_subscriptions_ :
           /\ i \in volume_subscriptions_'
           /\ i \in registered' \ owed' => i \in registered \ owed /\ level'[i] = level[i],
         device \in volume_subscriptions_ => device \in volume_subscriptions_',
         wpc' = wpc \/ (~Scanning /\ ~Scanning')
  PROVE  CaughtInv'
<1> SUFFICES ASSUME Watching' PROVE IF Scanning' THEN ScanIsCurrent' ELSE ReportIsCurrent'
  BY DEF CaughtInv
<1>1. PICK snaps, rep, ids, all : /\ snaps = snapshots /\ rep = report
                                  /\ ids = {i \in active : Behind(i)} /\ all = active
  OBVIOUS
<1>2. Scanning' = Scanning /\ (Scanning => wpc' = wpc)
  BY DEF Scanning
<1>3. ASSUME NEW x, NEW y, Covers(x, y) PROVE Covers(x, y)'
  <2>1. \A i \in y : i \in active \cap volume_subscriptions_
    BY <1>3 DEF Covers, Accurate
  <2> QED
    BY <1>3, <2>1, CoversStays
<1>4. CASE Scanning
  <2>1. ScanIsCurrent /\ Covers(snaps, ids)
    BY <1>1, <1>4 DEF CaughtInv, ScanIsCurrent
  <2>2. ids = {i \in active' : Behind(i)'}
    BY <1>1, <1>2, <1>4 DEF Behind
  <2>3. Covers(snaps, ids)'
    BY <1>3, <2>1
  <2>4. Covers(snapshots, {i \in active : Behind(i)})'
    BY <1>1, <2>2, <2>3 DEF Covers
  <2> QED
    BY <1>2, <1>4, <2>1, <2>4 DEF ScanIsCurrent, OfFlow
<1>5. CASE ~Scanning
  <2>1. ReportIsCurrent /\ Covers(rep, all)
    BY <1>1, <1>5 DEF CaughtInv, ReportIsCurrent
  <2>2. Covers(rep, all)'
    BY <1>3, <2>1
  <2> QED
    BY <1>1, <1>2, <1>5, <2>1, <2>2 DEF ReportIsCurrent, Covers
<1> QED
  BY <1>4, <1>5

\* The endpoints: what changes them is told of, and what changes a level is told of by
\* the callback that is registered.
LEMMA CaughtWhenEndpointsChange ==
  ASSUME IInv, RegisteredInv, CaughtInv, EndpointsChange PROVE CaughtInv'
<1>1. /\ UNCHANGED <<life, queue, failed, volume_subscriptions_, flow, default_id, snapshots,
                     collection, device, report, wpc>>
      /\ ComOK /\ WorldOK
  BY TypeParts DEF EndpointsChange, workerVars, held, scanVars, IInv
<1>2. CASE \E ids, d : Replug(ids, d)
  <2>1. Endpoints \in registered' => Endpoints \in owed'
    BY <1>2 DEF Replug
  <2> QED
    BY <2>1 DEF CaughtInv, Watching
<1>3. CASE Tell({Endpoints}) /\ registered' = registered
  <2>1. Endpoints \in registered' => Endpoints \in owed'
    BY <1>3 DEF Tell
  <2> QED
    BY <2>1 DEF CaughtInv, Watching
<1>4. ASSUME NEW i \in active, NEW v, level' = [level EXCEPT ![i] = v], Tell({i} \ invalid),
             UNCHANGED <<active, default, registered, invalid>>
      PROVE  CaughtInv'
  <2>1. i \in registered' => i \in owed'
    BY <1>4 DEF Tell, RegisteredInv
  <2>2. owed \subseteq owed'
    BY <1>4 DEF Tell
  <2>3. Watching' => Watching
    BY <1>1, <1>4, <2>2 DEF Watching, RefreshQueued, Positions
  <2>4. \A j \in active : j # i => level'[j] = level[j]
    BY <1>1, <1>4 DEF WorldOK
  <2>5. ASSUME NEW j \in active \cap volume_subscriptions_, j \in registered' \ owed'
        PROVE  j \in registered \ owed /\ level'[j] = level[j]
    BY <1>4, <2>1, <2>2, <2>4, <2>5
  <2> QED
    BY <1>1, <1>4, <2>3, <2>5, StaysCaught
<1> QED
  BY <1>2, <1>3, <1>4 DEF EndpointsChange

\* Commands tell the callbacks of what they set, like everybody else.
LEMMA CaughtWhenCommandsRun ==
  ASSUME IInv, RegisteredInv, CaughtInv, FindDevice \/ SetLevel \/ SetRole PROVE CaughtInv'
<1>a. UNCHANGED <<active, life, queue, failed, registered, invalid, volume_subscriptions_, flow,
                  default_id, snapshots, collection, device, report>>
  BY DEF FindDevice, SetLevel, SetRole, handlerSame, workerVars, held, scanVars, world
<1>b. ~Scanning /\ ~Scanning'
  BY DEF FindDevice, SetLevel, SetRole, Return, Scanning
<1>c. WorldOK
  BY TypeParts DEF IInv
<1>1. /\ UNCHANGED <<active, life, queue, failed, registered, invalid, volume_subscriptions_, flow,
                     default_id, snapshots, collection, device, report>>
      /\ WorldOK /\ ~Scanning /\ ~Scanning'
  BY <1>a, <1>b, <1>c
<1>2. owed \subseteq owed'
  BY DEF FindDevice, SetLevel, SetRole, Tell
<1>3. Watching' => Watching
  BY <1>1, <1>2 DEF Watching, RefreshQueued, Positions
<1>4. CASE default' # default
  <2>1. Tell({Endpoints})
    BY <1>4 DEF FindDevice, SetLevel, SetRole, world
  <2>2. Endpoints \in registered' => Endpoints \in owed'
    BY <1>1, <2>1 DEF Tell
  <2> QED
    BY <2>2 DEF CaughtInv, Watching
<1>5. CASE default' = default
  <2>1. ASSUME NEW i \in active, i \in registered' \ owed'
        PROVE  i \in registered \ owed /\ level'[i] = level[i]
    <3>1. i \in registered \ owed
      BY <1>1, <1>2, <2>1
    <3>2. CASE level' = level
      BY <3>1, <3>2
    <3>3. CASE /\ level' = [level EXCEPT ![command.id] = command.level]
               /\ Tell({command.id} \ invalid)
      <4>1. i # command.id
        BY <2>1, <3>1, <3>3 DEF Tell, RegisteredInv
      <4> QED
        BY <1>1, <3>1, <3>3, <4>1 DEF WorldOK
    <3> QED
      BY <3>2, <3>3 DEF FindDevice, SetLevel, SetRole, world
  <2> QED
    BY <1>1, <1>3, <1>5, <2>1, StaysCaught
<1> QED
  BY <1>4, <1>5

\* The queue and the owner: what does not bring the next refresh about keeps the queue.
LEMMA CaughtOutside ==
  ASSUME IInv, RegisteredInv, CaughtInv, [Next]_vars,
         \/ RunInit \/ RunRelease \/ RunDrained \/ RunCommand
         \/ Constructed \/ RequestCommand \/ Destroy \/ Released \/ Drained \/ UNCHANGED vars
         \/ \E n \in Ids \cup {Endpoints} : Notify(n)
  PROVE  CaughtInv'
<1>1. QueueOK /\ QueueInv
  BY TypeParts DEF IInv
<1>2. CASE \E n \in Ids \cup {Endpoints} : Notify(n)
  BY <1>1, <1>2, RequestIsQueued DEF Notify, CaughtInv, Watching
<1>3. CASE RunInit \/ RunRelease
  <2>1. queue # <<>> /\ Head(queue).kind \in {"init", "release"} /\ life' = life
    BY <1>3 DEF RunInit, RunRelease, Take, taskSame
  <2>2. 1 \in Positions /\ Head(queue) = queue[1]
    BY <1>1, <2>1, TailLemma DEF QueueOK, Positions
  <2>3. life # "alive"
    BY <1>1, <2>1, <2>2 DEF QueueInv, InitFirst, ReleaseOnce, Early
  <2> QED
    BY <2>1, <2>3 DEF CaughtInv, Watching
<1>4. CASE Destroy \/ Released \/ Drained
  BY <1>4 DEF Destroy, Released, Drained, CaughtInv, Watching
<1>5. CASE Constructed
  <2>1. registered' # {} => enumerator_'
    BY RegisteredStep DEF RegisteredInv
  <2>2. enumerator_' = enumerator_
    BY <1>5 DEF Constructed, ownerSame, held
  <2>3. enumerator_ => RefreshQueued'
    BY <1>1, <1>5, RequestIsQueued DEF Constructed
  <2> QED
    BY <2>1, <2>2, <2>3 DEF CaughtInv, Watching
<1>6. CASE RunDrained \/ RunCommand \/ RequestCommand \/ UNCHANGED vars
  <2>1. /\ UNCHANGED <<active, default, level, life, registered, owed, volume_subscriptions_, failed,
                       flow, default_id, snapshots, collection, device, report>>
        /\ wpc' = wpc \/ (~Scanning /\ ~Scanning')
    BY <1>6 DEF RunDrained, RunCommand, RequestCommand, Take, vars, taskSame, world, com, held,
                scanVars, Scanning
  <2>2. RefreshQueued => RefreshQueued'
    <3>1. CASE RunDrained \/ RunCommand
      BY <1>1, <3>1, QueuedStays DEF RunDrained, RunCommand, Take
    <3>2. CASE RequestCommand
      <4>1. PICK job \in Command \cup {Job("refresh")} : queue' = Append(queue, job)
        BY <3>2 DEF RequestCommand, Post
      <4>2. job \in Tasks
        BY TaskLemma DEF Tasks, Marks
      <4> QED
        BY <1>1, <4>1, <4>2, QueuedStays
    <3>3. CASE UNCHANGED vars
      BY <1>1, <3>3, QueuedStays DEF vars, workerVars
    <3> QED
      BY <1>6, <3>1, <3>2, <3>3
  <2>3. Watching' => Watching
    BY <2>1, <2>2 DEF Watching
  <2> QED
    BY <2>1, <2>3, StaysCaught
<1> QED
  BY <1>2, <1>3, <1>4, <1>5, <1>6

\* The steps of a refresh leave the endpoints alone and the NotificationClient registered.
LEMMA ScanKeepsWatch ==
  ASSUME IInv, Watching', ReadDefault \/ Enumerate \/ Device \/ Read \/ Push
  PROVE  /\ Watching /\ Scanning
         /\ UNCHANGED <<active, default, level, invalid>> \/ Push
         /\ UNCHANGED <<active, default, level>>
<1>1. UNCHANGED <<life, queue, active, default, level>> /\ Scanning
  BY DEF ReadDefault, Enumerate, Device, Read, Push, scanSame, taskSame, workerVars, world, Scanning
<1>2. ~failed /\ (invalid' = invalid \/ Push)
  BY DEF Watching, ReadDefault, Enumerate, Device, Read, Push, Subscribe, Got, Missed, scanSame
<1>3. Endpoints \in registered \ owed
  <2>1. ComOK /\ ScanOK /\ Endpoints \notin Ids
    BY TypeParts, IdsAssumption DEF IInv
  <2>2. CASE Push
    BY <2>1, <2>2 DEF Push, Undelivered, Watching, ComOK
  <2>3. CASE ReadDefault \/ Enumerate \/ Device \/ Read
    <3>1. owed' = owed
      BY <2>3 DEF ReadDefault, Enumerate, Device, Read, scanSame
    <3>2. registered' \subseteq registered \cup Ids
      BY <2>1, <2>3 DEF ReadDefault, Enumerate, Device, Read, Subscribe, ScanOK
    <3> QED
      BY <2>1, <3>1, <3>2 DEF Watching
  <2> QED
    BY <2>2, <2>3
<1> QED
  BY <1>1, <1>2, <1>3 DEF Watching, RefreshQueued, Positions

\* A refresh begins with nothing read.
LEMMA CaughtWhenRefreshBegins == ASSUME IInv, RegisteredInv, RunRefresh PROVE CaughtInv'
<1> SUFFICES ASSUME Watching' PROVE IF Scanning' THEN ScanIsCurrent' ELSE ReportIsCurrent'
  BY DEF CaughtInv
<1>1. life = "alive" /\ enumerator_
  BY DEF RunRefresh, taskSame, com, Watching, RegisteredInv
<1>2. wpc' = "default" /\ flow' = 1 /\ snapshots' = {}
  BY <1>1 DEF RunRefresh
<1>3. \A i : ~Behind(i)'
  BY <1>2 DEF Behind
<1>4. Covers(snapshots, {i \in active : Behind(i)})'
  BY <1>2, <1>3 DEF Covers
<1> QED
  BY <1>2, <1>4 DEF Scanning, ScanIsCurrent

\* What has been read stays read in the steps that read nothing more.
LEMMA CoversOn ==
  ASSUME UNCHANGED <<active, default, level, owed>>, snapshots' = snapshots,
         Covers(snapshots, {i \in active : Behind(i)}),
         \A i \in active : Behind(i)' <=> Behind(i),
         \A i \in active \cap volume_subscriptions_ :
           i \in volume_subscriptions_' /\ (i \in registered' => i \in registered)
  PROVE  Covers(snapshots, {i \in active : Behind(i)})'
<1>1. PICK snaps, ids : snaps = snapshots /\ ids = {i \in active : Behind(i)}
  OBVIOUS
<1>2. Covers(snaps, ids) /\ \A i \in ids : i \in active \cap volume_subscriptions_
  BY <1>1 DEF Covers, Accurate
<1>3. Covers(snaps, ids)'
  BY <1>2, CoversStays
<1>4. ids = {i \in active' : Behind(i)'}
  BY <1>1
<1> QED
  BY <1>1, <1>3, <1>4 DEF Covers

LEMMA CaughtWhenDefaultIsRead == ASSUME IInv, CaughtInv, ReadDefault PROVE CaughtInv'
<1> SUFFICES ASSUME Watching' PROVE ScanIsCurrent' /\ Scanning'
  BY DEF CaughtInv
<1>1. /\ ScanIsCurrent /\ UNCHANGED <<active, default, level>>
  BY ScanKeepsWatch DEF CaughtInv
<1>2. /\ wpc = "default" /\ wpc' = "enumerate" /\ default_id' = default[Flows[flow]]
      /\ UNCHANGED <<flow, registered, volume_subscriptions_, owed, collection, device, snapshots>>
  BY DEF ReadDefault, DefaultOf, Missed, Watching, scanSame
<1>3. Covers(snapshots, {i \in active : Behind(i)})'
  BY <1>1, <1>2, CoversOn DEF ScanIsCurrent, Behind
<1> QED
  BY <1>1, <1>2, <1>3 DEF ScanIsCurrent, Scanning

LEMMA CaughtWhenEnumerated == ASSUME IInv, CaughtInv, Enumerate PROVE CaughtInv'
<1> SUFFICES ASSUME Watching' PROVE ScanIsCurrent' /\ Scanning'
  BY DEF CaughtInv
<1>1. /\ ScanIsCurrent /\ UNCHANGED <<active, default, level>>
  BY ScanKeepsWatch DEF CaughtInv
<1>2. /\ wpc = "enumerate" /\ wpc' = "device" /\ collection' = OfFlow(active, Flows[flow])
      /\ UNCHANGED <<flow, default_id, registered, volume_subscriptions_, owed, device, snapshots>>
  BY DEF Enumerate, Missed, Watching, scanSame
<1>3. \A i \in active : Behind(i)' <=> Behind(i)
  BY <1>2 DEF Behind, OfFlow
<1>4. Covers(snapshots, {i \in active : Behind(i)})'
  BY <1>1, <1>2, <1>3, CoversOn DEF ScanIsCurrent
<1> QED
  BY <1>1, <1>2, <1>4 DEF ScanIsCurrent, Scanning

LEMMA CaughtAtDevice == ASSUME IInv, CaughtInv, Device PROVE CaughtInv'
<1> SUFFICES ASSUME Watching' PROVE ScanIsCurrent' /\ Scanning'
  BY DEF CaughtInv
<1>1. /\ ScanIsCurrent /\ UNCHANGED <<active, default, level>>
  BY ScanKeepsWatch DEF CaughtInv
<1>2. /\ wpc = "device" /\ ~failed'
      /\ UNCHANGED <<default_id, owed>>
  BY DEF Device, Watching, scanSame
<1>3. flow \in {1, 2} /\ Len(Flows) = 2 /\ \A i \in active : FlowOf(i) \in {Flows[1], Flows[2]}
  BY TypeParts, FlowsLemma, FlowAssumption DEF IInv, PlaceOK, WorldOK
<1>4. CASE collection = {} /\ NextFlow
           /\ UNCHANGED <<collection, device, registered, volume_subscriptions_, snapshots>>
  <2>1. \/ flow = 1 /\ flow' = 2 /\ wpc' = "default"
        \/ flow = 2 /\ flow' = 2 /\ wpc' = "push"
    BY <1>3, <1>4 DEF NextFlow
  <2>2. \A i \in active : Behind(i)' <=> Behind(i)
    BY <1>2, <1>3, <1>4, <2>1 DEF Behind
  <2>3. Covers(snapshots, {i \in active : Behind(i)})'
    BY <1>1, <1>2, <1>4, <2>2, CoversOn DEF ScanIsCurrent
  <2> QED
    BY <1>1, <2>1, <2>3 DEF ScanIsCurrent, Scanning
<1>5. ASSUME NEW id \in collection, collection' = collection \ {id}, Subscribe(id), flow' = flow
      PROVE  ScanIsCurrent' /\ Scanning'
  <2>1. id \in active
    BY <1>1, <1>2, <1>5 DEF ScanIsCurrent, OfFlow
  <2>2. /\ device' = id /\ wpc' = "read" /\ snapshots' = snapshots
        /\ volume_subscriptions_' = volume_subscriptions_ \cup {id}
        /\ registered' = registered \/ (id \notin volume_subscriptions_ /\ registered' = registered \cup {id})
    BY <1>2, <1>5, <2>1 DEF Subscribe, Missed
  <2>3. \A i \in active : Behind(i)' <=> Behind(i)
    BY <1>2, <1>5, <2>2 DEF Behind
  <2>4. \A i \in active \cap volume_subscriptions_ :
          i \in volume_subscriptions_' /\ (i \in registered' => i \in registered)
    BY <2>2
  <2>5. Covers(snapshots, {i \in active : Behind(i)})'
    BY <1>1, <1>2, <2>2, <2>3, <2>4, CoversOn DEF ScanIsCurrent
  <2> QED
    BY <1>1, <1>2, <1>5, <2>1, <2>2, <2>5 DEF ScanIsCurrent, Scanning, OfFlow
<1> QED
  BY <1>2, <1>4, <1>5 DEF Device, Missed

LEMMA CaughtWhenVolumeIsRead == ASSUME IInv, RegisteredInv, CaughtInv, Read PROVE CaughtInv'
<1> SUFFICES ASSUME Watching' PROVE ScanIsCurrent' /\ Scanning'
  BY DEF CaughtInv
<1>1. /\ ScanIsCurrent /\ UNCHANGED <<active, default, level>>
  BY ScanKeepsWatch DEF CaughtInv
<1>2. /\ wpc = "read" /\ wpc' = "device"
      /\ PushBack(device, IF device \in invalid THEN NoLevel ELSE level[device])
      /\ UNCHANGED <<flow, default_id, owed, registered, volume_subscriptions_, collection>>
  BY DEF Read, Missed, Watching, scanSame
<1>3. PICK snaps, ids, d, id : /\ snaps = snapshots /\ ids = {i \in active : Behind(i)}
                               /\ d = device /\ id = default_id
  OBVIOUS
<1>4. /\ d \in active \cap volume_subscriptions_ /\ d \notin collection
      /\ FlowOf(d) = Flows[flow] /\ id = default[FlowOf(d)]
  BY <1>1, <1>2, <1>3 DEF ScanIsCurrent, OfFlow
<1>5. Covers(snaps, ids)'
  <2>1. Covers(snaps, ids) /\ \A i \in ids : i \in active \cap volume_subscriptions_
    BY <1>1, <1>3 DEF ScanIsCurrent, Covers, Accurate
  <2> QED
    BY <1>1, <1>2, <2>1, CoversStays
<1>6. PICK new : /\ new = [id |-> d, is_default |-> d = id,
                            level |-> IF d \in invalid THEN NoLevel ELSE level[d]]
                 /\ snapshots' = snaps \cup {new}
  BY <1>2, <1>3 DEF PushBack
<1>7. new.id = d /\ (d \in registered => new.level = level[d])
  BY <1>6 DEF RegisteredInv
<1>8. new.is_default <=> d = id
  BY <1>6
<1>9. Accurate(new)'
  BY <1>1, <1>2, <1>4, <1>7, <1>8 DEF Accurate
<1>10. {i \in active' : Behind(i)'} = ids \cup {d}
  BY <1>1, <1>2, <1>3, <1>4 DEF Behind
<1>11. Covers(snapshots, {i \in active : Behind(i)})'
  <2>1. {s.id : s \in snaps \cup {new}} = ids \cup {d}
    BY <1>5, <1>7 DEF Covers
  <2> QED
    BY <1>5, <1>6, <1>9, <1>10, <2>1 DEF Covers
<1> QED
  BY <1>1, <1>2, <1>11 DEF ScanIsCurrent, Scanning

\* What is pushed is what was read; the subscriptions that go are of others.
LEMMA CaughtWhenPushed == ASSUME IInv, CaughtInv, Push PROVE CaughtInv'
<1> SUFFICES ASSUME Watching' PROVE ReportIsCurrent' /\ ~Scanning'
  BY DEF CaughtInv
<1>1. /\ ScanIsCurrent /\ UNCHANGED <<active, default, level>>
  BY ScanKeepsWatch DEF CaughtInv
<1>2. PICK snaps, all : snaps = snapshots /\ all = active
  OBVIOUS
<1>3. wpc = "push" /\ wpc' = "idle" /\ report' = snaps
  BY <1>2 DEF Push
<1>4. Covers(snaps, all)
  BY <1>1, <1>2, <1>3 DEF ScanIsCurrent, Behind
<1>5. PICK unseen : /\ unseen = volume_subscriptions_ \ {s.id : s \in snaps}
                    /\ volume_subscriptions_' = volume_subscriptions_ \ unseen
                    /\ registered' = registered \ unseen /\ owed' = owed \ unseen
  BY <1>2 DEF Push, Undelivered
<1>6. ASSUME NEW i \in all
      PROVE  /\ i \in volume_subscriptions_'
             /\ i \in registered' \ owed' => i \in registered \ owed
  <2>1. i \notin unseen /\ i \in volume_subscriptions_
    BY <1>4, <1>5, <1>6 DEF Covers, Accurate
  <2> QED
    BY <1>5, <2>1
<1>7. Covers(snaps, all)'
  BY <1>1, <1>4, <1>6, CoversStays
<1>8. snaps \subseteq Snapshot
  BY <1>2, TypeParts DEF IInv, ScanOK
<1> QED
  BY <1>1, <1>2, <1>3, <1>7, <1>8 DEF ReportIsCurrent, Scanning, Covers

LEMMA CaughtStep ==
  ASSUME IInv, RegisteredInv, CaughtInv, [Next]_vars PROVE CaughtInv'
<1>1. CASE EndpointsChange
  BY <1>1, CaughtWhenEndpointsChange
<1>2. CASE FindDevice \/ SetLevel \/ SetRole
  BY <1>2, CaughtWhenCommandsRun
<1>3. CASE ReadDefault \/ Enumerate \/ Device \/ Read \/ Push
  BY <1>3, CaughtWhenDefaultIsRead, CaughtWhenEnumerated, CaughtAtDevice, CaughtWhenVolumeIsRead,
     CaughtWhenPushed
<1>4. CASE RunRefresh
  BY <1>4, CaughtWhenRefreshBegins
<1>5. CASE \/ RunInit \/ RunRelease \/ RunDrained \/ RunCommand
           \/ Constructed \/ RequestCommand \/ Destroy \/ Released \/ Drained \/ UNCHANGED vars
           \/ \E n \in Ids \cup {Endpoints} : Notify(n)
  BY <1>5, CaughtOutside
<1> QED
  BY <1>1, <1>2, <1>3, <1>4, <1>5, NextLemma DEF AnyStep, Outside

\* The safety core of ReportsCatchUp: while COM tells of everything the backend keeps an
\* interface of and no call of the last refresh failed, the last report is what is there
\* as soon as no notification and no refresh is under way, whatever changed meanwhile and
\* in whatever order it was read (wasapi_backend.hpp:146-230, 366-430).
THEOREM NotificationsSuffice == Spec => []SettledReportIsPresent
<1>1. Init => RegisteredInv /\ CaughtInv
  BY DEF Init, RegisteredInv, CaughtInv, Watching
<1>2. IInv /\ RegisteredInv /\ CaughtInv /\ [Next]_vars => RegisteredInv' /\ CaughtInv'
  BY RegisteredStep, CaughtStep
<1>3. IInv /\ CaughtInv => SettledReportIsPresent
  <2> SUFFICES ASSUME IInv, CaughtInv, Sound, owed = {}, ~RefreshQueued, ~Scanning
               PROVE  report = Present
    BY DEF SettledReportIsPresent
  <2>1. report \subseteq Snapshot /\ Covers(report, active)
    BY DEF Sound, Watching, CaughtInv, ReportIsCurrent
  <2>2. ASSUME NEW s \in report
        PROVE  /\ s.id \in active
               /\ s = [id |-> s.id, is_default |-> default[FlowOf(s.id)] = s.id, level |-> level[s.id]]
    <3>1. /\ s.id \in active /\ s.level = level[s.id]
          /\ s.is_default <=> default[FlowOf(s.id)] = s.id
      BY <2>1 DEF Covers, Accurate, Sound
    <3>2. s = [id |-> s.id, is_default |-> s.is_default, level |-> s.level] /\ s.is_default \in BOOLEAN
      BY <2>1 DEF Snapshot
    <3>3. s.is_default = (default[FlowOf(s.id)] = s.id)
      BY <3>1, <3>2
    <3> QED
      BY <3>1, <3>2, <3>3
  <2>3. report \subseteq Present
    BY <2>2 DEF Present
  <2>4. ASSUME NEW i \in active
        PROVE  [id |-> i, is_default |-> default[FlowOf(i)] = i, level |-> level[i]] \in report
    <3>1. PICK s \in report : s.id = i
      BY <2>1 DEF Covers
    <3> QED
      BY <2>2, <3>1
  <2> QED
    BY <2>3, <2>4 DEF Present
<1> QED
  BY <1>1, <1>2, <1>3, Invariant, PTL DEF Spec

================================================================================
