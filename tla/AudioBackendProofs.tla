--------------------------- MODULE AudioBackendProofs ---------------------------
(***************************************************************************)
(* What TLAPS proves of AudioBackend, for any requests: the types, that    *)
(* nothing is delivered once unsubscribe() has returned, and that what was *)
(* asked for before the destruction finds the derived part in place; and   *)
(* at the end of its poll worker, IntervalWorker, and of the derived part  *)
(* the tests use, MockBackend.                                             *)
(*                                                                         *)
(* The third is a statement about the queue: the drain task is there once  *)
(* at most, every task that needs the derived part stands before it, and   *)
(* the derived part goes only when it has run.                             *)
(***************************************************************************)
EXTENDS AudioBackend, IntervalWorker, MockBackend, TLAPS

Positions == 1..Len(backlog)

RequestsArePosted ==
  /\ \A i \in Positions : backlog[i] \in Requests => backlog[i] \in posted
  /\ running # <<>> /\ running[1] \in Requests => running[1] \in posted

OnlyPollsAtFirst ==
  life = "constructing" =>
    /\ \A i \in Positions : backlog[i] = "poll"
    /\ running # <<>> => running[1] = "poll"

DrainedOnce ==
  /\ \A i, j \in Positions : backlog[i] = "drained" /\ backlog[j] = "drained" => i = j
  /\ running # <<>> /\ running[1] = "drained" => \A i \in Positions : backlog[i] # "drained"
  /\ "drained" \in signalled \/ life \in {"constructing", "alive"} =>
       /\ \A i \in Positions : backlog[i] # "drained"
       /\ running # <<>> => running[1] # "drained"
  /\ life \in {"constructing", "alive"} => "drained" \notin signalled
  /\ life \in {"base", "joining", "destroyed"} => "drained" \in signalled

\* A task whose handler is called and that no exception of HandlersAreImplemented names.
Early(t, lateOnes) == t \notin {"poll", "event"} \cup lateOnes \cup Drains

EarlyBeforeDrained ==
  life \notin {"constructing", "alive"} =>
    /\ \A i \in Positions : Early(backlog[i], late) =>
         \E j \in Positions : j > i /\ backlog[j] = "drained"
    /\ running # <<>> /\ Early(running[1], late) => \E j \in Positions : backlog[j] = "drained"

QueueInv == RequestsArePosted /\ OnlyPollsAtFirst /\ DrainedOnce /\ EarlyBeforeDrained

\* The worker is inside a task unless it is idle, and a drain has no handler.
WorkerInv ==
  /\ running = <<>> => wpc = "idle"
  /\ wpc \in {"handle", "deliver", "on_done", "get"} => running[1] \notin Drains

IInv == TypeOK /\ QueueInv /\ WorkerInv /\ NoDeliveryOnceUnsubscribed

--------------------------------------------------------------------------------
(* The queue *)

LEMMA AppendLemma ==
  ASSUME NEW S, NEW s \in Seq(S), NEW t \in S
  PROVE  /\ Append(s, t) \in Seq(S) /\ Len(s) \in Nat /\ Len(Append(s, t)) = Len(s) + 1
         /\ \A i \in 1..(Len(s) + 1) :
              Append(s, t)[i] = IF i = Len(s) + 1 THEN t ELSE s[i]
  OBVIOUS

LEMMA TailLemma ==
  ASSUME NEW S, NEW s \in Seq(S), s # <<>>
  PROVE  /\ Head(s) \in S /\ Head(s) = s[1] /\ Len(s) \in Nat \ {0}
         /\ Tail(s) \in Seq(S) /\ Len(Tail(s)) = Len(s) - 1
         /\ \A i \in 1..(Len(s) - 1) : Tail(s)[i] = s[i + 1]
  OBVIOUS

\* A task other than a drain is submitted: in whatever state, as long as a request is
\* one that was posted, only polls come while the object is constructed, and only late
\* requests, polls and events while it is destroyed.
LEMMA SubmitKeeps ==
  ASSUME IInv, NEW t \in Tasks, Worker!Submit(t), t # "drained",
         life' = life, signalled' = signalled, posted \subseteq posted', late \subseteq late',
         t \in Requests => t \in posted',
         life = "constructing" => t = "poll",
         life \notin {"constructing", "alive"} => t \in {"poll", "event"} \cup late' \cup Drains
  PROVE  QueueInv'
<1>1. /\ backlog \in Seq(Tasks) /\ backlog' = Append(backlog, t) /\ running' = running
  BY DEF Worker!Submit, IInv, TypeOK
<1>2. /\ Len(backlog) \in Nat /\ Positions' = 1..(Len(backlog) + 1)
      /\ \A i \in Positions' : backlog'[i] = IF i = Len(backlog) + 1 THEN t ELSE backlog[i]
      /\ \A i \in Positions' : i # Len(backlog) + 1 => i \in Positions
      /\ Positions \subseteq Positions'
  BY <1>1, AppendLemma DEF Positions
<1> HIDE DEF Positions
<1>3. RequestsArePosted'
  BY <1>1, <1>2 DEF RequestsArePosted, IInv, QueueInv
<1>4. OnlyPollsAtFirst'
  BY <1>1, <1>2 DEF OnlyPollsAtFirst, IInv, QueueInv
<1>5. DrainedOnce'
  BY <1>1, <1>2 DEF DrainedOnce, IInv, QueueInv
<1>6. EarlyBeforeDrained'
  <2> SUFFICES ASSUME life \notin {"constructing", "alive"} PROVE EarlyBeforeDrained'
    BY DEF EarlyBeforeDrained
  <2>1. ASSUME NEW i \in Positions', Early(backlog'[i], late')
        PROVE  \E j \in Positions' : j > i /\ backlog'[j] = "drained"
    <3>1. i # Len(backlog) + 1
      BY <1>2, <2>1 DEF Early
    <3>2. i \in Positions /\ backlog'[i] = backlog[i] /\ Early(backlog[i], late)
      BY <1>2, <2>1, <3>1 DEF Early
    <3>3. PICK j \in Positions : j > i /\ backlog[j] = "drained"
      BY <3>2 DEF EarlyBeforeDrained, IInv, QueueInv
    <3> QED
      BY <1>2, <3>3 DEF Positions
  <2>2. ASSUME running' # <<>>, Early(running'[1], late')
        PROVE  \E j \in Positions' : backlog'[j] = "drained"
    <3>1. PICK j \in Positions : backlog[j] = "drained"
      BY <1>1, <2>2 DEF Early, EarlyBeforeDrained, IInv, QueueInv
    <3> QED
      BY <1>2, <3>1 DEF Positions
  <2> QED
    BY <2>1, <2>2 DEF EarlyBeforeDrained
<1> QED
  BY <1>3, <1>4, <1>5, <1>6 DEF QueueInv

\* The worker takes the first task.
LEMMA StartKeeps ==
  ASSUME IInv, Worker!Start, UNCHANGED <<life, signalled, posted, late>>
  PROVE  QueueInv' /\ backlog' \in Seq(Tasks) /\ \E t \in Tasks : running' = <<t>>
<1>1. /\ backlog \in Seq(Tasks) /\ backlog # <<>> /\ running = <<>>
      /\ running' = <<Head(backlog)>> /\ backlog' = Tail(backlog)
  BY DEF Worker!Start, IInv, TypeOK
<1>2. /\ Head(backlog) \in Tasks /\ Head(backlog) = backlog[1] /\ Len(backlog) \in Nat \ {0}
      /\ backlog' \in Seq(Tasks) /\ Len(backlog') = Len(backlog) - 1
      /\ \A i \in 1..(Len(backlog) - 1) : backlog'[i] = backlog[i + 1]
  BY <1>1, TailLemma
<1>3. /\ 1 \in Positions /\ running' # <<>> /\ running'[1] = backlog[1]
      /\ \A i \in Positions' : i + 1 \in Positions /\ backlog'[i] = backlog[i + 1] /\ i + 1 # 1
      /\ \A i \in Positions \ {1} : i - 1 \in Positions' /\ backlog'[i - 1] = backlog[i]
      /\ Positions \subseteq Nat /\ Positions' \subseteq Nat
  BY <1>1, <1>2 DEF Positions
<1>4. RequestsArePosted'
  BY <1>3 DEF RequestsArePosted, IInv, QueueInv
<1>5. OnlyPollsAtFirst'
  BY <1>3 DEF OnlyPollsAtFirst, IInv, QueueInv
<1>6. DrainedOnce'
  <2>1. ASSUME NEW i \in Positions', NEW j \in Positions',
               backlog'[i] = "drained", backlog'[j] = "drained"
        PROVE  i = j
    <3>1. i + 1 = j + 1
      BY <1>3, <2>1 DEF DrainedOnce, IInv, QueueInv
    <3> QED
      BY <1>3, <3>1
  <2>2. ASSUME running'[1] = "drained", NEW i \in Positions' PROVE backlog'[i] # "drained"
    BY <1>3, <2>2 DEF DrainedOnce, IInv, QueueInv
  <2> QED
    BY <1>3, <2>1, <2>2 DEF DrainedOnce, IInv, QueueInv
<1>7. EarlyBeforeDrained'
  <2> SUFFICES ASSUME life \notin {"constructing", "alive"} PROVE EarlyBeforeDrained'
    BY DEF EarlyBeforeDrained
  <2>1. ASSUME NEW i \in Positions', Early(backlog'[i], late)
        PROVE  \E j \in Positions' : j > i /\ backlog'[j] = "drained"
    <3>1. PICK j \in Positions : j > i + 1 /\ backlog[j] = "drained"
      BY <1>3, <2>1 DEF EarlyBeforeDrained, IInv, QueueInv
    <3>2. j - 1 \in Positions' /\ j - 1 > i /\ backlog'[j - 1] = "drained"
      BY <1>3, <3>1
    <3> QED
      BY <3>2
  <2>2. ASSUME Early(running'[1], late) PROVE \E j \in Positions' : backlog'[j] = "drained"
    <3>1. PICK j \in Positions : j > 1 /\ backlog[j] = "drained"
      BY <1>3, <2>2 DEF EarlyBeforeDrained, IInv, QueueInv
    <3> QED
      BY <1>3, <3>1
  <2> QED
    BY <2>1, <2>2 DEF EarlyBeforeDrained, Early
<1> QED
  BY <1>1, <1>2, <1>4, <1>5, <1>6, <1>7 DEF QueueInv

\* The worker finishes a task; if it is the drain task the derived part may go now.
LEMMA FinishKeeps ==
  ASSUME IInv, Worker!Finish, UNCHANGED <<life, posted, late>>,
         signalled' = signalled \cup (Drains \cap {running[1]})
  PROVE  QueueInv'
<1>1. /\ running # <<>> /\ running' = <<>> /\ backlog' = backlog /\ Positions' = Positions
      /\ "drained" \in signalled' => "drained" \in signalled \/ running[1] = "drained"
      /\ signalled \subseteq signalled'
  BY DEF Worker!Finish, Positions
<1>2. RequestsArePosted' /\ OnlyPollsAtFirst' /\ EarlyBeforeDrained'
  BY <1>1
  DEF RequestsArePosted, OnlyPollsAtFirst, EarlyBeforeDrained, Early, IInv, QueueInv
<1>3. DrainedOnce'
  BY <1>1 DEF DrainedOnce, IInv, QueueInv
<1> QED
  BY <1>2, <1>3 DEF QueueInv

\* The derived destructor posts the drain task behind everything that is queued.
LEMMA DestroyKeeps == ASSUME IInv, Destroy PROVE IInv'
<1>1. /\ life = "alive" /\ life' = "draining" /\ signalled' = signalled
      /\ posted' = posted /\ late' = late /\ delivering # "pusher"
      /\ backlog \in Seq(Tasks) /\ running' = running /\ open' = open /\ wpc' = wpc
      /\ backlog' = Append(backlog, "drained") /\ "drained" \in Tasks
      /\ "drained" \notin Requests
  BY RequestsAssumption
  DEF Destroy, PostDrained, Worker!Submit, promiseVars, IInv, TypeOK, Tasks, Drains
<1>2. /\ Len(backlog) \in Nat /\ Positions' = 1..(Len(backlog) + 1)
      /\ \A i \in Positions' : backlog'[i] = IF i = Len(backlog) + 1 THEN "drained" ELSE backlog[i]
      /\ \A i \in Positions' : i # Len(backlog) + 1 => i \in Positions
      /\ \A i \in Positions : Len(backlog) + 1 > i
      /\ backlog' \in Seq(Tasks)
  BY <1>1, AppendLemma DEF Positions
<1>3. Len(backlog) + 1 \in Positions'
  BY <1>2
<1> HIDE DEF Positions
<1>4. RequestsArePosted'
  BY <1>1, <1>2 DEF RequestsArePosted, IInv, QueueInv
<1>5. OnlyPollsAtFirst'
  BY <1>1 DEF OnlyPollsAtFirst
<1>6. DrainedOnce'
  BY <1>1, <1>2 DEF DrainedOnce, IInv, QueueInv
<1>7. EarlyBeforeDrained'
  <2>1. ASSUME NEW i \in Positions', Early(backlog'[i], late)
        PROVE  \E j \in Positions' : j > i /\ backlog'[j] = "drained"
    BY <1>2, <1>3, <2>1 DEF Early, Drains
  <2>2. \E j \in Positions' : backlog'[j] = "drained"
    BY <1>2, <1>3
  <2> QED
    BY <1>1, <2>1, <2>2 DEF EarlyBeforeDrained
<1>8. TypeOK'
  BY <1>1, <1>2 DEF TypeOK, Destroy, changeVars, promiseVars, Phases, IInv
<1> QED
  BY <1>1, <1>4, <1>5, <1>6, <1>7, <1>8
  DEF IInv, QueueInv, WorkerInv, NoDeliveryOnceUnsubscribed, Destroy, changeVars

\* The derived part is gone once the drain task has run.
LEMMA DerivedDestroyedKeeps == ASSUME IInv, DerivedDestroyed PROVE IInv'
<1>1. /\ life = "draining" /\ life' = "base" /\ signalled' = signalled
      /\ "drained" \in signalled /\ posted' = posted /\ late' = late
      /\ backlog \in Seq(Tasks) /\ running' = running /\ open' = open /\ wpc' = wpc
      /\ backlog' = Append(backlog, "drainedAgain") /\ "drainedAgain" \in Tasks
      /\ "drainedAgain" \in Drains /\ "drainedAgain" \notin Requests
  BY RequestsAssumption
  DEF DerivedDestroyed, HasDrained, Worker!Submit, promiseVars, IInv, TypeOK, Tasks, Drains
<1>2. /\ Len(backlog) \in Nat /\ Positions' = 1..(Len(backlog) + 1)
      /\ \A i \in Positions' :
           backlog'[i] = IF i = Len(backlog) + 1 THEN "drainedAgain" ELSE backlog[i]
      /\ \A i \in Positions' : i # Len(backlog) + 1 => i \in Positions
      /\ backlog' \in Seq(Tasks)
  BY <1>1, AppendLemma DEF Positions
<1> HIDE DEF Positions
<1>3. /\ \A i \in Positions : backlog[i] # "drained" /\ ~Early(backlog[i], late)
      /\ running # <<>> => running[1] # "drained" /\ ~Early(running[1], late)
  BY <1>1 DEF DrainedOnce, EarlyBeforeDrained, IInv, QueueInv
<1>4. RequestsArePosted'
  BY <1>1, <1>2 DEF RequestsArePosted, IInv, QueueInv
<1>5. OnlyPollsAtFirst'
  BY <1>1 DEF OnlyPollsAtFirst
<1>6. DrainedOnce'
  BY <1>1, <1>2, <1>3 DEF DrainedOnce
<1>7. EarlyBeforeDrained'
  <2>1. \A i \in Positions' : ~Early(backlog'[i], late)
    BY <1>1, <1>2, <1>3 DEF Early
  <2> QED
    BY <1>1, <1>3, <2>1 DEF EarlyBeforeDrained
<1>8. TypeOK'
  BY <1>1, <1>2 DEF TypeOK, DerivedDestroyed, changeVars, promiseVars, Phases, IInv
<1> QED
  BY <1>1, <1>4, <1>5, <1>6, <1>7, <1>8
  DEF IInv, QueueInv, WorkerInv, NoDeliveryOnceUnsubscribed, DerivedDestroyed, changeVars

--------------------------------------------------------------------------------
(* The actions *)

\* What a submission does to the rest of the state.
LEMMA SubmitTypes ==
  ASSUME IInv, NEW t \in Tasks, Worker!Submit(t)
  PROVE  backlog' \in Seq(Tasks) /\ running' = running /\ open' = open
  BY AppendLemma DEF Worker!Submit, IInv, TypeOK

LEMMA RequestKeeps == ASSUME IInv, NEW r \in Requests, Request(r) PROVE IInv'
<1>1. /\ r \in Tasks /\ Worker!Submit(r) /\ r # "drained" /\ life = "alive" /\ life' = life
      /\ posted' = posted \cup {r} /\ late' = late /\ signalled' = signalled
  BY RequestsAssumption DEF Request, Tasks, Drains
<1>2. QueueInv'
  BY <1>1, SubmitKeeps
<1> QED
  BY <1>1, <1>2, SubmitTypes
  DEF IInv, TypeOK, WorkerInv, NoDeliveryOnceUnsubscribed, Request, changeVars

LEMMA OnDoneRequestsKeeps == ASSUME IInv, NEW r \in Requests, OnDoneRequests(r) PROVE IInv'
<1>1. /\ r \in Tasks /\ Worker!Submit(r) /\ r # "drained" /\ life' = life
      /\ posted' = posted \cup {r} /\ signalled' = signalled /\ wpc' = wpc /\ wpc = "on_done"
      /\ late' = (IF life = "alive" THEN late ELSE late \cup {r})
  BY RequestsAssumption DEF OnDoneRequests, Tasks, Drains
<1>2. life # "constructing"
  BY <1>1, RequestsAssumption
  DEF OnDoneRequests, Refreshes, OnlyPollsAtFirst, WorkerInv, TypeOK, IInv, QueueInv
<1>3. QueueInv'
  BY <1>1, <1>2, SubmitKeeps
<1> QED
  BY <1>1, <1>3, SubmitTypes
  DEF IInv, TypeOK, WorkerInv, NoDeliveryOnceUnsubscribed, OnDoneRequests, changeVars

\* Refreshes nobody waits for: by the poll worker, the event source and subscribe().
LEMMA RefreshesKeep == ASSUME IInv, Poll \/ Event \/ Subscribe PROVE IInv'
<1>1. \A t \in Refreshes : t \in Tasks /\ t # "drained" /\ t \notin Requests
  BY RequestsAssumption DEF Tasks, Refreshes
<1>2. {"poll", "event", "initial"} \subseteq Refreshes
  BY DEF Refreshes
<1>3. CASE Poll
  <2>1. Worker!Submit("poll") /\ life \in {"constructing", "alive"} /\ life' = life
        /\ posted' = posted /\ late' = late /\ signalled' = signalled
    BY <1>3 DEF Poll, RequestRefresh, promiseVars
  <2>2. QueueInv'
    BY <1>1, <1>2, <2>1, SubmitKeeps
  <2> QED
    BY <1>1, <1>2, <1>3, <2>1, <2>2, SubmitTypes
    DEF IInv, TypeOK, WorkerInv, NoDeliveryOnceUnsubscribed, Poll, changeVars, promiseVars
<1>4. CASE Event
  <2>1. Worker!Submit("event") /\ life \in {"alive", "draining"} /\ life' = life
        /\ posted' = posted /\ late' = late /\ signalled' = signalled
    BY <1>4 DEF Event, RequestRefresh, promiseVars
  <2>2. QueueInv'
    BY <1>1, <1>2, <2>1, SubmitKeeps
  <2> QED
    BY <1>1, <1>2, <1>4, <2>1, <2>2, SubmitTypes
    DEF IInv, TypeOK, WorkerInv, NoDeliveryOnceUnsubscribed, Event, changeVars, promiseVars
<1>5. CASE Subscribe
  <2>1. Worker!Submit("initial") /\ life = "alive" /\ life' = life
        /\ posted' = posted /\ late' = late /\ signalled' = signalled
    BY <1>5 DEF Subscribe, InitialRefresh, RequestRefresh, promiseVars
  <2>2. QueueInv'
    BY <1>1, <1>2, <2>1, SubmitKeeps
  <2> QED
    BY <1>1, <1>2, <1>5, <2>1, <2>2, SubmitTypes
    DEF IInv, TypeOK, WorkerInv, NoDeliveryOnceUnsubscribed, Subscribe, promiseVars
<1> QED
  BY <1>3, <1>4, <1>5

LEMMA StartTaskKeeps == ASSUME IInv, StartTask PROVE IInv'
<1>1. Worker!Start /\ UNCHANGED <<life, changeVars, promiseVars, awaited>> /\ wpc = "idle"
      /\ wpc' = IF running'[1] \in Drains THEN "resolve" ELSE "handle"
  BY DEF StartTask, Worker!Start, IInv, WorkerInv
<1>2. QueueInv' /\ backlog' \in Seq(Tasks) /\ \E t \in Tasks : running' = <<t>>
  BY <1>1, StartKeeps DEF promiseVars
<1>3. open' = open /\ awaited' = awaited
  BY <1>1 DEF Worker!Start
<1>4. TypeOK'
  BY <1>1, <1>2, <1>3 DEF IInv, TypeOK, changeVars, promiseVars
<1> QED
  BY <1>1, <1>2, <1>4 DEF IInv, WorkerInv, NoDeliveryOnceUnsubscribed, changeVars

LEMMA SetValueKeeps == ASSUME IInv, SetValue PROVE IInv'
<1>1. /\ Worker!Finish /\ UNCHANGED <<life, changeVars, posted, late, awaited>>
      /\ wpc = "resolve" /\ wpc' = "idle" /\ resolved' = resolved \cup (Requests \cap {running[1]})
      /\ signalled' = signalled \cup (Drains \cap {running[1]})
  BY DEF SetValue, RequestResolved
<1>2. QueueInv'
  BY <1>1, FinishKeeps
<1>3. running # <<>> /\ running' = <<>> /\ backlog' = backlog /\ open' = open
  BY <1>1 DEF Worker!Finish
<1>4. resolved' \subseteq posted
  BY <1>1, <1>3 DEF IInv, QueueInv, RequestsArePosted, TypeOK
<1>5. TypeOK'
  BY <1>1, <1>3, <1>4 DEF IInv, TypeOK, changeVars
<1> QED
  BY <1>1, <1>2, <1>3, <1>5 DEF IInv, WorkerInv, NoDeliveryOnceUnsubscribed, changeVars

\* Steps that leave the queue, the promises and the life of the object alone.
LEMMA QueueUntouched ==
  ASSUME IInv, UNCHANGED <<life, workerVars, posted, late, signalled>> PROVE QueueInv'
  BY DEF workerVars, IInv, QueueInv, RequestsArePosted, OnlyPollsAtFirst, DrainedOnce,
         EarlyBeforeDrained, Early, Positions

LEMMA WorkerKeeps ==
  ASSUME IInv, HandlerReturns \/ HandlerPushes \/ DeliveryReturns \/ OnDone \/ GetReturns
  PROVE  IInv'
<1>1. /\ UNCHANGED <<life, workerVars, posted, late, signalled, resolved>>
      /\ wpc \in {"handle", "deliver", "on_done", "get"}
      /\ wpc' \in {"deliver", "on_done", "resolve"}
  BY DEF HandlerReturns, HandlerPushes, DeliveryReturns, OnDone, GetReturns, promiseVars
<1>2. QueueInv'
  BY <1>1, QueueUntouched
<1>3. WorkerInv'
  BY <1>1 DEF WorkerInv, workerVars, IInv
<1>4. TypeOK' /\ NoDeliveryOnceUnsubscribed'
  <2> USE <1>1 DEF IInv, TypeOK, NoDeliveryOnceUnsubscribed, workerVars, changeVars
  <2>1. CASE HandlerReturns
    BY <2>1 DEF HandlerReturns
  <2>2. CASE HandlerPushes
    BY <2>2 DEF HandlerPushes, PushUpdateEvent
  <2>3. CASE DeliveryReturns
    BY <2>3 DEF DeliveryReturns
  <2>4. CASE OnDone
    BY <2>4 DEF OnDone
  <2>5. CASE GetReturns
    BY <2>5 DEF GetReturns
  <2> QED
    BY <2>1, <2>2, <2>3, <2>4, <2>5
<1> QED
  BY <1>2, <1>3, <1>4 DEF IInv

LEMMA OnDoneGetsKeeps == ASSUME IInv, NEW r \in Requests, OnDoneGets(r) PROVE IInv'
<1>1. UNCHANGED <<life, workerVars, posted, late, signalled>> /\ wpc = "on_done" /\ wpc' = "get"
  BY DEF OnDoneGets, promiseVars
<1>2. QueueInv'
  BY <1>1, QueueUntouched
<1> QED
  BY <1>1, <1>2
  DEF IInv, TypeOK, WorkerInv, NoDeliveryOnceUnsubscribed, OnDoneGets, workerVars, changeVars,
      promiseVars

LEMMA ChangeCallbackKeeps == ASSUME IInv, Unsubscribe \/ Push \/ PushReturns PROVE IInv'
<1>1. UNCHANGED <<life, workerVars, wpc, awaited, promiseVars>>
  BY DEF Unsubscribe, Push, PushReturns
<1>2. QueueInv'
  BY <1>1, QueueUntouched DEF promiseVars
<1>3. WorkerInv'
  BY <1>1 DEF WorkerInv, workerVars, IInv
<1>4. TypeOK' /\ NoDeliveryOnceUnsubscribed'
  <2> USE <1>1 DEF IInv, TypeOK, NoDeliveryOnceUnsubscribed, workerVars, promiseVars
  <2>1. CASE Unsubscribe
    BY <2>1 DEF Unsubscribe, MutexFree
  <2>2. CASE Push
    <3>1. pushes' \in 0..MaxPushes
      BY <2>2, RequestsAssumption DEF Push
    <3> QED
      BY <2>2, <3>1 DEF Push, PushUpdateEvent
  <2>3. CASE PushReturns
    BY <2>3 DEF PushReturns
  <2> QED
    BY <2>1, <2>2, <2>3
<1> QED
  BY <1>2, <1>3, <1>4 DEF IInv

LEMMA LifeKeeps ==
  ASSUME IInv, ConstructorReturns \/ DestroyWorker \/ WorkerExits \/ WorkerJoined
  PROVE  IInv'
<1>1. /\ UNCHANGED <<backlog, running, wpc, awaited, changeVars, promiseVars>>
      /\ open' \in BOOLEAN /\ life' \in Phases
      /\ \/ life = "constructing" /\ life' = "alive"
         \/ life \in {"base", "joining", "destroyed"} /\ life' \in {"base", "joining", "destroyed"}
  BY DEF ConstructorReturns, DestroyWorker, WorkerExits, WorkerJoined, workerVars, Worker!Close,
         IInv, TypeOK, Phases
<1>2. QueueInv'
  BY <1>1
  DEF promiseVars, IInv, QueueInv, RequestsArePosted, OnlyPollsAtFirst, DrainedOnce,
      EarlyBeforeDrained, Early, Positions
<1> QED
  BY <1>1, <1>2
  DEF IInv, TypeOK, WorkerInv, NoDeliveryOnceUnsubscribed, changeVars, promiseVars

LEMMA Initially == ASSUME Init PROVE IInv
<1>1. backlog = <<>> /\ running = <<>> /\ open = TRUE
  BY DEF Init, Worker!Init
<1>2. Positions = {}
  BY <1>1 DEF Positions
<1>3. pushes \in 0..MaxPushes /\ backlog \in Seq(Tasks)
  BY <1>1, RequestsAssumption DEF Init
<1>4. QueueInv
  BY <1>1, <1>2
  DEF Init, QueueInv, RequestsArePosted, OnlyPollsAtFirst, DrainedOnce, EarlyBeforeDrained
<1> QED
  BY <1>1, <1>3, <1>4 DEF Init, IInv, TypeOK, Phases, WorkerInv, NoDeliveryOnceUnsubscribed

LEMMA Inductive == ASSUME IInv, [Next]_vars PROVE IInv'
<1>1. CASE UNCHANGED vars \/ Destroyed
  <2>1. UNCHANGED <<life, workerVars, wpc, awaited, changeVars, promiseVars>>
    BY <1>1 DEF vars, Destroyed
  <2>2. QueueInv'
    BY <2>1, QueueUntouched DEF promiseVars
  <2> QED
    BY <2>1, <2>2
    DEF IInv, TypeOK, WorkerInv, NoDeliveryOnceUnsubscribed, workerVars, changeVars, promiseVars
<1>2. CASE WorkerThread
  BY <1>2, StartTaskKeeps, SetValueKeeps, WorkerKeeps, LifeKeeps DEF WorkerThread
<1>3. CASE OwnerThread
  BY <1>3, DerivedDestroyedKeeps, LifeKeeps DEF OwnerThread
<1> QED
  BY <1>1, <1>2, <1>3, DestroyKeeps, RequestKeeps, OnDoneRequestsKeeps, OnDoneGetsKeeps,
     RefreshesKeep, ChangeCallbackKeeps
  DEF Next

THEOREM Invariant == Spec => []IInv
<1>1. Init => IInv
  BY Initially
<1>2. IInv /\ [Next]_vars => IInv'
  BY Inductive
<1> QED
  BY <1>1, <1>2, PTL DEF Spec

--------------------------------------------------------------------------------
\* Futures become ready for requests that were made, and only for those.
THEOREM TypeCorrect == Spec => []TypeOK
<1>1. IInv => TypeOK
  BY DEF IInv
<1> QED
  BY <1>1, Invariant, PTL

\* Once unsubscribe() has returned on_change_ is not running and not called again, for
\* any requests and pushes (audio_backend.hpp:54-57, 102-105).
THEOREM SilentOnceUnsubscribed == Spec => []NoDeliveryOnceUnsubscribed
<1>1. IInv => NoDeliveryOnceUnsubscribed
  BY DEF IInv
<1> QED
  BY <1>1, Invariant, PTL

\* What is asked for before the destruction begins is handled while there is a derived
\* part to do it: the drain task stands behind it in the queue, and the derived part is
\* not gone before that has run (audio_backend.hpp:63-66, 107-113).
THEOREM DerivedPartHandles == Spec => []HandlersAreImplemented
<1>1. ASSUME IInv, wpc = "handle", running[1] \notin {"poll", "event"} \cup late
      PROVE  life \in {"alive", "draining"}
  <2>1. running # <<>> /\ Early(running[1], late)
    BY <1>1 DEF IInv, WorkerInv, Early
  <2>2. life # "constructing"
    BY <1>1, <2>1 DEF IInv, QueueInv, OnlyPollsAtFirst
  <2>3. life \notin {"base", "joining", "destroyed"}
    <3> SUFFICES ASSUME life \in {"base", "joining", "destroyed"} PROVE FALSE
      OBVIOUS
    <3>1. PICK j \in Positions : backlog[j] = "drained"
      BY <1>1, <2>1 DEF IInv, QueueInv, EarlyBeforeDrained
    <3>2. \A i \in Positions : backlog[i] # "drained"
      BY <1>1 DEF IInv, QueueInv, DrainedOnce
    <3> QED
      BY <3>1, <3>2
  <2> QED
    BY <1>1, <2>2, <2>3 DEF IInv, TypeOK, Phases
<1>2. IInv => HandlersAreImplemented
  BY <1>1 DEF HandlersAreImplemented
<1> QED
  BY <1>2, Invariant, PTL
--------------------------------------------------------------------------------
(***************************************************************************)
(* What becomes of the requests: the safety half of EveryFutureResolves.   *)
(***************************************************************************)

\* A request whose future is not ready stands in the queue or is the running one.
Waiting(r, queue) == \E i \in 1..Len(queue) : queue[i] = r
NoRequestIsLost == \A r \in posted \ resolved : running = <<r>> \/ Waiting(r, backlog)

\* The worker thread is there for whoever may post a task to it: the threads of the
\* program until the destruction has drained it, and a callback for as long as it runs.
\* The `open` in the guard of Submit excludes nothing that the code would do.
WorkerTakesTasks ==
  /\ life \notin {"joining", "destroyed"} \/ running # <<>> => open
  /\ life = "destroyed" => ~open
  /\ ~open => backlog = <<>> /\ running = <<>>

\* When the destructor has returned every future that was handed out is ready.
ReadyOnceDestroyed == life = "destroyed" => resolved = posted

PromiseInv == NoRequestIsLost /\ WorkerTakesTasks

\* Whatever is submitted, the requests that wait go on to wait.
LEMMA SubmitLosesNothing ==
  ASSUME IInv, PromiseInv, NEW t \in Tasks, Worker!Submit(t), resolved' = resolved,
         posted' \in {posted, posted \cup {t}}, life' \in Phases \ {"joining", "destroyed"} \/ life' = life
  PROVE  PromiseInv'
<1>1. /\ backlog \in Seq(Tasks) /\ backlog' = Append(backlog, t) /\ running' = running
      /\ open /\ open' = open
  BY DEF Worker!Submit, IInv, TypeOK
<1>2. /\ Len(backlog) \in Nat /\ Len(backlog') = Len(backlog) + 1
      /\ \A i \in 1..Len(backlog') : backlog'[i] = IF i = Len(backlog) + 1 THEN t ELSE backlog[i]
  BY <1>1, AppendLemma
<1>3. Waiting(t, backlog')
  BY <1>2 DEF Waiting
<1>4. \A r : Waiting(r, backlog) => Waiting(r, backlog')
  BY <1>2 DEF Waiting
<1>5. NoRequestIsLost'
  BY <1>1, <1>3, <1>4 DEF PromiseInv, NoRequestIsLost
<1>6. WorkerTakesTasks'
  BY <1>1 DEF PromiseInv, WorkerTakesTasks
<1> QED
  BY <1>5, <1>6 DEF PromiseInv

LEMMA StartLosesNothing == ASSUME IInv, PromiseInv, StartTask PROVE PromiseInv'
<1>1. /\ backlog \in Seq(Tasks) /\ backlog # <<>> /\ running = <<>> /\ open /\ open' = open
      /\ running' = <<Head(backlog)>> /\ backlog' = Tail(backlog)
      /\ UNCHANGED <<life, posted, resolved>>
  BY DEF StartTask, Worker!Start, promiseVars, IInv, TypeOK
<1>2. /\ Head(backlog) = backlog[1] /\ Len(backlog) \in Nat \ {0}
      /\ Len(backlog') = Len(backlog) - 1
      /\ \A i \in 1..(Len(backlog) - 1) : backlog'[i] = backlog[i + 1]
  BY <1>1, TailLemma
<1>3. ASSUME NEW r, Waiting(r, backlog), running' # <<r>> PROVE Waiting(r, backlog')
  <2>1. PICK i \in 1..Len(backlog) : backlog[i] = r
    BY <1>3 DEF Waiting
  <2>2. i # 1
    BY <1>1, <1>2, <1>3, <2>1
  <2>3. i - 1 \in 1..Len(backlog') /\ backlog'[i - 1] = r
    BY <1>2, <2>1, <2>2
  <2> QED
    BY <2>3 DEF Waiting
<1>4. NoRequestIsLost'
  BY <1>1, <1>3 DEF PromiseInv, NoRequestIsLost
<1>5. WorkerTakesTasks'
  BY <1>1 DEF PromiseInv, WorkerTakesTasks
<1> QED
  BY <1>4, <1>5 DEF PromiseInv

LEMMA SetValueLosesNothing == ASSUME IInv, PromiseInv, SetValue PROVE PromiseInv'
<1>1. /\ running # <<>> /\ running' = <<>> /\ UNCHANGED <<life, posted, backlog, open>>
      /\ resolved' = resolved \cup (Requests \cap {running[1]})
  BY DEF SetValue, RequestResolved, Worker!Finish
<1>2. posted \subseteq Requests
  BY DEF IInv, TypeOK
<1>3. NoRequestIsLost'
  BY <1>1, <1>2 DEF PromiseInv, NoRequestIsLost
<1> QED
  BY <1>1, <1>3 DEF PromiseInv, WorkerTakesTasks

\* Steps that leave the queue and the promises alone.
LEMMA RestLosesNothing ==
  ASSUME PromiseInv, UNCHANGED <<workerVars, posted, resolved>>,
         \/ life' = life
         \/ life' \notin {"joining", "destroyed"} /\ life \notin {"joining", "destroyed"}
         \/ life' = "joining" /\ life = "base"
         \/ life' = "destroyed" /\ ~open
  PROVE  PromiseInv'
  BY DEF PromiseInv, NoRequestIsLost, WorkerTakesTasks, workerVars

LEMMA PromiseInductive == ASSUME IInv, PromiseInv, [Next]_vars PROVE PromiseInv'
<1>1. Requests \subseteq Tasks /\ Refreshes \subseteq Tasks /\ Drains \subseteq Tasks
      /\ {"poll", "event", "initial"} \subseteq Refreshes /\ {"drained", "drainedAgain"} \subseteq Drains
  BY DEF Tasks, Refreshes, Drains
<1>2. CASE WorkerThread
  <2>1. CASE HandlerReturns \/ HandlerPushes \/ DeliveryReturns \/ OnDone \/ GetReturns
    BY <2>1, RestLosesNothing
    DEF HandlerReturns, HandlerPushes, DeliveryReturns, OnDone, GetReturns, promiseVars
  <2>2. CASE WorkerExits
    <3>1. /\ open' = FALSE /\ backlog' = <<>> /\ running' = <<>> /\ backlog = <<>> /\ running = <<>>
          /\ life = "joining" /\ UNCHANGED <<life, posted, resolved>>
      BY <2>2 DEF WorkerExits, Worker!Close, promiseVars
    <3> QED
      BY <3>1 DEF PromiseInv, NoRequestIsLost, WorkerTakesTasks
  <2> QED
    BY <1>2, <2>1, <2>2, StartLosesNothing, SetValueLosesNothing DEF WorkerThread
<1>3. CASE OwnerThread
  <2>1. CASE ConstructorReturns \/ DestroyWorker \/ WorkerJoined
    BY <2>1, RestLosesNothing DEF ConstructorReturns, DestroyWorker, WorkerJoined, promiseVars
  <2>2. CASE DerivedDestroyed
    BY <1>1, <2>2, SubmitLosesNothing DEF DerivedDestroyed, promiseVars, Phases
  <2> QED
    BY <1>3, <2>1, <2>2 DEF OwnerThread
<1>4. CASE Destroy
  BY <1>1, <1>4, SubmitLosesNothing DEF Destroy, PostDrained, promiseVars, Phases
<1>5. ASSUME NEW r \in Requests, Request(r) \/ OnDoneRequests(r) PROVE PromiseInv'
  BY <1>1, <1>5, SubmitLosesNothing DEF Request, OnDoneRequests
<1>6. ASSUME NEW r \in Requests, OnDoneGets(r) PROVE PromiseInv'
  BY <1>6, RestLosesNothing DEF OnDoneGets, promiseVars
<1>7. CASE Poll
  BY <1>1, <1>7, SubmitLosesNothing DEF Poll, RequestRefresh, promiseVars
<1>8. CASE Event
  BY <1>1, <1>8, SubmitLosesNothing DEF Event, RequestRefresh, promiseVars
<1>9. CASE Subscribe
  BY <1>1, <1>9, SubmitLosesNothing DEF Subscribe, InitialRefresh, RequestRefresh, promiseVars
<1>10. CASE Unsubscribe \/ Push \/ PushReturns
  BY <1>10, RestLosesNothing DEF Unsubscribe, Push, PushReturns, promiseVars
<1>11. CASE Destroyed \/ UNCHANGED vars
  BY <1>11, RestLosesNothing DEF Destroyed, vars, promiseVars
<1> QED
  BY <1>2, <1>3, <1>4, <1>5, <1>6, <1>7, <1>8, <1>9, <1>10, <1>11 DEF Next

LEMMA PromiseInvariant == Spec => []PromiseInv
<1>1. Init => PromiseInv
  <2> SUFFICES ASSUME Init PROVE PromiseInv
    OBVIOUS
  <2> QED
    BY DEF Init, Worker!Init, PromiseInv, NoRequestIsLost, WorkerTakesTasks
<1>2. IInv /\ PromiseInv /\ [Next]_vars => PromiseInv'
  BY PromiseInductive
<1> QED
  BY <1>1, <1>2, Invariant, PTL DEF Spec

\* No request is lost between request_*() and set_value(), those that callbacks make
\* while the backend is destroyed included, and the worker is there for every task that
\* is posted to it (audio_backend.hpp:36-47, 88-100).
THEOREM RequestsAreNotLost == Spec => [](NoRequestIsLost /\ WorkerTakesTasks)
<1>1. PromiseInv => NoRequestIsLost /\ WorkerTakesTasks
  BY DEF PromiseInv
<1> QED
  BY <1>1, PromiseInvariant, PTL

\* A destructor that has returned leaves no future that is not ready, whenever and by
\* whom the request was made (audio_backend.hpp:107-113, async.hpp:47).
THEOREM FuturesAreReady == Spec => []ReadyOnceDestroyed
<1>1. ASSUME IInv, PromiseInv, life = "destroyed" PROVE resolved = posted
  <2>1. backlog = <<>> /\ running = <<>>
    BY <1>1 DEF PromiseInv, WorkerTakesTasks
  <2>2. posted \ resolved = {}
    BY <1>1, <2>1 DEF PromiseInv, NoRequestIsLost, Waiting
  <2> QED
    BY <1>1, <2>2 DEF IInv, TypeOK
<1>2. IInv /\ PromiseInv => ReadyOnceDestroyed
  BY <1>1 DEF ReadyOnceDestroyed
<1> QED
  BY <1>2, Invariant, PromiseInvariant, PTL

--------------------------------------------------------------------------------
(* The poll worker: IntervalWorker, for any intervals and number of starts. *)

\* stop() goes on only while there is a thread to join, and has set stop_.
StopHasAThread == opc # "idle" => joinable /\ stop_

\* A stop() that is waiting for the thread finds it on its way out: it is not asleep
\* and looks at stop_ before it sleeps again.
StopIsHeard == opc = "join" => stop_ /\ tpc \in {"check", "callback", "exited"}

\* Unless it is being stopped a thread that was started goes round: stop_ is not
\* left over from the last stop(), and nothing else ends the loop.
OnlyStopEnds == joinable /\ opc = "idle" => ~stop_ /\ tpc \in {"check", "wait", "callback"}

IntervalInv ==
  /\ IntervalTypeOK
  /\ StopHasAThread /\ QuietAfterStop
  /\ StopIsHeard /\ OnlyStopEnds /\ (joinable => tpc # "none")

LEMMA IntervalInitially ==
  ASSUME IntervalInit PROVE IntervalInv
<1> USE BoundsAssumption DEF IntervalInit
<1>1. interval \in 0..MaxInterval /\ starts \in 0..MaxStarts /\ waited \in 0..interval
  OBVIOUS
<1> QED
  BY <1>1 DEF IntervalInv, IntervalTypeOK, StopHasAThread, QuietAfterStop, StopIsHeard, OnlyStopEnds

LEMMA IntervalInductive ==
  ASSUME IntervalInv, [IntervalNext]_intervalVars PROVE IntervalInv'
<1> USE BoundsAssumption DEF IntervalInv, IntervalTypeOK, StopHasAThread, QuietAfterStop,
                             StopIsHeard, OnlyStopEnds
<1>1. CASE UNCHANGED intervalVars
  BY <1>1 DEF intervalVars
<1>2. CASE Thread
  <2>1. CASE CheckStop
    BY <2>1 DEF CheckStop
  <2>2. CASE TimedOut
    BY <2>2 DEF TimedOut, AfterTimeout
  <2>3. CASE CallbackReturns
    BY <2>3 DEF CallbackReturns
  <2> QED
    BY <1>2, <2>1, <2>2, <2>3 DEF Thread
<1>3. CASE Tick
  BY <1>3 DEF Tick
<1>4. CASE SpuriousWakeup
  BY <1>4 DEF SpuriousWakeup
<1>5. CASE NotifyAll
  BY <1>5 DEF NotifyAll, Woken
<1>6. CASE Join
  BY <1>6 DEF Join, ThreadExited
<1>7. CASE Stop
  BY <1>7 DEF Stop
<1>8. ASSUME NEW ms \in -1..MaxInterval, Start(ms) PROVE IntervalInv'
  <2>1. interval' \in 0..MaxInterval /\ waited' \in 0..interval' /\ starts' \in 0..MaxStarts
    BY <1>8 DEF Start, Positive
  <2> QED
    BY <1>8, <2>1 DEF Start, InitialStop
<1>9. CASE Quiet
  BY <1>9 DEF Quiet, intervalVars
<1> QED
  BY <1>1, <1>2, <1>3, <1>4, <1>5, <1>6, <1>7, <1>8, <1>9 DEF IntervalNext, Owner

LEMMA IntervalInvariant == IntervalSpec => []IntervalInv
<1>1. IntervalInit => IntervalInv
  BY IntervalInitially
<1>2. IntervalInv /\ [IntervalNext]_intervalVars => IntervalInv'
  BY IntervalInductive
<1> QED
  BY <1>1, <1>2, PTL DEF IntervalSpec

\* IntervalWorker keeps its types: no wait outlasts the interval it was begun with.
THEOREM IntervalTypeCorrect == IntervalSpec => []IntervalTypeOK
<1>1. IntervalInv => IntervalTypeOK
  BY DEF IntervalInv
<1> QED
  BY <1>1, IntervalInvariant, PTL

\* When stop() has returned the callback is not running and is not called until the
\* next start(), for any intervals and however often the worker is started again
\* (async.hpp:83-91).
THEOREM NothingRunsOnceStopped == IntervalSpec => []QuietAfterStop
<1>1. IntervalInv => QuietAfterStop
  BY DEF IntervalInv
<1> QED
  BY <1>1, IntervalInvariant, PTL

\* The safety half of StopReturns and of KeepsCallingBack: no wait swallows a stop(),
\* whenever it comes between the predicate and the sleep, the time-out and the
\* callback; and only a stop() ends the calls (async.hpp:76-101).
THEOREM StopIsNotMissed == IntervalSpec => [](StopIsHeard /\ OnlyStopEnds)
<1>1. IntervalInv => StopIsHeard /\ OnlyStopEnds
  BY DEF IntervalInv
<1> QED
  BY <1>1, IntervalInvariant, PTL

--------------------------------------------------------------------------------
(***************************************************************************)
(* MockBackend, for any devices and test threads.  The strengthening says  *)
(* what a thread has in its hands while the list it copied is still the    *)
(* one of the backend: that list, and nobody else has one.                 *)
(***************************************************************************)
AnyList == [Ids -> Snapshot \cup {Absent}]

CopyIsTheList ==
  ~suppressed /\ ~raced => \A t \in Threads : ~Idle(t) =>
    /\ copy[t] = snapshots_
    /\ \A u \in Threads \ {t} : Idle(u)

MockInv == MockTypeOK /\ CopyIsTheList /\ SubscriberHasTheList

LEMMA MockInitially == ASSUME MockInit PROVE MockInv
<1>1. NoDevices \in AnyList
  BY DEF NoDevices, AnyList
<1> QED
  BY <1>1
  DEF MockInit, MockInv, MockTypeOK, AnyList, CopyIsTheList, SubscriberHasTheList, Idle

\* A thread that takes a copy of the list it leaves behind, or none, keeps the
\* invariant whatever the list is.
LEMMA TakeKeeps ==
  ASSUME MockInv, NEW t \in Threads, NEW list \in AnyList, NEW c \in {list, None},
         Take(t, list, c), received' = received, result' \in {"none", "Ok", "DeviceNotFound"}
  PROVE  MockInv'
<1>1. MockTypeOK'
  BY DEF MockInv, MockTypeOK, Take, AnyList
<1>2. ASSUME ~suppressed', ~raced' PROVE c = list /\ \A u \in Threads \ {t} : copy'[u] = None
  BY <1>2 DEF Take, Settled, Idle, MockInv, MockTypeOK
<1>3. copy'[t] = c
  BY DEF Take, MockInv, MockTypeOK
<1>4. ASSUME ~suppressed' PROVE copy'[t] # None
  BY <1>3, <1>4 DEF Take
<1>5. CopyIsTheList'
  BY <1>2, <1>3 DEF CopyIsTheList, Take, Idle
<1>6. SubscriberHasTheList'
  BY <1>4 DEF SubscriberHasTheList, Settled, Idle
<1> QED
  BY <1>1, <1>5, <1>6 DEF MockInv

LEMMA MutateKeeps ==
  ASSUME MockInv, NEW id \in Ids, NEW list,
         snapshots_[id] # Absent => list \in AnyList, MutateDevice(id, list)
  PROVE  MockInv'
<1>1. CASE snapshots_[id] = Absent
  BY <1>1
  DEF MutateDevice, MockInv, MockTypeOK, CopyIsTheList, SubscriberHasTheList,
      Idle, Settled
<1>2. CASE snapshots_[id] # Absent
  <2>1. MockWorker \in Threads
    BY DEF Threads
  <2> QED
    BY <1>2, <2>1, TakeKeeps DEF MutateDevice, CopyAfter
<1> QED
  BY <1>1, <1>2

LEMMA PublishKeeps == ASSUME MockInv, NEW t \in Threads, Publish(t) PROVE MockInv'
<1>1. MockTypeOK'
  BY DEF Publish, Idle, MockInv, MockTypeOK
<1>2. \A u \in Threads : copy'[u] = IF u = t THEN None ELSE copy[u]
  BY DEF Publish, MockInv, MockTypeOK
<1>3. CopyIsTheList'
  BY <1>2 DEF CopyIsTheList, Idle, Publish, MockInv
<1>4. SubscriberHasTheList'
  BY DEF SubscriberHasTheList, CopyIsTheList, Publish, Idle, MockInv
<1> QED
  BY <1>1, <1>3, <1>4 DEF MockInv

LEMMA MockInductive == ASSUME MockInv, [MockNext]_mockVars PROVE MockInv'
<1>1. CASE UNCHANGED mockVars
  BY <1>1
  DEF mockVars, MockInv, MockTypeOK, CopyIsTheList, SubscriberHasTheList, Idle,
      Settled
<1>2. ASSUME NEW t \in Testers, NEW list \in Lists, NEW suppress \in BOOLEAN,
             PushSnapshot(t, list, suppress)
      PROVE  MockInv'
  <2>1. t \in Threads /\ list \in AnyList
    BY DEF Threads, Lists, AnyList
  <2> QED
    BY <1>2, <2>1, TakeKeeps DEF PushSnapshot, MockInv, MockTypeOK
<1>3. ASSUME NEW id \in Ids, SetDefault(id) PROVE MockInv'
  <2> DEFINE list == [i \in Ids |-> IF i \in SameType(id)
                        THEN [is_default |-> i = id, level |-> snapshots_[i].level]
                        ELSE snapshots_[i]]
  <2>1. ASSUME NEW i \in Ids PROVE list[i] \in Snapshot \cup {Absent}
    BY DEF SameType, OfType, MockInv, MockTypeOK, Snapshot
  <2>2. list \in AnyList
    BY <2>1 DEF AnyList
  <2>3. MutateDevice(id, list)
    BY <1>3 DEF SetDefault
  <2> HIDE DEF list
  <2> QED
    BY <2>2, <2>3, MutateKeeps
<1>4. ASSUME NEW id \in Ids, NEW v \in Levels, SetLevel(id, v) PROVE MockInv'
  <2> DEFINE list ==
        [snapshots_ EXCEPT ![id] = [is_default |-> snapshots_[id].is_default, level |-> v]]
  <2>1. ASSUME snapshots_[id] # Absent PROVE list \in AnyList
    BY <2>1 DEF AnyList, MockInv, MockTypeOK, Snapshot
  <2>2. MutateDevice(id, list)
    BY <1>4 DEF SetLevel
  <2> HIDE DEF list
  <2> QED
    BY <2>1, <2>2, MutateKeeps
<1>5. CASE HandleRefresh
  <2>1. MockWorker \in Threads /\ snapshots_ \in AnyList
    BY DEF Threads, MockInv, MockTypeOK, AnyList
  <2> QED
    BY <1>5, <2>1, TakeKeeps DEF HandleRefresh, MockInv, MockTypeOK
<1>6. ASSUME NEW t \in Threads, Publish(t) PROVE MockInv'
  BY <1>6, PublishKeeps
<1> QED
  BY <1>1, <1>2, <1>3, <1>4, <1>5, <1>6 DEF MockNext

LEMMA MockInvariant == MockSpec => []MockInv
<1>1. MockInit => MockInv
  BY MockInitially
<1>2. MockInv /\ [MockNext]_mockVars => MockInv'
  BY MockInductive
<1> QED
  BY <1>1, <1>2, PTL DEF MockSpec

\* Every list the backend keeps, copies or delivers has one entry per device.
THEOREM MockTypeCorrect == MockSpec => []MockTypeOK
<1>1. MockInv => MockTypeOK
  BY DEF MockInv
<1> QED
  BY <1>1, MockInvariant, PTL

\* Once nobody publishes the subscriber has the backend's list, for any number of
\* test threads and devices, unless the last change was suppressed or raced with a
\* publication (mock_backend.hpp:58-86).
THEOREM SubscriberEndsUpWithTheList == MockSpec => []SubscriberHasTheList
<1>1. MockInv => SubscriberHasTheList
  BY DEF MockInv
<1> QED
  BY <1>1, MockInvariant, PTL
================================================================================
