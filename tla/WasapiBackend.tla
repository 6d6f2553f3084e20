----------------------------- MODULE WasapiBackend -----------------------------
(***************************************************************************)
(* WasapiBackend: the worker thread that runs every handler, the threads   *)
(* on which COM tells of changes, and the endpoints both deal with.        *)
(*                                                                         *)
(* A refresh reads the endpoints call by call while they come, go and      *)
(* change; it keeps a volume subscription per endpoint, which is both the  *)
(* interface the next refresh reads the volume through and the source of   *)
(* the notifications that make it run.  Each call into COM is an action.   *)
(* COM is external: it may let a call fail, an interface is of no use any  *)
(* more once its endpoint went away, and nothing is called after it was    *)
(* unregistered.  volume and muted are one level; the roles nobody reads   *)
(* are a count of the roles that were set.                                 *)
(***************************************************************************)
EXTENDS Integers, Sequences, SequencesExt, FiniteSetsExt

CONSTANTS
  Ids,               \* of endpoints
  FlowOf(_),         \* "render" or "capture"
  Levels, NoLevel,   \* levels of endpoints; the one of a DeviceSnapshot nobody filled
  MaxEvents,         \* bound: of changes, requests and failures together
  None

Endpoints == "endpoints"     \* what the NotificationClient is told of
Flows     == <<"render", "capture">>
Roles     == 3               \* eConsole, eMultimedia, eCommunications

ASSUME IdsAssumption   == Endpoints \notin Ids /\ None \notin Ids
ASSUME FlowAssumption  == \A i \in Ids : FlowOf(i) \in ToSet(Flows)
ASSUME LevelAssumption == Levels # {} /\ NoLevel \notin Levels
ASSUME BoundAssumption == MaxEvents \in Nat

Command == [kind : {"level"}, id : Ids, level : Levels] \cup [kind : {"default"}, id : Ids]
ASSUME NoneAssumption == None \notin Command
Job(kind) == [kind |-> kind]
Snapshot == [id : Ids, is_default : BOOLEAN, level : Levels \cup {NoLevel}]

VARIABLES
  active, level, default,        \* the endpoints; default: of eConsole, per flow
  owed,              \* notifications COM has still to deliver
  registered,        \* callbacks COM knows of
  invalid,           \* subscriptions whose endpoint went away after it was activated
  events,
  life,              \* constructing, alive, releasing, base, destroyed
  queue,             \* of worker_
  signalled,         \* promises of the constructor and the destructor
  enumerator_,       \* and notification_client_ with it
  volume_subscriptions_,
  wpc,               \* worker: idle; default, enumerate, device, read, push; find, set; aborted
  command, roles,    \* of the handler that runs: its command, roles it has set
  result,
  flow, default_id, snapshots,       \* of the refresh that runs
  collection, device,                \* endpoints it has still to look at; the one it looks at
  report,            \* the last push_update_event(), or None
  failed,            \* history: a call of the last refresh failed
  promise,           \* history: the last command that returned Ok, if nothing changed since
  late               \* history: a notification came after the destructor had begun

world      == <<active, level, default>>
com        == <<owed, registered, invalid>>
workerVars == <<queue, signalled>>
held       == <<enumerator_, volume_subscriptions_>>
scanVars   == <<flow, default_id, snapshots, collection, device, failed>>
handlerVars == <<command, roles, result, promise>>
vars == <<world, com, events, life, workerVars, held, wpc, handlerVars, scanVars, report, late>>

TypeOK ==
  /\ active \subseteq Ids
  /\ level \in [Ids -> Levels]
  /\ default \in [ToSet(Flows) -> Ids \cup {None}]
  /\ owed \subseteq registered /\ registered \subseteq Ids \cup {Endpoints}
  /\ invalid \subseteq volume_subscriptions_ /\ volume_subscriptions_ \subseteq Ids
  /\ events \in 0..MaxEvents
  /\ life \in {"constructing", "alive", "releasing", "base", "destroyed"}
  /\ queue \in Seq({Job(k) : k \in {"init", "refresh", "release", "drained"}} \cup Command)
  /\ signalled \subseteq {"init", "release", "drained"}
  /\ enumerator_ \in BOOLEAN
  /\ wpc \in {"idle", "default", "enumerate", "device", "read", "push", "find", "set", "aborted"}
  /\ command \in Command \cup {None} /\ roles \in 0..Roles
  /\ result \in {"none", "Ok", "DeviceNotFound", "BackendError", "Unsupported"}
  /\ flow \in 1..Len(Flows) /\ default_id \in Ids \cup {None}
  /\ collection \subseteq Ids /\ device \in Ids \cup {None} /\ snapshots \subseteq Snapshot
  /\ report \in (SUBSET Snapshot) \cup {None}
  /\ failed \in BOOLEAN /\ late \in BOOLEAN
  /\ promise \in Command \cup {None}

OfFlow(ids, f) == {i \in ids : FlowOf(i) = f}
\* The system names a default of each flow that has an endpoint.
Defaults(ids) ==
  {d \in [ToSet(Flows) -> Ids \cup {None}] : \A f \in ToSet(Flows) :
     d[f] \in IF OfFlow(ids, f) = {} THEN {None} ELSE OfFlow(ids, f)}

\* try_init() has posted its task.  One level is as good as another to start at.
Init ==
  /\ active \in SUBSET Ids
  /\ level = [i \in Ids |-> CHOOSE v \in Levels : TRUE]
  /\ default \in Defaults(active)
  /\ owed = {} /\ registered = {} /\ invalid = {}
  /\ events = 0
  /\ life = "constructing"
  /\ queue = <<Job("init")>> /\ signalled = {}
  /\ enumerator_ = FALSE /\ volume_subscriptions_ = {}
  /\ wpc = "idle"
  /\ command = None /\ roles = 0 /\ result = "none" /\ promise = None
  /\ flow = 1 /\ default_id = None /\ snapshots = {}
  /\ collection = {} /\ device = None /\ failed = FALSE
  /\ report = None
  /\ late = FALSE

--------------------------------------------------------------------------------
(* Endpoints and COM (external) *)

\* A call fails though nothing in the model keeps it from succeeding.
Event    == events < MaxEvents /\ events' = events + 1
Fails    == Event
Succeeds == UNCHANGED events

\* Who hears of a change: the NotificationClient of one of the endpoints, the
\* VolumeCallback of one of the level.
Tell(whom) == owed' = owed \cup (whom \cap registered)

\* The endpoints become `ids`; what was activated of the ones that go is of no use.
Replug(ids, d) ==
  LET gone == active \ ids IN
  /\ active' = ids
  /\ default' = d
  /\ invalid' = invalid \cup (gone \cap volume_subscriptions_)
  /\ registered' = registered \ gone
  /\ owed' = (owed \ gone) \cup (registered \cap {Endpoints})
  /\ UNCHANGED level

\* Endpoints come and go, others set defaults and levels.
EndpointsChange ==
  /\ Event
  /\ promise' = None
  /\ \/ \E i \in Ids :
          LET ids == SymDiff(active, {i}) IN \E d \in Defaults(ids) : Replug(ids, d)
     \/ \E d \in Defaults(active) \ {default} :
          /\ default' = d
          /\ Tell({Endpoints})
          /\ UNCHANGED <<active, level, registered, invalid>>
     \/ \E i \in active, v \in Levels :
          /\ v # level[i]
          /\ level' = [level EXCEPT ![i] = v]
          /\ Tell({i} \ invalid)
          /\ UNCHANGED <<active, default, registered, invalid>>
  /\ UNCHANGED <<life, workerVars, held, wpc, command, roles, result,
                 scanVars, report, late>>

\* Mutation: a notification during a refresh is taken to be part of it.
RequestRefreshUnlessRunning ==
  IF wpc \in {"default", "enumerate", "device", "read", "push"} THEN UNCHANGED queue
  ELSE queue' = Append(queue, Job("refresh"))

\* Bound: of refreshes that are queued one after the other one is kept.
RequestRefresh ==
  queue' = IF queue # <<>> /\ Last(queue) = Job("refresh") THEN queue
                                                           ELSE Append(queue, Job("refresh"))

\* A COM thread calls On...(), which calls request_refresh().
Notify(n) ==
  /\ n \in owed
  /\ owed' = owed \ {n}
  /\ RequestRefresh
  /\ late' = (late \/ life \notin {"constructing", "alive"})
  /\ UNCHANGED <<world, registered, invalid, events, life, signalled, held, wpc, handlerVars,
                 scanVars, report>>

--------------------------------------------------------------------------------
(* The owner of the backend *)

ownerSame == <<world, com, events, held, wpc, handlerVars, scanVars, report, late>>
Post(job) == queue' = Append(queue, job)

\* The constructor returns; subscribe() requests the first refresh.
Constructed ==
  /\ life = "constructing" /\ "init" \in signalled
  /\ life' = "alive"
  /\ IF enumerator_ THEN RequestRefresh ELSE UNCHANGED queue
  /\ UNCHANGED <<signalled, ownerSame>>

\* The program requests a refresh or a command.
RequestCommand ==
  /\ life = "alive" /\ Event
  /\ \E job \in Command \cup {Job("refresh")} : Post(job)
  /\ UNCHANGED <<world, com, life, signalled, held, wpc, handlerVars,
                 scanVars, report, late>>

\* ~WasapiBackend() posts the task that releases and waits for it;
Destroy ==
  /\ life = "alive"
  /\ life' = "releasing"
  /\ Post(Job("release"))
  /\ UNCHANGED <<signalled, ownerSame>>

\* Mutation: nobody waits.
NotWaiting  == TRUE
HasReleased == "release" \in signalled
\* with it the overriders are gone and ~AudioBackend() drains the queue.
Released ==
  /\ life = "releasing" /\ HasReleased
  /\ life' = "base"
  /\ Post(Job("drained"))
  /\ UNCHANGED <<signalled, ownerSame>>

Drained ==
  /\ life = "base" /\ "drained" \in signalled
  /\ life' = "destroyed"
  /\ UNCHANGED <<workerVars, ownerSame>>

--------------------------------------------------------------------------------
(* worker_: the tasks *)

handlerSame == <<life, late, registered, invalid, workerVars, held, scanVars, report>>
taskSame == <<world, life, late>>
Signal(what) == signalled' = signalled \cup {what}
Take(kind) == wpc = "idle" /\ queue # <<>> /\ Head(queue).kind = kind /\ queue' = Tail(queue)

\* try_init(): nobody looks at what registering the NotificationClient returns.
RunInit ==
  /\ Take("init") /\ Signal("init")
  /\ \/ Succeeds /\ enumerator_' = TRUE /\ registered' = registered \cup {Endpoints}
     \/ Fails /\ enumerator_' = TRUE /\ UNCHANGED registered
     \/ Fails /\ UNCHANGED <<enumerator_, registered>>
  /\ UNCHANGED <<taskSame, owed, invalid, volume_subscriptions_, wpc, handlerVars, scanVars, report>>

\* Mutation: the refreshes behind the task subscribe again.
EnumeratorKept  == enumerator_
EnumeratorReset == FALSE

\* Both callbacks are unregistered, and what COM had not delivered is not.
RunRelease ==
  /\ Take("release") /\ Signal("release")
  /\ registered' = {} /\ owed' = {} /\ invalid' = {}
  /\ volume_subscriptions_' = {} /\ enumerator_' = EnumeratorReset
  /\ UNCHANGED <<taskSame, events, wpc, handlerVars, scanVars, report>>

RunDrained ==
  /\ Take("drained") /\ Signal("drained")
  /\ UNCHANGED <<taskSame, com, events, held, wpc, handlerVars, scanVars, report>>

\* handle_refresh() and the commands are pure virtual functions of AudioBackend.
RunRefresh ==
  /\ Take("refresh")
  /\ wpc' = IF life \in {"base", "destroyed"} THEN "aborted"
            ELSE IF enumerator_ THEN "default" ELSE "idle"
  /\ flow' = 1 /\ snapshots' = {} /\ failed' = FALSE
  /\ UNCHANGED <<taskSame, com, events, signalled, held, handlerVars, default_id, collection,
                 device, report>>

RunCommand ==
  /\ Take("level") \/ Take("default")
  /\ command' = Head(queue) /\ wpc' = "find"
  /\ promise' = None /\ result' = "none"
  /\ UNCHANGED <<taskSame, com, events, signalled, held, roles, scanVars, report>>

--------------------------------------------------------------------------------
(* worker_: handle_set_volume(), handle_set_mute(), handle_set_default() *)

Return(r) == result' = r /\ command' = None /\ wpc' = "idle" /\ roles' = 0

\* GetDevice() knows some endpoints that are not active, too.
FindDevice ==
  /\ wpc = "find"
  /\ \/ /\ enumerator_ /\ Succeeds
        /\ wpc' = "set" /\ UNCHANGED <<command, roles, result>>
     \/ /\ \/ (~enumerator_ \/ command.id \notin active) /\ Succeeds
           \/ Fails
        /\ Return("DeviceNotFound")
  /\ UNCHANGED <<handlerSame, world, owed, promise>>

\* Activate() and SetMasterVolumeLevelScalar() or SetMute().
SetLevel ==
  /\ wpc = "set" /\ command.kind = "level"
  /\ \/ /\ command.id \in active /\ Succeeds
        /\ level' = [level EXCEPT ![command.id] = command.level]
        /\ Tell({command.id} \ invalid)
        /\ promise' = command
        /\ Return("Ok")
     \/ /\ (command.id \notin active /\ Succeeds) \/ Fails
        /\ Return("BackendError")
        /\ UNCHANGED <<level, owed, promise>>
  /\ UNCHANGED <<handlerSame, active, default>>

\* SetDefaultEndpoint() for the next role, the first of which is eConsole; the
\* roles that were set stay set when a later one fails.
SetRole ==
  /\ wpc = "set" /\ command.kind = "default"
  /\ \/ /\ command.id \in active /\ Succeeds
        /\ IF roles = 0
           THEN /\ default' = [default EXCEPT ![FlowOf(command.id)] = command.id]
                /\ Tell({Endpoints})
                /\ promise' = command
           ELSE UNCHANGED <<default, owed, promise>>
        /\ IF roles + 1 = Roles THEN Return("Ok")
           ELSE roles' = roles + 1 /\ UNCHANGED <<wpc, command, result>>
     \/ /\ roles = 0 /\ Fails /\ Return("Unsupported")
        /\ UNCHANGED <<default, owed, promise>>
     \/ /\ (command.id \notin active /\ Succeeds) \/ Fails
        /\ promise' = None
        /\ Return("BackendError")
        /\ UNCHANGED <<default, owed>>
  /\ UNCHANGED <<handlerSame, active, level>>

--------------------------------------------------------------------------------
(* worker_: refresh_devices() *)

scanSame == <<taskSame, workerVars, enumerator_, handlerVars, owed, invalid>>

\* The failures a refresh goes on after.
Missed == Fails /\ failed' = TRUE
Got    == Succeeds /\ UNCHANGED failed

NextFlow ==
  IF flow < Len(Flows) THEN flow' = flow + 1 /\ wpc' = "default"
                       ELSE wpc' = "push" /\ UNCHANGED flow

\* Mutation: both flows are compared with the default of the first.
DefaultOfFirst(f) == default[Flows[1]]
DefaultOf(f)      == default[Flows[f]]

\* GetDefaultAudioEndpoint() and GetId().
ReadDefault ==
  /\ wpc = "default"
  /\ \/ Got /\ default_id' = DefaultOf(flow)
     \/ Missed /\ default_id' = None
  /\ wpc' = "enumerate"
  /\ UNCHANGED <<scanSame, registered, volume_subscriptions_, flow, collection, device, snapshots, report>>

\* EnumAudioEndpoints(): a flow that fails has no endpoints.
Enumerate ==
  /\ wpc = "enumerate"
  /\ \/ /\ Got
        /\ collection' = OfFlow(active, Flows[flow])
        /\ wpc' = "device" /\ UNCHANGED flow
     \/ Missed /\ NextFlow /\ UNCHANGED collection
  /\ UNCHANGED <<scanSame, registered, volume_subscriptions_, default_id, device, snapshots, report>>

PushBack(id, l) ==
  snapshots' = snapshots \cup {[id |-> id, is_default |-> id = default_id, level |-> l]}

\* The loop up to the volume: Item() and GetId(), then the subscription that
\* exists, or Activate() and RegisterControlChangeNotify(), whose result nobody looks at.
Subscribe(id) ==
  \/ /\ id \in volume_subscriptions_ /\ Got
     /\ device' = id /\ wpc' = "read"
     /\ UNCHANGED <<registered, volume_subscriptions_, snapshots>>
  \/ /\ id \notin volume_subscriptions_ /\ id \in active
     /\ volume_subscriptions_' = volume_subscriptions_ \cup {id}
     /\ \/ Got /\ registered' = registered \cup {id}
        \/ Missed /\ UNCHANGED registered
     /\ device' = id /\ wpc' = "read"
     /\ UNCHANGED snapshots
  \/ /\ id \notin volume_subscriptions_
     /\ (id \notin active /\ Got) \/ Missed
     /\ PushBack(id, NoLevel)
     /\ UNCHANGED <<registered, volume_subscriptions_, wpc, device>>

\* COM lists the endpoints in an order of its own.
Device ==
  /\ wpc = "device"
  /\ \/ /\ collection = {}
        /\ NextFlow /\ Got
        /\ UNCHANGED <<collection, device, registered, volume_subscriptions_, snapshots>>
     \/ \E id \in collection :
          /\ collection' = collection \ {id}
          /\ \/ Subscribe(id)
             \/ Missed /\ UNCHANGED <<wpc, device, registered, volume_subscriptions_, snapshots>>
          /\ UNCHANGED flow
  /\ UNCHANGED <<scanSame, default_id, report>>

\* GetMasterVolumeLevelScalar() and GetMute() through the subscription.
Read ==
  /\ wpc = "read"
  /\ \/ Got /\ PushBack(device, IF device \in invalid THEN NoLevel ELSE level[device])
     \/ Missed /\ PushBack(device, NoLevel)
  /\ wpc' = "device" /\ device' = None
  /\ UNCHANGED <<scanSame, registered, volume_subscriptions_, flow, default_id, collection, report>>

\* COM does not call what was unregistered.
Undelivered(ids) == owed \ ids

\* Subscriptions of endpoints that were not seen go, the report is pushed.
Push ==
  /\ wpc = "push"
  /\ LET unseen == volume_subscriptions_ \ {s.id : s \in snapshots} IN
       /\ volume_subscriptions_' = volume_subscriptions_ \ unseen
       /\ registered' = registered \ unseen
       /\ owed' = Undelivered(unseen)
       /\ invalid' = invalid \ unseen
  /\ report' = snapshots
  /\ wpc' = "idle" /\ flow' = 1 /\ default_id' = None /\ snapshots' = {}
  /\ collection' = {} /\ device' = None
  /\ UNCHANGED <<taskSame, events, workerVars, enumerator_, handlerVars, failed>>

--------------------------------------------------------------------------------

Worker == \/ RunInit \/ RunRelease \/ RunDrained \/ RunRefresh \/ RunCommand
          \/ FindDevice \/ SetLevel \/ SetRole
          \/ ReadDefault \/ Enumerate \/ Device \/ Read \/ Push
Owner  == Constructed \/ Released \/ Drained

\* After the destructor, or an abort, nothing runs; the world goes on.
Over == life = "destroyed" \/ wpc = "aborted"
Done == Over /\ UNCHANGED vars

Next ==
  \/ ~Over /\ (\/ Worker \/ Owner \/ RequestCommand \/ Destroy
               \/ EndpointsChange \/ \E n \in Ids \cup {Endpoints} : Notify(n))
  \/ Done

\* The worker thread is scheduled, COM delivers what it owes, a constructor or
\* destructor that may go on does.
Fairness ==
  /\ WF_vars(~Over /\ Worker)
  /\ WF_vars(~Over /\ Owner)
  /\ \A n \in Ids \cup {Endpoints} : WF_vars(~Over /\ Notify(n))

Spec == Init /\ [][Next]_vars /\ Fairness

--------------------------------------------------------------------------------
(* Properties *)

Present == {[id |-> i, is_default |-> default[FlowOf(i)] = i, level |-> level[i]] : i \in active}

\* COM tells of everything the backend keeps an interface of, which it does not of an
\* endpoint that went away and came back between two refreshes, and no call of the last
\* refresh failed.
Sound ==
  /\ life = "alive" /\ enumerator_
  /\ Endpoints \in registered /\ volume_subscriptions_ \subseteq registered
  /\ ~failed

\* The notifications are enough: while they are all registered, what was reported last
\* is in the end what is there, without any refresh the program requests.
ReportsCatchUp == <>[]Sound => <>[](report = Present)

Shows(c, snaps) ==
  \E s \in snaps : s.id = c.id /\ IF c.kind = "level" THEN s.level = c.level ELSE s.is_default

\* What a command that returned Ok set is in the next report (tests/test_common_backend.cpp
\* sets, refreshes and looks), unless something changed in between.
CommandsShow ==
  [][\A c \in Command : (wpc = "push" /\ wpc' = "idle" /\ promise = c /\ result = "Ok"
                            /\ ~failed /\ c.id \notin invalid) => Shows(c, report')]_vars

\* Once the task that releases has run COM has no callback of the backend and the backend
\* no object of COM, whatever notifications were queued behind that task.
NothingHeldOnceReleased ==
  "release" \in signalled => registered = {} /\ owed = {} /\ volume_subscriptions_ = {} /\ ~enumerator_

\* A handler runs after its overriders are gone only if a notification came while
\* the destructor waited for the task that unregisters it.
OnlyLateNotificationsAbort == wpc = "aborted" => late

================================================================================
