--------------------------- MODULE PulseAudioBackend ---------------------------
(***************************************************************************)
(* PulseAudioBackend: the worker thread that runs handle_*(), the mainloop *)
(* thread of libpulse that runs every callback, and the server both talk   *)
(* to through one ordered connection.                                      *)
(*                                                                         *)
(* The mainloop lock is held by the worker from MainloopLockGuard to the   *)
(* next mainloop_wait_() and by the mainloop thread for a whole callback:  *)
(* each such section is one action.  The server keeps the log of its       *)
(* states; an answer names the state it was given in, and a report is the  *)
(* three states of its parts.  Any answer may be an error, which leaves a  *)
(* part of the report unread.  libpulse and the server are external:       *)
(* modelled by the calls the backend makes and the callbacks it expects.   *)
(***************************************************************************)
EXTENDS Integers, Sequences, SequencesExt, FiniteSets

CONSTANTS
  Names,             \* names of sinks and sources
  TypeOf(_),         \* "Output" for a sink, "Input" for a source
  Levels,            \* volume and mute of a device
  Refreshes,         \* addresses of RefreshStates, reused once they are freed
  ServerMayDie,
  MaxEvents,         \* bound: changes of the server, answers it refuses and requests
                     \* after the first together
  Absent, None

Types == {"Output", "Input"}

\* The bounds leave a RefreshState for every refresh that can be under way.
ASSUME RefreshesAssumption == MaxEvents \in Nat /\ Cardinality(Refreshes) >= 1 + MaxEvents
ASSUME LevelsAssumption    == Levels # {} /\ Absent \notin Levels
ASSUME TypesAssumption     == \A n \in Names : TypeOf(n) \in Types

\* A server names a default of each type it has a device of.
ServerState ==
  {s \in [devices : [Names -> Levels \cup {Absent}], defaults : [Types -> Names \cup {None}]] :
    \A t \in Types :
      LET present == {n \in Names : TypeOf(n) = t /\ s.devices[n] # Absent} IN
      s.defaults[t] \in IF present = {} THEN {None} ELSE present}

\* set_volume and set_mute write a level, set_default the default of a type.
Command == [name : Names, set : Levels \cup {"default"}]

Executed(s, c) ==
  IF c.set = "default" THEN [s EXCEPT !.defaults[TypeOf(c.name)] = c.name]
                       ELSE [s EXCEPT !.devices[c.name] = c.set]

MaxVersion == 1 + MaxEvents

\* What a refresh asks for: the names of the defaults, and the two lists.
Parts == {"info", "sinks", "sources"}

VARIABLES
  server,            \* the states of the server, the last one its current state
  changes,           \* states it reached on its own
  errors,            \* answers it has refused
  subscribed,        \* it sends events to this client
  unannounced,       \* it owes the client an event
  requests, replies, \* the connection
  context,           \* pa_context_state_t: connecting, ready, failed, terminated
  life,              \* constructor and destructor: connect, subscribe, running, unavailable, destroyed
  worker,            \* idle, found (entry looked up), operation, refresh (in mainloop_wait_)
  asked,             \* requests the worker was given
  command,           \* device_id and value of the handler that runs
  woken,             \* mainloop_signal_ since mainloop_wait_
  done,              \* handle_refresh(): the flag on its stack
  op,                \* wait_operation(): pa_operation_state_t of its operation
  success,           \* SuccessCallbackData on the stack of a handler
  result,            \* status of the last handler that returned
  refresh,           \* the RefreshStates
  report,            \* the last push_update_event(), or None
  device_cache_,
  since              \* history: the state of the server as the handler began

serverVars  == <<server, changes, errors, subscribed, unannounced>>
linkVars    == <<requests, replies>>
waitVars    == <<woken, done, op, success>>
handlerVars == <<worker, asked, command, result, since>>
vars == <<serverVars, linkVars, context, life, handlerVars, waitVars, refresh, report,
          device_cache_>>

Message == [kind : {"subscribe", "event", "info", "sinks", "sources", "set"},
            of : Refreshes \cup Command \cup {None},
            version : 0..MaxVersion, ok : BOOLEAN]
RefreshState == [pending : 1..2, info : 0..MaxVersion, sinks : 0..MaxVersion,
                 sources : 0..MaxVersion, failed : SUBSET Parts, signal : BOOLEAN]
Report == [info : 1..MaxVersion, sinks : 1..MaxVersion, sources : 1..MaxVersion,
           failed : SUBSET Parts]

ASSUME NoneAssumption == None \notin RefreshState \cup Report \cup Refreshes

TypeOK ==
  /\ server \in Seq(ServerState) /\ Len(server) \in 1..MaxVersion
  /\ changes \in 0..MaxEvents /\ errors \in 0..MaxEvents
  /\ subscribed \in BOOLEAN /\ unannounced \in BOOLEAN
  /\ requests \in Seq(Message) /\ replies \in Seq(Message)
  /\ context \in {"connecting", "ready", "failed", "terminated"}
  /\ life \in {"connect", "subscribe", "running", "unavailable", "destroyed"}
  /\ worker \in {"idle", "found", "operation", "refresh"}
  /\ asked \in 0..(1 + MaxEvents)
  /\ command \in Command \cup {None}
  /\ woken \in BOOLEAN /\ done \in BOOLEAN /\ success \in BOOLEAN
  /\ op \in {"none", "running", "done", "cancelled"}
  /\ result \in {"none", "Ok", "DeviceNotFound", "BackendError"}
  /\ refresh \in [Refreshes -> RefreshState \cup {None}]
  /\ report \in Report \cup {None}
  /\ device_cache_ \subseteq Names
  /\ since \in 0..MaxVersion

\* The server begins with all devices; one level is as good to begin with as another,
\* and so is one default.
Init ==
  /\ server = <<CHOOSE s \in ServerState :
                   s.devices = [n \in Names |-> CHOOSE l \in Levels : TRUE]>>
  /\ changes = 0 /\ errors = 0
  /\ subscribed = FALSE /\ unannounced = FALSE
  /\ requests = <<>> /\ replies = <<>>
  /\ context = "connecting"
  /\ life = "connect"
  /\ worker = "idle"
  /\ asked = 0
  /\ command = None
  /\ woken = FALSE /\ done = FALSE /\ op = "none" /\ success = FALSE
  /\ result = "none"
  /\ refresh = [r \in Refreshes |-> None]
  /\ report = None
  /\ device_cache_ = {}
  /\ since = 0

Msg(kind, of, version, ok) == [kind |-> kind, of |-> of, version |-> version, ok |-> ok]
Request(kind, of) == Msg(kind, of, 0, FALSE)
Events == changes + errors + (IF asked = 0 THEN 0 ELSE asked - 1)
Free == {r \in Refreshes : refresh[r] = None}

--------------------------------------------------------------------------------
(* The server (external) *)

\* Mutation: the subscription mask leaves PA_SUBSCRIPTION_MASK_SERVER out.
DevicesDiffer(s, t) == s.devices # t.devices
\* The changes the subscription mask of try_init() asks for: sinks, sources, server.
MaskMatches(s, t) == s # t

\* The server enters state s.
Enter(s) ==
  /\ server' = Append(server, s)
  /\ unannounced' = (unannounced \/ (subscribed /\ MaskMatches(Last(server), s)))

\* Devices come and go one by one, other clients set levels and defaults.
ServerChanges ==
  /\ context = "ready"
  /\ Events < MaxEvents
  /\ changes' = changes + 1
  /\ \E s \in ServerState \ {Last(server)}, n \in Names :
       /\ \A m \in Names \ {n} : s.devices[m] = Last(server).devices[m]
       /\ Enter(s)
  /\ UNCHANGED <<errors, subscribed, linkVars, context, life, handlerVars, waitVars, refresh,
                 report, device_cache_>>

\* Events are deferred and joined: one stands for all changes since the last.
ServerNotifies ==
  /\ unannounced
  /\ unannounced' = FALSE
  /\ replies' = Append(replies, Request("event", None))
  /\ UNCHANGED <<server, changes, errors, subscribed, requests, context, life, handlerVars,
                 waitVars, refresh, report, device_cache_>>

\* An answer names the state the request found.
Answer(request, ok) == Msg(request.kind, request.of, Len(server), ok)

\* It carries out a request.
Serve(request) ==
  \/ /\ request.kind = "subscribe"
     /\ subscribed' = TRUE
     /\ UNCHANGED <<server, unannounced, replies>>
  \/ /\ request.kind = "set"
     /\ Last(server).devices[request.of.name] # Absent
     /\ Enter(Executed(Last(server), request.of))
     /\ replies' = Append(replies, Answer(request, TRUE))
     /\ UNCHANGED subscribed
  \/ /\ request.kind \in Parts
     /\ replies' = Append(replies, Answer(request, TRUE))
     /\ UNCHANGED <<server, subscribed, unannounced>>

\* It refuses a request, or does not answer in time.  Nobody hears of a subscription.
Refuse(request) ==
  /\ replies' = IF request.kind = "subscribe" THEN replies
                ELSE Append(replies, Answer(request, FALSE))
  /\ UNCHANGED <<server, subscribed, unannounced>>

\* Requests are answered in the order they were sent; those for a device that is gone are
\* always refused.
ServerAnswers ==
  /\ requests # <<>>
  /\ requests' = Tail(requests)
  /\ LET request == Head(requests) IN
     \/ Serve(request) /\ UNCHANGED errors
     \/ /\ Refuse(request)
        /\ IF request.kind = "set" /\ Last(server).devices[request.of.name] = Absent
             THEN UNCHANGED errors
             ELSE Events < MaxEvents /\ errors' = errors + 1
  /\ UNCHANGED <<changes, context, life, handlerVars, waitVars, refresh, report, device_cache_>>

\* mainloop_signal_() is lost unless somebody is in mainloop_wait_().
SomebodyWaits == life = "connect" \/ worker \in {"operation", "refresh"}

\* The context fails: libpulse drops what is under way, cancels its operations
\* without calling their callbacks, and calls context_state_callback().
ContextEnds(state) ==
  /\ context' = state
  /\ requests' = <<>> /\ replies' = <<>>
  /\ refresh' = [r \in Refreshes |-> None]
  /\ op' = IF op = "running" THEN "cancelled" ELSE op
  /\ unannounced' = FALSE /\ subscribed' = FALSE

ServerDies ==
  /\ ServerMayDie
  /\ context \in {"connecting", "ready"}
  /\ ContextEnds("failed")
  /\ woken' = SomebodyWaits
  /\ UNCHANGED <<server, changes, errors, life, handlerVars, done, success, report,
                 device_cache_>>

\* The connection is up: context_state_callback().
ServerAccepts ==
  /\ context = "connecting"
  /\ context' = "ready"
  /\ woken' = TRUE
  /\ UNCHANGED <<serverVars, linkVars, life, handlerVars, done, op, success, refresh, report,
                 device_cache_>>

--------------------------------------------------------------------------------
(* Constructor and destructor *)

\* try_init() waits until the context is ready or has failed.
InitWaits ==
  /\ life = "connect"
  /\ woken
  /\ context # "connecting"
  /\ woken' = FALSE
  /\ life' = IF context = "ready" THEN "subscribe" ELSE "unavailable"
  /\ UNCHANGED <<serverVars, linkVars, context, handlerVars, done, op, success, refresh, report,
                 device_cache_>>

\* context_subscribe_(), after which available_ is TRUE whether or not it could
\* be sent; the manager then subscribes, which makes a refresh the first request.
InitSubscribes ==
  /\ life = "subscribe"
  /\ life' = "running"
  /\ requests' = IF context = "ready" THEN Append(requests, Request("subscribe", None)) ELSE requests
  /\ UNCHANGED <<serverVars, replies, context, handlerVars, waitVars, refresh, report,
                 device_cache_>>

\* ~PulseAudioBackend(): shutdown_workers() has drained the worker; the context
\* is disconnected under the mainloop lock and the mainloop stopped.
Destroy ==
  /\ life = "running"
  /\ asked > 0
  /\ worker = "idle"
  /\ life' = "destroyed"
  /\ ContextEnds("terminated")
  /\ UNCHANGED <<server, changes, errors, handlerVars, woken, done, success, report,
                 device_cache_>>

--------------------------------------------------------------------------------
(* The worker thread *)

\* The sink list and the source list.
Lists == 2

\* refresh_devices(): a RefreshState of its own, and the first request for it.
\* Without a connection there is no operation, and nothing will ever complete.
RefreshDevices(done_signal) ==
  IF context = "ready"
    THEN LET r == CHOOSE r \in Free : TRUE IN
         /\ Free # {}
         /\ refresh' = [refresh EXCEPT ![r] =
              [pending |-> Lists, info |-> 0, sinks |-> 0, sources |-> 0, failed |-> {},
               signal |-> done_signal]]
         /\ requests' = Append(requests, Request("info", r))
    ELSE UNCHANGED <<refresh, requests>>

\* The next request of the worker's queue.
NextRequest ==
  /\ life = "running"
  /\ worker = "idle"
  /\ asked = 0 \/ Events < MaxEvents
  /\ asked' = asked + 1

HandleRefresh ==
  /\ NextRequest
  /\ RefreshDevices(TRUE)
  /\ worker' = "refresh" /\ since' = Len(server)
  /\ done' = FALSE /\ woken' = FALSE
  /\ UNCHANGED <<serverVars, replies, context, life, command, result, op, success, report,
                 device_cache_>>

\* lookup_device(), under cache_mutex_ alone.
LookupDevice(c) ==
  /\ asked > 0
  /\ NextRequest
  /\ IF c.name \in device_cache_
       THEN worker' = "found" /\ command' = c /\ since' = Len(server) /\ UNCHANGED result
       ELSE result' = "DeviceNotFound" /\ UNCHANGED <<worker, command, since>>
  /\ UNCHANGED <<serverVars, linkVars, context, life, waitVars, refresh, report, device_cache_>>

\* The rest of handle_set_*() up to mainloop_wait_().
SendCommand ==
  /\ worker = "found"
  /\ success' = FALSE /\ woken' = FALSE
  /\ IF context = "ready"
       THEN /\ requests' = Append(requests, Request("set", command))
            /\ op' = "running"
            /\ worker' = "operation"
            /\ UNCHANGED <<command, result, since>>
       ELSE /\ worker' = "idle"
            /\ result' = "BackendError"
            /\ command' = None /\ since' = 0
            /\ UNCHANGED <<requests, op>>
  /\ UNCHANGED <<serverVars, replies, context, life, asked, done, refresh, report, device_cache_>>

\* Mutation: the loops around mainloop_wait_() are ifs.
WaitsOnce == FALSE
\* Mutation: wait_operation() waits for PA_OPERATION_DONE.
WaitsForDone == IF worker = "refresh" THEN ~done ELSE op # "done"
\* What the loop of the handler waits for has not come yet.
KeepsWaiting == IF worker = "refresh" THEN ~done ELSE op = "running"

\* Mutation: wait_operation() does not look at *success.
OperationStatus == IF op # "cancelled" THEN "Ok" ELSE "BackendError"
\* What wait_operation() makes of the state of the operation.
CommandStatus == IF op = "done" /\ success THEN "Ok" ELSE "BackendError"

\* mainloop_wait_() returns; the loop ends, and with the handler what is on its stack, or
\* waits again.
WaitReturns ==
  /\ worker \in {"operation", "refresh"}
  /\ woken' = FALSE
  /\ IF KeepsWaiting
       THEN UNCHANGED <<worker, command, result, since, done, op, success>>
       ELSE /\ worker' = "idle"
            /\ result' = IF worker = "refresh" THEN "Ok" ELSE CommandStatus
            /\ command' = None /\ since' = 0
            /\ done' = FALSE /\ op' = "none" /\ success' = FALSE
  /\ UNCHANGED <<serverVars, linkVars, context, life, asked, refresh, report, device_cache_>>

WorkerWakes    == woken /\ WaitReturns
\* It may return with nobody having signalled.
SpuriousWakeup == ~woken /\ WaitReturns

--------------------------------------------------------------------------------
(* The mainloop thread: one message of the server and its callback. *)

Dispatch(kind) ==
  /\ replies # <<>>
  /\ Head(replies).kind = kind
  /\ replies' = Tail(replies)

SubscribeCallback ==
  /\ Dispatch("event")
  /\ RefreshDevices(FALSE)
  /\ UNCHANGED <<serverVars, context, life, handlerVars, waitVars, report, device_cache_>>

\* After answer m: an error leaves its part of the report unread.
Answered(state, m) == IF m.ok THEN state ELSE [state EXCEPT !.failed = @ \cup {m.kind}]

WithInfo(state, m) == [Answered(state, m) EXCEPT !.info = m.version]

\* An error comes with no info: no names of defaults are kept, the lists are asked for
\* all the same.
ServerInfoCallback ==
  /\ Dispatch("info")
  /\ LET r == Head(replies).of IN
     /\ refresh' = [refresh EXCEPT ![r] = WithInfo(refresh[r], Head(replies))]
     /\ requests' = requests \o <<Request("sinks", r), Request("sources", r)>>
  /\ UNCHANGED <<serverVars, context, life, handlerVars, waitVars, report, device_cache_>>

\* The devices of a type in a state of the server.
DevicesOf(version, type) ==
  {n \in Names : TypeOf(n) = type /\ server[version].devices[n] # Absent}

\* Mutation: a refresh that completes ends every handle_refresh().
AnyoneDone(state) == done \/ worker = "refresh"
\* done_signal, where it was given, is set.
Done(state) == done \/ state.signal

\* mainloop_signal_().
Signalled(state) == woken \/ state.signal

ReportOf(state) == [info |-> state.info, sinks |-> state.sinks, sources |-> state.sources,
                    failed |-> state.failed]

\* complete_one(): the last list pushes the report and tells who waits for it.
CompleteOne(r, state) ==
  IF state.pending > 1
    THEN /\ refresh' = [refresh EXCEPT ![r] = [state EXCEPT !.pending = @ - 1]]
         /\ UNCHANGED <<report, done, woken>>
    ELSE /\ refresh' = [refresh EXCEPT ![r] = None]
         /\ report' = ReportOf(state)
         /\ done' = Done(state)
         /\ woken' = Signalled(state)

WithList(state, m) ==
  IF m.kind = "sinks" THEN [Answered(state, m) EXCEPT !.sinks = m.version]
                      ELSE [Answered(state, m) EXCEPT !.sources = m.version]

\* The devices a list may deliver before its end: all, or any if it ends with an error.
Listed(m, type) ==
  LET devices == DevicesOf(m.version, type) IN IF m.ok THEN {devices} ELSE SUBSET devices

\* The devices of one list, each of which is entered in device_cache_, and its end, which
\* counts as well if it is an error (eol < 0).
ListCallback(kind, type) ==
  /\ Dispatch(kind)
  /\ LET r == Head(replies).of
         m == Head(replies) IN
     /\ \E devices \in Listed(m, type) : device_cache_' = device_cache_ \cup devices
     /\ CompleteOne(r, WithList(refresh[r], m))
  /\ UNCHANGED <<serverVars, requests, context, life, handlerVars, op, success>>

SinkInfoCallback   == ListCallback("sinks", "Output")
SourceInfoCallback == ListCallback("sources", "Input")

\* The operation is done once its callback has returned.
SuccessCallback ==
  /\ Dispatch("set")
  /\ success' = Head(replies).ok
  /\ woken' = TRUE
  /\ op' = "done"
  /\ UNCHANGED <<serverVars, requests, context, life, handlerVars, done, refresh, report,
                 device_cache_>>

--------------------------------------------------------------------------------
InitialRefresh == asked = 0 /\ HandleRefresh

Constructor == InitWaits \/ InitSubscribes
Worker   == SendCommand \/ WorkerWakes
Mainloop == \/ SubscribeCallback \/ ServerInfoCallback
            \/ SinkInfoCallback \/ SourceInfoCallback \/ SuccessCallback
Server   == ServerNotifies \/ ServerAnswers

\* Nothing runs after the destructor, or after a constructor that failed.
Gone == life \in {"unavailable", "destroyed"} /\ UNCHANGED vars

Next ==
  \/ Constructor \/ HandleRefresh \/ Worker \/ SpuriousWakeup \/ Destroy
  \/ \E c \in Command : LookupDevice(c)
  \/ Mainloop
  \/ Server \/ ServerAccepts \/ ServerChanges \/ ServerDies
  \/ Gone

\* Threads that can run do run, the worker takes the request that subscribe()
\* queued, and a server that lives answers.  Nothing makes it live, a request
\* come or a device change.
Fairness ==
  /\ WF_vars(Constructor) /\ WF_vars(InitialRefresh) /\ WF_vars(Worker)
  /\ WF_vars(Mainloop)
  /\ WF_vars(ServerNotifies) /\ WF_vars(ServerAnswers)

Spec == Init /\ [][Next]_vars /\ Fairness
--------------------------------------------------------------------------------
(* Properties *)

ListOfType(t) == IF t = "Output" THEN "sinks" ELSE "sources"

\* What a report says by the lists that were read to their end: the devices, each with
\* level and is_default, which is FALSE without the names of the defaults.
Shown(r) ==
  LET Version(t) == IF t = "Output" THEN r.sinks ELSE r.sources
      Devices == UNION {DevicesOf(Version(t), t) : t \in {u \in Types : ListOfType(u) \notin r.failed}}
  IN {[name |-> n, level |-> server[Version(TypeOf(n))].devices[n],
       is_default |-> "info" \notin r.failed /\ server[r.info].defaults[TypeOf(n)] = n] : n \in Devices}

\* A report of the server as it is, without the parts that could not be read.
Latest(failed) ==
  [info |-> Len(server), sinks |-> Len(server), sources |-> Len(server), failed |-> failed]

Signals(r) == refresh[r] # None /\ refresh[r].signal

\* The callbacks write to the stack of the handler that waits for them: while
\* the server owes one of them an answer, that handler has not returned
\* (pulseaudio_backend.hpp:49-54, 85-88, 344-346).
FramesOutliveCallbacks ==
  /\ \A r \in Refreshes : Signals(r) => worker = "refresh"
  /\ \A r, q \in Refreshes : Signals(r) /\ Signals(q) => r = q
  /\ \A m \in ToSet(requests) \cup ToSet(replies) : m.kind = "set" => worker = "operation"

\* A refresh that returns has pushed a report all three parts of which were answered after
\* the request reached the worker, whatever refreshes events had started before
\* (pulseaudio_backend.hpp:82-90, 221-228).  An answer may be an error: the refresh returns
\* then as well, and the report lacks that part, or the rest of it.
RefreshIsFresh ==
  worker = "refresh" /\ done =>
    report # None /\ report.info >= since /\ report.sinks >= since /\ report.sources >= since

\* A command that returns Ok was carried out by the server after the handler
\* began (pulseaudio_backend.hpp:344-351).
OkMeansExecuted ==
  [][worker = "operation" /\ worker' = "idle" /\ result' = "Ok" =>
       \E v \in since..Len(server) :
         /\ server[v].devices[command.name] # Absent
         /\ server[v] = Executed(server[v], command)]_vars

\* Once nothing is on its way and no event is owed, the last report shows the devices,
\* levels and defaults the server has, but for the parts its own answers refused: those
\* it lacks in whole or in part, and nothing asks for them again
\* (pulseaudio_backend.hpp:142-147, 208-211, 231-241, 271-275).
SettledReportIsCurrent ==
  /\ life = "running" /\ context = "ready" /\ asked > 0 /\ subscribed
  /\ ~unannounced /\ requests = <<>> /\ replies = <<>>
  => report # None /\ Shown(report) = Shown(Latest(report.failed))

\* Whatever devices, levels and defaults a live server ends up with, the last report
\* shows them, but for the parts its answers refused: an event is never lost between
\* refreshes under way, if the server has accepted the subscription
\* (pulseaudio_backend.hpp:142-147, 208-211).
ReportsCatchUp ==
  <>[](life = "running" /\ context = "ready" /\ subscribed =>
         report # None /\ Shown(report) = Shown(Latest(report.failed)))

\* "set future value" is the last thing every request comes to
\* (audio_backend.hpp:28-34): no handler waits for ever.
EveryRequestReturns == worker # "idle" ~> worker = "idle"

\* A command returns even if the server dies under it: its operation is cancelled
\* and the loop is woken (pulseaudio_backend.hpp:203-206, 344-349).  A refresh
\* returns at least while the server lives (pulseaudio_backend.hpp:85-88).
HandlersReturn ==
  /\ worker \in {"found", "operation"} ~> worker = "idle"
  /\ worker = "refresh" ~> worker = "idle" \/ context # "ready"
================================================================================
