------------------------------ MODULE MockBackend ------------------------------
(***************************************************************************)
(* MockBackend: the backend of the tests, an in-memory list of devices     *)
(* that its worker mutates on request and that test threads replace with   *)
(* push_snapshot().                                                        *)
(*                                                                         *)
(* Both change snapshots_ under snapshots_mutex_ and hand a copy to the    *)
(* subscriber after they have released it: two steps.  volume and muted    *)
(* are one `level`; set_volume and set_mute store it alike.                *)
(***************************************************************************)
EXTENDS Integers, FiniteSets

CONSTANTS
  Ids,               \* backend_device_ids; no list names one twice
  TypeOf(_),
  Levels,
  Testers,           \* threads that call push_snapshot()
  Absent, None

MockWorker  == "worker"
Threads == Testers \cup {MockWorker}

ASSUME TestersAssumption == MockWorker \notin Testers

Snapshot == [is_default : BOOLEAN, level : Levels]
OfType(list, t) == {i \in Ids : TypeOf(i) = t /\ list[i] # Absent}
Defaults(list, t) == {i \in OfType(list, t) : list[i].is_default}

\* Lists a test pushes: a type that has devices has one default.
Lists ==
  {list \in [Ids -> Snapshot \cup {Absent}] : \A t \in {TypeOf(i) : i \in Ids} :
    OfType(list, t) # {} => Cardinality(Defaults(list, t)) = 1}

NoDevices == [i \in Ids |-> Absent]

VARIABLES
  snapshots_,
  copy,              \* per thread: the list it is about to publish, or None
  received,          \* the list the subscriber received last
  result,            \* status of the last command
  suppressed,        \* history: snapshots_ was pushed with suppress_update_event
  raced              \* history: the last copy was made while another was published

mockVars == <<snapshots_, copy, received, result, suppressed, raced>>

MockTypeOK ==
  /\ snapshots_ \in [Ids -> Snapshot \cup {Absent}]
  /\ copy \in [Threads -> [Ids -> Snapshot \cup {Absent}] \cup {None}]
  /\ received \in [Ids -> Snapshot \cup {Absent}]
  /\ result \in {"none", "Ok", "DeviceNotFound"}
  /\ suppressed \in BOOLEAN
  /\ raced \in BOOLEAN

MockInit ==
  /\ snapshots_ = NoDevices
  /\ copy = [t \in Threads |-> None]
  /\ received = NoDevices
  /\ result = "none"
  /\ suppressed = FALSE
  /\ raced = FALSE

Idle(t) == copy[t] = None
Settled == \A t \in Threads : Idle(t)

\* Thread t changes snapshots_ and makes the copy it has to publish, or None.
Take(t, list, c) ==
  /\ Idle(t)
  /\ snapshots_' = list
  /\ copy' = [copy EXCEPT ![t] = c]
  /\ suppressed' = (c = None)
  /\ raced' = ~Settled

--------------------------------------------------------------------------------
\* push_snapshot().
PushSnapshot(t, list, suppress) ==
  /\ Take(t, list, IF suppress THEN None ELSE list)
  /\ UNCHANGED <<received, result>>

\* Mutation: the copy is made before the mutation.
CopyBefore(list) == snapshots_
\* The copy is made of the list after the mutation.
CopyAfter(list) == list

\* mutate_device(): an unknown device is reported to the caller alone.
MutateDevice(id, list) ==
  /\ Idle(MockWorker)
  /\ IF snapshots_[id] = Absent
       THEN result' = "DeviceNotFound" /\ UNCHANGED <<snapshots_, copy, suppressed, raced>>
       ELSE result' = "Ok" /\ Take(MockWorker, list, CopyAfter(list))
  /\ UNCHANGED received

\* handle_set_volume(), handle_set_mute().
SetLevel(id, v) == MutateDevice(id,
  [snapshots_ EXCEPT ![id] = [is_default |-> snapshots_[id].is_default, level |-> v]])

\* The devices handle_set_default() looks at: those of the type of its target.
SameType(id) == OfType(snapshots_, TypeOf(id))

\* handle_set_default().
SetDefault(id) ==
  MutateDevice(id, [i \in Ids |->
    IF i \in SameType(id)
      THEN [is_default |-> i = id, level |-> snapshots_[i].level]
      ELSE snapshots_[i]])

HandleRefresh ==
  /\ Take(MockWorker, snapshots_, snapshots_)
  /\ UNCHANGED <<received, result>>

\* push_update_event(), which is serialised by on_change_mutex_.
Publish(t) ==
  /\ ~Idle(t)
  /\ received' = copy[t]
  /\ copy' = [copy EXCEPT ![t] = None]
  /\ UNCHANGED <<snapshots_, result, suppressed, raced>>

MockNext ==
  \/ \E t \in Testers, list \in Lists, suppress \in BOOLEAN : PushSnapshot(t, list, suppress)
  \/ \E id \in Ids : SetDefault(id) \/ \E v \in Levels : SetLevel(id, v)
  \/ HandleRefresh
  \/ \E t \in Threads : Publish(t)

MockSpec == MockInit /\ [][MockNext]_mockVars
--------------------------------------------------------------------------------
(* Properties *)

\* "apply a mutation to it and other snapshots, then push the resulting state"
\* (mock_backend.hpp:58): once nobody publishes, the subscriber has the list the
\* backend has, unless a test suppressed the event or the last change was made
\* while an older list was still to be published: the mutex is released before.
SubscriberHasTheList == Settled /\ ~suppressed /\ ~raced => received = snapshots_

================================================================================
