------------------------------- MODULE DeviceMap -------------------------------
(***************************************************************************)
(* The device map of AudioDeviceManager: on_backend_event() merges what a  *)
(* backend reports into devices_, marks what it no longer reports as       *)
(* disconnected, and decides whether the subscribers hear of it;           *)
(* prune_disconnected() is the only operation that forgets a device.       *)
(*                                                                         *)
(* devices_mutex_ is held for a whole event, but the fields of a Device    *)
(* are atomics that are read without it, through references: every         *)
(* snapshot is applied in a step of its own.  volume, muted, min_level and *)
(* max_level are one `level`: the code compares and stores them alike.     *)
(***************************************************************************)
EXTENDS Integers, Sequences, SequencesExt, FiniteSets, FiniteSetsExt

CONSTANTS
  Keys,              \* DeviceIds: pairs of a backend and one of its device ids
  TypeOf(_),         \* the DeviceType of a key, fixed as the Device is created
  Levels,
  MaxReport,         \* bound: devices in a report
  Absent, Idle

Backends == {k[1] : k \in Keys}
Device   == [connected : BOOLEAN, is_default : BOOLEAN, level : Levels]
Snapshot == [key : Keys, is_default : BOOLEAN, level : Levels]

ASSUME MaxReportAssumption == MaxReport \in Nat
ASSUME AbsentAssumption == Absent \notin Device
ASSUME IdleAssumption == Idle \notin Backends

\* What a backend may report: no type of its devices has two defaults.
WellFormed(report) ==
  \A i, j \in DOMAIN report : i # j =>
    ~(/\ report[i].is_default /\ report[j].is_default
      /\ TypeOf(report[i].key) = TypeOf(report[j].key))

Reports(b) ==
  {r \in SeqOf({s \in Snapshot : s.key[1] = b}, MaxReport) : WellFormed(r)}

VARIABLES
  devices_,          \* per key, the Device or Absent
  busy,              \* the backend whose event holds devices_mutex_, or Idle
  rest,              \* snapshots of the event not applied yet
  seen,              \* keys of the snapshots that were
  any_change,
  last,              \* history: per backend, its last report
  announced          \* history: devices_ as the subscribers were last told

eventVars == <<busy, rest, seen, any_change>>
vars == <<devices_, eventVars, last, announced>>

TypeOK ==
  /\ devices_ \in [Keys -> Device \cup {Absent}]
  /\ busy \in Backends \cup {Idle}
  /\ rest \in Seq(Snapshot)
  /\ seen \subseteq {k \in Keys : k[1] = busy}
  /\ any_change \in BOOLEAN
  /\ last \in [Backends -> Seq(Snapshot)]
  /\ announced \in [Keys -> Device \cup {Absent}]

Init ==
  /\ devices_ = [k \in Keys |-> Absent]
  /\ busy = Idle
  /\ rest = <<>>
  /\ seen = {}
  /\ any_change = FALSE
  /\ last = [b \in Backends |-> <<>>]
  /\ announced = devices_

Connected(k) == devices_[k] # Absent /\ devices_[k].connected

--------------------------------------------------------------------------------
(* on_backend_event() *)

BeginEvent(b, report) ==
  /\ busy = Idle
  /\ busy' = b
  /\ rest' = report
  /\ seen' = {}
  /\ any_change' = FALSE
  /\ last' = [last EXCEPT ![b] = report]
  /\ UNCHANGED <<devices_, announced>>

\* The Device after apply_snapshot().
Applied(snap) == [connected |-> TRUE, is_default |-> snap.is_default, level |-> snap.level]

\* Mutation: the result of the last apply_snapshot() overwrites the others.
LastChange(snap) == devices_[snap.key] # Applied(snap)
\* Mutation: a snapshot counts as a change because it was applied.
AlwaysChange(snap) == TRUE
\* any_change |= for a Device that is emplaced or whose fields were exchanged.
AnyChange(snap) == any_change \/ devices_[snap.key] # Applied(snap)

ApplySnapshot ==
  /\ busy # Idle
  /\ rest # <<>>
  /\ LET snap == Head(rest) IN
       /\ seen' = seen \cup {snap.key}
       /\ any_change' = AnyChange(snap)
       /\ devices_' = [devices_ EXCEPT ![snap.key] = Applied(snap)]
  /\ rest' = Tail(rest)
  /\ UNCHANGED <<busy, last, announced>>

\* Mutation: the sweep does not look at the backend of a device.
AllUnseen == {k \in Keys \ seen : Connected(k)}
\* Connected devices of this backend that the report did not name.
Vanished == {k \in Keys \ seen : k[1] = busy /\ Connected(k)}

\* Mutation: the device is erased.
Erased(k) == Absent
\* mark_disconnected(): every other field stays.
Disconnected(k) ==
  [connected |-> FALSE, is_default |-> devices_[k].is_default, level |-> devices_[k].level]

\* any_change |= for each device that was marked.
SweepChange == any_change \/ Vanished # {}

\* The sweep, the end of the event and schedule_notify(), which sets a flag that
\* NotifyScheduler takes up from here.
EndEvent ==
  /\ busy # Idle
  /\ rest = <<>>
  /\ devices_' = [k \in Keys |-> IF k \in Vanished THEN Disconnected(k) ELSE devices_[k]]
  /\ announced' = IF SweepChange THEN devices_' ELSE announced
  /\ busy' = Idle
  /\ seen' = {}
  /\ any_change' = FALSE
  /\ UNCHANGED <<rest, last>>

--------------------------------------------------------------------------------
(* prune_disconnected(): its caller knows of it, nobody else is told. *)

Pruned(map) == [k \in Keys |-> IF ~Connected(k) THEN Absent ELSE map[k]]

PruneDisconnected ==
  /\ busy = Idle
  /\ \E k \in Keys : devices_[k] # Absent /\ ~Connected(k)
  /\ devices_' = Pruned(devices_)
  /\ announced' = Pruned(announced)
  /\ UNCHANGED <<eventVars, last>>

Next ==
  \/ \E b \in Backends : \E report \in Reports(b) : BeginEvent(b, report)
  \/ ApplySnapshot
  \/ EndEvent
  \/ PruneDisconnected

Spec == Init /\ [][Next]_vars
--------------------------------------------------------------------------------
(* Properties *)

\* The last snapshot of key k in a report, and whether there is one.
InReport(report, k) == \E i \in DOMAIN report : report[i].key = k
LastSnapshot(report, k) ==
  LET i == Max({j \in DOMAIN report : report[j].key = k}) IN report[i]

\* Between events the connected devices of every backend are those of its last
\* report, with the values of that report, whatever was reported before, by
\* whom, and whatever was pruned: a connected device, to which there may be
\* references, is never taken out (audio_device_manager.hpp:86-101, 229-254).
ConnectedMatchesLastReport ==
  busy = Idle => \A k \in Keys :
    /\ Connected(k) <=> InReport(last[k[1]], k)
    /\ Connected(k) => devices_[k] = Applied(LastSnapshot(last[k[1]], k))

\* Between events subscribers have been told of everything a reader of the map
\* can see (audio_device_manager.hpp:246-256).
ChangesAreAnnounced == busy = Idle => announced = devices_

\* AlsaBackend names a device twice if a card has two elements of one name
\* (alsa_backend.hpp:213): each snapshot may differ from the other.
NamedTwice(report) == \E i, j \in DOMAIN report : i # j /\ report[i].key = report[j].key

\* A report that changes nothing is not announced, unless it names a device twice:
\* "dedup-no-notify-on-noop" (DESIGN.md:744; audio_device_manager.hpp:256).
NoopIsSilent ==
  [][busy # Idle /\ rest = <<>> /\ SweepChange =>
       devices_' # announced \/ NamedTwice(last[busy])]_vars

\* What subscribers are told of is always the map after whole reports, each merged at
\* once, although an event applies its snapshots one by one and may end without a
\* notification; and a device that is reported no more is kept: "references, which
\* [...] stay valid forever, even when disconnected" (DESIGN.md:362;
\* audio_device_manager.hpp:86-101, 229-256).
View == INSTANCE DeviceView WITH view <- announced
ImplementsDeviceView == View!Spec
================================================================================
