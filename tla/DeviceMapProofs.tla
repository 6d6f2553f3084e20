---------------------------- MODULE DeviceMapProofs ----------------------------
(***************************************************************************)
(* What TLAPS proves of the device map, for any backends, devices, types   *)
(* and lengths of reports: that its connected devices are those of the     *)
(* last reports, that the subscribers are told of every change and of      *)
(* nothing that is none, and that what they are told is a DeviceView.      *)
(*                                                                         *)
(* An event is applied snapshot by snapshot, so the strengthening follows  *)
(* it: the part of the report that was applied decides about the keys that *)
(* were seen, and the other backends' keys are settled all the time.       *)
(***************************************************************************)
EXTENDS DeviceMap, TLAPS

\* Snapshot i is the last one of key k among the first n of the report.
LastAt(report, n, k, i) ==
  /\ i \in 1..n
  /\ report[i].key = k
  /\ \A j \in 1..n : j > i => report[j].key # k

\* In the map key k is what the first n snapshots of the report say.
Shown(map, report, n, k) ==
  \E i \in 1..n : LastAt(report, n, k, i) /\ map[k] = Applied(report[i])

\* Key k is settled by a report that was applied as a whole.
SettledBy(map, report, k) ==
  /\ map[k] # Absent /\ map[k].connected => Shown(map, report, Len(report), k)
  /\ InReport(report, k) => map[k] # Absent /\ map[k].connected

Unsettled(k) == busy # Idle /\ k[1] = busy

OthersAreSettled ==
  \A k \in Keys : ~Unsettled(k) => SettledBy(devices_, last[k[1]], k)

\* The snapshots of the event that have been applied.
Done == Len(last[busy]) - Len(rest)

RestIsTheEnd ==
  busy # Idle =>
    /\ Len(rest) <= Len(last[busy])
    /\ \A i \in 1..Len(rest) : rest[i] = last[busy][Done + i]

SeenIsShown ==
  busy # Idle =>
    /\ \A k \in seen : Shown(devices_, last[busy], Done, k)
    /\ \A i \in 1..Done : last[busy][i].key \in seen

ReportsAreOfTheirBackend ==
  \A b \in Backends : \A i \in 1..Len(last[b]) : last[b][i].key[1] = b

SilenceIsNoChange ==
  /\ busy = Idle => announced = devices_
  /\ busy # Idle /\ ~any_change => announced = devices_

MapInv == OthersAreSettled /\ RestIsTheEnd /\ SeenIsShown /\ ReportsAreOfTheirBackend
IInv   == TypeOK /\ MapInv /\ SilenceIsNoChange

--------------------------------------------------------------------------------
(* Reports and snapshots *)

LEMMA ReportsAreSequences ==
  ASSUME NEW b, NEW report \in Reports(b)
  PROVE  /\ report \in Seq(Snapshot)
         /\ \A i \in 1..Len(report) : report[i].key[1] = b
<1>1. PICK n \in 0..MaxReport : report \in [1..n -> {s \in Snapshot : s.key[1] = b}]
  BY DEF Reports, SeqOf
<1> QED
  BY <1>1, MaxReportAssumption

LEMMA AppliedIsADevice ==
  ASSUME NEW snap \in Snapshot
  PROVE  Applied(snap) \in Device /\ Applied(snap) # Absent /\ Applied(snap).connected
<1>1. Applied(snap) \in Device /\ Applied(snap).connected
  BY DEF Applied, Snapshot, Device
<1> QED
  BY <1>1, AbsentAssumption

LEMMA HeadAndTail ==
  ASSUME NEW S, NEW s \in Seq(S), s # <<>>
  PROVE  /\ Head(s) \in S /\ Head(s) = s[1] /\ Len(s) \in Nat \ {0}
         /\ Tail(s) \in Seq(S) /\ Len(Tail(s)) = Len(s) - 1
         /\ \A i \in 1..Len(Tail(s)) : Tail(s)[i] = s[i + 1]
  OBVIOUS

--------------------------------------------------------------------------------
LEMMA Initially == ASSUME Init PROVE IInv
<1>1. /\ \A k \in Keys : devices_[k] = Absent
      /\ \A b \in Backends : last[b] = <<>>
      /\ \A k \in Keys : k[1] \in Backends
  BY DEF Init, Backends
<1>2. TypeOK
  <2>1. devices_ \in [Keys -> Device \cup {Absent}] /\ last \in [Backends -> Seq(Snapshot)]
    BY DEF Init
  <2>2. rest \in Seq(Snapshot) /\ seen \subseteq {k \in Keys : k[1] = busy}
    BY DEF Init
  <2> QED
    BY <2>1, <2>2 DEF Init, TypeOK
<1>3. OthersAreSettled
  BY <1>1 DEF OthersAreSettled, SettledBy, InReport
<1> QED
  BY <1>1, <1>2, <1>3
  DEF Init, IInv, MapInv, RestIsTheEnd, SeenIsShown, ReportsAreOfTheirBackend,
      SilenceIsNoChange

LEMMA BeginKeeps ==
  ASSUME IInv, NEW b \in Backends, NEW report \in Reports(b), BeginEvent(b, report)
  PROVE  IInv'
<1>1. report \in Seq(Snapshot) /\ \A i \in 1..Len(report) : report[i].key[1] = b
  BY ReportsAreSequences
<1>2. /\ busy = Idle /\ busy' = b /\ busy' # Idle /\ rest' = report /\ seen' = {}
      /\ devices_' = devices_ /\ announced' = announced
      /\ \A c \in Backends : last'[c] = IF c = b THEN report ELSE last[c]
  BY IdleAssumption DEF BeginEvent, IInv, TypeOK
<1>3. TypeOK'
  BY <1>1, <1>2 DEF IInv, TypeOK, BeginEvent
<1>4. Done' = 0
  BY <1>1, <1>2 DEF Done
<1>5. OthersAreSettled'
  <2> SUFFICES ASSUME NEW k \in Keys, k[1] # b PROVE SettledBy(devices_', last'[k[1]], k)
    BY <1>2 DEF OthersAreSettled, Unsettled
  <2>1. k[1] \in Backends /\ last'[k[1]] = last[k[1]]
    BY <1>2 DEF Backends
  <2> QED
    BY <1>2, <2>1 DEF IInv, MapInv, OthersAreSettled, Unsettled
<1>6. RestIsTheEnd' /\ SeenIsShown'
  BY <1>1, <1>2, <1>4 DEF RestIsTheEnd, SeenIsShown, Done
<1>7. ReportsAreOfTheirBackend'
  BY <1>1, <1>2 DEF ReportsAreOfTheirBackend, IInv, MapInv
<1>8. SilenceIsNoChange'
  BY <1>2 DEF SilenceIsNoChange, IInv
<1> QED
  BY <1>3, <1>5, <1>6, <1>7, <1>8 DEF IInv, MapInv

LEMMA ApplyKeeps == ASSUME IInv, ApplySnapshot PROVE IInv'
<1> DEFINE snap   == Head(rest)
           report == last[busy]
<1>1. /\ busy \in Backends /\ report \in Seq(Snapshot) /\ rest \in Seq(Snapshot)
      /\ rest # <<>> /\ busy # Idle
  BY DEF ApplySnapshot, IInv, TypeOK
<1>2. /\ snap \in Snapshot /\ snap = rest[1] /\ Len(rest) \in Nat \ {0}
      /\ Tail(rest) \in Seq(Snapshot) /\ Len(Tail(rest)) = Len(rest) - 1
      /\ \A i \in 1..Len(Tail(rest)) : Tail(rest)[i] = rest[i + 1]
  BY <1>1, HeadAndTail
<1>3. /\ Len(rest) <= Len(report) /\ Len(report) \in Nat /\ Done \in Nat
      /\ Done + 1 \in 1..Len(report)
  BY <1>1, <1>2 DEF IInv, MapInv, RestIsTheEnd, Done
<1>4. snap = report[Done + 1]
  BY <1>1, <1>2 DEF IInv, MapInv, RestIsTheEnd
<1>5. snap.key \in Keys /\ snap.key[1] = busy
  BY <1>1, <1>2, <1>3, <1>4 DEF IInv, MapInv, ReportsAreOfTheirBackend, Snapshot
<1>6. /\ busy' = busy /\ last' = last /\ rest' = Tail(rest) /\ seen' = seen \cup {snap.key}
      /\ announced' = announced
      /\ devices_' = [devices_ EXCEPT ![snap.key] = Applied(snap)]
      /\ any_change' = (any_change \/ devices_[snap.key] # Applied(snap))
  BY DEF ApplySnapshot, AnyChange
<1>7. /\ Applied(snap) \in Device /\ Applied(snap) # Absent /\ Applied(snap).connected
      /\ \A k \in Keys : devices_'[k] = IF k = snap.key THEN Applied(snap) ELSE devices_[k]
  BY <1>2, <1>5, <1>6, AppliedIsADevice DEF IInv, TypeOK
<1>8. Done' = Done + 1
  BY <1>2, <1>3, <1>6 DEF Done
<1> HIDE DEF snap, report
<1>9. TypeOK'
  <2>1. any_change' \in BOOLEAN
    BY <1>6
  <2>2. devices_' \in [Keys -> Device \cup {Absent}]
    BY <1>5, <1>6, <1>7 DEF IInv, TypeOK
  <2> QED
    BY <1>2, <1>5, <1>6, <2>1, <2>2 DEF IInv, TypeOK
<1>10. OthersAreSettled'
  <2> SUFFICES ASSUME NEW k \in Keys, k[1] # busy PROVE SettledBy(devices_', last[k[1]], k)
    BY <1>1, <1>6 DEF OthersAreSettled, Unsettled
  <2>1. devices_'[k] = devices_[k]
    BY <1>5, <1>7
  <2> QED
    BY <2>1 DEF IInv, MapInv, OthersAreSettled, Unsettled, SettledBy, Shown
<1>11. RestIsTheEnd'
  <2>1. Len(rest') <= Len(report)
    BY <1>2, <1>3, <1>6
  <2>2. ASSUME NEW i \in 1..Len(rest') PROVE rest'[i] = report[Done + 1 + i]
    <3>1. i + 1 \in 1..Len(rest) /\ rest'[i] = rest[i + 1]
      BY <1>2, <1>6, <2>2
    <3>2. rest[i + 1] = report[Done + (i + 1)]
      BY <1>1, <3>1 DEF IInv, MapInv, RestIsTheEnd, report
    <3> QED
      BY <1>3, <3>1, <3>2
  <2> QED
    BY <1>6, <1>8, <2>1, <2>2 DEF RestIsTheEnd, report
<1>12. SeenIsShown'
  <2>1. ASSUME NEW k \in seen' PROVE Shown(devices_', report, Done + 1, k)
    <3>1. CASE k = snap.key
      <4>1. LastAt(report, Done + 1, k, Done + 1) /\ devices_'[k] = Applied(report[Done + 1])
        BY <1>3, <1>4, <1>5, <1>7, <3>1 DEF LastAt
      <4> QED
        BY <1>3, <4>1 DEF Shown
    <3>2. CASE k # snap.key
      <4>1. k \in seen /\ k \in Keys /\ devices_'[k] = devices_[k]
        BY <1>6, <1>7, <2>1, <3>2 DEF IInv, TypeOK
      <4>2. PICK i \in 1..Done : LastAt(report, Done, k, i) /\ devices_[k] = Applied(report[i])
        BY <1>1, <4>1 DEF IInv, MapInv, SeenIsShown, Shown, report
      <4>3. i \in 1..(Done + 1) /\ LastAt(report, Done + 1, k, i)
        BY <1>3, <1>4, <3>2, <4>2 DEF LastAt
      <4> QED
        BY <4>1, <4>2, <4>3 DEF Shown
    <3> QED
      BY <3>1, <3>2
  <2>2. ASSUME NEW i \in 1..(Done + 1) PROVE report[i].key \in seen'
    <3>1. CASE i = Done + 1
      BY <1>4, <1>6, <3>1
    <3>2. CASE i # Done + 1
      BY <1>1, <1>3, <1>6, <3>2 DEF IInv, MapInv, SeenIsShown, report
    <3> QED
      BY <3>1, <3>2
  <2> QED
    BY <1>6, <1>8, <2>1, <2>2 DEF SeenIsShown, report
<1>13. ReportsAreOfTheirBackend'
  BY <1>6 DEF ReportsAreOfTheirBackend, IInv, MapInv
<1>14. SilenceIsNoChange'
  <2>1. ASSUME ~any_change' PROVE devices_' = devices_
    BY <1>5, <1>6, <2>1 DEF IInv, TypeOK
  <2> QED
    BY <1>1, <1>6, <2>1 DEF IInv, SilenceIsNoChange
<1> QED
  BY <1>9, <1>10, <1>11, <1>12, <1>13, <1>14 DEF IInv, MapInv

LEMMA EndKeeps == ASSUME IInv, EndEvent PROVE IInv'
<1> DEFINE report == last[busy]
<1>1. /\ busy \in Backends /\ busy # Idle /\ report \in Seq(Snapshot) /\ rest = <<>>
      /\ busy' = Idle /\ rest' = rest /\ last' = last /\ seen' = {} /\ any_change' = FALSE
      /\ announced' = IF SweepChange THEN devices_' ELSE announced
      /\ \A k \in Keys : devices_'[k] = IF k \in Vanished THEN Disconnected(k) ELSE devices_[k]
  BY DEF EndEvent, IInv, TypeOK
<1>2. Done = Len(report)
  BY <1>1 DEF Done
<1>3. \A k \in Vanished : Disconnected(k) \in Device /\ ~Disconnected(k).connected
  BY DEF Vanished, Connected, Disconnected, Device, IInv, TypeOK
<1>4. TypeOK'
  <2>1. devices_' \in [Keys -> Device \cup {Absent}]
    BY <1>3 DEF EndEvent, IInv, TypeOK
  <2>2. announced' \in [Keys -> Device \cup {Absent}]
    BY <1>1, <2>1 DEF IInv, TypeOK
  <2> QED
    BY <1>1, <2>1, <2>2 DEF IInv, TypeOK
<1>5. OthersAreSettled'
  <2> SUFFICES ASSUME NEW k \in Keys PROVE SettledBy(devices_', last[k[1]], k)
    BY <1>1 DEF OthersAreSettled
  <2>1. CASE k[1] # busy
    <3>1. devices_'[k] = devices_[k]
      BY <1>1, <2>1 DEF Vanished
    <3> QED
      BY <2>1, <3>1 DEF IInv, MapInv, OthersAreSettled, Unsettled, SettledBy, Shown
  <2>2. CASE k[1] = busy /\ k \in seen
    <3>1. devices_'[k] = devices_[k]
      BY <1>1, <2>2 DEF Vanished
    <3>2. PICK i \in 1..Len(report) :
            LastAt(report, Len(report), k, i) /\ devices_[k] = Applied(report[i])
      BY <1>1, <1>2, <2>2 DEF IInv, MapInv, SeenIsShown, Shown
    <3>3. devices_'[k] # Absent /\ devices_'[k].connected
      BY <1>1, <3>1, <3>2, AppliedIsADevice
    <3> QED
      BY <2>2, <3>1, <3>2, <3>3 DEF SettledBy, Shown
  <2>3. CASE k[1] = busy /\ k \notin seen
    <3>1. ~(devices_'[k] # Absent /\ devices_'[k].connected)
      BY <1>1, <1>3, <2>3 DEF Vanished, Connected
    <3>2. ~InReport(report, k)
      BY <1>1, <1>2, <2>3 DEF InReport, IInv, MapInv, SeenIsShown
    <3> QED
      BY <2>3, <3>1, <3>2 DEF SettledBy
  <2> QED
    BY <2>1, <2>2, <2>3
<1>6. RestIsTheEnd' /\ SeenIsShown'
  BY <1>1 DEF RestIsTheEnd, SeenIsShown
<1>7. ReportsAreOfTheirBackend'
  BY <1>1 DEF ReportsAreOfTheirBackend, IInv, MapInv
<1>8. SilenceIsNoChange'
  <2>1. CASE SweepChange
    BY <1>1, <2>1 DEF SilenceIsNoChange
  <2>2. CASE ~SweepChange
    <3>1. devices_' = devices_ /\ ~any_change
      BY <2>2 DEF SweepChange, EndEvent, IInv, TypeOK
    <3> QED
      BY <1>1, <2>2, <3>1 DEF IInv, SilenceIsNoChange
  <2> QED
    BY <2>1, <2>2
<1> QED
  BY <1>4, <1>5, <1>6, <1>7, <1>8 DEF IInv, MapInv

LEMMA PruneKeeps == ASSUME IInv, PruneDisconnected PROVE IInv'
<1>1. /\ busy = Idle /\ busy' = busy /\ rest' = rest /\ seen' = seen
      /\ any_change' = any_change /\ last' = last
      /\ devices_' = Pruned(devices_) /\ announced' = Pruned(announced)
  BY DEF PruneDisconnected, eventVars
<1>2. announced = devices_
  BY <1>1 DEF IInv, SilenceIsNoChange
<1>3. devices_' \in [Keys -> Device \cup {Absent}]
  BY <1>1 DEF Pruned, IInv, TypeOK
<1>4. TypeOK'
  BY <1>1, <1>2, <1>3 DEF IInv, TypeOK
<1>5. OthersAreSettled'
  <2> SUFFICES ASSUME NEW k \in Keys PROVE SettledBy(devices_', last[k[1]], k)
    BY <1>1 DEF OthersAreSettled
  <2>1. SettledBy(devices_, last[k[1]], k)
    BY <1>1 DEF IInv, MapInv, OthersAreSettled, Unsettled
  <2>2. devices_'[k] = IF ~Connected(k) THEN Absent ELSE devices_[k]
    BY <1>1 DEF Pruned
  <2> QED
    BY <2>1, <2>2 DEF SettledBy, Shown, Connected
<1>6. RestIsTheEnd' /\ SeenIsShown' /\ SilenceIsNoChange'
  BY <1>1, <1>2 DEF RestIsTheEnd, SeenIsShown, SilenceIsNoChange
<1>7. ReportsAreOfTheirBackend'
  BY <1>1 DEF ReportsAreOfTheirBackend, IInv, MapInv
<1> QED
  BY <1>4, <1>5, <1>6, <1>7 DEF IInv, MapInv

LEMMA Inductive == ASSUME IInv, [Next]_vars PROVE IInv'
<1>1. ASSUME UNCHANGED vars PROVE IInv'
  BY <1>1
  DEF vars, eventVars, IInv, TypeOK, MapInv, OthersAreSettled, Unsettled, RestIsTheEnd,
      SeenIsShown, Done, ReportsAreOfTheirBackend, SilenceIsNoChange
<1> QED
  BY <1>1, BeginKeeps, ApplyKeeps, EndKeeps, PruneKeeps DEF Next

THEOREM Invariant == Spec => []IInv
<1>1. Init => IInv
  BY Initially
<1>2. IInv /\ [Next]_vars => IInv'
  BY Inductive
<1> QED
  BY <1>1, <1>2, PTL DEF Spec

--------------------------------------------------------------------------------
\* An event only ever touches keys of its own backend.
THEOREM TypeCorrect == Spec => []TypeOK
<1>1. IInv => TypeOK
  BY DEF IInv
<1> QED
  BY <1>1, Invariant, PTL

\* There is one last snapshot of a key, and it is the one Max picks.
LEMMA LastIsMax ==
  ASSUME NEW report \in Seq(Snapshot), NEW k, NEW i, LastAt(report, Len(report), k, i)
  PROVE  LastSnapshot(report, k) = report[i]
<1> DEFINE S == {j \in DOMAIN report : report[j].key = k}
<1>1. i \in S /\ S \subseteq Nat /\ \A j \in S : i >= j
  BY DEF LastAt
<1>2. \A x \in S : (\A j \in S : x >= j) => x = i
  BY <1>1
<1> HIDE DEF S
<1>3. Max(S) = i
  BY <1>1, <1>2 DEF Max
<1> QED
  BY <1>3 DEF LastSnapshot, S

\* Between events the connected devices of every backend are those of its last report
\* with the values of that report, also when it names a device twice
\* (audio_device_manager.hpp:86-101, 229-254).
THEOREM MapShowsTheLastReports == Spec => []ConnectedMatchesLastReport
<1>1. ASSUME IInv, busy = Idle, NEW k \in Keys
      PROVE  /\ Connected(k) <=> InReport(last[k[1]], k)
             /\ Connected(k) => devices_[k] = Applied(LastSnapshot(last[k[1]], k))
  <2>1. SettledBy(devices_, last[k[1]], k) /\ k[1] \in Backends
    BY <1>1 DEF IInv, MapInv, OthersAreSettled, Unsettled, Backends
  <2>2. last[k[1]] \in Seq(Snapshot)
    BY <1>1, <2>1 DEF IInv, TypeOK
  <2>3. ASSUME Connected(k)
        PROVE  /\ InReport(last[k[1]], k)
               /\ devices_[k] = Applied(LastSnapshot(last[k[1]], k))
    <3>1. PICK i \in 1..Len(last[k[1]]) :
            /\ LastAt(last[k[1]], Len(last[k[1]]), k, i)
            /\ devices_[k] = Applied(last[k[1]][i])
      BY <2>1, <2>3 DEF SettledBy, Shown, Connected
    <3>2. LastSnapshot(last[k[1]], k) = last[k[1]][i]
      BY <2>2, <3>1, LastIsMax
    <3> QED
      BY <2>2, <3>1, <3>2 DEF InReport, LastAt
  <2> QED
    BY <2>1, <2>3 DEF SettledBy, Connected
<1>2. IInv => ConnectedMatchesLastReport
  BY <1>1 DEF ConnectedMatchesLastReport
<1> QED
  BY <1>2, Invariant, PTL

\* Between events the subscribers have been told of everything a reader of the map can
\* see (audio_device_manager.hpp:246-256).
THEOREM EveryChangeIsAnnounced == Spec => []ChangesAreAnnounced
<1>1. IInv => ChangesAreAnnounced
  BY DEF IInv, SilenceIsNoChange, ChangesAreAnnounced
<1> QED
  BY <1>1, Invariant, PTL

--------------------------------------------------------------------------------
(* What counts as a change *)

\* While an event is applied only the keys that were seen can differ from what the
\* subscribers know, and one does if any_change is set; when the report names a device
\* twice, it may have been changed back since.
ChangesAreSeen ==
  busy # Idle =>
    /\ \A k \in Keys \ seen : devices_[k] = announced[k]
    /\ any_change => NamedTwice(last[busy]) \/ \E k \in seen : devices_[k] # announced[k]

\* A snapshot of a key that was seen is the second one of that key.
LEMMA SeenTwice ==
  ASSUME IInv, ApplySnapshot, Head(rest).key \in seen
  PROVE  NamedTwice(last[busy])
<1> DEFINE report == last[busy]
<1>1. /\ busy # Idle /\ report \in Seq(Snapshot) /\ rest \in Seq(Snapshot) /\ rest # <<>>
  BY DEF ApplySnapshot, IInv, TypeOK
<1>2. Head(rest) = rest[1] /\ Len(rest) \in Nat \ {0}
  BY <1>1, HeadAndTail
<1>3. Done \in Nat /\ Done + 1 \in 1..Len(report) /\ Head(rest) = report[Done + 1]
  BY <1>1, <1>2 DEF IInv, MapInv, RestIsTheEnd, Done
<1>4. PICK i \in 1..Done : report[i].key = Head(rest).key
  BY <1>1 DEF IInv, MapInv, SeenIsShown, Shown, LastAt
<1>5. i \in DOMAIN report /\ Done + 1 \in DOMAIN report /\ i # Done + 1
  BY <1>1, <1>3
<1> QED
  BY <1>3, <1>4, <1>5 DEF NamedTwice

LEMMA ApplyIsSeen == ASSUME IInv, ChangesAreSeen, ApplySnapshot PROVE ChangesAreSeen'
<1> DEFINE snap == Head(rest)
<1>1. /\ busy # Idle /\ busy' = busy /\ last' = last /\ announced' = announced
      /\ seen' = seen \cup {snap.key} /\ seen \subseteq Keys
      /\ any_change' = (any_change \/ devices_[snap.key] # Applied(snap))
      /\ devices_' = [devices_ EXCEPT ![snap.key] = Applied(snap)]
  BY DEF ApplySnapshot, AnyChange, IInv, TypeOK
<1>2. rest \in Seq(Snapshot) /\ rest # <<>>
  BY DEF ApplySnapshot, IInv, TypeOK
<1>3. snap.key \in Keys
  <2>1. snap \in Snapshot
    BY <1>2, HeadAndTail
  <2> QED
    BY <2>1 DEF Snapshot
<1>4. \A k \in Keys : devices_'[k] = IF k = snap.key THEN Applied(snap) ELSE devices_[k]
  BY <1>1, <1>3 DEF IInv, TypeOK
<1>5. snap.key \in seen => NamedTwice(last[busy])
  BY SeenTwice
<1> HIDE DEF snap
<1>6. \A k \in Keys \ seen' : devices_'[k] = announced'[k]
  BY <1>1, <1>4 DEF ChangesAreSeen
<1>7. ASSUME any_change', ~NamedTwice(last[busy])
      PROVE  \E k \in seen' : devices_'[k] # announced'[k]
  <2>1. CASE any_change
    <3>1. PICK k \in seen : devices_[k] # announced[k]
      BY <1>1, <1>7, <2>1 DEF ChangesAreSeen
    <3> QED
      BY <1>1, <1>4, <1>5, <1>7, <3>1
  <2>2. CASE devices_[snap.key] # Applied(snap)
    <3>1. devices_[snap.key] = announced[snap.key]
      BY <1>1, <1>3, <1>5, <1>7 DEF ChangesAreSeen
    <3> QED
      BY <1>1, <1>3, <1>4, <2>2, <3>1
  <2> QED
    BY <1>1, <1>7, <2>1, <2>2
<1> QED
  BY <1>1, <1>6, <1>7 DEF ChangesAreSeen

LEMMA SeenInductive == ASSUME IInv, ChangesAreSeen, [Next]_vars PROVE ChangesAreSeen'
<1>1. CASE UNCHANGED vars
  BY <1>1 DEF vars, eventVars, ChangesAreSeen
<1>2. ASSUME NEW b \in Backends, NEW report \in Reports(b), BeginEvent(b, report)
      PROVE  ChangesAreSeen'
  BY <1>2 DEF BeginEvent, ChangesAreSeen, IInv, SilenceIsNoChange
<1>3. CASE EndEvent
  BY <1>3 DEF EndEvent, ChangesAreSeen
<1>4. CASE PruneDisconnected
  BY <1>4 DEF PruneDisconnected, eventVars, ChangesAreSeen
<1> QED
  BY <1>1, <1>2, <1>3, <1>4, ApplyIsSeen DEF Next

\* An event that ends with a change leaves the map different from what the
\* subscribers know.
LEMMA EndShowsAChange ==
  ASSUME IInv, ChangesAreSeen, EndEvent, SweepChange, ~NamedTwice(last[busy])
  PROVE  devices_' # announced
<1>1. /\ busy # Idle /\ seen \subseteq Keys
      /\ \A k \in Keys : devices_'[k] = IF k \in Vanished THEN Disconnected(k) ELSE devices_[k]
  BY DEF EndEvent, IInv, TypeOK
<1>2. CASE any_change
  <2>1. PICK k \in seen : devices_[k] # announced[k]
    BY <1>1, <1>2 DEF ChangesAreSeen
  <2>2. k \in Keys /\ k \notin Vanished
    BY <1>1 DEF Vanished
  <2> QED
    BY <1>1, <2>1, <2>2
<1>3. CASE Vanished # {}
  <2>1. PICK k \in Vanished : TRUE
    BY <1>3
  <2>2. k \in Keys \ seen /\ devices_[k].connected /\ ~Disconnected(k).connected
    BY <2>1 DEF Vanished, Connected, Disconnected
  <2> QED
    BY <1>1, <2>1, <2>2 DEF ChangesAreSeen
<1> QED
  BY <1>2, <1>3 DEF SweepChange

\* A report that changes nothing is not announced, for any devices and lengths of
\* reports, unless it names a device twice ("dedup-no-notify-on-noop", DESIGN.md:744;
\* audio_device_manager.hpp:86-101, 229-256).
THEOREM NothingNewIsSilent == Spec => NoopIsSilent
<1>1. Init => ChangesAreSeen
  BY DEF Init, ChangesAreSeen
<1>2. IInv /\ ChangesAreSeen /\ [Next]_vars => ChangesAreSeen'
  BY SeenInductive
<1>3. IInv /\ ChangesAreSeen /\ [Next]_vars =>
        [busy # Idle /\ rest = <<>> /\ SweepChange =>
           devices_' # announced \/ NamedTwice(last[busy])]_vars
  <2> SUFFICES ASSUME IInv, ChangesAreSeen, Next, busy # Idle, rest = <<>>, SweepChange,
                      ~NamedTwice(last[busy])
               PROVE  devices_' # announced
    OBVIOUS
  <2>1. EndEvent
    BY DEF Next, BeginEvent, ApplySnapshot, PruneDisconnected
  <2> QED
    BY <2>1, EndShowsAChange
<1> QED
  BY <1>1, <1>2, <1>3, Invariant, PTL DEF Spec, NoopIsSilent

--------------------------------------------------------------------------------
(* The map as its subscribers know it *)

\* When an event ends the map is the one its subscribers knew, merged with the report.
LEMMA EndMerges ==
  ASSUME IInv, ChangesAreSeen, EndEvent, IInv'
  PROVE  \E b \in Backends : View!Report(b)
<1> DEFINE report == last[busy]
           named  == {k \in Keys : InReport(report, k)}
           new    == [k \in named |-> [is_default |-> LastSnapshot(report, k).is_default,
                                       level |-> LastSnapshot(report, k).level]]
<1>1. /\ busy \in Backends /\ busy # Idle /\ report \in Seq(Snapshot) /\ rest = <<>>
      /\ Done = Len(report)
      /\ \A k \in Keys : devices_'[k] = IF k \in Vanished THEN Disconnected(k) ELSE devices_[k]
  BY DEF EndEvent, IInv, TypeOK, Done
<1>2. announced' = devices_'
  BY DEF EndEvent, IInv, SilenceIsNoChange
<1>3. \A k \in Keys : announced[k] \in Device \cup {Absent} /\ devices_[k] \in Device \cup {Absent}
  BY DEF IInv, TypeOK
<1>4. ASSUME NEW k \in named
      PROVE  /\ k \in seen /\ k[1] = busy
             /\ LastSnapshot(report, k) \in Snapshot
             /\ devices_[k] = Applied(LastSnapshot(report, k))
  <2>1. PICK j \in 1..Len(report) : report[j].key = k
    BY <1>1, <1>4 DEF InReport
  <2>2. k \in seen /\ k[1] = busy
    BY <1>1, <2>1 DEF IInv, MapInv, SeenIsShown, ReportsAreOfTheirBackend
  <2>3. PICK i \in 1..Len(report) :
          LastAt(report, Len(report), k, i) /\ devices_[k] = Applied(report[i])
    BY <1>1, <2>2 DEF IInv, MapInv, SeenIsShown, Shown
  <2>4. LastSnapshot(report, k) = report[i]
    BY <1>1, <2>3, LastIsMax
  <2> QED
    BY <1>1, <2>2, <2>3, <2>4
<1>5. ASSUME NEW k \in Keys, k \notin named PROVE devices_[k] = announced[k] /\ k \notin seen
  <2>1. k \notin seen
    BY <1>1, <1>5 DEF IInv, MapInv, SeenIsShown, Shown, LastAt, InReport
  <2> QED
    BY <1>1, <2>1 DEF ChangesAreSeen
<1>6. named \in SUBSET View!KeysOf(busy)
  BY <1>4 DEF View!KeysOf
<1>7. new \in [named -> [is_default : BOOLEAN, level : Levels]]
  BY <1>4 DEF Snapshot
<1>8. ASSUME NEW k \in Keys PROVE devices_'[k] = View!Merged(busy, new)[k]
  <2>1. CASE k \in named
    <3>1. k \notin Vanished
      BY <1>4, <2>1 DEF Vanished
    <3> QED
      BY <1>1, <1>4, <2>1, <3>1 DEF View!Merged, Applied
  <2>2. CASE k \notin named /\ k[1] = busy /\ announced[k] # Absent
    <3>1. announced[k] \in Device /\ devices_[k] = announced[k] /\ k \notin seen
      BY <1>3, <1>5, <2>2
    <3>2. devices_'[k] = [connected |-> FALSE, is_default |-> announced[k].is_default,
                          level |-> announced[k].level]
      <4>1. CASE announced[k].connected
        BY <1>1, <2>2, <3>1, <4>1 DEF Vanished, Connected, Disconnected
      <4>2. CASE ~announced[k].connected
        <5>1. k \notin Vanished
          BY <3>1, <4>2 DEF Vanished, Connected
        <5> QED
          BY <1>1, <3>1, <4>2, <5>1 DEF Device
      <4> QED
        BY <4>1, <4>2
    <3> QED
      BY <2>2, <3>2 DEF View!Merged, View!KeysOf
  <2>3. CASE k \notin named /\ (k[1] # busy \/ announced[k] = Absent)
    <3>1. devices_[k] = announced[k] /\ k \notin Vanished
      BY <1>5, <2>3 DEF Vanished, Connected
    <3> QED
      BY <1>1, <2>3, <3>1 DEF View!Merged, View!KeysOf
  <2> QED
    BY <2>1, <2>2, <2>3
<1> HIDE DEF new, named
<1>9. announced' = View!Merged(busy, new)
  <2>1. devices_' = [k \in Keys |-> devices_'[k]]
    BY DEF IInv, TypeOK
  <2>2. View!Merged(busy, new) = [k \in Keys |-> View!Merged(busy, new)[k]]
    BY DEF View!Merged
  <2> QED
    BY <1>2, <1>8, <2>1, <2>2
<1> QED
  BY <1>1, <1>6, <1>7, <1>9 DEF View!Report

LEMMA PrunePrunes == ASSUME IInv, PruneDisconnected PROVE View!Prune
<1>1. announced = devices_
  BY DEF IInv, SilenceIsNoChange, PruneDisconnected
<1> QED
  BY <1>1 DEF PruneDisconnected, Pruned, Connected, View!Prune

\* What subscribers are told of is, for any devices, levels and lengths of reports,
\* always the map after whole reports, and no device but a pruned one is forgotten
\* (DESIGN.md:362; audio_device_manager.hpp:86-101, 229-256).
THEOREM MapImplementsView == Spec => ImplementsDeviceView
<1>1. Init => View!Init
  BY DEF Init, View!Init
<1>2. Init => ChangesAreSeen
  BY DEF Init, ChangesAreSeen
<1>3. IInv /\ ChangesAreSeen /\ [Next]_vars => ChangesAreSeen'
  BY SeenInductive
<1>4. IInv /\ IInv' /\ ChangesAreSeen /\ [Next]_vars => [View!Next]_announced
  <2> SUFFICES ASSUME IInv, IInv', ChangesAreSeen, [Next]_vars
               PROVE  View!Next \/ announced' = announced
    OBVIOUS
  <2>1. CASE EndEvent
    BY <2>1, EndMerges DEF View!Next, Backends
  <2>2. CASE PruneDisconnected
    BY <2>2, PrunePrunes DEF View!Next
  <2>3. CASE ApplySnapshot \/ UNCHANGED vars
    BY <2>3 DEF ApplySnapshot, vars
  <2>4. ASSUME NEW b \in Backends, NEW r \in Reports(b), BeginEvent(b, r)
        PROVE  announced' = announced
    BY <2>4 DEF BeginEvent
  <2> QED
    BY <2>1, <2>2, <2>3, <2>4 DEF Next
<1> QED
  BY <1>1, <1>2, <1>3, <1>4, Invariant, PTL DEF Spec, ImplementsDeviceView, View!Spec
================================================================================
