--------------------------- MODULE AlsaBackendProofs ---------------------------
(***************************************************************************)
(* What TLAPS proves of AlsaBackend, for any cards, elements, PCM devices  *)
(* and levels, and whatever the hardware and other processes do between    *)
(* two calls: the types, that the devices one can address are those of the *)
(* last report, that the status of a command is true, and that a refresh   *)
(* which no change disturbs reports what is there.                         *)
(*                                                                         *)
(* The strengthening follows the cache through the refresh, which is       *)
(* ahead of the report between SwapCache and PushUpdateEvent alone, and    *)
(* the result through the elements a command has still to be passed.       *)
(***************************************************************************)
EXTENDS AlsaBackend, TLAPS

\* What a handler has at hand.
HandlerInv ==
  /\ worker \in {"open", "write"} => command \in Command /\ card \in Slots
  /\ worker \in {"mixer", "pcms"} => card \in Slots /\ ctl \in Cards

\* The cache holds the devices of the last report, or of the one about to be pushed.
CacheInv ==
  IF worker = "push" THEN device_cache_ = IdsOf(snapshots)
                     ELSE report # None => device_cache_ = IdsOf(report)

\* The status so far is true of the elements so far.
StatusInv ==
  /\ worker # "write" => written = {} /\ ~refused
  /\ worker = "write" => IF command.kind = "mute" THEN result = "Ok" => written # {}
                                                  ELSE refused => result = "BackendError"

IInv == TypeOK /\ HandlerInv /\ CacheInv /\ StatusInv

LEMMA Initially == ASSUME Init PROVE IInv
<1>1. \A v \in Levels : [ch \in Channels |-> v] \in [Channels -> Levels]
  OBVIOUS
<1>2. plugged \in [Slots -> Cards \cup {None}] /\ volume \in [Channels -> Levels]
  BY <1>1 DEF Init, Pluggings
<1>3. 0 \in 0..MaxChanges /\ 0 \in 0..MaxCommands
  BY BoundsAssumption
<1>4. TypeOK
  BY <1>2, <1>3 DEF Init, TypeOK
<1> QED
  BY <1>4 DEF Init, IInv, HandlerInv, CacheInv, StatusInv

\* What a command is.
LEMMA CommandHas ==
  ASSUME NEW c \in Command
  PROVE  /\ c.id \in Ids /\ c.kind \in {"volume", "mute"}
         /\ c.kind = "volume" => c.volume \in Levels
         /\ c.kind = "mute" => c.mute \in BOOLEAN
<1>1. CASE c \in [kind : {"volume"}, id : Ids, volume : Levels]
  BY <1>1
<1>2. CASE c \in [kind : {"mute"}, id : Ids, mute : BOOLEAN]
  BY <1>2
<1> QED
  BY <1>1, <1>2 DEF Command

LEMMA SlotOfId == ASSUME NEW id \in Ids PROVE id[1] \in Slots
BY DEF Ids

\* What is emitted is a snapshot.
LEMMA EmitsSnapshots ==
  ASSUME TypeOK, card \in Slots
  PROVE  /\ \A ch \in Channels : EmitSnapshot(ch) \in Snapshot
         /\ \A p \in Pcms : PcmSnapshot(p) \in Snapshot
<1>1. ASSUME NEW ch \in Channels PROVE EmitSnapshot(ch) \in Snapshot
  <2>1. ch.name \in Names /\ ch.direction \in Directions
    BY ChannelsAssumption DEF Names
  <2>2. Id(card, ch) \in Ids
    BY <2>1 DEF Id, Ids
  <2> QED
    BY <2>2 DEF EmitSnapshot, Snapshot, TypeOK
<1>2. ASSUME NEW p \in Pcms PROVE PcmSnapshot(p) \in Snapshot
  <2>1. p.number \in Numbers /\ p.direction \in Directions
    BY PcmsAssumption DEF Numbers
  <2>2. <<card, p.number, p.direction>> \in Ids
    BY <2>1 DEF Ids
  <2> QED
    BY <2>2, LevelsAssumption DEF PcmSnapshot, Snapshot
<1> QED
  BY <1>1, <1>2

LEMMA HardwareKeeps == ASSUME IInv, HardwareChanges PROVE IInv'
<1>1. plugged' \in [Slots -> Cards \cup {None}]
  BY DEF IInv, TypeOK, HardwareChanges, CardsChange, Pluggings
<1>2. busy' \subseteq Cards
  BY DEF IInv, TypeOK, HardwareChanges, CardsChange, SymDiff
<1>3. volume' \in [Channels -> Levels]
  BY DEF IInv, TypeOK, HardwareChanges, CardsChange
<1>4. muted' \subseteq {ch \in Channels : ch.switch}
  BY DEF IInv, TypeOK, HardwareChanges, CardsChange, SymDiff
<1>5. changes' \in 0..MaxChanges
  BY BoundsAssumption DEF IInv, TypeOK, HardwareChanges
<1>6. UNCHANGED <<commands, worker, card, scanVars, device_cache_, report, commandVars, result>>
  BY DEF HardwareChanges
<1>7. TypeOK'
  BY <1>1, <1>2, <1>3, <1>4, <1>5, <1>6 DEF IInv, TypeOK, scanVars, commandVars
<1> QED
  BY <1>6, <1>7 DEF IInv, HandlerInv, CacheInv, StatusInv, scanVars, commandVars

LEMMA ScanKeeps == ASSUME IInv, HandleRefresh \/ Scan PROVE IInv'
<1> USE DEF IInv, hardware, scanVars, commandVars
<1>1. CASE HandleRefresh
  BY <1>1 DEF HandleRefresh, TypeOK, HandlerInv, CacheInv, StatusInv
<1>2. CASE NextCard
  <2>1. ASSUME NEW s \in Further PROVE s \in Slots /\ plugged[s] \in Cards
    BY <2>1 DEF Further, TypeOK
  <2>2. /\ card' \in Slots \cup {-1} /\ ctl' \in Cards \cup {None}
        /\ worker' \in {"mixer", "swap"}
        /\ worker' = "mixer" => card' \in Slots /\ ctl' \in Cards
    BY <1>2, <2>1 DEF NextCard
  <2> QED
    BY <1>2, <2>2 DEF NextCard, TypeOK, HandlerInv, CacheInv, StatusInv
<1>3. CASE ReadMixer
  <2>1. \A ch \in Channels : EmitSnapshot(ch) \in Snapshot
    BY <1>3, EmitsSnapshots DEF ReadMixer, HandlerInv
  <2>2. snapshots' \subseteq Snapshot /\ found' \subseteq Directions
    BY <1>3, <2>1, ChannelsAssumption DEF ReadMixer, ChannelsOf, TypeOK
  <2> QED
    BY <1>3, <2>2 DEF ReadMixer, TypeOK, HandlerInv, CacheInv, StatusInv
<1>4. CASE EmitPcmDevices
  <2>1. \A p \in Pcms : PcmSnapshot(p) \in Snapshot
    BY <1>4, EmitsSnapshots DEF EmitPcmDevices, HandlerInv
  <2>2. snapshots' \subseteq Snapshot
    BY <1>4, <2>1 DEF EmitPcmDevices, PcmsOf, TypeOK
  <2> QED
    BY <1>4, <2>2 DEF EmitPcmDevices, TypeOK, HandlerInv, CacheInv, StatusInv
<1>5. CASE SwapCache
  <2>1. IdsOf(snapshots) \subseteq Ids
    BY DEF IdsOf, TypeOK, Snapshot
  <2> QED
    BY <1>5, <2>1 DEF SwapCache, NewCache, TypeOK, HandlerInv, CacheInv, StatusInv, IdsOf
<1>6. CASE PushUpdateEvent
  BY <1>6 DEF PushUpdateEvent, TypeOK, HandlerInv, CacheInv, StatusInv
<1> QED
  BY <1>1, <1>2, <1>3, <1>4, <1>5, <1>6 DEF Scan

LEMMA LookupKeeps == ASSUME IInv, NEW c \in Command, Lookup(c) PROVE IInv'
<1> USE DEF IInv, hardware, scanVars, commandVars
<1>1. c.id[1] \in Slots
  BY CommandHas, SlotOfId
<1>2. commands' \in 0..MaxCommands
  BY BoundsAssumption DEF Lookup, TypeOK
<1>3. TypeOK'
  BY <1>1, <1>2 DEF Lookup, TypeOK
<1> QED
  BY <1>1, <1>3 DEF Lookup, HandlerInv, CacheInv, StatusInv

LEMMA OpenKeeps == ASSUME IInv, OpenMixer PROVE IInv'
<1> USE DEF IInv, hardware, scanVars, commandVars
<1>1. CASE MixerOpens(card)
  <2>1. ctl' \in Cards
    BY <1>1 DEF OpenMixer, MixerOpens, HandlerInv, TypeOK
  <2>2. todo' \subseteq Channels
    BY <1>1 DEF OpenMixer, ChannelsOf
  <2>3. result' \in {"Ok", "Unsupported"} /\ (command.kind = "mute" => result' = "Unsupported")
    BY <1>1 DEF OpenMixer, InitialResult
  <2> QED
    BY <1>1, <2>1, <2>2, <2>3 DEF OpenMixer, TypeOK, HandlerInv, CacheInv, StatusInv
<1>2. CASE ~MixerOpens(card)
  BY <1>2 DEF OpenMixer, TypeOK, HandlerInv, CacheInv, StatusInv
<1> QED
  BY <1>1, <1>2

LEMMA WriteKeeps == ASSUME IInv, Write PROVE IInv'
<1> USE DEF IInv, hardware, scanVars, commandVars
<1>1. command \in Command /\ worker = "write"
  BY DEF Write, HandlerInv
<1>2. PICK ch \in todo :
        /\ todo' = todo \ {ch}
        /\ \/ /\ PassesOver(ch)
              /\ UNCHANGED <<volume, muted, written, refused, result>>
           \/ /\ ~PassesOver(ch)
              /\ IF command.kind = "mute"
                   THEN muted' = (IF command.mute THEN muted \cup {ch} ELSE muted \ {ch})
                        /\ UNCHANGED volume
                   ELSE volume' = [volume EXCEPT ![ch] = command.volume] /\ UNCHANGED muted
              /\ written' = written \cup {ch}
              /\ result' = ResultOfSuccess
              /\ UNCHANGED refused
           \/ /\ ~PassesOver(ch)
              /\ refused' = TRUE
              /\ result' = "BackendError"
              /\ UNCHANGED <<volume, muted, written>>
  BY DEF Write
<1>3. ch \in Channels
  BY DEF TypeOK
<1>4. volume' \in [Channels -> Levels]
  BY <1>1, <1>2, <1>3, CommandHas DEF TypeOK
<1>5. muted' \subseteq {c \in Channels : c.switch}
  BY <1>1, <1>2, <1>3 DEF TypeOK, PassesOver
<1>6. TypeOK'
  BY <1>2, <1>3, <1>4, <1>5 DEF Write, TypeOK, ResultOfSuccess
<1>7. StatusInv'
  BY <1>1, <1>2 DEF Write, StatusInv, ResultOfSuccess
<1> QED
  BY <1>6, <1>7 DEF Write, HandlerInv, CacheInv

LEMMA Inductive == ASSUME IInv, [Next]_vars PROVE IInv'
<1> USE DEF IInv, hardware, scanVars, commandVars
<1>1. CASE UNCHANGED vars
  BY <1>1 DEF vars, TypeOK, HandlerInv, CacheInv, StatusInv
<1>2. CASE CommandReturns
  BY <1>2 DEF CommandReturns, TypeOK, HandlerInv, CacheInv, StatusInv
<1>3. CASE SetDefault
  <2>1. commands' \in 0..MaxCommands
    BY <1>3, BoundsAssumption DEF SetDefault, TypeOK
  <2> QED
    BY <1>3, <2>1 DEF SetDefault, TypeOK, HandlerInv, CacheInv, StatusInv
<1> QED
  BY <1>1, <1>2, <1>3, HardwareKeeps, ScanKeeps, LookupKeeps, OpenKeeps, WriteKeeps
  DEF Next, Handler

THEOREM Invariant == Spec => []IInv
<1>1. Init => IInv
  BY Initially
<1>2. IInv /\ [Next]_vars => IInv'
  BY Inductive
<1> QED
  BY <1>1, <1>2, PTL DEF Spec

\* Every report, cache and command has its type, and only elements that have a
\* switch are muted, whatever cards change numbers in the meantime.
THEOREM TypeCorrect == Spec => []TypeOK
<1>1. IInv => TypeOK
  BY DEF IInv
<1> QED
  BY <1>1, Invariant, PTL

\* Between handlers a device can be addressed if and only if the last report lists
\* it, for any cards (alsa_backend.hpp:179-183).
THEOREM ReportedOnesAreKnown == Spec => []ReportedDevicesAreKnown
<1>1. IInv => ReportedDevicesAreKnown
  BY DEF IInv, CacheInv, ReportedDevicesAreKnown
<1> QED
  BY <1>1, Invariant, PTL

\* The status of a command is true for any number of elements that share the name of
\* the device, in any order and with any of them failing (alsa_backend.hpp:289-297,
\* 312-325).
THEOREM CommandsReportTheTruth == Spec => []StatusIsTrue
<1>1. IInv => StatusIsTrue
  BY DEF IInv, StatusInv, StatusIsTrue
<1> QED
  BY <1>1, Invariant, PTL

--------------------------------------------------------------------------------
(***************************************************************************)
(* The report of a refresh that nothing disturbs: the safety half of       *)
(* ReportsCatchUp.  While no card and no level changes between the first   *)
(* call of a refresh and its push, what it has collected is what the cards *)
(* up to the one in hand are: the cards are visited in the order of their  *)
(* numbers, none is left out and none is visited twice.                    *)
(***************************************************************************)
Plugged == {s \in Slots : plugged[s] # None}
Shown(S) == UNION {Present(s, dir) : s \in S, dir \in Directions}
Refreshing == worker \in {"scan", "mixer", "pcms", "swap", "push"}

Elems == {ch \in ChannelsOf(plugged[card]) : MixerOpens(card)}
OfMixer == {EmitSnapshot(ch) : ch \in Elems}

\* Nothing is left of the last refresh when the next one begins.
FreshInv ==
  /\ ~Refreshing => snapshots = {}
  /\ worker \in {"idle", "swap", "push"} => card = -1

ScanIsTrue ==
  /\ worker = "scan" => snapshots = Shown({s \in Plugged : s <= card})
  /\ worker \in {"mixer", "pcms"} => card \in Plugged /\ ctl = plugged[card]
  /\ worker = "mixer" => snapshots = Shown({s \in Plugged : s < card})
  /\ worker = "pcms" => /\ snapshots = Shown({s \in Plugged : s < card}) \cup OfMixer
                        /\ found = {ch.direction : ch \in Elems}
  /\ worker \in {"swap", "push"} => snapshots = Shown(Plugged)

\* The hardware and other processes keep still while a refresh runs.
Undisturbed == changes' # changes => ~Refreshing

LEMMA PresentStays ==
  ASSUME UNCHANGED hardware, NEW s, NEW dir PROVE Present(s, dir)' = Present(s, dir)
BY DEF hardware, Present, MixerOpens

LEMMA ShownStays == ASSUME UNCHANGED hardware, NEW S PROVE Shown(S)' = Shown(S)
BY PresentStays DEF Shown

\* What the mixer and the PCM devices of a card add is what is present of it.
LEMMA OneCard ==
  ASSUME NEW dirs, dirs = {ch.direction : ch \in Elems}
  PROVE  OfMixer \cup {PcmSnapshot(p) : p \in {q \in PcmsOf(plugged[card]) : q.direction \notin dirs}}
           = UNION {Present(card, dir) : dir \in Directions}
<1>1. ASSUME NEW ch \in Elems
      PROVE  ch.direction \in Directions /\ EmitSnapshot(ch) \in Present(card, ch.direction)
  <2>1. ch \in Channels /\ MixerOpens(card)
    BY DEF Elems, ChannelsOf
  <2> QED
    BY <2>1, ChannelsAssumption DEF Elems, EmitSnapshot, Present, ChannelsOf
<1>2. ASSUME NEW p \in PcmsOf(plugged[card]), p.direction \notin dirs
      PROVE  p.direction \in Directions /\ PcmSnapshot(p) \in Present(card, p.direction)
  <2>1. {ch \in ChannelsOf(plugged[card]) : ch.direction = p.direction} = {} \/ ~MixerOpens(card)
    BY <1>2 DEF Elems
  <2>2. Present(card, p.direction) =
          {[id |-> <<card, q.number, p.direction>>, volume |-> FullLevel, muted |-> FALSE] :
             q \in {q \in PcmsOf(plugged[card]) : q.direction = p.direction}}
    BY <2>1 DEF Present
  <2> QED
    BY <2>2, PcmsAssumption DEF PcmSnapshot, PcmsOf
<1>3. ASSUME NEW dir \in Directions, NEW x \in Present(card, dir)
      PROVE  \/ \E ch \in Elems : x = EmitSnapshot(ch)
             \/ \E p \in PcmsOf(plugged[card]) : p.direction \notin dirs /\ x = PcmSnapshot(p)
  <2>1. CASE MixerOpens(card) /\ {ch \in ChannelsOf(plugged[card]) : ch.direction = dir} # {}
    BY <2>1 DEF Present, Elems, EmitSnapshot
  <2>2. CASE ~(MixerOpens(card) /\ {ch \in ChannelsOf(plugged[card]) : ch.direction = dir} # {})
    <3>1. dir \notin dirs
      BY <2>2 DEF Elems
    <3>2. PICK p \in PcmsOf(plugged[card]) :
            /\ p.direction = dir
            /\ x = [id |-> <<card, p.number, dir>>, volume |-> FullLevel, muted |-> FALSE]
      BY <2>2 DEF Present
    <3> QED
      BY <3>1, <3>2 DEF PcmSnapshot
  <2> QED
    BY <2>1, <2>2
<1> QED
  BY <1>1, <1>2, <1>3 DEF OfMixer

\* One card more.
LEMMA ShownGrows ==
  ASSUME NEW S, NEW s
  PROVE  Shown(S \cup {s}) = Shown(S) \cup UNION {Present(s, dir) : dir \in Directions}
BY DEF Shown

LEMMA NextCardIsTrue ==
  ASSUME IInv, ScanIsTrue, NextCard, UNCHANGED hardware PROVE ScanIsTrue'
<1>1. card \in Slots \cup {-1} /\ Slots \subseteq Nat
  BY SlotsAssumption DEF IInv, TypeOK
<1>2. /\ snapshots' = snapshots /\ plugged' = plugged
      /\ snapshots = Shown({s \in Plugged : s <= card})
  BY DEF NextCard, ScanIsTrue, hardware
<1>3. ASSUME NEW s \in Further, \A t \in Further : s <= t, card' = s, ctl' = plugged[s],
             worker' = "mixer"
      PROVE  ScanIsTrue'
  <2>1. s \in Plugged /\ s > card
    BY DEF Further, Plugged
  <2>2. {t \in Plugged : t <= card} = {t \in Plugged : t < s}
    <3>1. s \in Nat /\ card \in Int
      BY <1>1, <2>1 DEF Plugged
    <3>2. ASSUME NEW t \in Plugged PROVE t <= card <=> t < s
      <4>1. t \in Nat /\ (t > card => s <= t)
        BY <1>1, <1>3 DEF Further, Plugged
      <4> QED
        BY <2>1, <3>1, <4>1
    <3> QED
      BY <3>2
  <2>3. PICK S : S = {t \in Plugged : t < s}
    OBVIOUS
  <2>4. S = {t \in Plugged : t < card}'
    BY <1>2, <1>3, <2>3 DEF Plugged
  <2>5. snapshots' = Shown(S)'
    BY <1>2, <2>2, <2>3, ShownStays
  <2>6. s \in Plugged'
    BY <1>2, <2>1 DEF Plugged
  <2> QED
    BY <1>2, <1>3, <2>4, <2>5, <2>6 DEF ScanIsTrue
<1>4. CASE Further = {} /\ worker' = "swap"
  <2>1. {t \in Plugged : t <= card} = Plugged
    <3>1. ASSUME NEW t \in Plugged PROVE t <= card
      <4>1. t \in Nat /\ ~(t > card) /\ card \in Int
        BY <1>1, <1>4 DEF Further, Plugged
      <4> QED
        BY <4>1
    <3> QED
      BY <3>1
  <2>2. PICK S : S = Plugged
    OBVIOUS
  <2>3. S = Plugged'
    BY <1>2, <2>2 DEF Plugged
  <2>4. snapshots' = Shown(S)'
    BY <1>2, <2>1, <2>2, ShownStays
  <2> QED
    BY <1>4, <2>3, <2>4 DEF ScanIsTrue
<1> QED
  BY <1>3, <1>4 DEF NextCard

LEMMA ReadMixerIsTrue ==
  ASSUME IInv, ScanIsTrue, ReadMixer, UNCHANGED hardware PROVE ScanIsTrue'
<1>1. PICK S : S = {s \in Plugged : s < card}
  OBVIOUS
<1>2. S = {s \in Plugged : s < card}'
  BY <1>1 DEF Plugged, ReadMixer, hardware
<1>3. snapshots = Shown(S)'
  BY <1>1, ShownStays DEF ReadMixer, ScanIsTrue
<1>4. (IF MixerOpens(card) THEN ChannelsOf(plugged[card]) ELSE {}) = Elems
  BY DEF Elems
<1>5. snapshots' = snapshots \cup OfMixer /\ found' = {ch.direction : ch \in Elems}
  BY <1>4 DEF ReadMixer, OfMixer
<1>6. OfMixer' = OfMixer /\ Elems' = Elems
  BY DEF ReadMixer, hardware, OfMixer, Elems, EmitSnapshot, MixerOpens
<1>7. card' \in Plugged' /\ ctl' = plugged'[card']
  BY DEF ReadMixer, hardware, Plugged, ScanIsTrue
<1>8. snapshots' = Shown({s \in Plugged : s < card})' \cup OfMixer'
  BY <1>2, <1>3, <1>5, <1>6
<1>9. found' = {ch.direction : ch \in Elems'}
  BY <1>5, <1>6
<1> QED
  BY <1>7, <1>8, <1>9 DEF ReadMixer, ScanIsTrue

LEMMA EmitIsTrue ==
  ASSUME IInv, ScanIsTrue, EmitPcmDevices, UNCHANGED hardware PROVE ScanIsTrue'
<1>1. card \in Plugged /\ plugged[card] = ctl /\ found = {ch.direction : ch \in Elems}
  BY DEF EmitPcmDevices, ScanIsTrue
<1>2. snapshots' = snapshots \cup
        {PcmSnapshot(p) : p \in {q \in PcmsOf(plugged[card]) : q.direction \notin found}}
  BY <1>1 DEF EmitPcmDevices
<1>3. snapshots = Shown({s \in Plugged : s < card}) \cup OfMixer
  BY DEF EmitPcmDevices, ScanIsTrue
<1>4. snapshots' = Shown({s \in Plugged : s < card}) \cup UNION {Present(card, dir) : dir \in Directions}
  <2>1. PICK dirs : dirs = {ch.direction : ch \in Elems}
    OBVIOUS
  <2>2. OfMixer \cup {PcmSnapshot(p) : p \in {q \in PcmsOf(plugged[card]) : q.direction \notin dirs}}
          = UNION {Present(card, dir) : dir \in Directions}
    BY <2>1, OneCard
  <2>3. dirs = found
    BY <1>1, <2>1
  <2> QED
    BY <1>2, <1>3, <2>2, <2>3
<1>5. {s \in Plugged : s < card} \cup {card} = {s \in Plugged : s <= card}
  <2>1. ASSUME NEW s \in Plugged PROVE s <= card <=> s < card \/ s = card
    <3>1. s \in Nat /\ card \in Nat
      BY <1>1, SlotsAssumption DEF Plugged
    <3> QED
      BY <3>1
  <2>2. card <= card
    <3>1. card \in Nat
      BY <1>1, SlotsAssumption DEF Plugged
    <3> QED
      BY <3>1
  <2>3. ASSUME NEW s
        PROVE  s \in {t \in Plugged : t < card} \cup {card} <=> s \in {t \in Plugged : t <= card}
    BY <1>1, <2>1, <2>2, Zenon
  <2> QED
    BY <2>3, Zenon
<1>6. PICK S : S = {s \in Plugged : s <= card}
  OBVIOUS
<1>7. snapshots' = Shown(S)
  BY <1>4, <1>5, <1>6, ShownGrows
<1>8. S = {s \in Plugged : s <= card}'
  BY <1>6 DEF EmitPcmDevices, hardware, Plugged
<1>9. snapshots' = Shown(S)'
  BY <1>7, ShownStays
<1> QED
  BY <1>8, <1>9 DEF EmitPcmDevices, ScanIsTrue

LEMMA BeginIsTrue ==
  ASSUME IInv, FreshInv, HandleRefresh PROVE ScanIsTrue'
<1>1. card' = -1 /\ snapshots' = {} /\ worker' = "scan"
  BY DEF HandleRefresh, FreshInv, Refreshing, scanVars
<1>2. {s \in Plugged : s <= card}' = {}
  <2>1. ASSUME NEW s \in Slots PROVE ~(s <= -1)
    BY SlotsAssumption
  <2> QED
    BY <1>1, <2>1 DEF Plugged
<1>3. Shown({s \in Plugged : s <= card})' = {}
  BY <1>2 DEF Shown
<1> QED
  BY <1>1, <1>3 DEF ScanIsTrue

LEMMA SwapIsTrue ==
  ASSUME IInv, ScanIsTrue, SwapCache PROVE ScanIsTrue'
<1>1. PICK S : S = Plugged
  OBVIOUS
<1>2. S = Plugged' /\ UNCHANGED <<hardware, snapshots>> /\ worker' = "push"
  BY <1>1 DEF SwapCache, hardware, scanVars, Plugged
<1>3. snapshots' = Shown(S)'
  BY <1>1, <1>2, ShownStays DEF SwapCache, ScanIsTrue
<1> QED
  BY <1>2, <1>3 DEF ScanIsTrue

\* A refresh leaves the hardware alone.
LEMMA ScanLeaves == ASSUME HandleRefresh \/ Scan PROVE UNCHANGED hardware
BY DEF HandleRefresh, Scan, NextCard, ReadMixer, EmitPcmDevices, SwapCache, PushUpdateEvent

\* Outside a refresh there is nothing to show.
LEMMA OutsideIsTrue == ~Refreshing => ScanIsTrue
BY DEF Refreshing, ScanIsTrue

\* Steps that are not of a refresh do not begin one.
LEMMA OthersStayOut ==
  ASSUME IInv, (\E c \in Command : Lookup(c)) \/ Handler \/ SetDefault
  PROVE  ~Refreshing /\ ~Refreshing' /\ UNCHANGED report
<1>1. CASE \E c \in Command : Lookup(c)
  BY <1>1 DEF Lookup, Refreshing
<1>2. CASE OpenMixer
  BY <1>2 DEF OpenMixer, Refreshing
<1>3. CASE Write
  BY <1>3 DEF Write, Refreshing
<1>4. CASE CommandReturns
  BY <1>4 DEF CommandReturns, Refreshing
<1>5. CASE SetDefault
  BY <1>5 DEF SetDefault, Refreshing
<1> QED
  BY <1>1, <1>2, <1>3, <1>4, <1>5 DEF Handler

LEMMA FreshInductive == ASSUME IInv, FreshInv, [Next]_vars PROVE FreshInv'
<1> USE DEF FreshInv, Refreshing, scanVars, commandVars
<1>1. CASE UNCHANGED vars
  BY <1>1 DEF vars
<1>2. CASE HardwareChanges
  BY <1>2 DEF HardwareChanges
<1>3. CASE HandleRefresh
  BY <1>3 DEF HandleRefresh
<1>4. CASE Scan
  <2>1. CASE PushUpdateEvent
    BY <2>1 DEF PushUpdateEvent
  <2>2. CASE NextCard \/ ReadMixer \/ EmitPcmDevices \/ SwapCache
    BY <2>2 DEF NextCard, ReadMixer, EmitPcmDevices, SwapCache
  <2> QED
    BY <1>4, <2>1, <2>2 DEF Scan
<1>5. CASE \E c \in Command : Lookup(c)
  BY <1>5 DEF Lookup
<1>6. CASE OpenMixer
  BY <1>6 DEF OpenMixer
<1>7. CASE Write
  BY <1>7 DEF Write
<1>8. CASE CommandReturns
  BY <1>8 DEF CommandReturns
<1>9. CASE SetDefault
  BY <1>9 DEF SetDefault
<1> QED
  BY <1>1, <1>2, <1>3, <1>4, <1>5, <1>6, <1>7, <1>8, <1>9 DEF Next, Handler

LEMMA TrueInductive ==
  ASSUME IInv, FreshInv, ScanIsTrue, [Next]_vars, [Undisturbed]_vars
  PROVE  ScanIsTrue' /\ (report' # report => report' = Shown(Plugged))
<1>1. CASE UNCHANGED vars
  <2>1. UNCHANGED <<hardware, worker, card, ctl, found, snapshots, report>>
    BY <1>1 DEF vars, scanVars
  <2>2. PICK S, T, U : /\ S = {s \in Plugged : s <= card}
                       /\ T = {s \in Plugged : s < card} /\ U = Plugged
    OBVIOUS
  <2>3. /\ S = {s \in Plugged : s <= card}'
        /\ T = {s \in Plugged : s < card}' /\ U = Plugged'
    BY <2>1, <2>2 DEF Plugged, hardware
  <2>4. Shown(S)' = Shown(S) /\ Shown(T)' = Shown(T) /\ Shown(U)' = Shown(U)
    BY <2>1, ShownStays
  <2>5. Elems' = Elems /\ OfMixer' = OfMixer
    BY <2>1 DEF Elems, OfMixer, EmitSnapshot, MixerOpens, hardware
  <2>6. plugged' = plugged
    BY <2>1 DEF hardware
  <2> QED
    BY <2>1, <2>2, <2>3, <2>4, <2>5, <2>6 DEF ScanIsTrue
<1>2. CASE HardwareChanges
  <2>1. changes' = changes + 1 /\ changes \in Nat /\ UNCHANGED <<worker, report>>
    BY <1>2 DEF HardwareChanges, IInv, TypeOK
  <2>2. ~Refreshing
    BY <2>1 DEF Undisturbed, vars
  <2> QED
    BY <2>1, <2>2 DEF ScanIsTrue, Refreshing
<1>3. CASE HandleRefresh
  BY <1>3, BeginIsTrue DEF HandleRefresh
<1>4. CASE Scan
  <2>1. UNCHANGED hardware
    BY <1>4, ScanLeaves
  <2>2. CASE PushUpdateEvent
    BY <2>2 DEF PushUpdateEvent, ScanIsTrue
  <2>3. CASE NextCard \/ ReadMixer \/ EmitPcmDevices \/ SwapCache
    <3>1. UNCHANGED report
      BY <2>3 DEF NextCard, ReadMixer, EmitPcmDevices, SwapCache
    <3> QED
      BY <2>1, <2>3, <3>1, NextCardIsTrue, ReadMixerIsTrue, EmitIsTrue, SwapIsTrue
  <2> QED
    BY <1>4, <2>2, <2>3 DEF Scan
<1>5. CASE (\E c \in Command : Lookup(c)) \/ Handler \/ SetDefault
  <2>1. ~Refreshing' /\ UNCHANGED report
    BY <1>5, OthersStayOut
  <2> QED
    BY <2>1 DEF ScanIsTrue, Refreshing
<1> QED
  BY <1>1, <1>2, <1>3, <1>4, <1>5 DEF Next

\* However the cards came and went before, and whatever commands are carried out in
\* between: while no change falls into a refresh, every report that is pushed shows the
\* cards, elements and levels that are there when it is pushed, all of them and no
\* other (alsa_backend.hpp:144-184).  Nothing of an earlier refresh or command is in it.
THEOREM UndisturbedReportsAreTrue ==
  Spec => [](worker = "idle" /\ [][Undisturbed]_vars
               => [][report' # report => report' = Shown(Plugged)]_vars)
<1>1. Init => FreshInv
  BY DEF Init, FreshInv
<1>2. IInv /\ FreshInv /\ [Next]_vars => FreshInv'
  BY FreshInductive
<1>3. worker = "idle" => ScanIsTrue
  BY OutsideIsTrue DEF Refreshing
<1>4. IInv /\ FreshInv /\ ScanIsTrue /\ [Next]_vars /\ [Undisturbed]_vars =>
        ScanIsTrue' /\ [report' # report => report' = Shown(Plugged)]_vars
  BY TrueInductive
<1> QED
  BY <1>1, <1>2, <1>3, <1>4, Invariant, PTL DEF Spec
================================================================================
