------------------------------ MODULE AlsaBackend ------------------------------
(***************************************************************************)
(* AlsaBackend: every handler runs on the worker thread and talks to the   *)
(* kernel directly, while cards come and go, other processes set levels,   *)
(* mute, lock controls or keep the mixer to themselves.  Nothing tells the *)
(* backend of it: the poll worker asks for a refresh every five seconds.   *)
(*                                                                         *)
(* One action per call that looks at a card anew: a mixer holds what it    *)
(* held when it was loaded.  A device is a direction of a mixer element,   *)
(* its id the number of the card, the name of the element and the          *)
(* direction; the index that tells elements of one name apart is no part   *)
(* of it.  Elements, PCM devices and the snapshots of a report are in no   *)
(* order; what an id listed twice does is DeviceMap's matter.  Cards are   *)
(* external, modelled by the calls made to libasound.                      *)
(***************************************************************************)
EXTENDS Integers, FiniteSetsExt

CONSTANTS
  Slots,             \* card numbers
  Cards,
  Channels,          \* of the mixers: a direction of an element that has a volume
  Pcms,              \* PCM devices
  Levels, FullLevel, \* FullLevel: that of a device nobody asked
  MaxChanges, MaxCommands,         \* bounds
  None

Directions == {"playback", "capture"}
Names   == {ch.name : ch \in Channels}
Numbers == {p.number : p \in Pcms}

ASSUME SlotsAssumption    == Slots \subseteq Nat
ASSUME ChannelsAssumption == \A ch \in Channels : /\ ch.card \in Cards /\ ch.direction \in Directions
                                                 /\ ch.switch \in BOOLEAN
ASSUME PcmsAssumption     == \A p \in Pcms : p.card \in Cards /\ p.direction \in Directions
ASSUME NamesAssumption    == Names \cap Numbers = {}       \* an id tells which of the two it is of
ASSUME LevelsAssumption   == FullLevel \in Levels
ASSUME BoundsAssumption   == MaxChanges \in Nat /\ MaxCommands \in Nat

Ids == Slots \X (Numbers \cup Names) \X Directions
Snapshot == [id : Ids, volume : Levels, muted : BOOLEAN]
Command == [kind : {"volume"}, id : Ids, volume : Levels] \cup [kind : {"mute"}, id : Ids, mute : BOOLEAN]
ASSUME NoneAssumption == None \notin Cards /\ None \notin Command

VARIABLES
  plugged,           \* per card number, the card or None
  busy,              \* cards whose mixer cannot be opened
  volume, muted,     \* of the channels
  changes, commands, \* changes and commands so far
  worker,            \* idle; scan, mixer, pcms, swap, push; open, write
  card,              \* number of the card a handler is at
  ctl,               \* the card it has opened
  found,             \* found_playback, found_capture
  snapshots,         \* snapshots of the refresh so far
  device_cache_,     \* keys of device_cache_
  report,            \* the last push_update_event(), or None
  command,           \* of the handler that runs
  todo,              \* channels for_each_elem has still to pass to a command
  result,
  written, refused   \* history: channels a command has set; a write failed

hardware == <<plugged, busy, volume, muted>>
scanVars == <<ctl, found, snapshots>>
commandVars == <<command, todo, written, refused>>
vars == <<hardware, changes, commands, worker, card, scanVars, device_cache_, report,
          commandVars, result>>

TypeOK ==
  /\ plugged \in [Slots -> Cards \cup {None}]
  /\ busy \subseteq Cards
  /\ volume \in [Channels -> Levels]
  /\ muted \subseteq {ch \in Channels : ch.switch}
  /\ changes \in 0..MaxChanges /\ commands \in 0..MaxCommands
  /\ worker \in {"idle", "scan", "mixer", "pcms", "swap", "push", "open", "write"}
  /\ card \in Slots \cup {-1}
  /\ ctl \in Cards \cup {None}
  /\ found \subseteq Directions
  /\ snapshots \subseteq Snapshot
  /\ device_cache_ \subseteq Ids
  /\ report \in {None} \cup SUBSET Snapshot
  /\ command \in Command \cup {None}
  /\ todo \subseteq Channels
  /\ result \in {"none", "Ok", "DeviceNotFound", "Unsupported", "BackendError"}
  /\ written \subseteq Channels
  /\ refused \in BOOLEAN

\* A card has one number.
Pluggings == {p \in [Slots -> Cards \cup {None}] : \A s, t \in Slots : p[s] = p[t] => s = t \/ p[s] = None}

Init ==
  /\ plugged \in Pluggings
  /\ busy = {}
  /\ volume \in {[ch \in Channels |-> v] : v \in Levels}
  /\ muted = {}
  /\ changes = 0 /\ commands = 0
  /\ worker = "idle"
  /\ card = -1 /\ ctl = None /\ found = {} /\ snapshots = {}
  /\ device_cache_ = {}
  /\ report = None
  /\ command = None /\ todo = {} /\ written = {} /\ refused = FALSE
  /\ result = "none"

Id(slot, ch) == <<slot, ch.name, ch.direction>>
ChannelsOf(c) == {ch \in Channels : ch.card = c}
MixerOpens(slot) == plugged[slot] # None /\ plugged[slot] \notin busy

--------------------------------------------------------------------------------
(* The hardware and other processes (external) *)

CardsChange ==
  \/ plugged' \in Pluggings \ {plugged} /\ UNCHANGED <<busy, volume, muted>>
  \/ \E c \in Cards : busy' = SymDiff(busy, {c}) /\ UNCHANGED <<plugged, volume, muted>>
  \/ \E ch \in Channels, v \in Levels :
       /\ volume[ch] # v
       /\ volume' = [volume EXCEPT ![ch] = v]
       /\ UNCHANGED <<plugged, busy, muted>>
  \/ \E ch \in Channels :
       /\ ch.switch
       /\ muted' = SymDiff(muted, {ch})
       /\ UNCHANGED <<plugged, busy, volume>>

HardwareChanges ==
  /\ changes < MaxChanges
  /\ changes' = changes + 1
  /\ CardsChange
  /\ UNCHANGED <<commands, worker, card, scanVars, device_cache_, report, commandVars, result>>

--------------------------------------------------------------------------------
(* refresh_devices() *)

HandleRefresh ==
  /\ worker = "idle"
  /\ worker' = "scan"
  /\ UNCHANGED <<hardware, changes, commands, card, scanVars, device_cache_, report, commandVars,
                 result>>

\* Mutation: the scan begins after card 0.
BeyondFirst == {s \in Slots : plugged[s] # None /\ s > card /\ s > 0}
\* Numbers that snd_card_next() has still to come to.
Further == {s \in Slots : plugged[s] # None /\ s > card}

\* snd_card_next() and snd_ctl_open(); a card that vanished in between is passed
\* over like one that had vanished before.
NextCard ==
  /\ worker = "scan"
  /\ \/ \E s \in Further :
          /\ \A t \in Further : s <= t
          /\ card' = s /\ ctl' = plugged[s] /\ worker' = "mixer"
     \/ Further = {} /\ card' = -1 /\ ctl' = None /\ worker' = "swap"
  /\ found' = {}
  /\ UNCHANGED <<hardware, changes, commands, snapshots, device_cache_, report, commandVars, result>>

EmitSnapshot(ch) == [id |-> Id(card, ch), volume |-> volume[ch], muted |-> ch \in muted]

\* for_each_elem(): the mixer is opened by number, whatever card has it now.
ReadMixer ==
  /\ worker = "mixer"
  /\ LET elems == IF MixerOpens(card) THEN ChannelsOf(plugged[card]) ELSE {} IN
     /\ snapshots' = snapshots \cup {EmitSnapshot(ch) : ch \in elems}
     /\ found' = {ch.direction : ch \in elems}
  /\ worker' = "pcms"
  /\ UNCHANGED <<hardware, changes, commands, card, ctl, device_cache_, report, commandVars, result>>

PcmsOf(c) == {p \in Pcms : p.card = c}
PcmSnapshot(p) == [id |-> <<card, p.number, p.direction>>, volume |-> FullLevel, muted |-> FALSE]

\* emit_pcm_devices() for the directions without an element, through the card
\* that was opened: if it is gone its calls fail.
EmitPcmDevices ==
  /\ worker = "pcms"
  /\ LET pcms == IF plugged[card] = ctl THEN {p \in PcmsOf(ctl) : p.direction \notin found} ELSE {} IN
       snapshots' = snapshots \cup {PcmSnapshot(p) : p \in pcms}
  /\ worker' = "scan"
  /\ UNCHANGED <<hardware, changes, commands, card, ctl, found, device_cache_, report,
                 commandVars, result>>

IdsOf(list) == {s.id : s \in list}

\* Mutation: what was found is added to device_cache_.
Merged == device_cache_ \cup IdsOf(snapshots)
\* new_cache, which replaces device_cache_.
NewCache == IdsOf(snapshots)

SwapCache ==
  /\ worker = "swap"
  /\ device_cache_' = NewCache
  /\ worker' = "push"
  /\ UNCHANGED <<hardware, changes, commands, card, scanVars, report, commandVars, result>>

PushUpdateEvent ==
  /\ worker = "push"
  /\ report' = snapshots
  /\ snapshots' = {}
  /\ worker' = "idle"
  /\ UNCHANGED <<hardware, changes, commands, card, ctl, found, device_cache_, commandVars, result>>

--------------------------------------------------------------------------------
(* run_set_volume(), run_set_mute() *)

\* The lookup, under cache_mutex_.
Lookup(c) ==
  /\ worker = "idle"
  /\ commands < MaxCommands
  /\ commands' = commands + 1
  /\ IF c.id \in device_cache_ /\ c.id[2] \in Names
       THEN /\ worker' = "open"
            /\ command' = c
            /\ card' = c.id[1]
            /\ UNCHANGED result
       ELSE /\ result' = IF c.id \in device_cache_ THEN "Unsupported" ELSE "DeviceNotFound"
            /\ UNCHANGED <<worker, command, card>>
  /\ UNCHANGED <<hardware, changes, scanVars, device_cache_, report, todo, written, refused>>

\* Mutation: run_set_mute() begins with the result of run_set_volume().
AssumesOk == "Ok"
\* The result before any element was seen.
InitialResult == IF command.kind = "mute" THEN "Unsupported" ELSE "Ok"

\* for_each_elem() opens the mixer; of its elements the code passes over all
\* but those of the name and direction of the device.
OpenMixer ==
  /\ worker = "open"
  /\ IF MixerOpens(card)
       THEN /\ ctl' = plugged[card]
            /\ todo' = {ch \in ChannelsOf(ctl') : Id(card, ch) = command.id}
            /\ worker' = "write"
            /\ result' = InitialResult
            /\ UNCHANGED <<card, command>>
       ELSE /\ worker' = "idle"
            /\ result' = "BackendError"
            /\ card' = -1
            /\ command' = None
            /\ UNCHANGED <<ctl, todo>>
  /\ UNCHANGED <<hardware, changes, commands, found, snapshots, device_cache_, report, written,
                 refused>>

\* The result after a write that succeeded.
ResultOfSuccess == IF command.kind = "mute" THEN "Ok" ELSE result

\* run_set_mute() passes over an element without a switch.
PassesOver(ch) == command.kind = "mute" /\ ~ch.switch

\* One element, in whatever order a mixer has them.
Write ==
  /\ worker = "write"
  /\ \E ch \in todo :
     /\ todo' = todo \ {ch}
     /\ \/ /\ PassesOver(ch)
           /\ UNCHANGED <<volume, muted, written, refused, result>>
        \/ /\ ~PassesOver(ch)
           /\ plugged[card] = ctl
           /\ IF command.kind = "mute"
                THEN muted' = (IF command.mute THEN muted \cup {ch} ELSE muted \ {ch}) /\ UNCHANGED volume
                ELSE volume' = [volume EXCEPT ![ch] = command.volume] /\ UNCHANGED muted
           /\ written' = written \cup {ch}
           /\ result' = ResultOfSuccess
           /\ UNCHANGED refused
        \/ /\ ~PassesOver(ch)                       \* the card is gone, or the control locked
           /\ refused' = TRUE
           /\ result' = "BackendError"
           /\ UNCHANGED <<volume, muted, written>>
  /\ UNCHANGED <<plugged, busy, changes, commands, worker, card, scanVars, device_cache_, report, command>>

CommandReturns ==
  /\ worker = "write"
  /\ todo = {}
  /\ worker' = "idle"
  /\ card' = -1 /\ ctl' = None
  /\ command' = None /\ written' = {} /\ refused' = FALSE
  /\ UNCHANGED <<hardware, changes, commands, found, snapshots, device_cache_, report, todo, result>>

\* handle_set_default().
SetDefault ==
  /\ worker = "idle"
  /\ commands < MaxCommands
  /\ commands' = commands + 1
  /\ result' = "Unsupported"
  /\ UNCHANGED <<hardware, changes, worker, card, scanVars, device_cache_, report, commandVars>>

--------------------------------------------------------------------------------
Scan == NextCard \/ ReadMixer \/ EmitPcmDevices \/ SwapCache \/ PushUpdateEvent
Handler == OpenMixer \/ Write \/ CommandReturns

Next ==
  \/ HardwareChanges
  \/ HandleRefresh \/ Scan
  \/ \E c \in Command : Lookup(c)
  \/ Handler
  \/ SetDefault

\* Handlers go on, and the poll worker has a refresh queued again and again.
Fairness == WF_vars(Scan) /\ WF_vars(Handler) /\ SF_vars(HandleRefresh)

Spec == Init /\ [][Next]_vars /\ Fairness
--------------------------------------------------------------------------------
(* Properties *)

\* Between handlers a device can be addressed if and only if the last report
\* lists it, whatever came and went: the cache is swapped, not merged, before the
\* report is pushed (alsa_backend.hpp:179-183).
ReportedDevicesAreKnown == worker = "idle" /\ report # None => device_cache_ = IdsOf(report)

\* The status is true, although the card may have changed since the device was
\* reported: a set_mute that returns Ok has switched something, and a set_volume
\* that could not set one of several elements of the name does not return Ok,
\* whichever of them it was (alsa_backend.hpp:289-297, 312-325).
StatusIsTrue ==
  worker = "write" /\ todo = {} =>
    IF command.kind = "mute" THEN result = "Ok" => written # {}
                              ELSE refused => result = "BackendError"

\* What a refresh would report of the cards as they are.
Present(s, dir) ==
  LET elems == {ch \in ChannelsOf(plugged[s]) : ch.direction = dir} IN
  IF MixerOpens(s) /\ elems # {}
    THEN {[id |-> Id(s, ch), volume |-> volume[ch], muted |-> ch \in muted] : ch \in elems}
    ELSE {[id |-> <<s, p.number, dir>>, volume |-> FullLevel, muted |-> FALSE] :
            p \in {p \in PcmsOf(plugged[s]) : p.direction = dir}}

\* Whatever happened to the cards, polling ends up reporting them as they are
\* (alsa_backend.hpp:20, 144-184).
ReportsCatchUp ==
  <>[](report # None /\ report =
         UNION {Present(s, dir) : s \in {t \in Slots : plugged[t] # None}, dir \in Directions})
================================================================================
