------------------------------- MODULE DeviceView -------------------------------
(***************************************************************************)
(* What an AudioDeviceManager promises of its devices to those it notifies *)
(* of changes.  A report takes the place of what its backend reported      *)
(* before, at once: the devices it names are connected and as it says,     *)
(* the others of that backend are disconnected and otherwise as they were, *)
(* and those of other backends stay.  A device is never forgotten but by   *)
(* prune_disconnected(), and never while it is connected.  DeviceMap is    *)
(* shown to implement this specification.                                  *)
(***************************************************************************)
CONSTANTS
  Keys,              \* pairs of a backend and one of its device ids
  Levels,
  Absent

VARIABLE view        \* per key, the device as the subscribers know it, or Absent

Init == view = [k \in Keys |-> Absent]

KeysOf(b) == {k \in Keys : k[1] = b}

\* The view after a report `new`, a function on the keys it names.
Merged(b, new) ==
  [k \in Keys |->
    IF k \in DOMAIN new
      THEN [connected |-> TRUE, is_default |-> new[k].is_default, level |-> new[k].level]
      ELSE IF k \in KeysOf(b) /\ view[k] # Absent
        THEN [connected |-> FALSE, is_default |-> view[k].is_default, level |-> view[k].level]
        ELSE view[k]]

Report(b) ==
  \E named \in SUBSET KeysOf(b) :
    \E new \in [named -> [is_default : BOOLEAN, level : Levels]] : view' = Merged(b, new)

Prune ==
  view' = [k \in Keys |-> IF view[k] # Absent /\ view[k].connected THEN view[k] ELSE Absent]

Next == (\E b \in {k[1] : k \in Keys} : Report(b)) \/ Prune

Spec == Init /\ [][Next]_view
================================================================================
