----------------------------- MODULE MCAlsaBackend -----------------------------
(* Instances of AlsaBackend for TLC; the other values are in the .cfg file. *)
EXTENDS AlsaBackend

Channel(c, i, name, dir, switch) ==
  [card |-> c, index |-> i, name |-> name, direction |-> dir, switch |-> switch]

\* A card with an element that has both directions, and one with two elements of the
\* same name, of which the first has a switch.
OnboardAndUsb ==
  {Channel("onboard", 0, "Master", "playback", TRUE), Channel("onboard", 0, "Master", "capture", FALSE),
   Channel("usb", 0, "PCM", "playback", TRUE), Channel("usb", 1, "PCM", "playback", FALSE)}

\* Each has a PCM device for playback.
OnePcm == [card : {"onboard", "usb"}, number : {"0"}, direction : {"playback"}]
================================================================================
