-------------------------- MODULE MCPulseAudioBackend --------------------------
(* Instances of PulseAudioBackend for TLC; the values are in the .cfg files. *)
EXTENDS PulseAudioBackend

\* Two sinks that compete for the default.
AllOutput(n) == "Output"
================================================================================
