---------------------------- MODULE MCWasapiBackend ----------------------------
(* Two endpoints, of one flow or of both. *)
EXTENDS WasapiBackend

CONSTANTS speaker, headset, microphone

MCFlowOf(i) == IF i = microphone THEN "capture" ELSE "render"

================================================================================
