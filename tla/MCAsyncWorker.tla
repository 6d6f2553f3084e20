----------------------------- MODULE MCAsyncWorker -----------------------------
(* Instances of AsyncWorker for TLC; the values are in the .cfg files. *)
EXTENDS AsyncWorker

\* stop_ as a freshly zeroed allocation holds it, and as any allocation may.
ZeroedMemory == {FALSE}
AnyMemory    == BOOLEAN
================================================================================
