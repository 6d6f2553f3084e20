----------------------------- MODULE MCMockBackend -----------------------------
(* Instances of MockBackend for TLC; the values are in the .cfg files. *)
EXTENDS MockBackend

\* Two outputs and an input, as in test_mock_backend.cpp.
OutputsAndInput(id) == IF id = "in1" THEN "Input" ELSE "Output"
================================================================================
