------------------------------ MODULE MCDeviceMap ------------------------------
(* Instances of DeviceMap for TLC; the values are in the .cfg files. *)
EXTENDS DeviceMap

\* One backend with two devices and one with a single device.
TwoAndOne == {<<"pulse", 1>>, <<"pulse", 2>>, <<"mock", 1>>}
AllOutput(k) == "Output"
================================================================================
