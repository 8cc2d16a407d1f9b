--------------------------- MODULE MCDeviceUpdate ---------------------------
(***************************************************************************)
(* Values of the constants of DeviceUpdate for TLC: the GUI thread and the *)
(* installation thread; rescans, and requests about everything else.       *)
(***************************************************************************)
EXTENDS DeviceUpdate

MCRequesters == {"gui", "install"}

AnyRequest == {{"DEVICES"}, {"INDICES", "SYSINFO", "MANAGER"}}

Rescans == {{"DEVICES"}}

=============================================================================
