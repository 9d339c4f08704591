---------------------------- MODULE MCDeviceWatcher ----------------------------
(* Small instances of DeviceWatcher for TLC.                                *)
EXTENDS DeviceWatcher

CONSTANTS s1, s2

OneService == <<s1>>
TwoServices == <<s1, s2>>

=============================================================================
