---------------------------- MODULE MCDeviceList ----------------------------
(* Two adapters, and two devices below the first: one that may be polled, and one that *)
(* may be hidden. *)
EXTENDS DeviceList

CONSTANTS a1, a2, d1, d2

MCAdapters == {a1, a2}
MCDevices == {d1, d2}
MCAdapterOf == [d \in MCDevices |-> a1]
MCKeyboards == {d1}
MCAudio == {d2}
=============================================================================
