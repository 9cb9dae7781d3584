---------------------------- MODULE MCDeviceLink ----------------------------
(* DeviceLink on small instances; the .cfg files choose the sizes. *)
EXTENDS DeviceLink
=============================================================================
