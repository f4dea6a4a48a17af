------------------------- MODULE MCDeviceController -------------------------
(***************************************************************************)
(* DeviceController with images that pass and fail each of the checks, and *)
(* some minor versions.                                                    *)
(***************************************************************************)
EXTENDS DeviceController

MCImages == [len : {5, 6}, magic : BOOLEAN, major : {0, 1, 2}, minor : 0 .. 31]

=============================================================================
