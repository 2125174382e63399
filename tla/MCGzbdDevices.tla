--------------------------- MODULE MCGzbdDevices ----------------------------
(* Small instances of GzbdDevices.                                          *)
EXTENDS GzbdDevices, TLC
=============================================================================
