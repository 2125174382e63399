---------------------------- MODULE MCGzbdZones -----------------------------
(* Small instances of GzbdZones.                                            *)
EXTENDS GzbdZones, TLC
=============================================================================
