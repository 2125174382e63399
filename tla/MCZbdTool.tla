----------------------------- MODULE MCZbdTool ------------------------------
(* Small instances of ZbdTool.                                              *)
EXTENDS ZbdTool, TLC
=============================================================================
