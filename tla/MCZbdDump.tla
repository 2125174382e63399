----------------------------- MODULE MCZbdDump ------------------------------
(* Small instances of ZbdDump, and what the program says of itself.         *)
EXTENDS ZbdDump, TLC

\* An empty device of zones of two chunks, with its limits (0: none).
Device(geom, types, maxOpen, maxActive) ==
    [geom |-> geom, maxOpen |-> maxOpen, maxActive |-> maxActive,
     zone |-> [z \in Zones |-> FreshZone(types[z + 1], 2)]]

\* A conventional and a sequential zone without limits, and a device of another size
\* with two sequential zones of which only one can be open.
MixedDevices ==
    {Device("g", <<"cnv", "seq">>, 0, 0), Device("s", <<"seq", "seq">>, 1, 2)}

\* "restore : Restore a device zones status and data from dump files"
\* (tools/cli/zbd.c:235).
RestoreRestores == RestoredIsDumped
=============================================================================
