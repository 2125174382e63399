------------------------------ MODULE MCZbdFd -------------------------------
(* Small instances of ZbdFd.                                                *)
EXTENDS ZbdFd, TLC

\* A zoned device with a smaller last zone, one whose limits are not exported,
\* one that does not tell its zone size, and an ordinary device.
MCAttr ==
    [d \in Devices |->
        CASE d = 1 -> [zoned |-> "host-managed", lblock |-> 1, sectors |-> 10, zoneSectors |-> 4,
                       maxOpen |-> 2, maxActive |-> 3]
          [] d = 2 -> [zoned |-> "host-aware", lblock |-> 1, sectors |-> 8, zoneSectors |-> 4,
                       maxOpen |-> Unreadable, maxActive |-> Unreadable]
          [] d = 3 -> [zoned |-> "host-managed", lblock |-> 1, sectors |-> 8,
                       zoneSectors |-> Unreadable, maxOpen |-> 0, maxActive |-> 0]
          [] d = 4 -> [zoned |-> "none", lblock |-> 1, sectors |-> 8, zoneSectors |-> 4,
                       maxOpen |-> 0, maxActive |-> 0]]
=============================================================================
