---------------------------- MODULE ZonedDevice -----------------------------
(***************************************************************************)
(* The zoned block device under libzbd, as the kernel drives it, and the   *)
(* zone descriptors of zbd.h.  A zone has a type, a condition, a write     *)
(* pointer and the chunks of data written so far.  A command yields the    *)
(* set of the devices it may leave; the empty set: the command fails.      *)
(* External: the library and its tools see the device by its answers only. *)
(***************************************************************************)
LOCAL INSTANCE Integers
LOCAL INSTANCE FiniteSets

Zero == << >>                        \* what an unwritten chunk reads as

Conds == {"not_wp", "empty", "imp_open", "exp_open", "closed", "full",
          "rdonly", "offline"}

Cnv(zn)      == zn.type = "cnv"
SeqZone(zn)  == zn.type = "seq"
IsOpen(zn)   == zn.cond \in {"imp_open", "exp_open"}
IsActive(zn) == IsOpen(zn) \/ zn.cond = "closed"

\* A zone descriptor: the zone without its data.
Descriptor(zn) == [type |-> zn.type, cap |-> zn.cap, cond |-> zn.cond, wp |-> zn.wp]

ReportOf(d) == [z \in DOMAIN d.zone |-> Descriptor(d.zone[z])]

FreshZone(type, cap) ==
    [type |-> type, cap |-> cap, wp |-> 0, data |-> [o \in 0 .. cap - 1 |-> Zero],
     cond |-> IF type = "cnv" THEN "not_wp" ELSE "empty"]

OpenZones(d)   == {z \in DOMAIN d.zone : IsOpen(d.zone[z])}
ActiveZones(d) == {z \in DOMAIN d.zone : IsActive(d.zone[z])}

Closed(zn) == [zn EXCEPT !.cond = IF zn.wp = 0 THEN "empty" ELSE "closed"]

\* The device with a slot for one more open zone, z: at the limit, it closes
\* an implicitly open zone of its choice.  No limit is written 0.
WithSlot(d, z) ==
    IF ~IsActive(d.zone[z]) /\ d.maxActive > 0
       /\ Cardinality(ActiveZones(d)) >= d.maxActive
    THEN {}
    ELSE IF IsOpen(d.zone[z]) \/ d.maxOpen = 0 \/ Cardinality(OpenZones(d)) < d.maxOpen
    THEN {d}
    ELSE {[d EXCEPT !.zone[y] = Closed(@)] :
             y \in {x \in OpenZones(d) : d.zone[x].cond = "imp_open"}}

Usable == {"empty", "imp_open", "exp_open", "closed"}

\* A write of chunk o of zone z: anywhere in a conventional zone, at the write
\* pointer of a sequential one.
Write(d, z, o, v) ==
    LET zn == d.zone[z]
        cond == IF zn.wp + 1 = zn.cap THEN "full"
                ELSE IF zn.cond = "exp_open" THEN "exp_open" ELSE "imp_open"
    IN  IF Cnv(zn) /\ zn.cond = "not_wp" THEN {[d EXCEPT !.zone[z].data[o] = v]}
        ELSE IF SeqZone(zn) /\ zn.cond \in Usable /\ o = zn.wp
        THEN {[e EXCEPT !.zone[z].data[o] = v, !.zone[z].wp = @ + 1,
                        !.zone[z].cond = cond] : e \in WithSlot(d, z)}
        ELSE {}

Open(d, z) ==
    IF d.zone[z].cond \in Usable
    THEN {[e EXCEPT !.zone[z].cond = "exp_open"] : e \in WithSlot(d, z)}
    ELSE {}

Close(d, z) ==
    IF IsActive(d.zone[z]) THEN {[d EXCEPT !.zone[z] = Closed(@)]} ELSE {}

Finish(d, z) ==
    IF d.zone[z].cond = "full" THEN {d}
    ELSE IF d.zone[z].cond \in Usable
    THEN {[e EXCEPT !.zone[z].cond = "full", !.zone[z].wp = d.zone[z].cap] :
             e \in WithSlot(d, z)}
    ELSE {}

Reset(d, z) ==
    IF d.zone[z].cond \in Usable \cup {"full"}
    THEN {[d EXCEPT !.zone[z] = FreshZone("seq", @.cap)]}
    ELSE {}

\* What a zone can be: its write pointer goes with its condition, and nothing is
\* written behind it.
ZoneOK(zn) ==
    /\ zn \in [type : {"cnv", "seq"}, cap : Nat \ {0}, wp : Nat, data : {zn.data},
               cond : Conds]
    /\ zn.data = [o \in 0 .. zn.cap - 1 |-> zn.data[o]]
    /\ Cnv(zn) => zn.cond \in {"not_wp", "rdonly", "offline"}
    /\ SeqZone(zn) =>
          /\ zn.cond # "not_wp" /\ zn.wp <= zn.cap
          /\ zn.cond \in Usable => zn.wp < zn.cap
          /\ zn.cond = "full" => zn.wp = zn.cap
          /\ zn.cond = "empty" => zn.wp = 0
          /\ zn.cond \in {"imp_open", "closed"} => zn.wp > 0
          /\ \A o \in zn.wp .. zn.cap - 1 : zn.data[o] = Zero

DeviceOK(d, zones) ==
    /\ d \in [geom : {d.geom}, maxOpen : Nat, maxActive : Nat, zone : {d.zone}]
    /\ d.zone = [z \in zones |-> d.zone[z]]
    /\ \A z \in zones : ZoneOK(d.zone[z])

\* A zone may fail while the device runs: no more writes, or no access at all.
Fault(d, z, cond) == [d EXCEPT !.zone[z].cond = cond]

\* The devices that a command op on zone z of a device may leave.
ZoneCommand(d, op, z) ==
    CASE op = "reset"  -> Reset(d, z)
      [] op = "open"   -> Open(d, z)
      [] op = "close"  -> Close(d, z)
      [] op = "finish" -> Finish(d, z)
=============================================================================
