--------------------------- MODULE ZbdDumpProofs ---------------------------
(***************************************************************************)
(* What zbd dump and zbd restore leave on the device and in their files,   *)
(* for every number of zones, every device and every number of commands.   *)
(***************************************************************************)
EXTENDS ZbdDump, FiniteSetTheorems, TLAPS

-----------------------------------------------------------------------------
(* What a command does to the device.                                      *)

\* A device with the same zones and limits.
Alike(d, e) ==
    /\ DeviceOK(e, Zones)
    /\ e.geom = d.geom /\ e.maxOpen = d.maxOpen /\ e.maxActive = d.maxActive
    /\ \A y \in Zones : e.zone[y].type = d.zone[y].type /\ e.zone[y].cap = d.zone[y].cap

\* The zone is as before, or lost its slot to another one.
Left(old, zn) ==
    \/ zn = old
    \/ old.cond = "imp_open" /\ zn = [old EXCEPT !.cond = "closed"]

Apart(d, e, z) == \A y \in Zones \ {z} : Left(d.zone[y], e.zone[y])

LEMMA ZoneFields ==
  ASSUME NEW zn, ZoneOK(zn)
  PROVE  /\ zn.type \in {"cnv", "seq"} /\ zn.cap \in Nat \ {0} /\ zn.wp \in Nat
         /\ zn.cond \in Conds /\ DOMAIN zn.data = 0 .. zn.cap - 1
         /\ DOMAIN zn = {"type", "cap", "wp", "data", "cond"}
  BY DEF ZoneOK

\* Another condition that goes with the write pointer.
LEMMA NewCond ==
  ASSUME NEW zn, ZoneOK(zn), NEW c \in Conds,
         \/ c \in {"rdonly", "offline"}
         \/ /\ zn.cond \in Usable
            /\ \/ c = "exp_open"
               \/ c = "closed" /\ zn.wp > 0
               \/ c = "empty" /\ zn.wp = 0
  PROVE  LET new == [zn EXCEPT !.cond = c]
         IN  /\ ZoneOK(new) /\ new.type = zn.type /\ new.cap = zn.cap
             /\ new.wp = zn.wp /\ new.data = zn.data /\ new.cond = c
<1> DEFINE new == [zn EXCEPT !.cond = c]
<1>1. /\ zn \in [type : {"cnv", "seq"}, cap : Nat \ {0}, wp : Nat, data : {zn.data}, cond : Conds]
  BY DEF ZoneOK
<1>2. /\ new.type = zn.type /\ new.cap = zn.cap /\ new.wp = zn.wp /\ new.data = zn.data
      /\ new.cond = c
      /\ new \in [type : {"cnv", "seq"}, cap : Nat \ {0}, wp : Nat, data : {zn.data}, cond : Conds]
  BY <1>1
<1>3. Cnv(new) => new.cond \in {"rdonly", "offline"}
  BY <1>2 DEF ZoneOK, Cnv, Usable
<1>4. SeqZone(new) =>
          /\ new.cond # "not_wp" /\ new.wp <= new.cap
          /\ new.cond \in Usable => new.wp < new.cap
          /\ new.cond = "full" => new.wp = new.cap
          /\ new.cond = "empty" => new.wp = 0
          /\ new.cond \in {"imp_open", "closed"} => new.wp > 0
          /\ \A o \in new.wp .. new.cap - 1 : new.data[o] = Zero
  BY <1>2 DEF ZoneOK, SeqZone, Usable
<1> HIDE DEF new
<1>5. ZoneOK(new)
  BY <1>2, <1>3, <1>4 DEF ZoneOK
<1>6. QED
  BY <1>2, <1>5 DEF new

\* One zone of a device replaced.
LEMMA NewZone ==
  ASSUME NEW d, DeviceOK(d, Zones), NEW z \in Zones, NEW zn, ZoneOK(zn),
         zn.type = d.zone[z].type, zn.cap = d.zone[z].cap
  PROVE  LET e == [d EXCEPT !.zone[z] = zn]
         IN  Alike(d, e) /\ e.zone[z] = zn /\ \A y \in Zones \ {z} : e.zone[y] = d.zone[y]
<1> DEFINE e == [d EXCEPT !.zone[z] = zn]
<1>1. /\ d \in [geom : {d.geom}, maxOpen : Nat, maxActive : Nat, zone : {d.zone}]
      /\ d.zone = [y \in Zones |-> d.zone[y]] /\ \A y \in Zones : ZoneOK(d.zone[y])
  BY DEF DeviceOK
<1>2. /\ e.geom = d.geom /\ e.maxOpen = d.maxOpen /\ e.maxActive = d.maxActive
      /\ e.zone = [d.zone EXCEPT ![z] = zn]
      /\ e \in [geom : {e.geom}, maxOpen : Nat, maxActive : Nat, zone : {e.zone}]
  BY <1>1
<1>3. DOMAIN d.zone = Zones
  BY <1>1
<1> HIDE DEF e
<1>4. /\ e.zone = [y \in Zones |-> e.zone[y]] /\ e.zone[z] = zn
      /\ \A y \in Zones \ {z} : e.zone[y] = d.zone[y]
  BY <1>2, <1>3
<1>5. DeviceOK(e, Zones)
  BY <1>1, <1>2, <1>4 DEF DeviceOK
<1>6. QED
  BY <1>1, <1>2, <1>4, <1>5 DEF Alike, e

LEMMA AlikeTrans ==
  ASSUME NEW d, NEW e, NEW f, Alike(d, e), Alike(e, f)
  PROVE  Alike(d, f)
  BY DEF Alike

LEMMA AlikeSelf ==
  ASSUME NEW d, DeviceOK(d, Zones)
  PROVE  Alike(d, d)
  BY DEF Alike

\* Making room for one more open zone.
LEMMA SlotDevice ==
  ASSUME NEW d, DeviceOK(d, Zones), NEW z \in Zones, NEW e \in WithSlot(d, z)
  PROVE  Alike(d, e) /\ e.zone[z] = d.zone[z] /\ Apart(d, e, z)
<1>1. DOMAIN d.zone = Zones /\ \A y \in Zones : ZoneOK(d.zone[y])
  BY DEF DeviceOK
<1>2. CASE e = d
  BY <1>2, AlikeSelf DEF Apart, Left
<1>3. CASE e # d
  <2>1. ~IsOpen(d.zone[z])
    BY <1>3 DEF WithSlot
  <2>2. PICK y \in Zones : /\ d.zone[y].cond = "imp_open"
                           /\ e = [d EXCEPT !.zone[y] = Closed(@)]
    BY <1>1, <1>3 DEF WithSlot, OpenZones
  <2>3. y # z
    BY <2>1, <2>2 DEF IsOpen
  <2>4. d.zone[y].wp > 0
    BY <1>1, <2>2, ZoneFields DEF ZoneOK, SeqZone, Cnv
  <2> DEFINE new == [d.zone[y] EXCEPT !.cond = "closed"]
  <2>5. Closed(d.zone[y]) = new
    BY <2>4 DEF Closed
  <2>6. /\ ZoneOK(new) /\ new.type = d.zone[y].type /\ new.cap = d.zone[y].cap
    <3>1. "closed" \in Conds /\ d.zone[y].cond \in Usable /\ ZoneOK(d.zone[y])
      BY <1>1, <2>2 DEF Conds, Usable
    <3>2. QED
      BY <2>4, <3>1, NewCond
  <2>7. e = [d EXCEPT !.zone[y] = new]
    BY <2>2, <2>5
  <2> HIDE DEF new
  <2>8. /\ Alike(d, e) /\ e.zone[y] = new
        /\ \A x \in Zones \ {y} : e.zone[x] = d.zone[x]
    BY <2>6, <2>7, NewZone
  <2>9. QED
    BY <2>2, <2>3, <2>8 DEF Apart, Left, new
<1>4. QED
  BY <1>2, <1>3

\* What a write leaves of the zone.
Wrote(zn, new, o, v) ==
    /\ new.data = [zn.data EXCEPT ![o] = v]
    /\ \/ Cnv(zn) /\ zn.cond = "not_wp" /\ new.cond = "not_wp" /\ new.wp = zn.wp
       \/ /\ SeqZone(zn) /\ zn.cond \in Usable /\ o = zn.wp /\ new.wp = zn.wp + 1
          /\ new.cond = IF zn.wp + 1 = zn.cap THEN "full"
                        ELSE IF zn.cond = "exp_open" THEN "exp_open" ELSE "imp_open"

LEMMA WriteDevice ==
  ASSUME NEW d, DeviceOK(d, Zones), NEW z \in Zones, NEW o, NEW v,
         NEW e \in Write(d, z, o, v)
  PROVE  Alike(d, e) /\ Apart(d, e, z) /\ Wrote(d.zone[z], e.zone[z], o, v)
<1> DEFINE zn == d.zone[z]
<1>1. ZoneOK(zn) /\ DOMAIN d.zone = Zones
      /\ d \in [geom : {d.geom}, maxOpen : Nat, maxActive : Nat, zone : {d.zone}]
  BY DEF DeviceOK
<1>2. zn \in [type : {"cnv", "seq"}, cap : Nat \ {0}, wp : Nat, data : {zn.data}, cond : Conds]
      /\ zn.data = [p \in 0 .. zn.cap - 1 |-> zn.data[p]]
  BY <1>1 DEF ZoneOK
<1>3. CASE Cnv(zn) /\ zn.cond = "not_wp"
  <2> DEFINE new == [zn EXCEPT !.data[o] = v]
  <2>1. e = [d EXCEPT !.zone[z] = new]
    BY <1>3 DEF Write
  <2>2. /\ new.type = zn.type /\ new.cap = zn.cap /\ new.wp = zn.wp /\ new.cond = zn.cond
        /\ new.data = [zn.data EXCEPT ![o] = v]
        /\ new \in [type : {"cnv", "seq"}, cap : Nat \ {0}, wp : Nat, data : {new.data},
                    cond : Conds]
    BY <1>2
  <2> HIDE DEF new
  <2>3. new.data = [p \in 0 .. new.cap - 1 |-> new.data[p]]
    BY <1>2, <2>2
  <2>4. ZoneOK(new)
    BY <1>3, <2>2, <2>3 DEF ZoneOK, Cnv, SeqZone
  <2>5. Alike(d, e) /\ e.zone[z] = new /\ \A y \in Zones \ {z} : e.zone[y] = d.zone[y]
    BY <2>1, <2>2, <2>4, NewZone
  <2>6. QED
    BY <1>3, <2>2, <2>5 DEF Apart, Left, Wrote
<1>4. CASE ~(Cnv(zn) /\ zn.cond = "not_wp")
  <2> DEFINE c == IF zn.wp + 1 = zn.cap THEN "full"
                  ELSE IF zn.cond = "exp_open" THEN "exp_open" ELSE "imp_open"
             new == [type |-> zn.type, cap |-> zn.cap, wp |-> zn.wp + 1,
                     data |-> [zn.data EXCEPT ![o] = v], cond |-> c]
  <2>1. SeqZone(zn) /\ zn.cond \in Usable /\ o = zn.wp
    BY <1>4 DEF Write
  <2>2. PICK f \in WithSlot(d, z) :
          e = [f EXCEPT !.zone[z].data[o] = v, !.zone[z].wp = @ + 1, !.zone[z].cond = c]
    BY <1>4, <2>1 DEF Write
  <2>3. Alike(d, f) /\ f.zone[z] = zn /\ Apart(d, f, z)
    BY <2>2, SlotDevice
  <2>4. f \in [geom : {f.geom}, maxOpen : Nat, maxActive : Nat, zone : {f.zone}]
        /\ DOMAIN f.zone = Zones
    BY <2>3 DEF Alike, DeviceOK
  <2>5. /\ DOMAIN zn = {"type", "cap", "wp", "data", "cond"}
        /\ zn = [type |-> zn.type, cap |-> zn.cap, wp |-> zn.wp, data |-> zn.data,
                 cond |-> zn.cond]
    BY <1>2
  <2> HIDE DEF c
  <2>6. /\ e.zone = [f.zone EXCEPT ![z] = e.zone[z]] /\ e = [f EXCEPT !.zone = e.zone]
        /\ e.zone[z] = new
    <3>1. e.zone = [f.zone EXCEPT ![z] = e.zone[z]] /\ e = [f EXCEPT !.zone = e.zone]
      BY <2>2, <2>4
    <3>2. e.zone[z] = [f.zone[z] EXCEPT !.data[o] = v, !.wp = @ + 1, !.cond = c]
      BY <2>2, <2>4
    <3>3. [zn EXCEPT !.data[o] = v, !.wp = @ + 1, !.cond = c] = new
      <4> DEFINE written == [zn EXCEPT !.data[o] = v, !.wp = @ + 1, !.cond = c]
      <4>1. DOMAIN written = {"type", "cap", "wp", "data", "cond"}
        BY <2>5
      <4>2. /\ written.type = zn.type /\ written.cap = zn.cap /\ written.wp = zn.wp + 1
            /\ written.data = [zn.data EXCEPT ![o] = v] /\ written.cond = c
        BY <1>2
      <4>3. written = [k \in DOMAIN written |-> written[k]]
        OBVIOUS
      <4> HIDE DEF written
      <4>4. written = new
        BY <4>1, <4>2, <4>3
      <4>5. QED
        BY <4>4 DEF written
    <3>4. QED
      BY <2>3, <3>1, <3>2, <3>3
  <2>7. e = [f EXCEPT !.zone[z] = new]
    BY <2>6
  <2>8. c \in Conds
    BY DEF c, Conds
  <2>9. /\ new.type = zn.type /\ new.cap = zn.cap /\ new.wp = zn.wp + 1 /\ new.cond = c
        /\ new.data = [zn.data EXCEPT ![o] = v]
        /\ new \in [type : {"cnv", "seq"}, cap : Nat \ {0}, wp : Nat, data : {new.data},
                    cond : Conds]
    BY <1>2, <2>8
  <2> HIDE DEF new
  <2>10. new.data = [p \in 0 .. new.cap - 1 |-> new.data[p]]
    BY <1>2, <2>9
  <2>11. /\ new.wp <= new.cap /\ c \in {"full", "imp_open", "exp_open"}
         /\ c \in Usable => new.wp < new.cap
         /\ c = "full" => new.wp = new.cap
         /\ new.wp > 0
    BY <1>1, <1>2, <2>1, <2>9 DEF ZoneOK, Usable, c
  <2>12. \A p \in new.wp .. new.cap - 1 : new.data[p] = Zero
    <3> SUFFICES ASSUME NEW p \in zn.wp + 1 .. zn.cap - 1
                 PROVE  [zn.data EXCEPT ![o] = v][p] = Zero
      BY <2>9
    <3>1. p \in zn.wp .. zn.cap - 1 /\ p # o /\ p \in 0 .. zn.cap - 1
      BY <1>2, <2>1
    <3>2. zn.data[p] = Zero
      BY <1>1, <2>1, <3>1 DEF ZoneOK
    <3>3. QED
      BY <1>2, <3>1, <3>2
  <2>13. ZoneOK(new)
    BY <2>1, <2>9, <2>10, <2>11, <2>12 DEF ZoneOK, Cnv, SeqZone
  <2>14. DeviceOK(f, Zones) /\ f.zone[z].type = new.type /\ f.zone[z].cap = new.cap
    BY <2>3, <2>9 DEF Alike
  <2>15. Alike(f, e) /\ e.zone[z] = new /\ \A y \in Zones \ {z} : e.zone[y] = f.zone[y]
    BY <2>7, <2>13, <2>14, NewZone
  <2>16. Alike(d, e) /\ Apart(d, e, z)
    BY <2>3, <2>15, AlikeTrans DEF Apart
  <2>17. Wrote(zn, new, o, v)
    BY <2>1, <2>9 DEF Wrote, c
  <2>18. QED
    BY <2>15, <2>16, <2>17
<1>5. QED
  BY <1>3, <1>4

LEMMA OpenDevice ==
  ASSUME NEW d, DeviceOK(d, Zones), NEW z \in Zones, NEW e \in Open(d, z)
  PROVE  /\ Alike(d, e) /\ Apart(d, e, z)
         /\ d.zone[z].cond \in Usable /\ e.zone[z] = [d.zone[z] EXCEPT !.cond = "exp_open"]
<1> DEFINE new == [d.zone[z] EXCEPT !.cond = "exp_open"]
<1>1. d.zone[z].cond \in Usable /\ ZoneOK(d.zone[z]) /\ "exp_open" \in Conds
  BY DEF Open, DeviceOK, Conds
<1>2. PICK f \in WithSlot(d, z) : e = [f EXCEPT !.zone[z].cond = "exp_open"]
  BY DEF Open
<1>3. Alike(d, f) /\ f.zone[z] = d.zone[z] /\ Apart(d, f, z)
  BY <1>2, SlotDevice
<1>4. /\ ZoneOK(new) /\ new.type = f.zone[z].type /\ new.cap = f.zone[z].cap
  BY <1>1, <1>3, NewCond
<1>5. e = [f EXCEPT !.zone[z] = new]
  BY <1>2, <1>3
<1>6. DeviceOK(f, Zones)
  BY <1>3 DEF Alike
<1> HIDE DEF new
<1>7. Alike(f, e) /\ e.zone[z] = new /\ \A y \in Zones \ {z} : e.zone[y] = f.zone[y]
  BY <1>4, <1>5, <1>6, NewZone
<1>8. Alike(d, e) /\ Apart(d, e, z)
  BY <1>3, <1>7, AlikeTrans DEF Apart
<1>9. QED
  BY <1>1, <1>7, <1>8 DEF new

LEMMA CloseDevice ==
  ASSUME NEW d, DeviceOK(d, Zones), NEW z \in Zones, NEW e \in Close(d, z)
  PROVE  /\ Alike(d, e) /\ \A y \in Zones \ {z} : e.zone[y] = d.zone[y]
         /\ IsActive(d.zone[z]) /\ e.zone[z] = Closed(d.zone[z])
<1> DEFINE c == IF d.zone[z].wp = 0 THEN "empty" ELSE "closed"
           new == [d.zone[z] EXCEPT !.cond = c]
<1>1. e = [d EXCEPT !.zone[z] = Closed(@)] /\ IsActive(d.zone[z])
  BY DEF Close
<1>2. Closed(d.zone[z]) = new
  BY DEF Closed
<1>3. ZoneOK(d.zone[z]) /\ d.zone[z].cond \in Usable /\ d.zone[z].wp \in Nat
  BY <1>1, ZoneFields DEF DeviceOK, IsActive, IsOpen, Usable
<1>4. /\ c \in Conds /\ c \in {"empty", "closed"} /\ (c = "closed" => d.zone[z].wp > 0)
      /\ c = "empty" => d.zone[z].wp = 0
  BY <1>3 DEF Conds
<1> HIDE DEF c
<1>5. /\ ZoneOK(new) /\ new.type = d.zone[z].type /\ new.cap = d.zone[z].cap
  BY <1>3, <1>4, NewCond
<1>6. e = [d EXCEPT !.zone[z] = new]
  BY <1>1, <1>2
<1> HIDE DEF new
<1>7. Alike(d, e) /\ e.zone[z] = new /\ \A y \in Zones \ {z} : e.zone[y] = d.zone[y]
  BY <1>5, <1>6, NewZone
<1>8. QED
  BY <1>1, <1>2, <1>7

LEMMA FinishDevice ==
  ASSUME NEW d, DeviceOK(d, Zones), NEW z \in Zones, NEW e \in Finish(d, z)
  PROVE  /\ Alike(d, e) /\ Apart(d, e, z)
         /\ e.zone[z].data = d.zone[z].data
         /\ \/ d.zone[z].cond = "full" /\ e.zone[z] = d.zone[z]
            \/ d.zone[z].cond \in Usable /\ e.zone[z].cond = "full"
<1> DEFINE zn == d.zone[z]
           full == [zn EXCEPT !.cond = "full"]
           new == [full EXCEPT !.wp = zn.cap]
<1>1. CASE zn.cond = "full"
  <2>1. e = d
    BY <1>1 DEF Finish
  <2>2. QED
    BY <1>1, <2>1, AlikeSelf DEF Apart, Left
<1>2. CASE zn.cond # "full"
  <2>1. zn.cond \in Usable
    BY <1>2 DEF Finish
  <2>2. PICK f \in WithSlot(d, z) :
          e = [f EXCEPT !.zone[z].cond = "full", !.zone[z].wp = d.zone[z].cap]
    BY <1>2 DEF Finish
  <2>3. Alike(d, f) /\ f.zone[z] = zn /\ Apart(d, f, z)
    BY <2>2, SlotDevice
  <2>4. f \in [geom : {f.geom}, maxOpen : Nat, maxActive : Nat, zone : {f.zone}]
        /\ DOMAIN f.zone = Zones
    BY <2>3 DEF Alike, DeviceOK
  <2>5. /\ ZoneOK(zn)
        /\ zn \in [type : {"cnv", "seq"}, cap : Nat \ {0}, wp : Nat, data : {zn.data},
                   cond : Conds]
    BY DEF DeviceOK, ZoneOK
  <2>6. e.zone = [f.zone EXCEPT ![z] = new]
    <3> DEFINE g == [f EXCEPT !.zone[z] = full]
    <3>1. e = [g EXCEPT !.zone[z].wp = zn.cap]
      BY <2>2, <2>3
    <3>2. g.zone = [f.zone EXCEPT ![z] = full] /\ g.zone[z] = full /\ DOMAIN g.zone = Zones
      BY <2>4
    <3>3. e.zone = [g.zone EXCEPT ![z] = new]
      BY <2>4, <3>1, <3>2
    <3>4. QED
      BY <2>4, <3>2, <3>3
  <2>7. e = [f EXCEPT !.zone = e.zone]
    BY <2>2, <2>4
  <2>8. e = [f EXCEPT !.zone[z] = new]
    BY <2>4, <2>6, <2>7
  <2>9. /\ new.type = zn.type /\ new.cap = zn.cap /\ new.wp = zn.cap /\ new.cond = "full"
        /\ new.data = zn.data
        /\ new \in [type : {"cnv", "seq"}, cap : Nat \ {0}, wp : Nat, data : {new.data},
                    cond : Conds]
    BY <2>5 DEF Conds
  <2> HIDE DEF new
  <2>10. /\ new.data = [p \in 0 .. new.cap - 1 |-> new.data[p]]
         /\ SeqZone(new) /\ new.cap \in Nat
    BY <2>1, <2>5, <2>9 DEF ZoneOK, Cnv, SeqZone, Usable
  <2>11. ZoneOK(new)
    BY <2>9, <2>10 DEF ZoneOK, Cnv, SeqZone, Usable
  <2>12. DeviceOK(f, Zones) /\ f.zone[z].type = new.type /\ f.zone[z].cap = new.cap
    BY <2>3, <2>9 DEF Alike
  <2>13. Alike(f, e) /\ e.zone[z] = new /\ \A y \in Zones \ {z} : e.zone[y] = f.zone[y]
    BY <2>8, <2>11, <2>12, NewZone
  <2>14. Alike(d, e) /\ Apart(d, e, z)
    BY <2>3, <2>13, AlikeTrans DEF Apart
  <2>15. QED
    BY <2>1, <2>9, <2>13, <2>14
<1>3. QED
  BY <1>1, <1>2

LEMMA ResetDevice ==
  ASSUME NEW d, DeviceOK(d, Zones), NEW z \in Zones, NEW e \in Reset(d, z)
  PROVE  /\ Alike(d, e) /\ \A y \in Zones \ {z} : e.zone[y] = d.zone[y]
         /\ d.zone[z].cond \in Usable \cup {"full"} /\ e.zone[z].cond = "empty"
<1> DEFINE zn == d.zone[z]
           new == FreshZone("seq", zn.cap)
<1>1. /\ e = [d EXCEPT !.zone[z] = FreshZone("seq", @.cap)] /\ zn.cond \in Usable \cup {"full"}
      /\ ZoneOK(zn)
  BY DEF Reset, DeviceOK
<1>2. /\ zn.cap \in Nat \ {0} /\ zn.type = "seq"
  BY <1>1 DEF ZoneOK, Cnv, Usable
<1>3. /\ new.type = "seq" /\ new.cap = zn.cap /\ new.wp = 0 /\ new.cond = "empty"
      /\ new.data = [o \in 0 .. zn.cap - 1 |-> Zero]
      /\ new \in [type : {"cnv", "seq"}, cap : Nat \ {0}, wp : Nat, data : {new.data},
                  cond : Conds]
  BY <1>2 DEF FreshZone, Conds
<1>4. e = [d EXCEPT !.zone[z] = new]
  BY <1>1
<1> HIDE DEF new
<1>5. ZoneOK(new)
  <2>1. new.data = [p \in 0 .. new.cap - 1 |-> new.data[p]]
    BY <1>3
  <2>2. \A o \in new.wp .. new.cap - 1 : new.data[o] = Zero
    BY <1>2, <1>3
  <2>3. QED
    BY <1>2, <1>3, <2>1, <2>2 DEF ZoneOK, Cnv, SeqZone
<1>6. Alike(d, e) /\ e.zone[z] = new /\ \A y \in Zones \ {z} : e.zone[y] = d.zone[y]
  BY <1>2, <1>3, <1>4, <1>5, NewZone
<1>7. QED
  BY <1>1, <1>3, <1>6

Faults == {"rdonly", "offline"}

LEMMA FaultDevice ==
  ASSUME NEW d, DeviceOK(d, Zones), NEW z \in Zones, NEW c \in Faults
  PROVE  /\ Alike(d, Fault(d, z, c))
         /\ \A y \in Zones \ {z} : Fault(d, z, c).zone[y] = d.zone[y]
         /\ Fault(d, z, c).zone[z] = [d.zone[z] EXCEPT !.cond = c]
<1> DEFINE e == Fault(d, z, c)
<1> DEFINE new == [d.zone[z] EXCEPT !.cond = c]
<1>1. ZoneOK(d.zone[z]) /\ c \in Conds /\ c \in {"rdonly", "offline"}
  BY DEF DeviceOK, Conds, Faults
<1>2. ZoneOK(new) /\ new.type = d.zone[z].type /\ new.cap = d.zone[z].cap
  BY <1>1, NewCond
<1>3. e = [d EXCEPT !.zone[z] = new]
  BY DEF Fault
<1> HIDE DEF new, e
<1>4. Alike(d, e) /\ e.zone[z] = new /\ \A y \in Zones \ {z} : e.zone[y] = d.zone[y]
  BY <1>2, <1>3, NewZone
<1>5. QED
  BY <1>4 DEF new, e

-----------------------------------------------------------------------------
(* Type correctness.                                                       *)

Dumping == {"size", "dump", "info"}

\* The frame of the command that runs.
Framed ==
    /\ run \in [pc : Dumping \cup {"idle", "restore"}, pass : 0 .. 5, i : 0 .. NZ, o : Nat,
                lo : 0 .. NZ, hi : 0 .. NZ, zones : {run.zones}]
    /\ run.pc # "idle" =>
           <<run.lo, run.hi>> \in Ranges /\ run.lo <= run.i /\ run.i <= run.hi
    /\ run.pc \in Dumping => run.zones = ReportOf(snap.last) /\ result = "none"
    /\ run.pc \in {"dump", "info"} => data # Absent
    /\ run.pc = "restore" =>
           /\ info # Absent /\ data # Absent /\ result = "none" /\ run.pass \in 1 .. 5
           /\ run.lo = info.lo /\ run.hi = info.hi /\ run.zones = info.zones

\* What is in the files, and the devices of which they tell.
Filed ==
    /\ data # Absent => data \in [geom : {data.geom}, zone : {data.zone}]
    /\ info # Absent =>
           /\ info \in [geom : {info.geom}, lo : 0 .. NZ, hi : 0 .. NZ, zones : {info.zones}]
           /\ info.zones = ReportOf(snap.info)
    /\ snap \in [last : {snap.last}, info : {snap.info}]
    /\ DeviceOK(snap.last, Zones) /\ DeviceOK(snap.info, Zones) /\ DeviceOK(orig, Zones)
    /\ bound \in [host : Nat, dumps : Nat, tries : Nat]

TypeInv == TypeOK /\ Framed /\ Filed

LEMMA ZonesNat == /\ Zones \subseteq Nat /\ \A z \in Zones : z + 1 \in 0 .. NZ
                  /\ \A r \in Ranges : r[1] \in Zones /\ r[2] \in 0 .. NZ /\ r[1] < r[2]
                                       /\ r = <<r[1], r[2]>>
                  /\ \A i \in 0 .. NZ, j \in 0 .. NZ : i < j => i \in Zones
  BY DumpConstants DEF Zones, Ranges

\* The zones of a report are those of the device.
LEMMA Reported ==
  ASSUME NEW d, DeviceOK(d, Zones)
  PROVE  /\ DOMAIN ReportOf(d) = Zones
         /\ \A z \in Zones : /\ ReportOf(d)[z].type = d.zone[z].type
                             /\ ReportOf(d)[z].cap = d.zone[z].cap
                             /\ ReportOf(d)[z].cond = d.zone[z].cond
                             /\ ReportOf(d)[z].wp = d.zone[z].wp
                             /\ ZoneOK(d.zone[z])
  BY DEF DeviceOK, ReportOf, Descriptor

LEMMA HostDevice ==
  ASSUME DeviceOK(dev, Zones), NEW act \in HostActs, NEW e \in HostDevs(act)
  PROVE  \E z \in Zones : Alike(dev, e) /\ Apart(dev, e, z)
<1>1. CASE act = "write"
  <2>1. PICK z \in Zones : \E o \in 0 .. dev.zone[z].cap - 1 :
          e \in Write(dev, z, o, Content(z, o))
    BY <1>1 DEF HostDevs
  <2>2. QED
    BY <2>1, WriteDevice
<1>2. CASE act = "append"
  <2>1. PICK z \in Zones : e \in Write(dev, z, dev.zone[z].wp, Content(z, dev.zone[z].wp))
    BY <1>2 DEF HostDevs
  <2>2. QED
    BY <2>1, WriteDevice
<1>3. CASE act \in {"rdonly", "offline"}
  <2>1. PICK z \in Zones : e = Fault(dev, z, act)
    BY <1>3 DEF HostDevs
  <2>2. act \in Faults
    BY <1>3 DEF Faults
  <2>3. Alike(dev, Fault(dev, z, act))
    BY <2>2, FaultDevice
  <2>4. \A y \in Zones \ {z} : Fault(dev, z, act).zone[y] = dev.zone[y]
    BY DEF Fault, DeviceOK
  <2>5. \A y \in Zones \ {z} : e.zone[y] = dev.zone[y]
    BY <2>1, <2>4
  <2>6. Apart(dev, e, z)
    BY <2>5 DEF Apart, Left
  <2>7. QED
    BY <2>1, <2>3, <2>6
<1>4. CASE act \in {"open", "close", "finish", "reset"}
  <2>1. PICK z \in Zones : e \in ZoneCommand(dev, act, z)
    BY <1>4 DEF HostDevs
  <2>2. CASE act = "open"
    BY <2>1, <2>2, OpenDevice DEF ZoneCommand
  <2>3. CASE act = "close"
    BY <2>1, <2>3, CloseDevice DEF ZoneCommand, Apart, Left
  <2>4. CASE act = "finish"
    BY <2>1, <2>4, FinishDevice DEF ZoneCommand
  <2>5. CASE act = "reset"
    BY <2>1, <2>5, ResetDevice DEF ZoneCommand, Apart, Left
  <2>6. QED
    BY <1>4, <2>2, <2>3, <2>4, <2>5
<1>5. QED
  BY <1>1, <1>2, <1>3, <1>4 DEF HostActs

LEMMA RestoreDevice ==
  ASSUME DeviceOK(dev, Zones), run.i \in Zones, NEW e \in RestoreDevs
  PROVE  Alike(dev, e) /\ Apart(dev, e, run.i)
<1> DEFINE z == run.i
<1>1. CASE e \in Reset(dev, z) \cup Close(dev, z)
  BY <1>1, ResetDevice, CloseDevice DEF Apart, Left
<1>2. CASE \E v : e \in Write(dev, z, run.o, v)
  BY <1>2, WriteDevice
<1>3. CASE e \in Open(dev, z)
  BY <1>3, OpenDevice
<1>4. CASE e = dev
  BY <1>4, AlikeSelf DEF Apart, Left
<1>5. QED
  BY <1>1, <1>2, <1>3, <1>4 DEF RestoreDevs

LEMMA InitType == Init => TypeInv
<1> SUFFICES ASSUME Init PROVE TypeInv
  OBVIOUS
<1>1. DeviceOK(dev, Zones) /\ NZ \in Nat /\ HostOps \in Nat /\ MaxDumps \in Nat /\ Attempts \in Nat
  BY DumpConstants DEF Init
<1>2. TypeOK
  BY <1>1 DEF Init, TypeOK, Idle
<1>3. Framed
  BY <1>1 DEF Init, Framed, Idle, Dumping
<1>4. Filed
  BY <1>1 DEF Init, Filed
<1>5. QED
  BY <1>2, <1>3, <1>4 DEF TypeInv

\* A command that ends leaves no frame.
LEMMA EndType ==
  ASSUME run' = Idle
  PROVE  /\ Framed'
         /\ run'.i \in 0 .. NZ /\ run'.hi \in 0 .. NZ /\ run'.o \in Nat /\ run'.pass \in 0 .. 5
<1>1. NZ \in Nat
  BY DumpConstants
<1>2. QED
  BY <1>1 DEF Framed, Idle, Dumping

\* A frame of the right type suffices for TypeOK.
LEMMA FrameType ==
  ASSUME Framed'
  PROVE  run'.i \in 0 .. NZ /\ run'.hi \in 0 .. NZ /\ run'.o \in Nat /\ run'.pass \in 0 .. 5
  BY DEF Framed

LEMMA AbortType == TypeInv /\ Abort => TypeInv'
<1> SUFFICES ASSUME TypeInv, Abort PROVE TypeInv'
  OBVIOUS
<1>1. run' = Idle /\ result' \in {"failed", "aborted"}
      /\ UNCHANGED <<dev, data, info, bound, snap, orig>>
  BY DEF Abort, End
<1>2. QED
  BY <1>1, EndType DEF TypeInv, TypeOK, Filed

LEMMA DumpStartType ==
  ASSUME TypeInv, NEW r \in Ranges, DumpStart(r)
  PROVE  TypeInv'
<1>1. /\ bound.dumps > 0 /\ bound' = [bound EXCEPT !.dumps = @ - 1] /\ data' = Absent
      /\ snap' = [snap EXCEPT !.last = dev] /\ result' = "none"
      /\ run' = [Idle EXCEPT !.pc = "size", !.i = r[1], !.lo = r[1], !.hi = r[2],
                             !.zones = ReportOf(dev)]
      /\ UNCHANGED <<dev, info, orig>>
  BY DEF DumpStart
<1>2. r[1] \in 0 .. NZ /\ r[2] \in 0 .. NZ /\ r[1] <= r[2] /\ r = <<r[1], r[2]>>
  BY ZonesNat, DumpConstants DEF Zones
<1>3. /\ snap'.last = dev /\ snap'.info = snap.info
      /\ snap' \in [last : {snap'.last}, info : {snap'.info}]
  BY <1>1 DEF TypeInv, Filed
<1>4. /\ run'.pc = "size" /\ run'.i = r[1] /\ run'.lo = r[1] /\ run'.hi = r[2]
      /\ run'.zones = ReportOf(dev) /\ run'.o = 0 /\ run'.pass = 0
      /\ DOMAIN run' = {"pc", "pass", "i", "o", "lo", "hi", "zones"}
      /\ run' = [x \in DOMAIN run' |-> run'[x]]
    BY <1>1 DEF Idle
<1>9. run' \in [pc : Dumping \cup {"idle", "restore"}, pass : 0 .. 5, i : 0 .. NZ, o : Nat,
                lo : 0 .. NZ, hi : 0 .. NZ, zones : {run'.zones}]
  BY <1>2, <1>4 DEF Dumping
<1>5. Framed'
  BY <1>1, <1>2, <1>3, <1>4, <1>9 DEF Framed, Dumping
<1>6. Filed'
  <2>1. bound' \in [host : Nat, dumps : Nat, tries : Nat]
    BY <1>1 DEF TypeInv, Filed
  <2>2. QED
    BY <1>1, <1>3, <2>1 DEF TypeInv, TypeOK, Filed
<1>7. TypeOK'
  BY <1>1, <1>5, FrameType DEF TypeInv, TypeOK
<1>8. QED
  BY <1>5, <1>6, <1>7 DEF TypeInv

LEMMA DumpSizeType == TypeInv /\ DumpSize => TypeInv'
<1> SUFFICES ASSUME TypeInv, DumpSize PROVE TypeInv'
  OBVIOUS
<1>1. /\ run.pc = "size" /\ run' = [run EXCEPT !.pc = "dump"]
      /\ data' = [geom |-> dev.geom,
                  zone |-> [z \in Zones |-> [o \in 0 .. dev.zone[z].cap - 1 |-> Zero]]]
      /\ UNCHANGED <<dev, info, result, bound, snap, orig>>
  BY DEF DumpSize
<1>2. /\ data' \in [geom : {data'.geom}, zone : {data'.zone}] /\ DOMAIN data'.zone = Zones
      /\ data' # Absent
  BY <1>1 DEF Absent
<1>3. Framed'
  BY <1>1, <1>2 DEF TypeInv, Framed, Dumping
<1>4. QED
  BY <1>1, <1>2, <1>3, FrameType DEF TypeInv, TypeOK, Filed

LEMMA DumpZoneType == TypeInv /\ DumpZone => TypeInv'
<1> SUFFICES ASSUME TypeInv, DumpZone PROVE TypeInv'
  OBVIOUS
<1>1. /\ run.pc = "dump" /\ run.i < run.hi /\ UNCHANGED <<dev, info, result, bound, snap, orig>>
      /\ run' \in {NextZone(run), [run EXCEPT !.o = @ + 1]}
      /\ \/ data' = data
         \/ \E v : data' = [data EXCEPT !.zone[run.i][run.o] = v]
  BY DEF DumpZone
<1>2. /\ data # Absent /\ data \in [geom : {data.geom}, zone : {data.zone}]
      /\ DOMAIN data.zone = Zones
  BY <1>1 DEF TypeInv, TypeOK, Framed, Filed
<1>3. /\ data' \in [geom : {data'.geom}, zone : {data'.zone}] /\ DOMAIN data'.zone = Zones
      /\ data' # Absent
  <2>1. CASE data' = data
    BY <1>2, <2>1
  <2>2. CASE \E v : data' = [data EXCEPT !.zone[run.i][run.o] = v]
    BY <1>2, <2>2 DEF Absent
  <2>3. QED
    BY <1>1, <2>1, <2>2
<1>4. run.i + 1 \in 0 .. NZ /\ run.o + 1 \in Nat /\ run.i + 1 <= run.hi /\ run.lo <= run.i + 1
      /\ 0 \in Nat
  BY <1>1, ZonesNat DEF TypeInv, Framed
<1>5. Framed'
  BY <1>1, <1>3, <1>4 DEF TypeInv, Framed, NextZone, Dumping
<1>6. QED
  BY <1>1, <1>3, <1>5, FrameType DEF TypeInv, TypeOK, Filed

LEMMA DumpDataType == TypeInv /\ DumpData => TypeInv'
<1> SUFFICES ASSUME TypeInv, DumpData PROVE TypeInv'
  OBVIOUS
<1>1. /\ run.pc = "dump" /\ run' = [run EXCEPT !.pc = "info"] /\ info' = Absent
      /\ UNCHANGED <<dev, data, result, bound, snap, orig>>
  BY DEF DumpData
<1>2. Framed'
  BY <1>1 DEF TypeInv, Framed, Dumping
<1>3. QED
  BY <1>1, <1>2, FrameType DEF TypeInv, TypeOK, Filed

LEMMA DumpInfoType == TypeInv /\ DumpInfo => TypeInv'
<1> SUFFICES ASSUME TypeInv, DumpInfo PROVE TypeInv'
  OBVIOUS
<1>1. /\ run.pc = "info" /\ run' = Idle /\ result' = "dumped"
      /\ info' = [geom |-> dev.geom, lo |-> run.lo, hi |-> run.hi, zones |-> run.zones]
      /\ snap' = [snap EXCEPT !.info = snap.last]
      /\ UNCHANGED <<dev, data, bound, orig>>
  BY DEF DumpInfo, End
<1>2. /\ snap'.last = snap.last /\ snap'.info = snap.last
      /\ snap' \in [last : {snap'.last}, info : {snap'.info}]
  BY <1>1 DEF TypeInv, Filed
<1>3. /\ info'.lo = run.lo /\ info'.hi = run.hi /\ info'.zones = ReportOf(snap.last)
      /\ <<run.lo, run.hi>> \in Ranges /\ run.lo \in 0 .. NZ /\ run.hi \in 0 .. NZ
      /\ info' \in [geom : {info'.geom}, lo : 0 .. NZ, hi : 0 .. NZ, zones : {info'.zones}]
  BY <1>1 DEF TypeInv, Framed, Dumping
<1>4. DOMAIN info'.zones = Zones
  BY <1>3, Reported DEF TypeInv, Filed
<1>5. QED
  BY <1>1, <1>2, <1>3, <1>4, EndType DEF TypeInv, TypeOK, Filed

LEMMA RestoreStartType == TypeInv /\ RestoreStart => TypeInv'
<1> SUFFICES ASSUME TypeInv, RestoreStart PROVE TypeInv'
  OBVIOUS
<1>1. /\ bound.tries > 0 /\ bound' = [bound EXCEPT !.tries = @ - 1] /\ orig' = dev
      /\ UNCHANGED <<dev, data, info, snap>>
      /\ \/ /\ info # Absent /\ data # Absent /\ result' = "none"
            /\ run' = [pc |-> "restore", pass |-> 1, i |-> info.lo, o |-> 0,
                       lo |-> info.lo, hi |-> info.hi, zones |-> info.zones]
         \/ run' = Idle /\ result' = "refused"
  BY DEF RestoreStart, ZonesFit, DataFits, DumpRange, End
<1>2. Filed'
  <2>1. bound' \in [host : Nat, dumps : Nat, tries : Nat]
    BY <1>1 DEF TypeInv, Filed
  <2>2. QED
    BY <1>1, <2>1 DEF TypeInv, TypeOK, Filed
<1>3. CASE run' = Idle /\ result' = "refused"
  BY <1>1, <1>2, <1>3, EndType DEF TypeInv, TypeOK
<1>4. CASE run'.pc = "restore"
  <2>1. /\ info # Absent /\ data # Absent /\ result' = "none"
        /\ run' = [pc |-> "restore", pass |-> 1, i |-> info.lo, o |-> 0,
                   lo |-> info.lo, hi |-> info.hi, zones |-> info.zones]
    BY <1>1, <1>4 DEF Idle
  <2>2. /\ <<info.lo, info.hi>> \in Ranges /\ info.lo \in 0 .. NZ /\ info.hi \in 0 .. NZ
        /\ info.lo <= info.hi
    <3>1. <<info.lo, info.hi>> \in Ranges
      BY <2>1 DEF TypeInv, TypeOK
    <3>2. QED
      BY <3>1, ZonesNat, DumpConstants DEF Zones
  <2>3. Framed'
    BY <1>1, <2>1, <2>2 DEF Framed, Dumping
  <2>4. QED
    BY <1>1, <1>2, <2>1, <2>3, FrameType DEF TypeInv, TypeOK
<1>5. QED
  BY <1>1, <1>3, <1>4

LEMMA NextPassType == TypeInv /\ NextPass => TypeInv'
<1> SUFFICES ASSUME TypeInv, NextPass PROVE TypeInv'
  OBVIOUS
<1>1. /\ run.pc = "restore" /\ UNCHANGED <<dev, data, info, bound, snap, orig>>
      /\ \/ run.pass < 5 /\ run' = [run EXCEPT !.pass = @ + 1, !.i = run.lo] /\ result' = result
         \/ run' = Idle /\ result' = "restored"
  BY DEF NextPass, End
<1>2. CASE run' = Idle /\ result' = "restored"
  BY <1>1, <1>2, EndType DEF TypeInv, TypeOK, Filed
<1>3. CASE run.pass < 5 /\ run' = [run EXCEPT !.pass = @ + 1, !.i = run.lo] /\ result' = result
  <2>1. run.pass + 1 \in 1 .. 5
    BY <1>1, <1>3 DEF TypeInv, Framed
  <2>2. run.lo \in 0 .. NZ /\ run.lo <= run.lo /\ run.lo <= run.hi
    BY <1>1, DumpConstants DEF TypeInv, Framed
  <2>3. /\ run'.pc = "restore" /\ run'.pass = run.pass + 1 /\ run'.i = run.lo /\ run'.o = run.o
        /\ run'.lo = run.lo /\ run'.hi = run.hi /\ run'.zones = run.zones
        /\ run' \in [pc : Dumping \cup {"idle", "restore"}, pass : 0 .. 5, i : 0 .. NZ, o : Nat,
                     lo : 0 .. NZ, hi : 0 .. NZ, zones : {run'.zones}]
    <3>1. run \in [pc : Dumping \cup {"idle", "restore"}, pass : 0 .. 5, i : 0 .. NZ, o : Nat,
                   lo : 0 .. NZ, hi : 0 .. NZ, zones : {run.zones}]
      BY DEF TypeInv, Framed
    <3>2. run.pass + 1 \in 0 .. 5
      BY <2>1
    <3>3. PICK q \in 0 .. 5 : q = run.pass + 1
      BY <3>2
    <3>4. run' = [run EXCEPT !.pass = q, !.i = run.lo]
      BY <1>3, <3>3
    <3>5. QED
      BY ONLY <1>1, <2>2, <3>1, <3>3, <3>4
  <2>5. Framed'
    BY <1>1, <1>3, <2>1, <2>2, <2>3 DEF TypeInv, Framed, Dumping
  <2>6. QED
    BY <1>1, <1>3, <2>5, FrameType DEF TypeInv, TypeOK, Filed
<1>4. QED
  BY <1>1, <1>2, <1>3

LEMMA RestoreZoneType == TypeInv /\ RestoreZone => TypeInv'
<1> SUFFICES ASSUME TypeInv, RestoreZone PROVE TypeInv'
  OBVIOUS
<1>1. /\ run.pc = "restore" /\ run.i < run.hi /\ UNCHANGED <<data, info, bound, snap, orig>>
      /\ \/ /\ dev' = dev \/ dev' \in RestoreDevs
            /\ run' = NextZone(run) \/ run' = [run EXCEPT !.o = @ + 1]
            /\ result' = result
         \/ dev' = dev /\ run' = Idle /\ result' = "no_slot"
  BY DEF RestoreZone, End
<1>2. run.i \in Zones
  BY <1>1, ZonesNat DEF TypeInv, Framed
<1>3. DeviceOK(dev', Zones)
  BY <1>1, <1>2, RestoreDevice DEF TypeInv, TypeOK, Alike
<1>4. CASE run' = Idle /\ result' = "no_slot"
  BY <1>1, <1>3, <1>4, EndType DEF TypeInv, TypeOK, Filed
<1>5. CASE /\ run' = NextZone(run) \/ run' = [run EXCEPT !.o = @ + 1]
           /\ result' = result
  <2>1. run.i + 1 \in 0 .. NZ /\ run.o + 1 \in Nat /\ run.i + 1 <= run.hi /\ run.lo <= run.i + 1
        /\ 0 \in Nat
    BY <1>1, ZonesNat DEF TypeInv, Framed
  <2>2. Framed'
    BY <1>1, <1>5, <2>1 DEF TypeInv, Framed, NextZone, Dumping
  <2>3. QED
    BY <1>1, <1>3, <1>5, <2>2, FrameType DEF TypeInv, TypeOK, Filed
<1>6. QED
  BY <1>1, <1>4, <1>5

LEMMA HostType == TypeInv /\ Host => TypeInv'
<1> SUFFICES ASSUME TypeInv, Host PROVE TypeInv'
  OBVIOUS
<1>1. /\ bound.host > 0 /\ bound' = [bound EXCEPT !.host = @ - 1] /\ result' = "none"
      /\ UNCHANGED <<data, info, run, snap, orig>>
      /\ \E act \in HostActs : dev' \in HostDevs(act)
  BY DEF Host, HostActing
<1>2. DeviceOK(dev', Zones)
  BY <1>1, HostDevice DEF TypeInv, TypeOK, Alike
<1>3. Filed'
  <2>1. bound' \in [host : Nat, dumps : Nat, tries : Nat]
    BY <1>1 DEF TypeInv, Filed
  <2>2. QED
    BY <1>1, <2>1 DEF TypeInv, Filed
<1>4. Framed'
  BY <1>1 DEF TypeInv, Framed
<1>5. QED
  BY <1>1, <1>2, <1>3, <1>4 DEF TypeInv, TypeOK

LEMMA AttachType ==
  ASSUME TypeInv, NEW d \in Devices, Attach(d)
  PROVE  TypeInv'
<1>1. /\ run.pc = "idle" /\ dev' = d /\ result' = "none"
      /\ UNCHANGED <<data, info, run, bound, snap, orig>> /\ DeviceOK(d, Zones)
  BY DumpConstants DEF Attach
<1>2. Framed'
  BY <1>1 DEF TypeInv, Framed, Dumping
<1>3. QED
  BY <1>1, <1>2 DEF TypeInv, TypeOK, Filed

LEMMA StepType == TypeInv /\ [Next]_vars => TypeInv'
<1> SUFFICES ASSUME TypeInv, [Next]_vars PROVE TypeInv'
  OBVIOUS
<1>1. CASE Command
  BY <1>1, AbortType, DumpStartType, DumpSizeType, DumpZoneType, DumpDataType, DumpInfoType,
     RestoreStartType, NextPassType, RestoreZoneType DEF Command
<1>2. CASE Host
  BY <1>2, HostType
<1>3. CASE \E d \in Devices : Attach(d)
  BY <1>3, AttachType
<1>4. CASE UNCHANGED vars
  BY <1>4 DEF vars, TypeInv, TypeOK, Framed, Filed
<1>5. QED
  BY <1>1, <1>2, <1>3, <1>4 DEF Next

LEMMA AlwaysTyped == Spec => []TypeInv
  BY InitType, StepType, PTL DEF Spec

\* Whatever the commands, other programs and faults do in any order, the write
\* pointer, the data and the condition of every zone of the device go together,
\* the frames of zbd_dump and zbd_restore stay inside the device, and
\* an information file that is accepted names a range of it.
THEOREM DumpTyped == Spec => []TypeOK
  BY AlwaysTyped, PTL DEF TypeInv

-----------------------------------------------------------------------------
(* Outside the range of the dump.                                          *)

\* A zone that loses its slot keeps its data.
LEMMA LeftData ==
  ASSUME NEW d, DeviceOK(d, Zones), NEW e, NEW z, Apart(d, e, z), NEW y \in Zones \ {z}
  PROVE  SameData(e.zone[y], d.zone[y]) /\ e.zone[y].type = d.zone[y].type
<1>1. Left(d.zone[y], e.zone[y]) /\ ZoneOK(d.zone[y])
  BY DEF Apart, DeviceOK
<1>2. d.zone[y] \in [type : {"cnv", "seq"}, cap : Nat \ {0}, wp : Nat,
                     data : {d.zone[y].data}, cond : Conds]
  BY <1>1 DEF ZoneOK
<1>3. QED
  BY <1>1, <1>2 DEF Left, SameData

LEMMA InitOutside == Init => OutsideUntouched
  BY DEF Init, Idle, OutsideUntouched

LEMMA StepOutside == TypeInv /\ OutsideUntouched /\ [Next]_vars => OutsideUntouched'
<1> SUFFICES ASSUME TypeInv, OutsideUntouched, [Next]_vars PROVE OutsideUntouched'
  OBVIOUS
<1> DEFINE Same(d) == \A z \in Zones : ~InRange(z) => SameData(d.zone[z], orig.zone[z])
<1>1. CASE Abort
  BY <1>1 DEF Abort, End, Idle, OutsideUntouched, InRange
<1>2. CASE (\E r \in Ranges : DumpStart(r)) \/ DumpInfo
  <2>1. run'.pc # "restore" /\ result' \in {"none", "dumped"}
    <3>1. CASE DumpInfo
      BY <3>1 DEF DumpInfo, End, Idle
    <3>2. CASE \E r \in Ranges : DumpStart(r)
      <4>1. PICK r \in Ranges : DumpStart(r)
        BY <3>2
      <4>2. /\ result' = "none"
            /\ run' = [Idle EXCEPT !.pc = "size", !.i = r[1], !.lo = r[1], !.hi = r[2],
                                   !.zones = ReportOf(dev)]
        BY <4>1 DEF DumpStart
      <4>3. QED
        BY <4>2 DEF Idle
    <3>3. QED
      BY <1>2, <3>1, <3>2
  <2>2. QED
    BY <2>1 DEF OutsideUntouched
<1>3. CASE DumpSize \/ DumpZone \/ DumpData
  <2>1. run.pc \in Dumping /\ result' = result /\ run'.pc # "restore"
    BY <1>3 DEF DumpSize, DumpZone, DumpData, Dumping, TypeInv, Framed, NextZone
  <2>2. result = "none"
    BY <2>1 DEF TypeInv, Framed
  <2>3. QED
    BY <2>1, <2>2 DEF OutsideUntouched
<1>4. CASE RestoreStart
  BY <1>4 DEF RestoreStart, OutsideUntouched, InRange, SameData
<1>5. CASE NextPass
  BY <1>5 DEF NextPass, OutsideUntouched, InRange
<1>6. CASE RestoreZone
  <2>1. /\ run.pc = "restore" /\ run.i < run.hi /\ info' = info /\ orig' = orig
        /\ dev' = dev \/ dev' \in RestoreDevs
    BY <1>6 DEF RestoreZone
  <2>2. Same(dev) /\ run.i \in Zones
    BY <2>1, ZonesNat DEF OutsideUntouched, TypeInv, Framed
  <2>3. CASE dev' = dev
    BY <2>1, <2>2, <2>3 DEF OutsideUntouched, InRange
  <2>4. CASE dev' \in RestoreDevs
    <3>1. Apart(dev, dev', run.i) /\ DeviceOK(dev, Zones)
      BY <2>2, <2>4, RestoreDevice DEF TypeInv, TypeOK
    <3>2. \A z \in Zones : ~InRange(z) => z # run.i
      BY <2>1 DEF InRange, TypeInv, Framed
    <3>3. \A z \in Zones \ {run.i} : SameData(dev'.zone[z], dev.zone[z])
      BY <3>1, LeftData
    <3>4. Same(dev')
      BY <2>2, <3>2, <3>3 DEF SameData
    <3>5. QED
      BY <2>1, <3>4 DEF OutsideUntouched, InRange
  <2>5. QED
    BY <2>1, <2>3, <2>4
<1>7. CASE Host
  <2>1. run' = run /\ result' = "none" /\ run.pc # "restore"
    BY <1>7 DEF Host, HostActing
  <2>2. QED
    BY <2>1 DEF OutsideUntouched
<1>8. CASE \E d \in Devices : Attach(d)
  BY <1>8 DEF Attach, OutsideUntouched
<1>9. CASE UNCHANGED vars
  BY <1>9 DEF vars, OutsideUntouched, InRange
<1>10. QED
  BY <1>1, <1>2, <1>3, <1>4, <1>5, <1>6, <1>7, <1>8, <1>9 DEF Next, Command

\* A restore, finished, failed, killed or still running, has changed neither the
\* data nor the write pointer of a zone outside the range of the dump, although
\* each of its writes and opens may make the device close a zone there.
THEOREM RestoreStaysInRange == Spec => []OutsideUntouched
<1>1. TypeInv /\ OutsideUntouched /\ [Next]_vars => (TypeInv /\ OutsideUntouched)'
  BY StepType, StepOutside
<1>2. QED
  BY InitType, InitOutside, <1>1, PTL DEF Spec

-----------------------------------------------------------------------------
(* What the data file holds.                                               *)

\* One dump is written under the prefix, and meanwhile no other program writes
\* conventional zones or resets; a transfer is one system call.
Exclusive == ~ShortIO /\ MaxDumps <= 1 /\ DuringDump \cap {"write", "reset"} = {}

\* A zone that has only been appended to, or that failed.
Grown(zn, new) ==
    /\ new.type = zn.type /\ new.cap = zn.cap
    /\ Cnv(zn) => new.data = zn.data
    /\ SeqZone(zn) =>
           /\ new.wp >= zn.wp
           /\ zn.cond \notin Usable => new.cond \notin Usable /\ new.data = zn.data
           /\ \A o \in 0 .. zn.wp - 1 : new.data[o] = zn.data[o]

\* A zone of which the chunks that a dump copies are as they were when it was listed.
Still(zn, old) ==
    /\ zn.type = old.type /\ zn.cap = old.cap
    /\ Cnv(old) => zn.data = old.data
    /\ SeqZone(old) =>
           /\ zn.wp >= old.wp
           /\ old.cond = "full" => zn.cond \notin Usable
           /\ \A o \in 0 .. CopyEnd(old) - 1 : zn.data[o] = old.data[o]

\* How far the dump that runs has copied zone z.
CopiedTo(z) ==
    IF z < run.i THEN CopyEnd(run.zones[z]) ELSE IF z = run.i THEN run.o ELSE 0

Copied(z) ==
    run.lo <= z /\ z < run.hi /\ run.zones[z].cond # "offline" =>
        \A o \in 0 .. CopyEnd(run.zones[z]) - 1 :
            o < CopiedTo(z) => data.zone[z][o] = snap.last.zone[z].data[o]

Spooled ==
    /\ bound.dumps <= 1
    /\ info # Absent \/ run.pc \in Dumping => bound.dumps = 0
    /\ run.pc \in Dumping =>
           info = Absent /\ \A z \in Zones : Still(dev.zone[z], snap.last.zone[z])
    /\ run.pc \in {"dump", "info"} => \A z \in Zones :
           /\ DOMAIN data.zone[z] = 0 .. snap.last.zone[z].cap - 1
           /\ Copied(z)
    /\ run.pc = "size" => run.i = run.lo /\ run.o = 0
    /\ run.pc = "info" => run.i = run.hi

CopyInv == Spooled /\ InfoDescribesData

LEMMA GrownSelf ==
  ASSUME NEW zn, ZoneOK(zn)
  PROVE  Grown(zn, zn)
  BY ZoneFields DEF Grown

LEMMA LeftGrown ==
  ASSUME NEW zn, ZoneOK(zn), NEW new, Left(zn, new)
  PROVE  Grown(zn, new)
<1>1. zn \in [type : {"cnv", "seq"}, cap : Nat \ {0}, wp : Nat, data : {zn.data}, cond : Conds]
  BY DEF ZoneOK
<1>2. CASE new = zn
  BY <1>2, GrownSelf
<1>3. CASE zn.cond = "imp_open" /\ new = [zn EXCEPT !.cond = "closed"]
  BY <1>1, <1>3 DEF Grown, Usable
<1>4. QED
  BY <1>2, <1>3 DEF Left

\* Another condition, and nothing else.
LEMMA CondGrown ==
  ASSUME NEW zn, ZoneOK(zn), NEW c, zn.cond \in Usable \/ c \notin Usable
  PROVE  Grown(zn, [zn EXCEPT !.cond = c])
<1>1. zn \in [type : {"cnv", "seq"}, cap : Nat \ {0}, wp : Nat, data : {zn.data}, cond : Conds]
  BY DEF ZoneOK
<1>2. QED
  BY <1>1 DEF Grown

\* A write at the write pointer, and a finish.
LEMMA WroteGrown ==
  ASSUME NEW zn, ZoneOK(zn), SeqZone(zn), NEW new, NEW o, NEW v, Wrote(zn, new, o, v),
         new.type = zn.type, new.cap = zn.cap
  PROVE  Grown(zn, new)
<1>1. /\ zn.cond \in Usable /\ o = zn.wp /\ new.wp = zn.wp + 1 /\ zn.wp \in Nat
      /\ new.data = [zn.data EXCEPT ![o] = v] /\ ~Cnv(zn)
  BY ZoneFields DEF Wrote, Cnv, SeqZone
<1>2. \A p \in 0 .. zn.wp - 1 : new.data[p] = zn.data[p]
  <2> SUFFICES ASSUME NEW p \in 0 .. zn.wp - 1 PROVE new.data[p] = zn.data[p]
    OBVIOUS
  <2>1. p # o /\ p \in DOMAIN zn.data
    BY <1>1, ZoneFields DEF ZoneOK, SeqZone
  <2>2. QED
    BY <1>1, <2>1
<1>3. QED
  BY <1>1, <1>2 DEF Grown

LEMMA FinishGrown ==
  ASSUME NEW zn, ZoneOK(zn), NEW new, ZoneOK(new), new.data = zn.data, new.cond = "full",
         new.type = zn.type, new.cap = zn.cap
  PROVE  Grown(zn, new)
<1>1. SeqZone(zn) => new.wp >= zn.wp
  BY ZoneFields DEF ZoneOK, SeqZone
<1>2. QED
  BY <1>1 DEF Grown, Usable

\* What other programs do during a dump.
LEMMA HostGrown ==
  ASSUME DeviceOK(dev, Zones), NEW act \in HostActs \ {"write", "reset"},
         NEW e \in HostDevs(act), NEW z \in Zones
  PROVE  Grown(dev.zone[z], e.zone[z])
<1> DEFINE zn == dev.zone[z]
<1>1. ZoneOK(zn)
  BY DEF DeviceOK
<1>2. ASSUME NEW y \in Zones, y # z, Apart(dev, e, y)
      PROVE  Grown(zn, e.zone[z])
  BY <1>1, <1>2, LeftGrown DEF Apart
<1>3. CASE act = "append"
  <2>1. PICK y \in Zones : SeqZone(dev.zone[y])
                           /\ e \in Write(dev, y, dev.zone[y].wp, Content(y, dev.zone[y].wp))
    BY <1>3 DEF HostDevs
  <2>2. /\ Alike(dev, e) /\ Apart(dev, e, y)
        /\ Wrote(dev.zone[y], e.zone[y], dev.zone[y].wp, Content(y, dev.zone[y].wp))
    BY <2>1, WriteDevice
  <2>3. CASE y = z
    <3>1. e.zone[z].type = zn.type /\ e.zone[z].cap = zn.cap
      BY <2>2 DEF Alike
    <3>2. QED
      BY <1>1, <2>1, <2>2, <2>3, <3>1, WroteGrown
  <2>4. QED
    BY <1>2, <2>2, <2>3
<1>4. CASE act \in {"rdonly", "offline"}
  <2>1. PICK y \in Zones : e = Fault(dev, y, act)
    BY <1>4 DEF HostDevs
  <2> DEFINE f == Fault(dev, y, act)
  <2>2. /\ \A x \in Zones \ {y} : f.zone[x] = dev.zone[x]
        /\ f.zone[y] = [dev.zone[y] EXCEPT !.cond = act]
    <3>1. act \in Faults
      BY <1>4 DEF Faults
    <3>2. QED
      BY <3>1, FaultDevice
  <2>3. act \notin Usable
    BY <1>4 DEF Usable
  <2>4. CASE y = z
    <3>1. Grown(zn, [zn EXCEPT !.cond = act])
      BY <1>1, <2>3, CondGrown
    <3>2. QED
      BY <2>1, <2>2, <2>4, <3>1
  <2>5. CASE y # z
    BY <1>1, <2>1, <2>2, <2>5, GrownSelf
  <2>6. QED
    BY <2>4, <2>5
<1>5. CASE act = "open"
  <2>1. PICK y \in Zones : e \in Open(dev, y)
    BY <1>5 DEF HostDevs, ZoneCommand
  <2>2. /\ Apart(dev, e, y) /\ dev.zone[y].cond \in Usable
        /\ e.zone[y] = [dev.zone[y] EXCEPT !.cond = "exp_open"]
    BY <2>1, OpenDevice
  <2>3. CASE y = z
    <3>1. Grown(zn, [zn EXCEPT !.cond = "exp_open"])
      BY <1>1, <2>2, <2>3, CondGrown
    <3>2. QED
      BY <2>2, <2>3, <3>1
  <2>4. QED
    BY <1>2, <2>2, <2>3
<1>6. CASE act = "close"
  <2>1. PICK y \in Zones : e \in Close(dev, y)
    BY <1>6 DEF HostDevs, ZoneCommand
  <2>2. /\ \A x \in Zones \ {y} : e.zone[x] = dev.zone[x]
        /\ IsActive(dev.zone[y]) /\ e.zone[y] = Closed(dev.zone[y])
    BY <2>1, CloseDevice
  <2>3. CASE y = z
    <3> DEFINE c == IF zn.wp = 0 THEN "empty" ELSE "closed"
    <3>1. e.zone[z] = [zn EXCEPT !.cond = c] /\ zn.cond \in Usable
      BY <2>2, <2>3 DEF Closed, IsActive, IsOpen, Usable
    <3> HIDE DEF c
    <3>2. Grown(zn, [zn EXCEPT !.cond = c])
      BY <1>1, <3>1, CondGrown
    <3>3. QED
      BY <3>1, <3>2
  <2>4. CASE y # z
    BY <1>1, <2>2, <2>4, GrownSelf
  <2>5. QED
    BY <2>3, <2>4
<1>7. CASE act = "finish"
  <2>1. PICK y \in Zones : e \in Finish(dev, y)
    BY <1>7 DEF HostDevs, ZoneCommand
  <2>2. /\ Alike(dev, e) /\ Apart(dev, e, y)
        /\ e.zone[y].data = dev.zone[y].data
        /\ \/ dev.zone[y].cond = "full" /\ e.zone[y] = dev.zone[y]
           \/ dev.zone[y].cond \in Usable /\ e.zone[y].cond = "full"
    BY <2>1, FinishDevice
  <2>3. CASE y = z
    <3>1. ZoneOK(e.zone[z]) /\ e.zone[z].type = zn.type /\ e.zone[z].cap = zn.cap
      BY <2>2 DEF Alike, DeviceOK
    <3>2. CASE e.zone[z].cond = "full"
      BY <1>1, <2>2, <2>3, <3>1, <3>2, FinishGrown
    <3>3. QED
      BY <2>2, <2>3, <3>2
  <2>4. QED
    BY <1>2, <2>2, <2>3
<1>8. QED
  BY <1>3, <1>4, <1>5, <1>6, <1>7 DEF HostActs

\* What has only grown is still as it was listed.
LEMMA GrownStill ==
  ASSUME NEW zn, ZoneOK(zn), NEW new, ZoneOK(new), NEW old, ZoneOK(old),
         Grown(zn, new), Still(zn, old)
  PROVE  Still(new, old)
<1>1. /\ zn.wp \in Nat /\ new.wp \in Nat /\ old.wp \in Nat /\ old.cap \in Nat
      /\ new.type = zn.type /\ zn.type = old.type /\ new.cap = old.cap
  BY ZoneFields DEF Grown, Still
<1>2. CASE Cnv(old)
  BY <1>1, <1>2 DEF Grown, Still, Cnv, SeqZone
<1>3. CASE SeqZone(old)
  <2>1. SeqZone(zn) /\ ~Cnv(old)
    BY <1>1, <1>3 DEF SeqZone, Cnv
  <2>2. new.wp >= zn.wp /\ zn.wp >= old.wp
    BY <1>3, <2>1 DEF Grown, Still
  <2>3. CASE old.cond = "full"
    BY <1>1, <1>3, <2>1, <2>2, <2>3 DEF Grown, Still
  <2>4. CASE old.cond # "full"
    <3>1. CopyEnd(old) = old.wp
      BY <1>3, <2>4 DEF CopyEnd
    <3>2. \A o \in 0 .. old.wp - 1 : o \in 0 .. zn.wp - 1
      BY <1>1, <2>2
    <3>3. QED
      BY <1>1, <1>3, <2>1, <2>2, <2>4, <3>1, <3>2 DEF Grown, Still
  <2>5. QED
    BY <2>3, <2>4
<1>4. QED
  BY <1>2, <1>3, ZoneFields DEF Cnv, SeqZone

LEMMA StillSelf ==
  ASSUME NEW zn, ZoneOK(zn)
  PROVE  Still(zn, zn)
  BY ZoneFields DEF Still, ZoneOK, SeqZone, Usable

\* The zones that a dump works on are those that it listed.
LEMMA Listed ==
  ASSUME TypeInv, run.pc \in Dumping, NEW z \in Zones
  PROVE  /\ CopyEnd(run.zones[z]) = CopyEnd(snap.last.zone[z])
         /\ CopyEnd(run.zones[z]) \in 0 .. snap.last.zone[z].cap
         /\ run.zones[z].cond = snap.last.zone[z].cond
         /\ ZoneOK(snap.last.zone[z])
<1>1. /\ run.zones = ReportOf(snap.last) /\ DeviceOK(snap.last, Zones)
  BY DEF TypeInv, Framed, Filed
<1> DEFINE zn == run.zones[z]  old == snap.last.zone[z]
<1>2. zn.type = old.type /\ zn.cap = old.cap /\ zn.cond = old.cond /\ zn.wp = old.wp /\ ZoneOK(old)
  BY <1>1, Reported
<1>3. /\ old.cap \in Nat /\ old.wp \in Nat /\ (SeqZone(old) => old.wp <= old.cap)
  BY <1>2 DEF ZoneOK
<1>4. QED
  BY <1>2, <1>3 DEF CopyEnd, SeqZone

LEMMA InitCopy == Exclusive /\ Init => CopyInv
<1> SUFFICES ASSUME Exclusive, Init PROVE CopyInv
  OBVIOUS
<1>1. info = Absent /\ run.pc = "idle" /\ bound.dumps = MaxDumps
  BY DEF Init, Idle
<1>2. QED
  BY <1>1 DEF CopyInv, Spooled, InfoDescribesData, Exclusive, Dumping

\* A step that leaves the files, their bound and what they were made of alone.
LEMMA SameFiles ==
  ASSUME CopyInv, UNCHANGED <<data, info, snap>>, bound'.dumps = bound.dumps,
         run'.pc \notin Dumping
  PROVE  CopyInv'
  BY DEF CopyInv, Spooled, InfoDescribesData, InRange, Dumping

LEMMA StartCopy ==
  ASSUME Exclusive, TypeInv, CopyInv, NEW r \in Ranges, DumpStart(r)
  PROVE  CopyInv'
<1>1. /\ bound.dumps > 0 /\ bound' = [bound EXCEPT !.dumps = @ - 1] /\ UNCHANGED <<dev, info>>
      /\ run'.pc = "size" /\ run'.i = run'.lo /\ run'.o = 0 /\ snap' = [snap EXCEPT !.last = dev]
  BY DEF DumpStart, Idle
<1>2. bound \in [host : Nat, dumps : Nat, tries : Nat] /\ bound.dumps <= 1
  BY DEF TypeInv, Filed, CopyInv, Spooled
<1>3. info = Absent /\ bound'.dumps = 0 /\ info' = Absent
  BY <1>1, <1>2 DEF CopyInv, Spooled
<1>4. snap'.last = dev
  BY <1>1 DEF TypeInv, Filed
<1>5. \A z \in Zones : Still(dev'.zone[z], snap'.last.zone[z])
  BY <1>1, <1>4, StillSelf DEF TypeInv, TypeOK, DeviceOK
<1>6. QED
  BY <1>1, <1>3, <1>5 DEF CopyInv, Spooled, InfoDescribesData, Dumping

LEMMA SizeCopy ==
  ASSUME TypeInv, CopyInv, DumpSize
  PROVE  CopyInv'
<1>1. /\ run.pc = "size" /\ run' = [run EXCEPT !.pc = "dump"]
      /\ data' = [geom |-> dev.geom,
                  zone |-> [z \in Zones |-> [o \in 0 .. dev.zone[z].cap - 1 |-> Zero]]]
      /\ UNCHANGED <<dev, info, result, bound, snap, orig>>
  BY DEF DumpSize
<1>2. /\ info = Absent /\ bound.dumps = 0 /\ bound.dumps <= 1
      /\ \A z \in Zones : Still(dev.zone[z], snap.last.zone[z])
  BY <1>1 DEF CopyInv, Spooled, Dumping
<1>3. /\ run'.i = run.lo /\ run'.lo = run.lo /\ run'.o = 0 /\ run'.pc = "dump" /\ run.lo \in Nat
      /\ run'.hi = run.hi /\ run'.zones = run.zones
  BY <1>1, DumpConstants DEF TypeInv, Framed, CopyInv, Spooled
<1>4. ASSUME NEW z \in Zones
      PROVE  DOMAIN data'.zone[z] = 0 .. snap'.last.zone[z].cap - 1 /\ Copied(z)'
  <2>1. DOMAIN data'.zone[z] = 0 .. snap'.last.zone[z].cap - 1
    BY <1>1, <1>2 DEF Still
  <2>2. run'.lo <= z => ~(z < run'.i)
    BY <1>3, ZonesNat
  <2>3. Copied(z)'
    BY <1>3, <2>2 DEF Copied, CopiedTo
  <2>4. QED
    BY <2>1, <2>3
<1>5. QED
  BY <1>1, <1>2, <1>3, <1>4 DEF CopyInv, Spooled, InfoDescribesData, Dumping

LEMMA ZoneCopy ==
  ASSUME Exclusive, TypeInv, CopyInv, DumpZone
  PROVE  CopyInv'
<1> DEFINE i == run.i  o == run.o  zn == run.zones[i]  old == snap.last.zone[i]
<1>1. /\ run.pc = "dump" /\ i < run.hi /\ UNCHANGED <<dev, info, result, bound, snap, orig>>
      /\ \/ /\ zn.cond = "offline" \/ o >= CopyEnd(zn)
            /\ run' = NextZone(run) /\ data' = data
         \/ /\ zn.cond # "offline" /\ o < CopyEnd(zn)
            /\ data' = [data EXCEPT !.zone[run.i][run.o] = dev.zone[run.i].data[run.o]]
            /\ run' = [run EXCEPT !.o = @ + 1]
  <2>1. i \in Zones /\ o \in Nat /\ run.pc \in Dumping
    BY ZonesNat DEF DumpZone, TypeInv, Framed, Dumping
  <2>2. CopyEnd(zn) \in Nat
    <3>1. CopyEnd(zn) \in 0 .. old.cap
      BY <2>1, Listed
    <3>2. QED
      BY <3>1
  <2>3. (~(o >= CopyEnd(zn))) => o < CopyEnd(zn)
    BY <2>1, <2>2
  <2>4. QED
    BY <2>3 DEF DumpZone, Moved, Exclusive
<1>2. /\ i \in Zones /\ o \in Nat /\ run.pc \in Dumping /\ run.lo <= i /\ run.lo \in Nat
  BY <1>1, ZonesNat, DumpConstants DEF TypeInv, Framed, Dumping
<1>3. /\ info = Absent /\ bound.dumps = 0
      /\ \A z \in Zones : Still(dev.zone[z], snap.last.zone[z])
      /\ \A z \in Zones : DOMAIN data.zone[z] = 0 .. snap.last.zone[z].cap - 1 /\ Copied(z)
  BY <1>1, <1>2 DEF CopyInv, Spooled
<1>4. /\ run'.pc = "dump" /\ run'.lo = run.lo /\ run'.hi = run.hi /\ run'.zones = run.zones
  BY <1>1 DEF TypeInv, Framed, NextZone
<1>5. ASSUME NEW z \in Zones
      PROVE  DOMAIN data'.zone[z] = 0 .. snap.last.zone[z].cap - 1 /\ Copied(z)'
  <2>1. z \in Nat /\ i \in Nat
    BY <1>2, ZonesNat
  <2>2. CASE /\ zn.cond = "offline" \/ o >= CopyEnd(zn)
             /\ run' = NextZone(run) /\ data' = data
    <3>1. run'.i = i + 1 /\ run'.o = 0
      BY <2>2 DEF TypeInv, Framed, NextZone
    <3>2. CASE z = i
      <4> SUFFICES ASSUME zn.cond # "offline", run.lo <= i, i < run.hi,
                          NEW p \in 0 .. CopyEnd(zn) - 1
                   PROVE  data.zone[i][p] = old.data[p]
        BY <1>1, <1>3, <1>4, <2>2, <3>2 DEF Copied
      <4>1. CopyEnd(zn) \in Nat
        <5>1. CopyEnd(zn) \in 0 .. old.cap
          BY <1>2, Listed
        <5>2. QED
          BY <5>1
      <4>2. p < o
        BY <1>2, <2>2, <4>1
      <4>3. CopiedTo(i) = o /\ Copied(i)
        BY <1>2, <1>3, <2>1 DEF CopiedTo
      <4>4. QED
        BY <4>2, <4>3 DEF Copied
    <3>3. CASE z # i
      <4>1. z < run'.i => z < i
        BY <2>1, <3>1, <3>3
      <4>2. QED
        BY <1>1, <1>3, <1>4, <2>2, <3>1, <4>1 DEF Copied, CopiedTo
    <3>4. QED
      BY <3>2, <3>3
  <2>3. CASE /\ zn.cond # "offline" /\ o < CopyEnd(zn)
             /\ data' = [data EXCEPT !.zone[run.i][run.o] = dev.zone[run.i].data[run.o]]
             /\ run' = [run EXCEPT !.o = @ + 1]
    <3>1. run'.i = i /\ run'.o = o + 1
      BY <2>3 DEF TypeInv, Framed
    <3>2. DOMAIN data.zone = Zones /\ data \in [geom : {data.geom}, zone : {data.zone}]
      BY <1>1 DEF TypeInv, TypeOK, Framed, Filed
    <3>3. /\ \A y \in Zones : y # i => data'.zone[y] = data.zone[y]
          /\ data'.zone[i] = [data.zone[i] EXCEPT ![o] = dev.zone[i].data[o]]
      BY <1>2, <2>3, <3>2
    <3>4. /\ CopyEnd(zn) = CopyEnd(old) /\ CopyEnd(zn) \in 0 .. old.cap /\ ZoneOK(old)
      BY <1>2, Listed
    <3>5. dev.zone[i].data[o] = old.data[o]
      <4>1. o \in 0 .. CopyEnd(old) - 1 /\ Still(dev.zone[i], old)
        BY <1>2, <1>3, <2>3, <3>4
      <4>2. QED
        BY <3>4, <4>1, ZoneFields DEF Still, Cnv, SeqZone
    <3>6. CASE z # i
      <4>1. data'.zone[z] = data.zone[z] /\ CopiedTo(z)' = CopiedTo(z)
        BY <1>4, <3>1, <3>3, <3>6 DEF CopiedTo
      <4>2. QED
        BY <1>1, <1>3, <1>4, <4>1 DEF Copied
    <3>7. CASE z = i
      <4>1. DOMAIN data'.zone[i] = 0 .. old.cap - 1
        BY <1>2, <1>3, <3>3
      <4> SUFFICES ASSUME NEW p \in 0 .. CopyEnd(zn) - 1, p < o + 1, run.lo <= i, i < run.hi
                   PROVE  data'.zone[i][p] = old.data[p]
        BY <1>1, <1>2, <1>4, <2>1, <3>1, <3>7, <4>1 DEF Copied, CopiedTo
      <4>2. p \in DOMAIN data.zone[i]
        <5>1. DOMAIN data.zone[i] = 0 .. old.cap - 1 /\ old.cap \in Nat
          BY <1>2, <1>3, <3>4, ZoneFields
        <5>2. QED
          BY <3>4, <5>1
      <4>3. CASE p = o
        BY <3>3, <3>5, <4>2, <4>3
      <4>4. CASE p # o
        <5>1. p < o /\ data'.zone[i][p] = data.zone[i][p]
          BY <1>2, <3>3, <4>2, <4>4
        <5>2. QED
          BY <1>1, <1>2, <1>3, <2>1, <2>3, <5>1 DEF Copied, CopiedTo
      <4>5. QED
        BY <4>3, <4>4
    <3>8. QED
      BY <3>6, <3>7
  <2>4. QED
    BY <1>1, <2>2, <2>3
<1>6. QED
  <2>1. /\ info' = Absent /\ bound'.dumps = 0
        /\ \A z \in Zones : Still(dev'.zone[z], snap'.last.zone[z])
    BY <1>1, <1>3
  <2>2. \A z \in Zones : DOMAIN data'.zone[z] = 0 .. snap'.last.zone[z].cap - 1 /\ Copied(z)'
    BY <1>1, <1>5
  <2>3. QED
    BY <1>4, <2>1, <2>2 DEF CopyInv, Spooled, InfoDescribesData, Dumping

LEMMA DataCopy ==
  ASSUME TypeInv, CopyInv, DumpData
  PROVE  CopyInv'
<1>1. /\ run.pc = "dump" /\ run.i = run.hi /\ info' = Absent /\ run' = [run EXCEPT !.pc = "info"]
      /\ UNCHANGED <<dev, data, result, bound, snap, orig>>
  BY DEF DumpData
<1>2. /\ run'.pc = "info" /\ run'.i = run.i /\ run'.o = run.o /\ run'.lo = run.lo
      /\ run'.hi = run.hi /\ run'.zones = run.zones
  BY <1>1 DEF TypeInv, Framed
<1>3. \A z \in Zones : Copied(z)' = Copied(z)
  BY <1>1, <1>2 DEF Copied, CopiedTo
<1>4. QED
  BY <1>1, <1>2, <1>3 DEF CopyInv, Spooled, InfoDescribesData, Dumping

LEMMA InfoCopy ==
  ASSUME TypeInv, CopyInv, DumpInfo
  PROVE  CopyInv'
<1>1. /\ run.pc = "info" /\ run'.pc = "idle"
      /\ info' = [geom |-> dev.geom, lo |-> run.lo, hi |-> run.hi, zones |-> run.zones]
      /\ snap' = [snap EXCEPT !.info = snap.last] /\ UNCHANGED <<data, bound>>
  BY DEF DumpInfo, End, Idle
<1>2. info'.lo = run.lo /\ info'.hi = run.hi /\ info'.zones = run.zones /\ snap'.info = snap.last
  BY <1>1 DEF TypeInv, Filed
<1>3. /\ bound.dumps = 0 /\ bound.dumps <= 1 /\ run.i = run.hi /\ \A z \in Zones : Copied(z)
      /\ data # Absent
  BY <1>1 DEF CopyInv, Spooled, Dumping, TypeInv, Framed
<1>4. InfoDescribesData'
  <2> SUFFICES ASSUME NEW z \in Zones, run.lo <= z, z < run.hi, run.zones[z].cond # "offline",
                      NEW o \in 0 .. CopyEnd(run.zones[z]) - 1
               PROVE  data.zone[z][o] = snap.last.zone[z].data[o]
    BY <1>1, <1>2, <1>3 DEF InfoDescribesData, InRange
  <2>1. o < CopiedTo(z)
    <3>1. CopyEnd(run.zones[z]) \in 0 .. snap.last.zone[z].cap
      BY <1>1, Listed DEF Dumping
    <3>2. CopiedTo(z) = CopyEnd(run.zones[z])
      BY <1>3 DEF CopiedTo
    <3>3. QED
      BY <3>1, <3>2
  <2>2. QED
    BY <1>3, <2>1 DEF Copied
<1>5. QED
  BY <1>1, <1>3, <1>4 DEF CopyInv, Spooled, Dumping

LEMMA HostCopy ==
  ASSUME Exclusive, TypeInv, TypeInv', CopyInv, Host
  PROVE  CopyInv'
<1>1. /\ bound' = [bound EXCEPT !.host = @ - 1] /\ UNCHANGED <<data, info, run, snap, orig>>
      /\ \E act \in HostActing(HostActs) : dev' \in HostDevs(act)
  BY DEF Host
<1>2. bound'.dumps = bound.dumps
  BY <1>1 DEF TypeInv, Filed
<1>3. CASE run.pc \notin Dumping
  BY <1>1, <1>2, <1>3, SameFiles
<1>4. CASE run.pc \in Dumping
  <2>1. PICK act \in HostActs \ {"write", "reset"} : dev' \in HostDevs(act)
    BY <1>1, <1>4 DEF HostActing, Exclusive, Dumping
  <2>2. DeviceOK(dev, Zones) /\ DeviceOK(dev', Zones) /\ DeviceOK(snap.last, Zones)
    BY DEF TypeInv, TypeOK, Filed
  <2>3. \A z \in Zones : Grown(dev.zone[z], dev'.zone[z])
    BY <2>1, <2>2, HostGrown
  <2>4. \A z \in Zones : ZoneOK(dev.zone[z]) /\ ZoneOK(dev'.zone[z]) /\ ZoneOK(snap.last.zone[z])
    BY <2>2 DEF DeviceOK
  <2>5. \A z \in Zones : Still(dev'.zone[z], snap.last.zone[z])
    BY <1>4, <2>3, <2>4, GrownStill DEF CopyInv, Spooled
  <2>6. \A z \in Zones : Copied(z)' = Copied(z)
    BY <1>1 DEF Copied, CopiedTo
  <2>7. QED
    BY <1>1, <1>2, <1>4, <2>5, <2>6 DEF CopyInv, Spooled, InfoDescribesData, InRange
<1>5. QED
  BY <1>3, <1>4

LEMMA RestCopy ==
  ASSUME TypeInv, CopyInv,
         Abort \/ RestoreStart \/ NextPass \/ RestoreZone \/ \E d \in Devices : Attach(d)
  PROVE  CopyInv'
<1>1. UNCHANGED <<data, info, snap>>
  BY DEF Abort, RestoreStart, NextPass, RestoreZone, Attach
<1>2. bound'.dumps = bound.dumps
  <2>1. bound' = bound \/ bound' = [bound EXCEPT !.tries = @ - 1]
    BY DEF Abort, RestoreStart, NextPass, RestoreZone, Attach
  <2>2. QED
    BY <2>1 DEF TypeInv, Filed
<1>3. run'.pc \notin Dumping
  <2>1. CASE Abort \/ RestoreStart
    BY <2>1 DEF Abort, RestoreStart, End, Idle, Dumping
  <2>2. CASE NextPass \/ RestoreZone
    <3>1. run.pc = "restore" /\ run'.pc \in {run.pc, "idle"}
      <4>1. /\ run.pc = "restore"
            /\ \/ run' = Idle \/ run' = NextZone(run) \/ run' = [run EXCEPT !.o = @ + 1]
               \/ run' = [run EXCEPT !.pass = @ + 1, !.i = run.lo]
        BY <2>2 DEF NextPass, RestoreZone, End
      <4>2. run \in [pc : Dumping \cup {"idle", "restore"}, pass : 0 .. 5, i : 0 .. NZ, o : Nat,
                     lo : 0 .. NZ, hi : 0 .. NZ, zones : {run.zones}]
        BY DEF TypeInv, Framed
      <4>3. CASE run' = Idle \/ run' = [run EXCEPT !.o = @ + 1]
        BY <4>1, <4>2, <4>3 DEF Idle
      <4>4. CASE run' = NextZone(run)
        BY <4>1, <4>2, <4>4 DEF NextZone
      <4>5. CASE run' = [run EXCEPT !.pass = @ + 1, !.i = run.lo]
        BY <4>1, <4>2, <4>5
      <4>6. QED
        BY <4>1, <4>3, <4>4, <4>5
    <3>2. QED
      BY <3>1 DEF Dumping
  <2>3. CASE \E d \in Devices : Attach(d)
    BY <2>3 DEF Attach, Dumping
  <2>4. QED
    BY <2>1, <2>2, <2>3
<1>4. QED
  BY <1>1, <1>2, <1>3, SameFiles

LEMMA StepCopy ==
  ASSUME Exclusive, TypeInv, TypeInv', CopyInv, [Next]_vars
  PROVE  CopyInv'
<1>1. CASE \E r \in Ranges : DumpStart(r)
  BY <1>1, StartCopy
<1>2. CASE DumpSize \/ DumpZone \/ DumpData \/ DumpInfo
  BY <1>2, SizeCopy, ZoneCopy, DataCopy, InfoCopy
<1>3. CASE Host
  BY <1>3, HostCopy
<1>4. CASE Abort \/ RestoreStart \/ NextPass \/ RestoreZone \/ \E d \in Devices : Attach(d)
  BY <1>4, RestCopy
<1>5. CASE UNCHANGED vars
  <2>1. \A z \in Zones : Copied(z)' = Copied(z)
    BY <1>5 DEF vars, Copied, CopiedTo
  <2>2. QED
    BY <1>5, <2>1 DEF vars, CopyInv, Spooled, InfoDescribesData, InRange
<1>6. QED
  BY <1>1, <1>2, <1>3, <1>4, <1>5 DEF Next, Command

\* The information file, which zbd_dump_zone_info writes last, vouches for the data
\* file: whenever it is there, every chunk that the listed zones call for is the one
\* the device had when the zones were listed, wherever earlier commands were killed
\* and whatever was appended, opened, closed, finished or failed meanwhile.
THEOREM InfoVouches == ASSUME Exclusive PROVE Spec => []InfoDescribesData
<1>1. Init => TypeInv /\ CopyInv
  BY InitType, InitCopy
<1>2. TypeInv /\ CopyInv /\ [Next]_vars => (TypeInv /\ CopyInv)'
  BY StepType, StepCopy
<1>3. CopyInv => InfoDescribesData
  BY DEF CopyInv
<1>4. QED
  BY <1>1, <1>2, <1>3, PTL DEF Spec

-----------------------------------------------------------------------------
(* How far a restore is.                                                   *)

\* The pass that restores a zone; 6: none.
Turn(zn) == IF Cnv(zn) \/ zn.cond = "full" THEN 2
            ELSE CASE zn.cond = "closed"   -> 3
                   [] zn.cond = "exp_open" -> 4
                   [] zn.cond = "imp_open" -> 5
                   [] OTHER                -> 6

Within(z)   == run.lo <= z /\ z < run.hi
Finished(z) == run.pass > Turn(run.zones[z]) \/ (run.pass = Turn(run.zones[z]) /\ z < run.i)

\* The chunks of zone z that have been written.
Written(z) == IF Finished(z) THEN CopyEnd(run.zones[z])
              ELSE IF run.pass = Turn(run.zones[z]) /\ z = run.i THEN run.o ELSE 0

\* What has become of a zone since it was reset.
Rebuilt(z) ==
    LET zn == dev.zone[z]  listed == run.zones[z]
    IN  /\ zn.wp = Written(z)
        /\ IF Finished(z)
           THEN \/ zn.cond = listed.cond
                \/ ~LimitsFree /\ listed.cond = "imp_open" /\ zn.cond = "closed"
           ELSE zn.cond = IF Written(z) = 0 THEN "empty"
                          ELSE IF Written(z) = zn.cap THEN "full" ELSE "imp_open"

\* A zone of the target fits the one that the dump listed.
Fitting(z) ==
    LET zn == dev.zone[z]  listed == run.zones[z]
    IN  /\ zn.type = listed.type /\ zn.cap = listed.cap
        /\ zn.cond # "rdonly" /\ (zn.cond = "offline" => listed.cond = "offline")
        /\ Cnv(zn) => Cnv(orig.zone[z]) /\ zn.cond = orig.zone[z].cond

LimitsFit ==
    /\ dev.maxOpen > 0 =>
           Cardinality({z \in Zones : IsOpen(run.zones[z])}) <= dev.maxOpen
    /\ dev.maxActive > 0 =>
           Cardinality({z \in Zones : IsActive(run.zones[z])}) <= dev.maxActive

Progress ==
    run.o > 0 => /\ run.pass > 1 /\ run.i < run.hi
                 /\ Selected(run.pass, run.zones[run.i]) /\ run.o <= CopyEnd(run.zones[run.i])

Placed(z) ==
    /\ Fitting(z)
    /\ Within(z) /\ Selected(1, run.zones[z]) /\ (run.pass > 1 \/ z < run.i) => Rebuilt(z)
    /\ LimitsFree /\ Kept(z) => ~IsActive(dev.zone[z])

Restoring ==
    run.pc = "restore" => Progress /\ LimitsFit /\ \A z \in Zones : Placed(z)

\* The chunks on the device come from the data file.
Loaded ==
    run.pc = "restore" =>
        \A z \in Zones : Within(z) =>
            \A p \in 0 .. Written(z) - 1 : dev.zone[z].data[p] = data.zone[z][p]

\* Each zone has one pass.
LEMMA OneTurn ==
  ASSUME NEW zn, zn.type \in {"cnv", "seq"}, zn.cond \in Conds,
         Cnv(zn) => zn.cond \in {"not_wp", "rdonly", "offline"},
         SeqZone(zn) => zn.cond # "not_wp"
  PROVE  /\ Turn(zn) \in 2 .. 6
         /\ \A p \in 2 .. 5 : Selected(p, zn) <=> Turn(zn) = p
<1>1. Turn(zn) \in 2 .. 6
  BY DEF Turn
<1>2. Selected(2, zn) <=> Turn(zn) = 2
  BY DEF Turn, Selected
<1>3. Selected(3, zn) <=> Turn(zn) = 3
  BY DEF Turn, Selected, PassOrder, Cnv
<1>4. Selected(4, zn) <=> Turn(zn) = 4
  BY DEF Turn, Selected, PassOrder, Cnv
<1>5. Selected(5, zn) <=> Turn(zn) = 5
  BY DEF Turn, Selected, PassOrder, Cnv
<1>6. \A p \in 2 .. 5 : p = 2 \/ p = 3 \/ p = 4 \/ p = 5
  OBVIOUS
<1>7. QED
  BY <1>1, <1>2, <1>3, <1>4, <1>5, <1>6

\* The zones of the information file.
LEMMA InfoListed ==
  ASSUME TypeInv, run.pc = "restore", NEW z \in Zones
  PROVE  LET zn == run.zones[z]  old == snap.info.zone[z]
         IN  /\ ZoneOK(old) /\ zn.type = old.type /\ zn.cap = old.cap /\ zn.cond = old.cond
             /\ zn.wp = old.wp /\ zn = info.zones[z]
             /\ CopyEnd(zn) = CopyEnd(old) /\ CopyEnd(zn) \in 0 .. zn.cap /\ zn.cap \in Nat \ {0}
             /\ zn.cond \in {"closed", "imp_open"} => 0 < CopyEnd(zn) /\ CopyEnd(zn) < zn.cap
             /\ zn.cond = "exp_open" => CopyEnd(zn) < zn.cap
             /\ zn.cond = "full" \/ Cnv(zn) => CopyEnd(zn) = zn.cap
             /\ Turn(zn) \in 2 .. 6 /\ \A p \in 2 .. 5 : Selected(p, zn) <=> Turn(zn) = p
             /\ Cnv(zn) => zn.cond \in {"not_wp", "rdonly", "offline"}
             /\ SeqZone(zn) <=> ~Cnv(zn)
<1> DEFINE zn == run.zones[z]  old == snap.info.zone[z]
<1>1. run.zones = info.zones /\ info.zones = ReportOf(snap.info) /\ DeviceOK(snap.info, Zones)
  BY DEF TypeInv, Framed, Filed
<1>2. /\ ZoneOK(old) /\ zn.type = old.type /\ zn.cap = old.cap /\ zn.cond = old.cond
      /\ zn.wp = old.wp /\ zn = info.zones[z]
  BY <1>1, Reported
<1>3. /\ zn.cap \in Nat \ {0} /\ zn.wp \in Nat /\ zn.type \in {"cnv", "seq"} /\ zn.cond \in Conds
  BY <1>2, ZoneFields
<1> HIDE DEF zn, old
<1>4. /\ Cnv(zn) => zn.cond \in {"not_wp", "rdonly", "offline"}
      /\ SeqZone(zn) => zn.cond # "not_wp"
      /\ SeqZone(zn) => zn.wp <= zn.cap
      /\ SeqZone(zn) /\ zn.cond \in Usable => zn.wp < zn.cap
      /\ SeqZone(zn) /\ zn.cond \in {"imp_open", "closed"} => zn.wp > 0
  BY <1>2 DEF ZoneOK, Cnv, SeqZone
<1>5. SeqZone(zn) <=> ~Cnv(zn)
  BY <1>3 DEF Cnv, SeqZone
<1>6. CopyEnd(zn) = CopyEnd(old)
  BY <1>2 DEF CopyEnd, SeqZone
<1>7. /\ CopyEnd(zn) \in 0 .. zn.cap
      /\ zn.cond \in {"closed", "imp_open"} => 0 < CopyEnd(zn) /\ CopyEnd(zn) < zn.cap
      /\ zn.cond = "exp_open" => CopyEnd(zn) < zn.cap
      /\ zn.cond = "full" \/ Cnv(zn) => CopyEnd(zn) = zn.cap
  BY <1>3, <1>4, <1>5 DEF CopyEnd, Usable
<1>8. Turn(zn) \in 2 .. 6 /\ \A p \in 2 .. 5 : Selected(p, zn) <=> Turn(zn) = p
  BY <1>3, <1>4, OneTurn
<1>9. QED
  BY <1>2, <1>3, <1>4, <1>5, <1>6, <1>7, <1>8 DEF zn, old

\* A zone that has the current pass is finished or waits, unless it is the current one.
LEMMA Elsewhere ==
  ASSUME TypeInv, Restoring, run.pc = "restore", LimitsFree, run.pass \in 2 .. 5,
         NEW z \in Zones, z # run.i, IsActive(dev.zone[z])
  PROVE  /\ Finished(z) /\ dev.zone[z].cond = run.zones[z].cond
         /\ Turn(run.zones[z]) <= run.pass /\ SeqZone(run.zones[z])
<1> DEFINE zn == run.zones[z]
<1>1. /\ zn = info.zones[z] /\ Turn(zn) \in 2 .. 6 /\ (SeqZone(zn) <=> ~Cnv(zn))
      /\ run.lo = info.lo /\ run.hi = info.hi
  BY InfoListed DEF TypeInv, Framed
<1>2. ~Kept(z) /\ Fitting(z)
  BY DEF Restoring, Placed
<1>3. Within(z) /\ zn.cond \notin {"empty", "offline"}
  BY <1>1, <1>2 DEF Kept, InRange, Within
<1>4. SeqZone(zn)
  <2>1. ZoneOK(dev.zone[z]) /\ dev.zone[z].type = zn.type
    BY <1>2 DEF TypeInv, TypeOK, DeviceOK, Fitting
  <2>2. ~Cnv(dev.zone[z])
    BY <2>1 DEF ZoneOK, IsActive, IsOpen
  <2>3. QED
    BY <2>1, <2>2, ZoneFields DEF Cnv, SeqZone
<1>5. Rebuilt(z)
  <2>1. Selected(1, zn) /\ run.pass > 1
    BY <1>3, <1>4 DEF Selected
  <2>2. QED
    BY <1>3, <2>1 DEF Restoring, Placed
<1>6. Finished(z)
  <2> SUFFICES ASSUME ~Finished(z) PROVE FALSE
    OBVIOUS
  <2>1. Written(z) = 0
    BY DEF Written
  <2>2. dev.zone[z].cond = "empty"
    BY <1>5, <2>1 DEF Rebuilt
  <2>3. QED
    BY <2>2 DEF IsActive, IsOpen
<1>7. QED
  BY <1>1, <1>4, <1>5, <1>6 DEF Rebuilt, Finished

LEMMA Fewer ==
  ASSUME NEW S, S \subseteq Zones, NEW T, NEW i \in S, T \subseteq S \ {i}, NEW m \in Nat,
         Cardinality(S) <= m
  PROVE  Cardinality(T) < m
<1>1. IsFiniteSet(Zones)
  BY FS_Interval, DumpConstants DEF Zones
<1>2. IsFiniteSet(S) /\ Cardinality(S) \in Nat
  BY <1>1, FS_Subset, FS_CardinalityType
<1>3. IsFiniteSet(S \ {i}) /\ Cardinality(S \ {i}) = Cardinality(S) - 1
  BY <1>2, FS_RemoveElement
<1>4. IsFiniteSet(T) /\ Cardinality(T) <= Cardinality(S \ {i}) /\ Cardinality(T) \in Nat
  BY <1>3, FS_Subset, FS_CardinalityType
<1>5. QED
  BY <1>2, <1>3, <1>4

LEMMA NoneHeld ==
  ASSUME NEW T, T = {}, NEW m \in Nat, m > 0
  PROVE  Cardinality(T) < m
  BY FS_EmptySet

\* The zone that a pass restores finds a slot without taking one from another zone.
LEMMA Room ==
  ASSUME TypeInv, Restoring, run.pc = "restore", LimitsFree, run.pass \in 2 .. 5,
         run.i \in Zones, Selected(run.pass, run.zones[run.i]), SeqZone(run.zones[run.i])
  PROVE  WithSlot(dev, run.i) = {dev}
<1> DEFINE i == run.i  zn == run.zones[i]
           Opened == {z \in Zones : IsOpen(run.zones[z])}
           Actives == {z \in Zones : IsActive(run.zones[z])}
<1>1. Turn(zn) = run.pass /\ ~Cnv(zn)
  BY InfoListed
<1>2. DOMAIN dev.zone = Zones /\ dev.maxOpen \in Nat /\ dev.maxActive \in Nat
  BY DEF TypeInv, TypeOK, DeviceOK
<1>3. /\ dev.maxOpen > 0 => Cardinality(Opened) <= dev.maxOpen
      /\ dev.maxActive > 0 => Cardinality(Actives) <= dev.maxActive
  BY DEF Restoring, LimitsFit
<1>4. \A z \in Zones : z # i /\ IsActive(dev.zone[z]) =>
          /\ IsActive(run.zones[z]) /\ (IsOpen(dev.zone[z]) => IsOpen(run.zones[z]))
          /\ Turn(run.zones[z]) <= run.pass
  BY Elsewhere DEF IsActive, IsOpen
<1>5. ASSUME ~IsActive(dev.zone[i]), dev.maxActive > 0
      PROVE  Cardinality(ActiveZones(dev)) < dev.maxActive
  <2>1. ActiveZones(dev) \subseteq Actives \ {i}
    BY <1>2, <1>4, <1>5 DEF ActiveZones
  <2>2. CASE run.pass = 2
    <3>1. ActiveZones(dev) = {}
      <4> SUFFICES ASSUME NEW z \in ActiveZones(dev) PROVE FALSE
        OBVIOUS
      <4>1. z \in Zones /\ z # i /\ IsActive(dev.zone[z])
        BY <1>2, <1>5 DEF ActiveZones
      <4>2. Turn(run.zones[z]) <= 2 /\ SeqZone(run.zones[z])
            /\ IsActive(run.zones[z])
        BY <1>4, <2>2, <4>1, Elsewhere
      <4>3. QED
        BY <4>2 DEF Turn, IsActive, IsOpen, SeqZone, Cnv
    <3>2. QED
      BY <1>2, <1>5, <3>1, NoneHeld
  <2>3. CASE run.pass # 2
    <3>1. i \in Actives
      BY <1>1, <2>3 DEF Turn, IsActive, IsOpen
    <3>2. Actives \subseteq Zones
      OBVIOUS
    <3> HIDE DEF Actives
    <3>3. QED
      BY <1>2, <1>3, <1>5, <2>1, <3>1, <3>2, Fewer
  <2>4. QED
    BY <2>2, <2>3
<1>6. ASSUME ~IsOpen(dev.zone[i]), dev.maxOpen > 0
      PROVE  Cardinality(OpenZones(dev)) < dev.maxOpen
  <2>1. OpenZones(dev) \subseteq Opened \ {i}
    BY <1>2, <1>4, <1>6 DEF OpenZones, IsActive
  <2>2. CASE run.pass \in {2, 3}
    <3>1. OpenZones(dev) = {}
      <4> SUFFICES ASSUME NEW z \in OpenZones(dev) PROVE FALSE
        OBVIOUS
      <4>1. z \in Zones /\ z # i /\ IsActive(dev.zone[z]) /\ IsOpen(dev.zone[z])
        BY <1>2, <1>6 DEF OpenZones, IsActive
      <4>2. /\ Turn(run.zones[z]) <= run.pass /\ SeqZone(run.zones[z])
            /\ IsOpen(run.zones[z])
        BY <1>4, <4>1, Elsewhere
      <4>3. Turn(run.zones[z]) \in {4, 5}
        BY <4>2 DEF Turn, IsOpen, SeqZone, Cnv
      <4>4. QED
        BY <2>2, <4>2, <4>3
    <3>2. QED
      BY <1>2, <1>6, <3>1, NoneHeld
  <2>3. CASE run.pass \in {4, 5}
    <3>1. i \in Opened
      BY <1>1, <2>3 DEF Turn, IsOpen
    <3>2. Opened \subseteq Zones
      OBVIOUS
    <3> HIDE DEF Opened
    <3>3. QED
      BY <1>2, <1>3, <1>6, <2>1, <3>1, <3>2, Fewer
  <2>4. QED
    BY <2>2, <2>3
<1>7. dev.maxOpen = 0 \/ dev.maxOpen > 0
  BY <1>2
<1>8. /\ \A m \in Nat, c \in Nat : c < m => ~(c >= m)
      /\ Cardinality(ActiveZones(dev)) \in Nat
  <2>1. IsFiniteSet(Zones) /\ ActiveZones(dev) \subseteq Zones
    BY <1>2, FS_Interval, DumpConstants DEF Zones, ActiveZones
  <2>2. QED
    BY <2>1, FS_Subset, FS_CardinalityType
<1>9. QED
  <2>1. ~(/\ ~IsActive(dev.zone[i]) /\ dev.maxActive > 0
          /\ Cardinality(ActiveZones(dev)) >= dev.maxActive)
    BY <1>2, <1>5, <1>8
  <2>2. \/ IsOpen(dev.zone[i]) \/ dev.maxOpen = 0
        \/ Cardinality(OpenZones(dev)) < dev.maxOpen
    BY <1>6, <1>7
  <2>3. QED
    BY <2>1, <2>2 DEF WithSlot

\* With a slot of its own, a zone takes none from another.
LEMMA OwnSlot ==
  ASSUME NEW d, DeviceOK(d, Zones), NEW z \in Zones, NEW o, NEW v, NEW e,
         \/ e \in Write(d, z, o, v) /\ (Cnv(d.zone[z]) \/ WithSlot(d, z) = {d})
         \/ e \in Open(d, z) /\ WithSlot(d, z) = {d}
  PROVE  \A y \in Zones \ {z} : e.zone[y] = d.zone[y]
<1>1. DOMAIN d.zone = Zones
      /\ d \in [geom : {d.geom}, maxOpen : Nat, maxActive : Nat, zone : {d.zone}]
  BY DEF DeviceOK
<1>2. \E zn : e.zone = [d.zone EXCEPT ![z] = zn]
  <2>1. CASE e \in Open(d, z) /\ WithSlot(d, z) = {d}
    <3>1. e = [d EXCEPT !.zone[z].cond = "exp_open"]
      BY <2>1 DEF Open
    <3>2. QED
      BY <1>1, <3>1
  <2>2. CASE e \in Write(d, z, o, v) /\ Cnv(d.zone[z]) /\ d.zone[z].cond = "not_wp"
    <3>1. e = [d EXCEPT !.zone[z].data[o] = v]
      BY <2>2 DEF Write
    <3>2. QED
      BY <1>1, <3>1
  <2>3. CASE e \in Write(d, z, o, v) /\ ~(Cnv(d.zone[z]) /\ d.zone[z].cond = "not_wp")
             /\ WithSlot(d, z) = {d}
    <3>1. PICK c : e = [d EXCEPT !.zone[z].data[o] = v, !.zone[z].wp = @ + 1, !.zone[z].cond = c]
      BY <2>3 DEF Write
    <3>2. QED
      BY <1>1, <3>1
  <2>4. QED
    BY <2>1, <2>2, <2>3 DEF Write, Cnv, SeqZone
<1>3. QED
  BY <1>1, <1>2

\* What is written of one zone does not depend on another.
LEMMA SameWritten ==
  ASSUME TypeInv, run.pc = "restore", run.i \in Zones,
         run'.pass = run.pass, run'.zones = run.zones,
         run'.i = run.i \/ (run'.i = run.i + 1 /\ run'.o = 0),
         NEW z \in Zones, z # run.i
  PROVE  /\ z < run'.i <=> z < run.i
         /\ (Finished(z)' <=> Finished(z)) /\ Written(z)' = Written(z)
<1>1. z \in Nat /\ run.i \in Nat
  BY ZonesNat
<1>2. z < run'.i <=> z < run.i
  BY <1>1
<1>3. Finished(z)' <=> Finished(z)
  BY <1>2 DEF Finished
<1>4. Written(z)' = Written(z)
  <2>1. CASE run'.i = run.i
    BY <1>3, <2>1 DEF Written
  <2>2. CASE run'.i = run.i + 1 /\ run'.o = 0
    BY <1>3, <2>2 DEF Written
  <2>3. QED
    BY <2>1, <2>2
<1>5. QED
  BY <1>2, <1>3, <1>4

\* What a step on one zone leaves of another.
LEMMA Steady ==
  ASSUME TypeInv, Restoring, run.pc = "restore", run.i \in Zones, UNCHANGED <<info, orig>>,
         Alike(dev, dev'), Apart(dev, dev', run.i),
         LimitsFree => \A y \in Zones \ {run.i} : dev'.zone[y] = dev.zone[y],
         run'.pass = run.pass, run'.zones = run.zones, run'.lo = run.lo, run'.hi = run.hi,
         run'.i = run.i \/ (run'.i = run.i + 1 /\ run'.o = 0),
         NEW z \in Zones, z # run.i
  PROVE  Placed(z)'
<1> DEFINE listed == run.zones[z]
<1>2. z < run'.i => z < run.i
  BY SameWritten
<1>4. Finished(z)' <=> Finished(z)
  BY SameWritten
<1>5. Written(z)' = Written(z)
  BY SameWritten
<1>6. LimitsFree' <=> LimitsFree
  BY DEF LimitsFree, Kept, InRange
<1>7. Kept(z)' <=> Kept(z)
  BY DEF Kept, InRange
<1>8. /\ Left(dev.zone[z], dev'.zone[z]) /\ dev'.zone[z].type = dev.zone[z].type
      /\ dev'.zone[z].cap = dev.zone[z].cap /\ ZoneOK(dev.zone[z])
  BY DEF Apart, Alike, TypeInv, TypeOK, DeviceOK
<1>9. /\ dev'.zone[z].wp = dev.zone[z].wp
      /\ \/ dev'.zone[z].cond = dev.zone[z].cond
         \/ dev.zone[z].cond = "imp_open" /\ dev'.zone[z].cond = "closed" /\ ~LimitsFree
  <2>1. CASE dev'.zone[z] = dev.zone[z]
    BY <2>1
  <2>2. CASE dev'.zone[z] # dev.zone[z]
    <3>1. ~LimitsFree /\ dev.zone[z].cond = "imp_open"
          /\ dev'.zone[z] = [dev.zone[z] EXCEPT !.cond = "closed"]
      BY <1>8, <2>2 DEF Left
    <3>2. dev.zone[z] \in [type : {"cnv", "seq"}, cap : Nat \ {0}, wp : Nat,
                           data : {dev.zone[z].data}, cond : Conds]
      BY <1>8 DEF ZoneOK
    <3>3. QED
      BY <3>1, <3>2
  <2>3. QED
    BY <2>1, <2>2
<1>10. Fitting(z)'
  <2>1. Fitting(z)
    BY DEF Restoring, Placed
  <2>2. Cnv(dev.zone[z]) => dev.zone[z].cond # "imp_open"
    BY <1>8 DEF ZoneOK
  <2>3. QED
    BY <1>8, <1>9, <2>1, <2>2 DEF Fitting, Cnv
<1>11. ASSUME Within(z)', Selected(1, run.zones[z])', (run.pass > 1 \/ z < run.i)'
       PROVE  Rebuilt(z)'
  <2>1. Within(z) /\ Selected(1, listed) /\ (run.pass > 1 \/ z < run.i)
    BY <1>2, <1>11 DEF Within
  <2>2. Rebuilt(z)
    BY <2>1 DEF Restoring, Placed
  <2>3. CASE dev'.zone[z].cond = dev.zone[z].cond
    BY <1>4, <1>5, <1>6, <1>8, <1>9, <2>2, <2>3 DEF Rebuilt
  <2>4. CASE dev.zone[z].cond = "imp_open" /\ dev'.zone[z].cond = "closed" /\ ~LimitsFree
    <3>1. ~Finished(z) => Written(z) = 0
      BY DEF Written
    <3>2. Finished(z) /\ listed.cond = "imp_open"
      BY <2>2, <2>4, <3>1 DEF Rebuilt
    <3>3. QED
      BY <1>4, <1>5, <1>6, <1>9, <2>2, <2>4, <3>2 DEF Rebuilt
  <2>5. QED
    BY <1>9, <2>3, <2>4
<1>12. ASSUME LimitsFree', Kept(z)'
       PROVE  ~IsActive(dev.zone[z])'
  <2>1. ~IsActive(dev.zone[z])
    BY <1>6, <1>7, <1>12 DEF Restoring, Placed
  <2>2. QED
    BY <1>6, <1>9, <1>12, <2>1 DEF IsActive, IsOpen
<1>13. QED
  BY <1>10, <1>11, <1>12 DEF Placed

\* A step on the current zone, with what it does to that zone.
LEMMA Onwards ==
  ASSUME TypeInv, Restoring, run.pc = "restore", run.i \in Zones, UNCHANGED <<info, orig>>,
         Alike(dev, dev'), Apart(dev, dev', run.i),
         LimitsFree => \A y \in Zones \ {run.i} : dev'.zone[y] = dev.zone[y],
         run'.pass = run.pass, run'.zones = run.zones, run'.lo = run.lo, run'.hi = run.hi,
         run'.i = run.i \/ (run'.i = run.i + 1 /\ run'.o = 0),
         Progress', NEW i, i = run.i, Placed(i)'
  PROVE  Restoring'
<1>1. \A z \in Zones : Placed(z)'
  BY Steady
<1>2. LimitsFit'
  BY DEF LimitsFit, Alike, Restoring
<1>3. QED
  BY <1>1, <1>2 DEF Restoring

\* The fields of the frame when the current zone is done, and when it is not.
LEMMA FrameSteps ==
  ASSUME TypeInv
  PROVE  /\ LET next == NextZone(run)
            IN  /\ next.pc = run.pc /\ next.pass = run.pass /\ next.zones = run.zones
                /\ next.lo = run.lo /\ next.hi = run.hi /\ next.i = run.i + 1 /\ next.o = 0
         /\ LET next == [run EXCEPT !.o = @ + 1]
            IN  /\ next.pc = run.pc /\ next.pass = run.pass /\ next.zones = run.zones
                /\ next.lo = run.lo /\ next.hi = run.hi /\ next.i = run.i /\ next.o = run.o + 1
<1>1. run \in [pc : Dumping \cup {"idle", "restore"}, pass : 0 .. 5, i : 0 .. NZ, o : Nat,
               lo : 0 .. NZ, hi : 0 .. NZ, zones : {run.zones}]
  BY DEF TypeInv, Framed
<1>2. QED
  BY <1>1 DEF NextZone

\* What restore knows of the current zone.
LEMMA Current ==
  ASSUME TypeInv, Restoring, run.pc = "restore", run.i < run.hi
  PROVE  LET i == run.i  zn == run.zones[i]
         IN  /\ i \in Zones /\ i \in Nat /\ Within(i) /\ Placed(i) /\ run.o \in Nat
             /\ run.pass \in 1 .. 5 /\ zn = info.zones[i]
             /\ Kept(i) <=> zn.cond \in {"empty", "offline"}
             /\ ZoneOK(dev.zone[i]) /\ DeviceOK(dev, Zones)
             /\ run.pass > 1 /\ Selected(run.pass, zn) =>
                    /\ Turn(zn) = run.pass /\ ~Finished(i) /\ Written(i) = run.o
                    /\ run.o <= CopyEnd(zn)
                    /\ SeqZone(zn) => /\ Selected(1, zn) /\ ~Kept(i) /\ Rebuilt(i)
                                      /\ zn.cond \in {"full", "closed", "exp_open", "imp_open"}
<1> DEFINE i == run.i  zn == run.zones[i]
<1>1. i \in Zones /\ i \in Nat /\ Within(i) /\ run.o \in Nat /\ run.pass \in 1 .. 5
  BY ZonesNat DEF TypeInv, Framed, Within
<1>2. zn = info.zones[i] /\ run.lo = info.lo /\ run.hi = info.hi
  BY DEF TypeInv, Framed
<1>3. Kept(i) <=> zn.cond \in {"empty", "offline"}
  BY <1>1, <1>2 DEF Kept, InRange, Within
<1>4. Placed(i) /\ ZoneOK(dev.zone[i]) /\ DeviceOK(dev, Zones)
  BY <1>1 DEF Restoring, TypeInv, TypeOK, DeviceOK
<1>5. ASSUME run.pass > 1, Selected(run.pass, zn)
      PROVE  /\ Turn(zn) = run.pass /\ ~Finished(i) /\ Written(i) = run.o
             /\ run.o <= CopyEnd(zn)
             /\ SeqZone(zn) => /\ Selected(1, zn) /\ ~Kept(i) /\ Rebuilt(i)
                               /\ zn.cond \in {"full", "closed", "exp_open", "imp_open"}
  <2>1. Turn(zn) = run.pass /\ CopyEnd(zn) \in 0 .. zn.cap /\ zn.cap \in Nat
        /\ (SeqZone(zn) <=> ~Cnv(zn))
    BY <1>1, <1>5, InfoListed
  <2>2. ~Finished(i) /\ Written(i) = run.o
    BY <1>1, <2>1 DEF Finished, Written
  <2>3. run.o <= CopyEnd(zn)
    BY <1>1, <2>1 DEF Restoring, Progress
  <2>4. ASSUME SeqZone(zn)
        PROVE  /\ Selected(1, zn) /\ ~Kept(i) /\ Rebuilt(i)
               /\ zn.cond \in {"full", "closed", "exp_open", "imp_open"}
    <3>1. zn.cond \in {"full", "closed", "exp_open", "imp_open"}
      BY <1>1, <2>1, <2>4 DEF Turn
    <3>2. Selected(1, zn)
      BY <2>4, <3>1 DEF Selected
    <3>3. QED
      BY <1>1, <1>3, <1>4, <1>5, <3>1, <3>2 DEF Placed
  <2>5. QED
    BY <2>1, <2>2, <2>3, <2>4
<1>6. QED
  BY <1>1, <1>2, <1>3, <1>4, <1>5

LEMMA UnselectedStep ==
  ASSUME TypeInv, Restoring, NEW i, i = run.i, run.pc = "restore", i < run.hi,
         ~Selected(run.pass, run.zones[i]), run' = NextZone(run),
         UNCHANGED <<dev, data, info, bound, snap, orig>>
  PROVE  Restoring'
<1> DEFINE zn == run.zones[i]
<1>1. /\ i \in Zones /\ i \in Nat /\ Placed(i) /\ run.pass \in 1 .. 5 /\ DeviceOK(dev, Zones)
      /\ Turn(zn) \in 2 .. 6 /\ \A p \in 2 .. 5 : Selected(p, zn) <=> Turn(zn) = p
  BY Current, InfoListed
<1>2. /\ run'.i = i + 1 /\ run'.o = 0 /\ run'.pass = run.pass /\ run'.zones = run.zones
      /\ run'.lo = run.lo /\ run'.hi = run.hi
  BY FrameSteps
<1>3. run.pass # Turn(zn)
  BY <1>1
<1>4. (Finished(i)' <=> Finished(i)) /\ Written(i)' = Written(i)
  BY <1>2, <1>3 DEF Finished, Written
<1>5. LimitsFree' <=> LimitsFree
  BY DEF LimitsFree, Kept, InRange
<1>6. Placed(i)'
  <2>1. (Within(i) /\ Selected(1, zn) /\ (run.pass > 1 \/ i < run.i))' => Rebuilt(i)'
    <3> SUFFICES ASSUME (Within(i) /\ Selected(1, zn) /\ (run.pass > 1 \/ i < run.i))'
                 PROVE  Rebuilt(i)'
      OBVIOUS
    <3>1. Within(i) /\ Selected(1, zn) /\ run.pass > 1
      BY <1>1, <1>2 DEF Within
    <3>2. Rebuilt(i)
      BY <1>1, <3>1 DEF Placed
    <3>3. QED
      BY <1>2, <1>4, <1>5, <3>2 DEF Rebuilt
  <2>2. Fitting(i)' /\ (LimitsFree /\ Kept(i) => ~IsActive(dev.zone[i]))'
    BY <1>1, <1>2, <1>5 DEF Placed, Fitting, Kept, InRange
  <2>3. QED
    BY <2>1, <2>2 DEF Placed
<1>7. Alike(dev, dev') /\ Apart(dev, dev', i) /\ \A y \in Zones \ {i} : dev'.zone[y] = dev.zone[y]
  BY <1>1, AlikeSelf DEF Apart, Left
<1>8. Progress'
  BY <1>2 DEF Progress
<1>9. QED
  BY <1>1, <1>2, <1>6, <1>7, <1>8, Onwards

LEMMA ResetStep ==
  ASSUME TypeInv, Restoring, NEW i, i = run.i, run.pc = "restore", i < run.hi, run.pass = 1,
         Selected(1, run.zones[i]), run' = NextZone(run),
         dev' \in Reset(dev, i), UNCHANGED <<data, info, bound, snap, orig>>
  PROVE  Restoring'
<1> DEFINE zn == run.zones[i]
<1>1. /\ i \in Zones /\ i \in Nat /\ Placed(i) /\ DeviceOK(dev, Zones) /\ Turn(zn) \in 2 .. 6
      /\ (Kept(i) <=> zn.cond \in {"empty", "offline"})
  BY Current, InfoListed
<1>2. /\ run'.i = i + 1 /\ run'.o = 0 /\ run'.pass = run.pass /\ run'.zones = run.zones
      /\ run'.lo = run.lo /\ run'.hi = run.hi
  BY FrameSteps
<1>3. /\ Alike(dev, dev') /\ \A y \in Zones \ {i} : dev'.zone[y] = dev.zone[y]
      /\ dev'.zone[i].cond = "empty" /\ dev.zone[i].cond \in Usable \cup {"full"}
  BY <1>1, ResetDevice
<1>4. dev'.zone[i].wp = 0
  <2>1. ZoneOK(dev'.zone[i])
    BY <1>1, <1>3 DEF Alike, DeviceOK
  <2>2. QED
    BY <1>3, <2>1, ZoneFields DEF ZoneOK, Cnv, SeqZone
<1>5. ~Finished(i)' /\ Written(i)' = 0
  BY <1>1, <1>2 DEF Finished, Written
<1>6. Rebuilt(i)'
  BY <1>3, <1>4, <1>5 DEF Rebuilt
<1>7. Fitting(i)'
  <2>1. dev'.zone[i].type = dev.zone[i].type /\ dev'.zone[i].cap = dev.zone[i].cap
    BY <1>1, <1>3 DEF Alike
  <2>2. ~Cnv(dev.zone[i])
    BY <1>1, <1>3 DEF DeviceOK, ZoneOK, Usable
  <2>3. QED
    BY <1>1, <1>2, <1>3, <2>1, <2>2 DEF Placed, Fitting, Cnv
<1>8. Placed(i)'
  BY <1>3, <1>6, <1>7 DEF Placed, IsActive, IsOpen
<1>9. Apart(dev, dev', i) /\ Progress'
  BY <1>2, <1>3 DEF Apart, Left, Progress
<1>10. QED
  BY <1>1, <1>2, <1>3, <1>8, <1>9, Onwards

LEMMA WriteStep ==
  ASSUME TypeInv, Restoring, NEW i, i = run.i, run.pc = "restore", i < run.hi, run.pass > 1,
         Selected(run.pass, run.zones[i]), run.o < CopyEnd(run.zones[i]),
         run' = [run EXCEPT !.o = @ + 1], NEW v,
         dev' \in Write(dev, i, run.o, v), UNCHANGED <<data, info, bound, snap, orig>>
  PROVE  Restoring'
<1> DEFINE zn == run.zones[i]  o == run.o  old == dev.zone[i]  new == dev'.zone[i]
<1>1. /\ i \in Zones /\ i \in Nat /\ Placed(i) /\ DeviceOK(dev, Zones) /\ Turn(zn) = run.pass
      /\ run.pass \in 2 .. 5 /\ o \in Nat /\ ~Finished(i) /\ Written(i) = o
      /\ ZoneOK(old) /\ Within(i)
      /\ SeqZone(zn) => Selected(1, zn) /\ ~Kept(i) /\ Rebuilt(i)
  BY Current
<1>2. /\ run'.i = i /\ run'.o = o + 1 /\ run'.pass = run.pass /\ run'.zones = run.zones
      /\ run'.lo = run.lo /\ run'.hi = run.hi
  BY FrameSteps
<1>3. Alike(dev, dev') /\ Apart(dev, dev', i) /\ Wrote(old, new, o, v)
  BY <1>1, WriteDevice
<1>4. /\ CopyEnd(zn) \in 0 .. zn.cap /\ zn.cap \in Nat \ {0} /\ (SeqZone(zn) <=> ~Cnv(zn))
  BY <1>1, InfoListed
<1>5. old.type = zn.type /\ old.cap = zn.cap /\ new.type = zn.type /\ new.cap = zn.cap
  BY <1>1, <1>3 DEF Placed, Fitting, Alike
<1>6. LimitsFree => \A y \in Zones \ {i} : dev'.zone[y] = dev.zone[y]
  <2> SUFFICES ASSUME LimitsFree PROVE \A y \in Zones \ {i} : dev'.zone[y] = dev.zone[y]
    OBVIOUS
  <2>1. Cnv(old) \/ WithSlot(dev, i) = {dev}
    BY <1>1, <1>4, <1>5, Room DEF Cnv
  <2>2. QED
    BY <1>1, <2>1, OwnSlot
<1>7. ~Finished(i)' /\ Written(i)' = o + 1
  BY <1>1, <1>2 DEF Finished, Written
<1>8. Progress'
  BY <1>1, <1>2, <1>4 DEF Progress
<1>9. Placed(i)'
  <2>1. CASE Cnv(zn)
    <3>1. new.cond = "not_wp" /\ old.cond = "not_wp"
      BY <1>3, <1>5, <2>1 DEF Wrote, Cnv, SeqZone
    <3>2. Fitting(i)'
      BY <1>1, <1>2, <1>5, <3>1 DEF Placed, Fitting, Cnv
    <3>3. ~Selected(1, zn)
      BY <2>1 DEF Selected, Cnv, SeqZone
    <3>4. QED
      BY <1>2, <3>1, <3>2, <3>3 DEF Placed, IsActive, IsOpen
  <2>2. CASE SeqZone(zn)
    <3>1. /\ o = old.wp /\ new.wp = o + 1
          /\ new.cond = IF o + 1 = old.cap THEN "full"
                        ELSE IF old.cond = "exp_open" THEN "exp_open" ELSE "imp_open"
      BY <1>3, <1>5, <2>2 DEF Wrote, Cnv, SeqZone
    <3>2. old.cond # "exp_open"
      BY <1>1, <2>2 DEF Rebuilt
    <3>3. Rebuilt(i)'
      BY <1>1, <1>2, <1>5, <1>7, <3>1, <3>2 DEF Rebuilt
    <3>4. Fitting(i)'
      BY <1>1, <1>2, <1>5, <2>2, <3>1 DEF Placed, Fitting, Cnv, SeqZone
    <3>5. ~Kept(i)'
      BY <1>1, <2>2 DEF Kept, InRange
    <3>6. QED
      BY <3>3, <3>4, <3>5 DEF Placed
  <2>3. QED
    BY <1>4, <2>1, <2>2
<1>10. QED
  BY <1>1, <1>2, <1>3, <1>6, <1>8, <1>9, Onwards

\* The command after the last chunk of a zone.
DoneDevs(zn, i) ==
    IF zn.cond = "closed" THEN Close(dev, i)
    ELSE IF zn.cond = "exp_open" THEN Open(dev, i) ELSE {dev}

LEMMA DoneDevice ==
  ASSUME TypeInv, Restoring, NEW i, i = run.i, run.pc = "restore", i < run.hi, run.pass > 1,
         Selected(run.pass, run.zones[i]), ~(run.o < CopyEnd(run.zones[i])),
         SeqZone(run.zones[i]), NEW e \in DoneDevs(run.zones[i], i)
  PROVE  /\ e.zone[i].wp = CopyEnd(run.zones[i]) /\ e.zone[i].cond = run.zones[i].cond
         /\ LimitsFree => \A y \in Zones \ {i} : e.zone[y] = dev.zone[y]
<1> DEFINE zn == run.zones[i]  old == dev.zone[i]  end == CopyEnd(zn)
<1>1. /\ i \in Zones /\ Placed(i) /\ DeviceOK(dev, Zones) /\ run.pass \in 2 .. 5
      /\ run.o \in Nat /\ run.o <= end /\ ~Finished(i) /\ Written(i) = run.o /\ ZoneOK(old)
      /\ Rebuilt(i) /\ zn.cond \in {"full", "closed", "exp_open", "imp_open"}
  BY Current
<1>2. /\ end \in 0 .. zn.cap /\ zn.cap \in Nat \ {0} /\ ~Cnv(zn)
      /\ zn.cond \in {"closed", "imp_open"} => 0 < end /\ end < zn.cap
      /\ zn.cond = "full" => end = zn.cap
  BY <1>1, InfoListed
<1>3. run.o = end
  BY <1>1, <1>2
<1>4. /\ old.wp = end /\ old.cap = zn.cap
      /\ old.cond = IF end = 0 THEN "empty" ELSE IF end = old.cap THEN "full" ELSE "imp_open"
  BY <1>1, <1>3 DEF Rebuilt, Placed, Fitting
<1>5. old \in [type : {"cnv", "seq"}, cap : Nat \ {0}, wp : Nat, data : {old.data}, cond : Conds]
  BY <1>1 DEF ZoneOK
<1> HIDE DEF zn, end
<1>6. CASE zn.cond = "closed"
  <2>1. e \in Close(dev, i)
    BY <1>6 DEF DoneDevs, zn
  <2>2. /\ e.zone[i] = Closed(old) /\ \A y \in Zones \ {i} : e.zone[y] = dev.zone[y]
    BY <1>1, <2>1, CloseDevice
  <2>3. Closed(old).wp = old.wp /\ Closed(old).cond = "closed"
    BY <1>2, <1>4, <1>5, <1>6 DEF Closed
  <2>4. QED
    BY <1>4, <1>6, <2>2, <2>3 DEF zn, end
<1>7. CASE zn.cond = "exp_open"
  <2>1. e \in Open(dev, i)
    BY <1>7 DEF DoneDevs, zn
  <2>2. e.zone[i] = [old EXCEPT !.cond = "exp_open"]
    BY <1>1, <2>1, OpenDevice
  <2>3. e.zone[i].wp = old.wp /\ e.zone[i].cond = "exp_open"
    BY <1>5, <2>2
  <2>4. LimitsFree => \A y \in Zones \ {i} : e.zone[y] = dev.zone[y]
    <3> SUFFICES ASSUME LimitsFree PROVE \A y \in Zones \ {i} : e.zone[y] = dev.zone[y]
      OBVIOUS
    <3>1. WithSlot(dev, i) = {dev}
      BY <1>1, Room
    <3>2. QED
      BY <1>1, <2>1, <3>1, OwnSlot
  <2>5. QED
    BY <1>4, <1>7, <2>3, <2>4 DEF zn, end
<1>8. CASE zn.cond \in {"full", "imp_open"}
  <2>1. e = dev
    BY <1>8 DEF DoneDevs, zn
  <2>2. old.cond = zn.cond
    BY <1>2, <1>4, <1>8
  <2>3. QED
    BY <1>4, <2>1, <2>2 DEF zn, end
<1>9. QED
  BY <1>1, <1>6, <1>7, <1>8

LEMMA DoneStep ==
  ASSUME TypeInv, Restoring, NEW i, i = run.i, run.pc = "restore", i < run.hi, run.pass > 1,
         Selected(run.pass, run.zones[i]), ~(run.o < CopyEnd(run.zones[i])),
         dev' \in DoneDevs(run.zones[i], i), Alike(dev, dev'), Apart(dev, dev', i),
         run' = NextZone(run), UNCHANGED <<data, info, bound, snap, orig>>
  PROVE  Restoring'
<1> DEFINE zn == run.zones[i]
<1>1. /\ i \in Zones /\ i \in Nat /\ Placed(i) /\ DeviceOK(dev, Zones) /\ Turn(zn) = run.pass
      /\ (Kept(i) <=> zn.cond \in {"empty", "offline"})
      /\ SeqZone(zn) => zn.cond \in {"full", "closed", "exp_open", "imp_open"}
      /\ (SeqZone(zn) <=> ~Cnv(zn)) /\ (Cnv(zn) => zn.cond \in {"not_wp", "rdonly", "offline"})
      /\ zn = info.zones[i]
  BY Current, InfoListed
<1>2. /\ run'.i = i + 1 /\ run'.o = 0 /\ run'.pass = run.pass /\ run'.zones = run.zones
      /\ run'.lo = run.lo /\ run'.hi = run.hi
  BY FrameSteps
<1>3. Finished(i)' /\ Written(i)' = CopyEnd(zn)
  BY <1>1, <1>2 DEF Finished, Written
<1>4. LimitsFree' <=> LimitsFree
  BY DEF LimitsFree, Kept, InRange
<1>5. CASE SeqZone(zn)
  <2>1. /\ dev'.zone[i].wp = CopyEnd(zn) /\ dev'.zone[i].cond = zn.cond
        /\ LimitsFree => \A y \in Zones \ {i} : dev'.zone[y] = dev.zone[y]
    BY <1>5, DoneDevice
  <2>2. Rebuilt(i)'
    BY <1>2, <1>3, <2>1 DEF Rebuilt
  <2>3. Fitting(i)'
    BY <1>1, <1>2, <1>5, <2>1 DEF Placed, Fitting, Alike, Cnv, SeqZone
  <2>4. ~Kept(i)'
    BY <1>1, <1>5 DEF Kept, InRange
  <2>5. Placed(i)' /\ Progress'
    BY <1>2, <2>2, <2>3, <2>4 DEF Placed, Progress
  <2>6. QED
    BY <1>1, <1>2, <2>1, <2>5, Onwards
<1>6. CASE Cnv(zn)
  <2>1. dev' = dev
    BY <1>1, <1>6 DEF DoneDevs
  <2>2. Fitting(i)' /\ (LimitsFree /\ Kept(i) => ~IsActive(dev.zone[i]))'
    BY <1>1, <1>2, <1>4, <2>1 DEF Placed, Fitting, Kept, InRange
  <2>3. ~Selected(1, zn)
    BY <1>1, <1>6 DEF Selected
  <2>4. Placed(i)' /\ Progress'
    BY <1>2, <2>2, <2>3 DEF Placed, Progress
  <2>5. QED
    BY <1>1, <1>2, <2>1, <2>4, Onwards
<1>7. QED
  BY <1>1, <1>5, <1>6

LEMMA ZoneStep ==
  ASSUME TypeInv, Restoring, RestoreZone
  PROVE  Restoring'
<1>1. PICK i : i = run.i
  OBVIOUS
<1> DEFINE zn == run.zones[i]
<1>2. /\ run.pc = "restore" /\ i < run.hi /\ UNCHANGED <<data, info, bound, snap, orig>>
      /\ \/ ~Selected(run.pass, zn) /\ run' = NextZone(run) /\ dev' = dev
         \/ /\ Selected(run.pass, zn) /\ dev' \in RestoreDevs
            /\ run' = IF run.pass > 1 /\ run.o < CopyEnd(zn)
                      THEN [run EXCEPT !.o = @ + 1] ELSE NextZone(run)
         \/ run' = Idle
  BY <1>1 DEF RestoreZone, End
<1>3. i \in Zones /\ run.pass \in 1 .. 5
  BY <1>1, <1>2, Current
<1>4. CASE ~Selected(run.pass, zn) /\ run' = NextZone(run) /\ dev' = dev
  BY <1>1, <1>2, <1>4, UnselectedStep
<1>5. CASE run' = Idle
  BY <1>5 DEF Idle, Restoring
<1>6. CASE /\ Selected(run.pass, zn) /\ dev' \in RestoreDevs
           /\ run' = IF run.pass > 1 /\ run.o < CopyEnd(zn)
                     THEN [run EXCEPT !.o = @ + 1] ELSE NextZone(run)
  <2>1. Alike(dev, dev') /\ Apart(dev, dev', i)
    BY <1>1, <1>3, <1>6, RestoreDevice DEF TypeInv, TypeOK
  <2>2. CASE run.pass = 1
    <3>1. dev' \in Reset(dev, i) /\ Selected(1, zn) /\ run' = NextZone(run)
      BY <1>1, <1>6, <2>2 DEF RestoreDevs
    <3>2. QED
      BY <1>1, <1>2, <2>2, <3>1, ResetStep
  <2>3. CASE run.pass > 1 /\ run.o < CopyEnd(zn)
    <3>1. PICK v : dev' \in Write(dev, i, run.o, v)
      BY <1>1, <1>6, <2>3 DEF RestoreDevs
    <3>2. run' = [run EXCEPT !.o = @ + 1]
      BY <1>6, <2>3
    <3>3. QED
      BY <1>1, <1>2, <1>6, <2>3, <3>1, <3>2, WriteStep
  <2>4. CASE run.pass > 1 /\ ~(run.o < CopyEnd(zn))
    <3>1. dev' \in DoneDevs(zn, i) /\ run' = NextZone(run)
      BY <1>1, <1>6, <2>4 DEF RestoreDevs, DoneDevs
    <3>2. QED
      BY <1>1, <1>2, <1>6, <2>1, <2>4, <3>1, DoneStep
  <2>5. QED
    BY <1>3, <2>2, <2>3, <2>4
<1>7. QED
  BY <1>2, <1>4, <1>5, <1>6

\* Between two passes every zone is finished or waits.
LEMMA BetweenPasses ==
  ASSUME TypeInv, Restoring, run.pc = "restore", run.i = run.hi,
         run' = [run EXCEPT !.pass = @ + 1, !.i = run.lo]
  PROVE  /\ run'.pc = "restore" /\ run'.pass = run.pass + 1 /\ run'.i = run.lo /\ run'.o = 0
         /\ run'.lo = run.lo /\ run'.hi = run.hi /\ run'.zones = run.zones
         /\ \A z \in Zones : Within(z) =>
                z < run.i /\ (Finished(z)' <=> Finished(z)) /\ Written(z)' = Written(z)
<1>1. /\ run.o \in Nat /\ run.lo \in Nat /\ run.hi \in Nat /\ run.pass \in 1 .. 5
      /\ run \in [pc : Dumping \cup {"idle", "restore"}, pass : 0 .. 5, i : 0 .. NZ, o : Nat,
                  lo : 0 .. NZ, hi : 0 .. NZ, zones : {run.zones}]
  BY DumpConstants DEF TypeInv, Framed
<1>2. /\ run'.pc = "restore" /\ run'.pass = run.pass + 1 /\ run'.i = run.lo /\ run'.o = run.o
      /\ run'.lo = run.lo /\ run'.hi = run.hi /\ run'.zones = run.zones
  BY <1>1
<1>3. run.o = 0
  BY <1>1 DEF Restoring, Progress
<1>4. ASSUME NEW z \in Zones, Within(z)
      PROVE  z < run.i /\ (Finished(z)' <=> Finished(z)) /\ Written(z)' = Written(z)
  <2>1. Turn(run.zones[z]) \in 2 .. 6 /\ z \in Nat
    BY InfoListed, ZonesNat
  <2>2. z < run.i /\ ~(z < run.lo) /\ z # run.i
    BY <1>1, <1>4, <2>1 DEF Within
  <2>3. Finished(z)' <=> Finished(z)
    BY <1>1, <1>2, <2>1, <2>2 DEF Finished
  <2>4. Written(z)' = Written(z)
    BY <1>2, <1>3, <2>2, <2>3 DEF Written
  <2>5. QED
    BY <2>2, <2>3, <2>4
<1>5. QED
  BY <1>2, <1>3, <1>4

LEMMA PassStep ==
  ASSUME TypeInv, Restoring, NextPass
  PROVE  Restoring'
<1>1. /\ run.pc = "restore" /\ run.i = run.hi /\ UNCHANGED <<dev, data, info, bound, snap, orig>>
      /\ \/ run' = [run EXCEPT !.pass = @ + 1, !.i = run.lo]
         \/ run' = Idle
  BY DEF NextPass, End
<1>2. CASE run' = Idle
  BY <1>2 DEF Idle, Restoring
<1>3. CASE run' = [run EXCEPT !.pass = @ + 1, !.i = run.lo]
  <2>1. run.pass \in 1 .. 5
    BY <1>1 DEF TypeInv, Framed
  <2>2. /\ run'.pc = "restore" /\ run'.pass = run.pass + 1 /\ run'.i = run.lo /\ run'.o = 0
        /\ run'.lo = run.lo /\ run'.hi = run.hi /\ run'.zones = run.zones
        /\ \A z \in Zones : Within(z) =>
               z < run.i /\ (Finished(z)' <=> Finished(z)) /\ Written(z)' = Written(z)
    BY <1>1, <1>3, BetweenPasses
  <2>4. LimitsFree' <=> LimitsFree
    BY <1>1 DEF LimitsFree, Kept, InRange
  <2>5. ASSUME NEW z \in Zones PROVE Placed(z)'
    <3>1. Placed(z)
      BY <1>1 DEF Restoring
    <3>2. Fitting(z)' /\ (LimitsFree /\ Kept(z) => ~IsActive(dev.zone[z]))'
      BY <1>1, <2>2, <2>4, <3>1 DEF Placed, Fitting, Kept, InRange
    <3>3. ASSUME Within(z)', Selected(1, run.zones[z])'
          PROVE  Rebuilt(z)'
      <4>1. Within(z) /\ Selected(1, run.zones[z])
        BY <2>2, <3>3 DEF Within
      <4>2. /\ Rebuilt(z) /\ (Finished(z)' <=> Finished(z)) /\ Written(z)' = Written(z)
        BY <2>2, <3>1, <4>1 DEF Placed
      <4>3. QED
        BY <1>1, <2>2, <2>4, <4>2 DEF Rebuilt
    <3>4. QED
      BY <3>2, <3>3 DEF Placed
  <2>6. LimitsFit' /\ Progress'
    BY <1>1, <2>2 DEF Restoring, LimitsFit, Progress
  <2>7. QED
    BY <2>5, <2>6 DEF Restoring
<1>4. QED
  BY <1>1, <1>2, <1>3

LEMMA BeginStep ==
  ASSUME TypeInv, RestoreStart
  PROVE  Restoring'
<1>1. /\ orig' = dev /\ UNCHANGED <<dev, data, info, snap>>
      /\ \/ /\ ZonesFit
            /\ run' = [pc |-> "restore", pass |-> 1, i |-> info.lo, o |-> 0,
                       lo |-> info.lo, hi |-> info.hi, zones |-> info.zones]
         \/ run' = Idle
  BY DEF RestoreStart, DumpRange, End
<1>2. CASE run' = Idle
  BY <1>2 DEF Idle, Restoring
<1>3. CASE /\ ZonesFit
           /\ run' = [pc |-> "restore", pass |-> 1, i |-> info.lo, o |-> 0,
                      lo |-> info.lo, hi |-> info.hi, zones |-> info.zones]
  <2>1. /\ run'.pass = 1 /\ run'.i = info.lo /\ run'.lo = info.lo /\ run'.o = 0
        /\ run'.zones = info.zones
    BY <1>3
  <2>2. info.lo \in Nat
    <3>1. <<info.lo, info.hi>> \in Ranges
      BY <1>3 DEF ZonesFit, TypeInv, TypeOK
    <3>2. QED
      BY <3>1, ZonesNat
  <2>3. ASSUME NEW z \in Zones PROVE Placed(z)'
    <3>1. Fitting(z)'
      BY <1>1, <1>3, <2>1 DEF ZonesFit, Fitting
    <3>2. ~(Within(z) /\ (run.pass > 1 \/ z < run.i))'
      BY <2>1, <2>2, ZonesNat DEF Within
    <3>3. (LimitsFree /\ Kept(z) => ~IsActive(dev.zone[z]))'
      BY <1>1 DEF LimitsFree
    <3>4. QED
      BY <3>1, <3>2, <3>3 DEF Placed
  <2>4. LimitsFit' /\ Progress'
    BY <1>1, <1>3, <2>1 DEF ZonesFit, LimitsFit, Progress
  <2>5. QED
    BY <2>3, <2>4 DEF Restoring
<1>4. QED
  BY <1>1, <1>2, <1>3

LEMMA StepRestoring == TypeInv /\ Restoring /\ [Next]_vars => Restoring'
<1> SUFFICES ASSUME TypeInv, Restoring, [Next]_vars PROVE Restoring'
  OBVIOUS
<1>1. CASE RestoreStart \/ NextPass \/ RestoreZone
  BY <1>1, BeginStep, PassStep, ZoneStep
<1>2. CASE Abort \/ DumpInfo
  BY <1>2 DEF Abort, DumpInfo, End, Idle, Restoring
<1>3. CASE \E r \in Ranges : DumpStart(r)
  <2>1. run'.pc = "size"
    BY <1>3 DEF DumpStart, Idle
  <2>2. QED
    BY <2>1 DEF Restoring
<1>4. CASE DumpSize \/ DumpZone \/ DumpData
  <2>1. run'.pc \in Dumping
    <3>1. CASE DumpZone
      <4>1. run.pc = "dump" /\ run' \in {NextZone(run), [run EXCEPT !.o = @ + 1]}
        BY <3>1 DEF DumpZone
      <4>2. QED
        BY <4>1, FrameSteps DEF Dumping
    <3>2. CASE DumpSize \/ DumpData
      BY <3>2 DEF DumpSize, DumpData, TypeInv, Framed, Dumping
    <3>3. QED
      BY <1>4, <3>1, <3>2
  <2>2. QED
    BY <2>1 DEF Restoring, Dumping
<1>5. CASE Host \/ \E d \in Devices : Attach(d)
  <2>1. run' = run /\ run.pc # "restore"
    BY <1>5 DEF Host, HostActing, Attach
  <2>2. QED
    BY <2>1 DEF Restoring
<1>6. CASE UNCHANGED vars
  <2>1. LimitsFree' <=> LimitsFree
    BY <1>6 DEF vars, LimitsFree, Kept, InRange
  <2>2. \A z \in Zones : Placed(z)' <=> Placed(z)
    <3> SUFFICES ASSUME NEW z \in Zones PROVE Placed(z)' <=> Placed(z)
      OBVIOUS
    <3>1. (Finished(z)' <=> Finished(z)) /\ Written(z)' = Written(z)
      BY <1>6 DEF vars, Finished, Written
    <3>2. Rebuilt(z)' <=> Rebuilt(z)
      BY <1>6, <2>1, <3>1 DEF vars, Rebuilt
    <3>3. QED
      BY <1>6, <2>1, <3>2 DEF vars, Placed, Fitting, Within, Kept, InRange
  <2>3. QED
    BY <1>6, <2>2 DEF vars, Restoring, Progress, LimitsFit
<1>7. QED
  BY <1>1, <1>2, <1>3, <1>4, <1>5, <1>6 DEF Next, Command

-----------------------------------------------------------------------------
(* No command of a restore is refused.                                     *)

Reachable == \A z \in Zones : ~(Cnv(orig.zone[z]) /\ orig.zone[z].cond = "offline")

LEMMA NoRefusal ==
  ASSUME TypeInv, Restoring, run.pc = "restore", run.i < run.hi, LimitsFree, Reachable,
         Selected(run.pass, run.zones[run.i])
  PROVE  RestoreDevs # {}
<1> DEFINE i == run.i  zn == run.zones[i]  old == dev.zone[i]  end == CopyEnd(zn)
<1>1. /\ i \in Zones /\ Placed(i) /\ run.o \in Nat /\ run.pass \in 1 .. 5 /\ ZoneOK(old)
      /\ run.pass > 1 =>
           /\ Turn(zn) = run.pass /\ ~Finished(i) /\ Written(i) = run.o /\ run.o <= end
           /\ SeqZone(zn) => Rebuilt(i) /\ zn.cond \in {"full", "closed", "exp_open", "imp_open"}
  BY Current
<1>2. /\ end \in 0 .. zn.cap /\ zn.cap \in Nat \ {0} /\ (SeqZone(zn) <=> ~Cnv(zn))
      /\ zn.cond \in {"closed", "imp_open"} => 0 < end /\ end < zn.cap
      /\ zn.cond = "exp_open" => end < zn.cap
      /\ Cnv(zn) => zn.cond \in {"not_wp", "rdonly", "offline"}
  BY <1>1, InfoListed
<1>3. /\ old.type = zn.type /\ old.cap = zn.cap /\ old.cond # "rdonly"
      /\ old.cond = "offline" => zn.cond = "offline"
      /\ Cnv(old) => Cnv(orig.zone[i]) /\ old.cond = orig.zone[i].cond
  BY <1>1 DEF Placed, Fitting
<1>4. CASE run.pass = 1
  <2>1. SeqZone(old) /\ old.cond # "offline"
    BY <1>3, <1>4 DEF Selected, SeqZone
  <2>2. old.cond \in Usable \cup {"full"}
    BY <1>1, <1>3, <2>1 DEF ZoneOK, Conds, Usable
  <2>3. QED
    BY <1>4, <2>2 DEF RestoreDevs, Reset
<1>5. CASE run.pass > 1 /\ Cnv(zn)
  <2>1. Cnv(old) /\ old.cond = "not_wp"
    BY <1>1, <1>3, <1>5 DEF Reachable, ZoneOK, Cnv
  <2>2. CASE run.o < end
    <3> DEFINE v == data.zone[i][run.o]
    <3>1. Write(dev, i, run.o, v) # {} /\ v \in Moved(v)
      BY <2>1 DEF Write, Moved
    <3>2. Write(dev, i, run.o, v) \subseteq RestoreDevs
      BY <1>5, <2>2, <3>1 DEF RestoreDevs
    <3>3. QED
      BY <3>1, <3>2
  <2>3. CASE ~(run.o < end)
    BY <1>2, <1>5, <2>3 DEF RestoreDevs
  <2>4. QED
    BY <2>2, <2>3
<1>6. CASE run.pass > 1 /\ SeqZone(zn)
  <2>1. WithSlot(dev, i) = {dev}
    BY <1>1, <1>6, Room
  <2>2. /\ old.wp = run.o /\ run.o <= end
        /\ old.cond = IF run.o = 0 THEN "empty"
                      ELSE IF run.o = old.cap THEN "full" ELSE "imp_open"
    BY <1>1, <1>6 DEF Rebuilt
  <2>3. CASE run.o < end
    <3> DEFINE v == data.zone[i][run.o]
    <3>1. old.cond \in Usable
      BY <1>1, <1>2, <1>3, <2>2, <2>3 DEF Usable
    <3>2. Write(dev, i, run.o, v) # {} /\ v \in Moved(v)
      BY <1>3, <1>6, <2>1, <2>2, <3>1 DEF Write, Moved, SeqZone, Cnv
    <3>3. Write(dev, i, run.o, v) \subseteq RestoreDevs
      BY <1>6, <2>3, <3>2 DEF RestoreDevs
    <3>4. QED
      BY <3>2, <3>3
  <2>4. CASE ~(run.o < end) /\ zn.cond = "closed"
    <3>1. IsActive(old)
      BY <1>1, <1>2, <1>3, <2>2, <2>4 DEF IsActive, IsOpen
    <3>2. Close(dev, i) # {}
      BY <3>1 DEF Close
    <3>3. RestoreDevs = Close(dev, i)
      BY <1>6, <2>4 DEF RestoreDevs
    <3>4. QED
      BY <3>2, <3>3
  <2>5. CASE ~(run.o < end) /\ zn.cond = "exp_open"
    <3>1. old.cond \in Usable
      BY <1>1, <1>2, <1>3, <2>2, <2>5 DEF Usable
    <3>2. Open(dev, i) # {}
      BY <2>1, <3>1 DEF Open
    <3>3. QED
      BY <1>6, <2>5, <3>2 DEF RestoreDevs
  <2>6. CASE ~(run.o < end) /\ zn.cond \notin {"closed", "exp_open"}
    BY <1>6, <2>6 DEF RestoreDevs
  <2>7. QED
    BY <2>3, <2>4, <2>5, <2>6
<1>7. QED
  BY <1>1, <1>2, <1>4, <1>5, <1>6

LEMMA StepNoLimit == TypeInv /\ Restoring /\ NoLimitHit /\ [Next]_vars => NoLimitHit'
<1> SUFFICES ASSUME TypeInv, Restoring, NoLimitHit, [Next]_vars, result' = "no_slot"
             PROVE  (~LimitsFree \/ ~Reachable)'
  BY DEF NoLimitHit, Reachable
<1>1. CASE Abort \/ DumpInfo \/ RestoreStart \/ NextPass \/ Host \/ \E d \in Devices : Attach(d)
  <2>1. result' # "no_slot"
    <3>1. run.pc = "restore" => result = "none"
      BY DEF TypeInv, Framed
    <3>2. QED
      BY <1>1, <3>1 DEF Abort, DumpInfo, RestoreStart, NextPass, Host, Attach, End
  <2>2. QED
    BY <2>1
<1>2. CASE \E r \in Ranges : DumpStart(r)
  <2>1. result' = "none"
    BY <1>2 DEF DumpStart
  <2>2. QED
    BY <2>1
<1>3. CASE DumpSize \/ DumpZone \/ DumpData
  <2>1. result' = result /\ run.pc \in Dumping
    BY <1>3 DEF DumpSize, DumpZone, DumpData, Dumping
  <2>2. QED
    BY <2>1 DEF TypeInv, Framed
<1>4. CASE RestoreZone
  <2>1. /\ run.pc = "restore" /\ run.i < run.hi /\ UNCHANGED <<info, orig>>
        /\ Selected(run.pass, run.zones[run.i]) /\ RestoreDevs = {}
    <3>1. run.pc = "restore" => result = "none"
      BY DEF TypeInv, Framed
    <3>2. QED
      BY <1>4, <3>1 DEF RestoreZone
  <2>2. ~LimitsFree \/ ~Reachable
    BY <2>1, NoRefusal
  <2>3. QED
    BY <2>1, <2>2 DEF LimitsFree, Kept, InRange, Reachable
<1>5. CASE UNCHANGED vars
  BY <1>5 DEF vars, NoLimitHit, LimitsFree, Kept, InRange, Reachable
<1>6. QED
  BY <1>1, <1>2, <1>3, <1>4, <1>5 DEF Next, Command

\* zbd_load_zone_info compares the dump with the limits of the target once, as a
\* whole, and the passes restore closed zones before explicitly open ones and
\* implicitly open ones last: unless zones that restore leaves alone hold slots of
\* the target, or one of its conventional zones is offline, the target refuses no
\* command of the restore, whatever its limits are.
THEOREM OrderOfPassesFits == Spec => []NoLimitHit
<1>1. Init => TypeInv /\ Restoring /\ NoLimitHit
  BY InitType DEF Init, Idle, Restoring, NoLimitHit
<1>2. TypeInv /\ Restoring /\ NoLimitHit /\ [Next]_vars => (TypeInv /\ Restoring /\ NoLimitHit)'
  BY StepType, StepRestoring, StepNoLimit
<1>3. QED
  BY <1>1, <1>2, PTL DEF Spec

-----------------------------------------------------------------------------
(* What a restore brings back.                                             *)

\* The data of the current zone, after a step on it.
LEMMA CurrentLoaded ==
  ASSUME Exclusive, TypeInv, Restoring, NEW i, i = run.i, RestoreZone, run' # Idle,
         \A p \in 0 .. Written(i) - 1 : dev.zone[i].data[p] = data.zone[i][p]
  PROVE  \A p \in 0 .. Written(i)' - 1 : dev'.zone[i].data[p] = data.zone[i][p]
<1> DEFINE zn == run.zones[i]  old == dev.zone[i]  end == CopyEnd(zn)
<1>1. /\ run.pc = "restore" /\ i < run.hi
      /\ \/ ~Selected(run.pass, zn) /\ run' = NextZone(run) /\ dev' = dev
         \/ /\ Selected(run.pass, zn) /\ dev' \in RestoreDevs
            /\ run' = IF run.pass > 1 /\ run.o < end THEN [run EXCEPT !.o = @ + 1]
                      ELSE NextZone(run)
  BY DEF RestoreZone, End
<1>2. /\ i \in Zones /\ i \in Nat /\ run.o \in Nat /\ run.pass \in 1 .. 5
      /\ DeviceOK(dev, Zones) /\ ZoneOK(old)
      /\ Turn(zn) \in 2 .. 6 /\ \A p \in 2 .. 5 : Selected(p, zn) <=> Turn(zn) = p
  BY <1>1, Current, InfoListed
<1>3. CASE run.pass = 1 \/ ~Selected(run.pass, zn)
  <2>1. run' = NextZone(run)
    BY <1>1, <1>3
  <2>2. run'.i = i + 1 /\ run'.o = 0 /\ run'.pass = run.pass /\ run'.zones = run.zones
    BY <2>1, FrameSteps
  <2>3. CASE run.pass = 1
    <3>1. Written(i)' = 0
      BY <1>2, <2>2, <2>3 DEF Written, Finished
    <3>2. QED
      BY <3>1
  <2>4. CASE run.pass > 1
    <3>1. run.pass # Turn(zn) /\ dev' = dev
      BY <1>1, <1>2, <1>3, <2>4
    <3>2. Written(i)' = Written(i)
      BY <2>2, <3>1 DEF Written, Finished
    <3>3. QED
      BY <3>1, <3>2
  <2>5. QED
    BY <1>2, <2>3, <2>4
<1>4. CASE run.pass > 1 /\ Selected(run.pass, zn)
  <2>1. /\ Turn(zn) = run.pass /\ Written(i) = run.o /\ run.o <= end /\ dev' \in RestoreDevs
        /\ run' = IF run.o < end THEN [run EXCEPT !.o = @ + 1] ELSE NextZone(run)
        /\ Placed(i)
    BY <1>1, <1>4, Current
  <2>2. end \in 0 .. zn.cap /\ zn.cap \in Nat /\ old.cap = zn.cap
    BY <1>1, <1>2, <2>1, InfoListed DEF Placed, Fitting
  <2>3. CASE run.o < end
    <3> DEFINE v == data.zone[i][run.o]
    <3>1. dev' \in Write(dev, i, run.o, v)
      BY <1>4, <2>1, <2>3 DEF RestoreDevs, Moved, Exclusive
    <3>2. dev'.zone[i].data = [old.data EXCEPT ![run.o] = v]
      <4>1. Wrote(old, dev'.zone[i], run.o, v)
        BY <1>2, <3>1, WriteDevice
      <4>2. QED
        BY <4>1 DEF Wrote
    <3>3. Written(i)' = run.o + 1
      <4>1. run' = [run EXCEPT !.o = @ + 1]
        BY <2>1, <2>3
      <4>2. run'.i = i /\ run'.o = run.o + 1 /\ run'.pass = run.pass /\ run'.zones = run.zones
        BY <4>1, FrameSteps
      <4>3. QED
        BY <1>2, <2>1, <4>2 DEF Written, Finished
    <3>4. run.o \in DOMAIN old.data
      BY <1>2, <2>2, <2>3, ZoneFields
    <3> SUFFICES ASSUME NEW p \in 0 .. run.o PROVE dev'.zone[i].data[p] = data.zone[i][p]
      BY <1>2, <3>3
    <3>5. CASE p = run.o
      BY <3>2, <3>4, <3>5
    <3>6. CASE p # run.o
      <4>1. p \in 0 .. run.o - 1
        BY <1>2, <3>6
      <4>2. dev'.zone[i].data[p] = old.data[p]
        BY <3>2, <3>6
      <4>3. QED
        BY <2>1, <4>1, <4>2
    <3>7. QED
      BY <3>5, <3>6
  <2>4. CASE ~(run.o < end)
    <3>1. run' = NextZone(run) /\ run.o = end
      BY <1>2, <2>1, <2>2, <2>4
    <3>2. run'.i = i + 1 /\ run'.pass = run.pass /\ run'.zones = run.zones
      BY <3>1, FrameSteps
    <3>3. Written(i)' = end
      BY <1>2, <2>1, <3>2 DEF Written, Finished
    <3>4. dev' \in DoneDevs(zn, i)
      BY <1>4, <2>1, <2>4 DEF RestoreDevs, DoneDevs
    <3>5. dev'.zone[i].data = old.data
      <4>1. old \in [type : {"cnv", "seq"}, cap : Nat \ {0}, wp : Nat, data : {old.data},
                     cond : Conds]
        BY <1>2 DEF ZoneOK
      <4>2. CASE dev' \in Close(dev, i)
        <5>1. dev'.zone[i] = Closed(old)
          BY <1>2, <4>2, CloseDevice
        <5>2. QED
          BY <4>1, <5>1 DEF Closed
      <4>3. CASE dev' \in Open(dev, i)
        <5>1. dev'.zone[i] = [old EXCEPT !.cond = "exp_open"]
          BY <1>2, <4>3, OpenDevice
        <5>2. QED
          BY <4>1, <5>1
      <4>4. CASE dev' = dev
        BY <4>4
      <4>5. QED
        BY <3>4, <4>2, <4>3, <4>4 DEF DoneDevs
    <3>6. QED
      BY <2>1, <3>1, <3>3, <3>5
  <2>5. QED
    BY <2>3, <2>4
<1>5. QED
  BY <1>2, <1>3, <1>4

LEMMA ZoneLoaded ==
  ASSUME Exclusive, TypeInv, Restoring, Loaded, RestoreZone
  PROVE  Loaded'
<1>1. CASE run' = Idle
  BY <1>1 DEF Loaded, Idle
<1>2. CASE run' # Idle
  <2>1. /\ run.pc = "restore" /\ run.i < run.hi /\ UNCHANGED <<data, info, bound, snap, orig>>
        /\ dev' = dev \/ dev' \in RestoreDevs
        /\ run' = NextZone(run) \/ run' = [run EXCEPT !.o = @ + 1]
    BY <1>2 DEF RestoreZone, End
  <2>2. PICK i \in Zones : i = run.i
    BY <2>1, Current
  <2>3. /\ run'.pass = run.pass /\ run'.zones = run.zones /\ run'.lo = run.lo
        /\ run'.hi = run.hi
        /\ run'.i = run.i \/ (run'.i = run.i + 1 /\ run'.o = 0)
    BY <2>1, FrameSteps
  <2>4. Within(i) /\ Apart(dev, dev', i) /\ DeviceOK(dev, Zones)
    <3>1. Within(i) /\ DeviceOK(dev, Zones)
      BY <2>1, <2>2, Current
    <3>2. CASE dev' = dev
      BY <3>1, <3>2 DEF Apart, Left
    <3>3. CASE dev' \in RestoreDevs
      BY <2>2, <3>1, <3>3, RestoreDevice
    <3>4. QED
      BY <2>1, <3>1, <3>2, <3>3
  <2>5. \A p \in 0 .. Written(i)' - 1 : dev'.zone[i].data[p] = data.zone[i][p]
    <3>1. \A p \in 0 .. Written(i) - 1 : dev.zone[i].data[p] = data.zone[i][p]
      BY <2>1, <2>4 DEF Loaded
    <3>2. QED
      BY <1>2, <2>2, <3>1, CurrentLoaded
  <2>6. ASSUME NEW z \in Zones, z # i, Within(z)
        PROVE  \A p \in 0 .. Written(z)' - 1 : dev'.zone[z].data[p] = data.zone[z][p]
    <3>1. Written(z)' = Written(z)
      BY <2>1, <2>2, <2>3, <2>6, SameWritten
    <3>2. dev'.zone[z].data = dev.zone[z].data
      BY <2>4, <2>6, LeftData DEF SameData
    <3>3. QED
      BY <2>1, <2>6, <3>1, <3>2 DEF Loaded
  <2>7. \A z \in Zones : Within(z)' <=> Within(z)
    BY <2>3 DEF Within
  <2>8. QED
    BY <2>1, <2>5, <2>6, <2>7 DEF Loaded
<1>3. QED
  BY <1>1, <1>2

LEMMA StepLoaded == Exclusive /\ TypeInv /\ Restoring /\ Loaded /\ [Next]_vars => Loaded'
<1> SUFFICES ASSUME Exclusive, TypeInv, Restoring, Loaded, [Next]_vars PROVE Loaded'
  OBVIOUS
<1>1. CASE RestoreZone
  BY <1>1, ZoneLoaded
<1>2. CASE NextPass
  <2>1. /\ run.pc = "restore" /\ run.i = run.hi /\ UNCHANGED <<dev, data>>
        /\ \/ run' = [run EXCEPT !.pass = @ + 1, !.i = run.lo]
           \/ run' = Idle
    BY <1>2 DEF NextPass, End
  <2>2. CASE run' = Idle
    BY <2>2 DEF Loaded, Idle
  <2>3. CASE run' = [run EXCEPT !.pass = @ + 1, !.i = run.lo]
    <3>1. /\ run'.lo = run.lo /\ run'.hi = run.hi
          /\ \A z \in Zones : Within(z) => Written(z)' = Written(z)
      BY <2>1, <2>3, BetweenPasses
    <3>2. \A z \in Zones : Within(z)' <=> Within(z)
      BY <3>1 DEF Within
    <3>3. QED
      BY <2>1, <3>1, <3>2 DEF Loaded
  <2>4. QED
    BY <2>1, <2>2, <2>3
<1>3. CASE RestoreStart
  <2>1. CASE run'.pc = "restore"
    <3>1. /\ run'.pass = 1 /\ run'.o = 0 /\ run'.zones = info.zones /\ info # Absent
      BY <1>3, <2>1 DEF RestoreStart, ZonesFit, DumpRange, End, Idle
    <3>2. ASSUME NEW z \in Zones PROVE Written(z)' = 0
      <4>1. Turn(info.zones[z]) \in 2 .. 6
        BY DEF Turn
      <4>2. QED
        BY <3>1, <4>1 DEF Written, Finished
    <3>3. QED
      BY <3>2 DEF Loaded
  <2>2. QED
    BY <2>1 DEF Loaded
<1>4. CASE Abort \/ DumpInfo
  BY <1>4 DEF Abort, DumpInfo, End, Idle, Loaded
<1>5. CASE \E r \in Ranges : DumpStart(r)
  <2>1. run'.pc = "size"
    BY <1>5 DEF DumpStart, Idle
  <2>2. QED
    BY <2>1 DEF Loaded
<1>6. CASE DumpSize \/ DumpZone \/ DumpData
  <2>1. run.pc \in Dumping /\ run'.pc # "restore"
    <3>1. CASE DumpZone
      <4>1. run.pc = "dump" /\ run' \in {NextZone(run), [run EXCEPT !.o = @ + 1]}
        BY <3>1 DEF DumpZone
      <4>2. QED
        BY <4>1, FrameSteps DEF Dumping
    <3>2. CASE DumpSize \/ DumpData
      BY <3>2 DEF DumpSize, DumpData, TypeInv, Framed, Dumping
    <3>3. QED
      BY <1>6, <3>1, <3>2
  <2>2. QED
    BY <2>1 DEF Loaded
<1>7. CASE Host \/ \E d \in Devices : Attach(d)
  <2>1. run' = run /\ run.pc # "restore"
    BY <1>7 DEF Host, HostActing, Attach
  <2>2. QED
    BY <2>1 DEF Loaded
<1>8. CASE UNCHANGED vars
  BY <1>8 DEF vars, Loaded, Within, Written, Finished
<1>9. QED
  BY <1>1, <1>2, <1>3, <1>4, <1>5, <1>6, <1>7, <1>8 DEF Next, Command

\* After the last pass a zone is as the dump found it.
LEMMA BroughtBack ==
  ASSUME TypeInv, Restoring, Loaded, InfoDescribesData, run.pc = "restore", run.pass = 5,
         run.i = run.hi, NEW z \in Zones, Within(z)
  PROVE  LET zn == dev.zone[z]  old == snap.info.zone[z]
         IN  /\ old.cond \in {"full", "closed", "exp_open", "imp_open"} =>
                  SameData(zn, old) /\ (zn.cond = old.cond \/
                    (~LimitsFree /\ old.cond = "imp_open" /\ zn.cond = "closed"))
             /\ old.cond = "not_wp" => zn.data = old.data
<1> DEFINE zn == dev.zone[z]  old == snap.info.zone[z]  listed == run.zones[z]
           end == CopyEnd(listed)
<1>1. /\ ZoneOK(old) /\ listed.type = old.type /\ listed.cap = old.cap
      /\ listed.cond = old.cond /\ listed = info.zones[z]
      /\ end = CopyEnd(old) /\ end \in 0 .. listed.cap /\ listed.cap \in Nat \ {0}
      /\ listed.cond = "full" \/ Cnv(listed) => end = listed.cap
      /\ (SeqZone(listed) <=> ~Cnv(listed))
      /\ Cnv(listed) => listed.cond \in {"not_wp", "rdonly", "offline"}
  BY InfoListed
<1>2. ZoneOK(zn) /\ zn.type = old.type /\ zn.cap = old.cap /\ Placed(z)
  BY <1>1 DEF Restoring, Placed, Fitting, TypeInv, TypeOK, DeviceOK
<1>3. InRange(z) /\ z < run.i
  BY DEF Within, InRange, TypeInv, Framed
<1>4. ASSUME Turn(listed) <= 5
      PROVE  Finished(z) /\ Written(z) = end
  BY <1>3, <1>4 DEF Finished, Written, Turn
<1>5. ASSUME Turn(listed) <= 5, old.cond # "offline"
      PROVE  \A p \in 0 .. end - 1 : zn.data[p] = old.data[p]
  <2>1. \A p \in 0 .. end - 1 : zn.data[p] = data.zone[z][p]
    BY <1>4, <1>5 DEF Loaded
  <2>2. \A p \in 0 .. end - 1 : data.zone[z][p] = old.data[p]
    BY <1>1, <1>3, <1>5 DEF InfoDescribesData, TypeInv, Framed
  <2>3. QED
    BY <2>1, <2>2
<1>6. /\ zn.data = [p \in 0 .. old.cap - 1 |-> zn.data[p]]
      /\ old.data = [p \in 0 .. old.cap - 1 |-> old.data[p]]
  BY <1>1, <1>2 DEF ZoneOK
<1>7. ASSUME old.cond \in {"full", "closed", "exp_open", "imp_open"}
      PROVE  SameData(zn, old) /\ (zn.cond = old.cond \/
               (~LimitsFree /\ old.cond = "imp_open" /\ zn.cond = "closed"))
  <2>1. SeqZone(listed) /\ Turn(listed) <= 5 /\ SeqZone(old) /\ SeqZone(zn)
    BY <1>1, <1>2, <1>7 DEF Turn, Cnv, SeqZone
  <2>2. Rebuilt(z)
    <3>1. Selected(1, listed)
      BY <1>1, <1>7, <2>1 DEF Selected
    <3>2. QED
      BY <1>2, <3>1 DEF Placed
  <2>3. zn.wp = end /\ (zn.cond = old.cond \/
            (~LimitsFree /\ old.cond = "imp_open" /\ zn.cond = "closed"))
    BY <1>1, <1>4, <2>1, <2>2 DEF Rebuilt
  <2>4. old.wp = end
    BY <1>1, <1>7, <2>1 DEF ZoneOK, CopyEnd
  <2>5. ASSUME NEW p \in 0 .. old.cap - 1 PROVE zn.data[p] = old.data[p]
    <3>1. CASE p < end
      BY <1>1, <1>5, <1>7, <2>1, <3>1
    <3>2. CASE ~(p < end)
      <4>1. p \in end .. old.cap - 1
        BY <1>1, <3>2
      <4>2. zn.data[p] = Zero /\ old.data[p] = Zero
        BY <1>1, <1>2, <2>1, <2>3, <2>4, <4>1 DEF ZoneOK
      <4>3. QED
        BY <4>2
    <3>3. QED
      BY <3>1, <3>2
  <2>6. zn.data = old.data
    BY <1>6, <2>5
  <2>7. QED
    BY <2>3, <2>4, <2>6 DEF SameData
<1>8. ASSUME old.cond = "not_wp"
      PROVE  zn.data = old.data
  <2>1. Cnv(listed) /\ Turn(listed) <= 5
    BY <1>1, <1>8 DEF ZoneOK, Cnv, SeqZone, Turn
  <2>2. end = old.cap
    BY <1>1, <2>1
  <2>3. \A p \in 0 .. old.cap - 1 : zn.data[p] = old.data[p]
    BY <1>5, <1>8, <2>1, <2>2
  <2>4. QED
    BY <1>6, <2>3
<1>9. QED
  BY <1>7, <1>8

LEMMA StepRestored ==
  ASSUME TypeInv, Restoring, Loaded, InfoDescribesData, RestoredIsDumped, [Next]_vars
  PROVE  RestoredIsDumped'
<1>1. CASE NextPass /\ run' = Idle
  <2>1. /\ run.pc = "restore" /\ run.i = run.hi /\ run.pass = 5
        /\ UNCHANGED <<dev, info, snap, orig>>
    <3>1. run.pass \in 1 .. 5 /\ run.pc = "restore"
      BY <1>1 DEF NextPass, TypeInv, Framed
    <3>2. ~(run.pass < 5)
      <4>1. run.pass < 5 => run' = [run EXCEPT !.pass = @ + 1, !.i = run.lo]
        BY <1>1 DEF NextPass
      <4>2. run.pass < 5 => run'.pc = "restore"
        BY <1>1, <3>1, <4>1, BetweenPasses DEF NextPass
      <4>3. QED
        BY <1>1, <4>2 DEF Idle
    <3>3. QED
      BY <1>1, <3>1, <3>2 DEF NextPass
  <2>2. \A z \in Zones : InRange(z) => Within(z)
    BY <2>1 DEF InRange, Within, TypeInv, Framed
  <2>3. LimitsFree' <=> LimitsFree
    BY <2>1 DEF LimitsFree, Kept, InRange
  <2>4. QED
    BY <2>1, <2>2, <2>3, BroughtBack DEF RestoredIsDumped, InRange
<1>2. CASE NextPass /\ run' # Idle
  <2>1. run.pc = "restore" /\ result' = result
    BY <1>2 DEF NextPass, End
  <2>2. QED
    BY <2>1 DEF RestoredIsDumped, TypeInv, Framed
<1>3. CASE RestoreZone
  <2>1. run.pc = "restore" /\ (result' = result \/ result' = "no_slot")
    BY <1>3 DEF RestoreZone, End
  <2>2. QED
    BY <2>1 DEF RestoredIsDumped, TypeInv, Framed
<1>4. CASE Abort \/ DumpInfo \/ RestoreStart \/ Host \/ \E d \in Devices : Attach(d)
  <2>1. result' # "restored"
    BY <1>4 DEF Abort, DumpInfo, RestoreStart, Host, Attach, End
  <2>2. QED
    BY <2>1 DEF RestoredIsDumped
<1>5. CASE \E r \in Ranges : DumpStart(r)
  <2>1. result' = "none"
    BY <1>5 DEF DumpStart
  <2>2. QED
    BY <2>1 DEF RestoredIsDumped
<1>6. CASE DumpSize \/ DumpZone \/ DumpData
  <2>1. result' = result /\ run.pc \in Dumping
    BY <1>6 DEF DumpSize, DumpZone, DumpData, Dumping
  <2>2. QED
    BY <2>1 DEF RestoredIsDumped, TypeInv, Framed
<1>7. CASE UNCHANGED vars
  BY <1>7 DEF vars, RestoredIsDumped, LimitsFree, Kept, InRange
<1>8. QED
  BY <1>1, <1>2, <1>3, <1>4, <1>5, <1>6, <1>7 DEF Next, Command

\* When zbd restore reports success, the zones of the range hold what they held when
\* the dump listed them, up to the same write pointers and in the same conditions,
\* for every device, range and limit, whatever was written, aborted and retried
\* before; a device short of slots may have closed an implicitly open zone.
THEOREM RestoreRestoresDump == ASSUME Exclusive PROVE Spec => []RestoredIsDumped
<1> DEFINE IInv == TypeInv /\ CopyInv /\ Restoring /\ Loaded /\ RestoredIsDumped
<1>1. Init => IInv
  <2>1. Init => Restoring /\ Loaded /\ RestoredIsDumped
    BY DEF Init, Idle, Restoring, Loaded, RestoredIsDumped
  <2>2. QED
    BY <2>1, InitType, InitCopy
<1>2. IInv /\ [Next]_vars => IInv'
  <2> SUFFICES ASSUME IInv, [Next]_vars PROVE IInv'
    OBVIOUS
  <2>1. TypeInv' /\ Restoring' /\ Loaded'
    BY StepType, StepRestoring, StepLoaded
  <2>2. CopyInv'
    BY <2>1, StepCopy
  <2>3. RestoredIsDumped'
    BY StepRestored DEF CopyInv
  <2>4. QED
    BY <2>1, <2>2, <2>3
<1>3. IInv => RestoredIsDumped
  OBVIOUS
<1> HIDE DEF IInv
<1>4. QED
  BY <1>1, <1>2, <1>3, PTL DEF Spec
=============================================================================
