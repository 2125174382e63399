---------------------------- MODULE ZbdToolProofs ---------------------------
(***************************************************************************)
(* The commands of the zbd tool on a range of zones, for every device, all *)
(* ranges and every choice that the kernel makes on the way: they manage   *)
(* the zones of the range and no others, and a dump gives the report of    *)
(* its device.                                                             *)
(***************************************************************************)
EXTENDS ZbdTool, FiniteSetTheorems, WellFoundedInduction, TLAPS

Zones == 0 .. NZ - 1

-----------------------------------------------------------------------------
(* Ranges of whole zones.                                                  *)

LEMMA MinTwo ==
  ASSUME NEW a \in Int, NEW b \in Int
  PROVE  Min({a, b}) = IF a <= b THEN a ELSE b
<1> DEFINE m == IF a <= b THEN a ELSE b
           Least(x) == x \in {a, b} /\ \A y \in {a, b} : x <= y
<1>1. Least(m)
  OBVIOUS
<1>2. \A x : Least(x) => x = m
  OBVIOUS
<1>3. QED
  BY <1>1, <1>2 DEF Min

\* What lies between two multiples of the zone size.
LEMMA Quotient ==
  ASSUME NEW q \in Nat, NEW r \in 0 .. ZoneSize - 1
  PROVE  (q * ZoneSize + r) \div ZoneSize = q
BY ToolConstants

LEMMA WholeZones ==
  ASSUME NEW p \in Nat, p % ZoneSize = 0
  PROVE  p \div ZoneSize \in Nat /\ p = (p \div ZoneSize) * ZoneSize
BY ToolConstants

LEMMA Factors ==
  ASSUME NEW a \in Int, NEW b \in Int
  PROVE  /\ a * ZoneSize \in Int
         /\ a < b <=> a * ZoneSize < b * ZoneSize
         /\ (a + b) * ZoneSize = a * ZoneSize + b * ZoneSize
         /\ (a - 1) * ZoneSize = a * ZoneSize - ZoneSize
         /\ (a + 1) * ZoneSize = a * ZoneSize + ZoneSize
BY ToolConstants

\* The zones that an aligned range touches, as the library and the tool compute them.
LEMMA Spans ==
  ASSUME NEW o, o.ofst \in Nat, o.len \in Nat, ~Beyond(o), Aligned(o)
  PROVE  /\ FirstZone(o) \in Nat /\ LastZone(o) \in Nat /\ FirstZone(o) <= LastZone(o)
         /\ Touched(o) = FirstZone(o) .. LastZone(o) /\ Touched(o) \subseteq Zones
         /\ o.ofst \div ZoneSize = FirstZone(o)
         /\ (o.ofst + Len0(o) + ZoneSize - 1) \div ZoneSize = LastZone(o) + 1
         /\ Room(o) = LastZone(o) + 1 - FirstZone(o)
<1> DEFINE l == Len0(o)
           a == o.ofst \div ZoneSize
           c == l \div ZoneSize
           b == a + c
<1>1. ZoneSize \in Nat \ {0} /\ Capacity \in Nat \ {0}
  BY ToolConstants
<1>2. l \in Nat \ {0} /\ o.ofst + l <= Capacity
  <2> DEFINE x == IF o.len = 0 THEN Capacity ELSE o.len
             y == Capacity - o.ofst
  <2>1. x \in Nat \ {0} /\ y \in Nat \ {0}
    BY <1>1 DEF Beyond
  <2>2. l = Min({x, y})
    BY DEF Len0
  <2> HIDE DEF x, l
  <2>3. l = IF x <= y THEN x ELSE y
    <3> HIDE DEF y
    <3>1. QED
      BY <2>1, <2>2, MinTwo
  <2>4. QED
    BY <1>1, <2>1, <2>3
<1>3. o.ofst % ZoneSize = 0 /\ l % ZoneSize = 0
  BY DEF Aligned
<1> HIDE DEF l
<1>4. a \in Nat /\ c \in Nat /\ o.ofst = a * ZoneSize /\ l = c * ZoneSize
  BY <1>2, <1>3, WholeZones
<1> HIDE DEF a, c
<1>5. c # 0 /\ b \in Nat /\ a < b /\ b * ZoneSize \in Nat
  BY <1>1, <1>2, <1>4
<1>6. o.ofst + l = b * ZoneSize
  BY <1>4, Factors
<1> HIDE DEF b
<1>7. /\ (b * ZoneSize + ZoneSize - 1) \div ZoneSize = b
      /\ (b * ZoneSize - 1) \div ZoneSize = b - 1 /\ (a * ZoneSize) \div ZoneSize = a
  <2>1. ZoneSize - 1 \in 0 .. ZoneSize - 1 /\ 0 \in 0 .. ZoneSize - 1 /\ b - 1 \in Nat
    BY <1>1, <1>4, <1>5
  <2>2. (b * ZoneSize + (ZoneSize - 1)) \div ZoneSize = b
    BY <1>5, <2>1, Quotient
  <2>3. ((b - 1) * ZoneSize + (ZoneSize - 1)) \div ZoneSize = b - 1
    BY <2>1, Quotient
  <2>4. (b - 1) * ZoneSize + (ZoneSize - 1) = b * ZoneSize - 1
    BY <1>1, <1>5, Factors
  <2>5. b * ZoneSize + (ZoneSize - 1) = b * ZoneSize + ZoneSize - 1
    BY <1>1, <1>5
  <2>6. (a * ZoneSize + 0) \div ZoneSize = a
    BY <1>4, <2>1, Quotient
  <2>7. a * ZoneSize + 0 = a * ZoneSize
    BY <1>1, <1>4
  <2>8. QED
    BY <2>2, <2>3, <2>4, <2>5, <2>6, <2>7
<1>8. FirstZone(o) = a /\ o.ofst \div ZoneSize = a
  BY <1>4, <1>7 DEF FirstZone, Lib!RangeFirst, Lib!RoundDown
<1>9. LastZone(o) = b - 1
  <2>1. Lib!RoundUp(o.ofst + l) = b * ZoneSize
    BY <1>6, <1>7 DEF Lib!RoundUp
  <2>2. Lib!RangeEnd(o.ofst, l) = Min({b * ZoneSize, Capacity})
    BY <1>2, <2>1 DEF Lib!RangeEnd, Lib!Min, Min
  <2>3. Min({b * ZoneSize, Capacity}) = b * ZoneSize
    BY <1>1, <1>2, <1>5, <1>6, MinTwo
  <2>4. QED
    BY <1>7, <2>2, <2>3 DEF LastZone, l
<1>10. b <= NZ /\ NZ \in Nat
  <2> DEFINE q == (Capacity + ZoneSize - 1) \div ZoneSize
  <2>1. q \in Nat /\ Capacity + ZoneSize - 1 < (q + 1) * ZoneSize
    BY <1>1
  <2>2. (q * ZoneSize + 0) \div ZoneSize = q /\ q * ZoneSize + 0 = q * ZoneSize
    BY <1>1, <2>1, Quotient
  <2>3. NZ = q
    BY <2>2 DEF NZ, Lib!NZ, Lib!RoundUp
  <2> HIDE DEF q
  <2>4. b * ZoneSize < (q + 1) * ZoneSize
    BY <1>1, <1>2, <1>5, <1>6, <2>1, Factors
  <2>5. b < q + 1
    BY <1>5, <2>1, <2>4, Factors
  <2>6. QED
    BY <1>5, <2>1, <2>3, <2>5
<1>11. Touched(o) = a .. b - 1
  <2>1. Touched(o) = {z \in Zones : z * ZoneSize < b * ZoneSize
                                    /\ a * ZoneSize < (z + 1) * ZoneSize}
    BY <1>2, <1>4, <1>6 DEF Touched, Lib!InRange, Lib!Zones, Zones, NZ, l
  <2>2. ASSUME NEW z \in Int
        PROVE  z * ZoneSize < b * ZoneSize /\ a * ZoneSize < (z + 1) * ZoneSize
                 <=> z \in a .. b - 1
    <3>1. z + 1 \in Int /\ a \in Int /\ b \in Int
      BY <1>4, <1>5
    <3>2. z < b <=> z * ZoneSize < b * ZoneSize
      BY <2>2, <3>1, Factors, Zenon
    <3>3. a < z + 1 <=> a * ZoneSize < (z + 1) * ZoneSize
      BY <3>1, Factors
    <3>4. QED
      BY <1>4, <1>5, <3>2, <3>3
  <2>3. Zones \subseteq Int /\ a .. b - 1 \subseteq Zones
    BY <1>4, <1>5, <1>10 DEF Zones
  <2>4. QED
    BY <2>1, <2>2, <2>3
<1>12. a .. b - 1 \subseteq Zones
  BY <1>4, <1>5, <1>10 DEF Zones
<1>13. (o.ofst + Len0(o) + ZoneSize - 1) \div ZoneSize = b
  BY <1>6, <1>7 DEF l
<1>14. Room(o) = b - a
  <2>1. (c * ZoneSize + (ZoneSize - 1)) \div ZoneSize = c
    BY <1>1, <1>4, Quotient
  <2>2. Room(o) = (l + ZoneSize - 1) \div ZoneSize
    BY DEF Room, l
  <2>3. l + ZoneSize - 1 = c * ZoneSize + (ZoneSize - 1)
    BY <1>1, <1>2, <1>4
  <2>4. c = b - a
    BY <1>4 DEF b
  <2>5. QED
    BY <2>1, <2>2, <2>3, <2>4
<1>15. QED
  BY <1>4, <1>5, <1>8, <1>9, <1>11, <1>12, <1>13, <1>14

-----------------------------------------------------------------------------
(* The device: its commands change one zone, and may close another one.    *)

ZoneShape(zn) ==
    zn \in [type : {zn.type}, cap : {zn.cap}, wp : {zn.wp}, data : {zn.data}, cond : {zn.cond}]

Shape(d) ==
    /\ d \in [maxOpen : {d.maxOpen}, maxActive : {d.maxActive}, zone : {d.zone}]
    /\ d.zone = [z \in Zones |-> d.zone[z]]
    /\ \A z \in Zones : ZoneShape(d.zone[z])

\* What is left of a zone that no command was given for.
Kept(old, new) == new = old \/ (old.cond = "imp_open" /\ new = Closed(old))

LEMMA ClosedShape ==
  ASSUME NEW zn, ZoneShape(zn)
  PROVE  ZoneShape(Closed(zn)) /\ Closed(zn).cond \in {"closed", "empty"}
BY DEF ZoneShape, Closed

\* A zone is closed once at most.
LEMMA KeptTwice ==
  ASSUME NEW x, NEW y, NEW z, ZoneShape(x), Kept(x, y), Kept(y, z)
  PROVE  Kept(x, z)
BY ClosedShape DEF Kept

LEMMA ZoneReplaced ==
  ASSUME NEW d, Shape(d), NEW z \in Zones, NEW zn, ZoneShape(zn)
  PROVE  LET e == [d EXCEPT !.zone[z] = zn]
         IN  Shape(e) /\ e.zone[z] = zn /\ \A y \in Zones \ {z} : e.zone[y] = d.zone[y]
<1> DEFINE e == [d EXCEPT !.zone[z] = zn]
<1>1. /\ d \in [maxOpen : {d.maxOpen}, maxActive : {d.maxActive}, zone : {d.zone}]
      /\ d.zone = [y \in Zones |-> d.zone[y]] /\ \A y \in Zones : ZoneShape(d.zone[y])
  BY DEF Shape
<1>2. /\ e.zone = [d.zone EXCEPT ![z] = zn]
      /\ e \in [maxOpen : {e.maxOpen}, maxActive : {e.maxActive}, zone : {e.zone}]
  BY <1>1
<1>3. DOMAIN d.zone = Zones
  BY <1>1
<1> HIDE DEF e
<1>4. /\ e.zone = [y \in Zones |-> e.zone[y]] /\ e.zone[z] = zn
      /\ \A y \in Zones \ {z} : e.zone[y] = d.zone[y]
  BY <1>2, <1>3
<1>5. Shape(e)
  BY <1>1, <1>2, <1>4 DEF Shape
<1>6. QED
  BY <1>4, <1>5 DEF e

\* Making room for one more open zone.
LEMMA RoomMade ==
  ASSUME NEW d, Shape(d), NEW z \in Zones, NEW e \in WithSlot(d, z)
  PROVE  /\ Shape(e) /\ e.zone[z] = d.zone[z]
         /\ \A y \in Zones : Kept(d.zone[y], e.zone[y])
<1>1. DOMAIN d.zone = Zones /\ \A y \in Zones : ZoneShape(d.zone[y])
  BY DEF Shape
<1>2. CASE e = d
  BY <1>2 DEF Kept
<1>3. CASE e # d
  <2>1. ~IsOpen(d.zone[z])
    BY <1>3 DEF WithSlot
  <2>2. PICK y \in Zones : /\ d.zone[y].cond = "imp_open"
                           /\ e = [d EXCEPT !.zone[y] = Closed(@)]
    BY <1>1, <1>3 DEF WithSlot, OpenZones
  <2>3. y # z
    BY <2>1, <2>2 DEF IsOpen
  <2> DEFINE new == Closed(d.zone[y])
  <2>4. e = [d EXCEPT !.zone[y] = new] /\ ZoneShape(new)
    BY <1>1, <2>2, ClosedShape
  <2> HIDE DEF new
  <2>5. Shape(e) /\ e.zone[y] = new /\ \A x \in Zones \ {y} : e.zone[x] = d.zone[x]
    BY <2>4, ZoneReplaced
  <2>6. QED
    BY <2>2, <2>3, <2>5 DEF Kept, new
<1>4. QED
  BY <1>2, <1>3

\* A zone replaced on a device that has room for it.
Replaced(d, e, z) == Shape(e) /\ \A y \in Zones \ {z} : Kept(d.zone[y], e.zone[y])

LEMMA ReplacedWithRoom ==
  ASSUME NEW d, Shape(d), NEW z \in Zones, NEW f \in WithSlot(d, z), NEW zn, ZoneShape(zn)
  PROVE  LET e == [f EXCEPT !.zone[z] = zn]
         IN  Replaced(d, e, z) /\ e.zone[z] = zn
<1> DEFINE e == [f EXCEPT !.zone[z] = zn]
<1>1. Shape(f) /\ \A y \in Zones : Kept(d.zone[y], f.zone[y])
  BY RoomMade
<1>2. Shape(e) /\ e.zone[z] = zn /\ \A y \in Zones \ {z} : e.zone[y] = f.zone[y]
  BY <1>1, ZoneReplaced
<1> HIDE DEF e
<1>3. Replaced(d, e, z) /\ e.zone[z] = zn
  BY <1>1, <1>2 DEF Replaced
<1>4. QED
  BY <1>3 DEF e

LEMMA Opened ==
  ASSUME NEW d, Shape(d), NEW z \in Zones, NEW e \in Open(d, z)
  PROVE  Replaced(d, e, z) /\ e.zone[z].cond = "exp_open"
<1> DEFINE zn == d.zone[z]
           new == [zn EXCEPT !.cond = "exp_open"]
<1>1. PICK f \in WithSlot(d, z) : e = [f EXCEPT !.zone[z].cond = "exp_open"]
  BY DEF Open
<1>2. Shape(f) /\ f.zone[z] = zn /\ ZoneShape(zn)
  BY <1>1, RoomMade DEF Shape
<1>3. e = [f EXCEPT !.zone[z] = new]
  BY <1>1, <1>2
<1>4. ZoneShape(new) /\ new.cond = "exp_open"
  BY <1>2 DEF ZoneShape
<1> HIDE DEF new
<1>5. f \in WithSlot(d, z)
  BY <1>1
<1>6. Replaced(d, e, z) /\ e.zone[z] = new
  BY <1>3, <1>4, <1>5, ReplacedWithRoom
<1>7. QED
  BY <1>4, <1>6

LEMMA ClosedZone ==
  ASSUME NEW d, Shape(d), NEW z \in Zones, NEW e \in Close(d, z)
  PROVE  Replaced(d, e, z) /\ e.zone[z].cond \in {"closed", "empty"}
<1> DEFINE new == Closed(d.zone[z])
<1>1. e = [d EXCEPT !.zone[z] = new]
  BY DEF Close
<1>2. ZoneShape(new) /\ new.cond \in {"closed", "empty"}
  BY ClosedShape DEF Shape
<1> HIDE DEF new
<1>3. QED
  BY <1>1, <1>2, ZoneReplaced DEF Replaced, Kept

LEMMA Finished ==
  ASSUME NEW d, Shape(d), NEW z \in Zones, NEW e \in Finish(d, z)
  PROVE  Replaced(d, e, z) /\ e.zone[z].cond = "full"
<1> DEFINE zn == d.zone[z]
           full == [zn EXCEPT !.cond = "full"]
           new == [full EXCEPT !.wp = zn.cap]
<1>1. CASE zn.cond = "full"
  BY <1>1 DEF Finish, Replaced, Kept
<1>2. CASE zn.cond # "full"
  <2>1. PICK f \in WithSlot(d, z) :
          e = [f EXCEPT !.zone[z].cond = "full", !.zone[z].wp = zn.cap]
    BY <1>2 DEF Finish
  <2>2. Shape(f) /\ f.zone[z] = zn /\ ZoneShape(zn)
    BY <2>1, RoomMade DEF Shape
  <2>3. e = [f EXCEPT !.zone[z] = new]
    <3> DEFINE g == [f EXCEPT !.zone[z] = full]
    <3>1. e = [g EXCEPT !.zone[z].wp = zn.cap]
      BY <2>1, <2>2
    <3>2. f \in [maxOpen : {f.maxOpen}, maxActive : {f.maxActive}, zone : {f.zone}]
          /\ DOMAIN f.zone = Zones
      BY <2>2 DEF Shape
    <3>3. g.zone = [f.zone EXCEPT ![z] = full] /\ g.zone[z] = full
      BY <3>2
    <3>4. g = [f EXCEPT !.zone = [f.zone EXCEPT ![z] = full]]
      OBVIOUS
    <3>5. e = [g EXCEPT !.zone[z] = new]
      BY <3>1, <3>3
    <3>6. QED
      BY <3>2, <3>4, <3>5
  <2>4. ZoneShape(new) /\ new.cond = "full"
    BY <2>2 DEF ZoneShape
  <2> HIDE DEF new
  <2>5. f \in WithSlot(d, z)
    BY <2>1
  <2>6. Replaced(d, e, z) /\ e.zone[z] = new
    BY <2>3, <2>4, <2>5, ReplacedWithRoom
  <2>7. QED
    BY <2>4, <2>6
<1>3. QED
  BY <1>1, <1>2

LEMMA ResetZone ==
  ASSUME NEW d, Shape(d), NEW z \in Zones, NEW e \in Reset(d, z)
  PROVE  Replaced(d, e, z) /\ e.zone[z].cond = "empty"
<1> DEFINE new == FreshZone("seq", d.zone[z].cap)
<1>1. e = [d EXCEPT !.zone[z] = new]
  BY DEF Reset
<1>2. ZoneShape(new) /\ new.cond = "empty"
  BY DEF ZoneShape, FreshZone
<1> HIDE DEF new
<1>3. QED
  BY <1>1, <1>2, ZoneReplaced DEF Replaced, Kept

\* What the commands do to a zone.
LEMMA CommandDone ==
  ASSUME NEW d, Shape(d), NEW z \in Zones, NEW cmd \in {"reset", "open", "close", "finish"},
         NEW e \in ZoneCommand(d, cmd, z)
  PROVE  Replaced(d, e, z) /\ e.zone[z].cond \in TargetOf(cmd)
<1>1. CASE cmd = "reset"
  BY <1>1, ResetZone DEF ZoneCommand, TargetOf
<1>2. CASE cmd = "open"
  BY <1>2, Opened DEF ZoneCommand, TargetOf
<1>3. CASE cmd = "close"
  BY <1>3, ClosedZone DEF ZoneCommand, TargetOf
<1>4. CASE cmd = "finish"
  BY <1>4, Finished DEF ZoneCommand, TargetOf
<1>5. QED
  BY <1>1, <1>2, <1>3, <1>4

\* A write of another program.
LEMMA WriteShape ==
  ASSUME NEW d, Shape(d), NEW z \in Zones, NEW o, NEW v, NEW e \in Write(d, z, o, v)
  PROVE  Shape(e)
<1> DEFINE zn == d.zone[z]
           c == IF zn.wp + 1 = zn.cap THEN "full"
                ELSE IF zn.cond = "exp_open" THEN "exp_open" ELSE "imp_open"
<1>1. ZoneShape(zn)
  BY DEF Shape
<1>2. CASE Cnv(zn) /\ zn.cond = "not_wp"
  <2> DEFINE new == [zn EXCEPT !.data[o] = v]
  <2>1. e = [d EXCEPT !.zone[z] = new]
    BY <1>2 DEF Write
  <2>2. ZoneShape(new)
    BY <1>1 DEF ZoneShape
  <2> HIDE DEF new
  <2>3. QED
    BY <2>1, <2>2, ZoneReplaced
<1>3. CASE ~(Cnv(zn) /\ zn.cond = "not_wp")
  <2> DEFINE new == [zn EXCEPT !.data[o] = v, !.wp = @ + 1, !.cond = c]
  <2>1. PICK f \in WithSlot(d, z) :
          e = [f EXCEPT !.zone[z].data[o] = v, !.zone[z].wp = @ + 1, !.zone[z].cond = c]
    BY <1>3 DEF Write
  <2> HIDE DEF c
  <2>2. Shape(f) /\ f.zone[z] = zn
    BY <2>1, RoomMade
  <2>3. f \in [maxOpen : {f.maxOpen}, maxActive : {f.maxActive}, zone : {f.zone}]
        /\ DOMAIN f.zone = Zones
    BY <2>2 DEF Shape
  <2>4. e.zone = [f.zone EXCEPT ![z] = e.zone[z]] /\ e = [f EXCEPT !.zone = e.zone]
    BY <2>1, <2>3
  <2>5. e.zone[z] = new
    BY <2>1, <2>2, <2>3
  <2>6. e = [f EXCEPT !.zone[z] = new]
    BY <2>4, <2>5
  <2>7. ZoneShape(new)
    BY <1>1 DEF ZoneShape
  <2> HIDE DEF new
  <2>8. QED
    BY <2>2, <2>6, <2>7, ZoneReplaced
<1>4. QED
  BY <1>2, <1>3

-----------------------------------------------------------------------------
(* The loop of the kernel over the zones of a range.                       *)

\* Numbers have a least one wherever there is one.
LEMMA LeastOf ==
  ASSUME NEW S \in SUBSET Nat, S # {}
  PROVE  \E n \in S : \A m \in S : n <= m
<1>1. PICK n \in S : \A m \in S : <<m, n>> \notin OpToRel(<, Nat)
  BY NatLessThanWellFounded, WFMin
<1>2. \A m \in S : ~(m < n)
  BY <1>1 DEF OpToRel
<1>3. QED
  BY <1>2

\* The loop over the zones of a range, turn by turn.
Start == {[dev |-> dev, ret |-> 0]}

Turn(o, S, k) == UNION {OperateZone(s, o.cmd, FirstZone(o) + k - 1) : s \in S}

Trace(f, n, o) == f = [k \in 0 .. n |-> IF k = 0 THEN Start ELSE Turn(o, f[k - 1], k)]

\* The loop has a result: otherwise take the first turn without one.
LEMMA TraceExists ==
  ASSUME NEW o, NEW n \in Nat
  PROVE  \E f : Trace(f, n, o)
<1> DEFINE B == {m \in Nat : ~ \E f : Trace(f, m, o)}
<1>1. SUFFICES ASSUME B # {} PROVE FALSE
  OBVIOUS
<1>2. PICK m \in B : \A j \in B : m <= j
  <2>1. B \in SUBSET Nat
    OBVIOUS
  <2> HIDE DEF B
  <2>2. QED
    BY <1>1, <2>1, LeastOf
<1>3. CASE m = 0
  <2> DEFINE f == [k \in 0 .. 0 |-> Start]
  <2>1. f = [k \in 0 .. 0 |-> IF k = 0 THEN Start ELSE Turn(o, f[k - 1], k)]
    OBVIOUS
  <2>2. QED
    BY <1>2, <1>3, <2>1 DEF Trace
<1>4. CASE m # 0
  <2>1. m - 1 \in Nat /\ m - 1 \notin B
    BY <1>2, <1>4
  <2>2. PICK f : Trace(f, m - 1, o)
    BY <2>1
  <2>3. /\ DOMAIN f = 0 .. m - 1
        /\ \A k \in 0 .. m - 1 : f[k] = IF k = 0 THEN Start ELSE Turn(o, f[k - 1], k)
    BY <2>2 DEF Trace
  <2> DEFINE g == [k \in 0 .. m |-> IF k = m THEN Turn(o, f[m - 1], m) ELSE f[k]]
  <2>4. \A k \in 0 .. m : g[k] = IF k = 0 THEN Start ELSE Turn(o, g[k - 1], k)
    <3>1. TAKE k \in 0 .. m
    <3>2. CASE k = m
      <4>1. g[k] = Turn(o, f[m - 1], m) /\ k # 0 /\ m - 1 \in 0 .. m /\ m - 1 # m
        BY <1>2, <1>4, <3>2
      <4>2. g[k - 1] = f[m - 1]
        BY <3>2, <4>1
      <4>3. QED
        BY <3>2, <4>1, <4>2
    <3>3. CASE k # m /\ k # 0
      <4>1. k \in 0 .. m - 1 /\ k - 1 \in 0 .. m /\ k - 1 # m
        BY <1>2, <3>3
      <4>2. g[k] = f[k] /\ g[k - 1] = f[k - 1]
        BY <3>3, <4>1
      <4>3. QED
        BY <2>3, <3>3, <4>1, <4>2
    <3>4. CASE k # m /\ k = 0
      <4>1. g[k] = f[k] /\ k \in 0 .. m - 1
        BY <1>2, <1>4, <3>4
      <4>2. QED
        BY <2>3, <3>4, <4>1
    <3>5. QED
      BY <3>2, <3>3, <3>4
  <2>5. g = [k \in 0 .. m |-> g[k]]
    OBVIOUS
  <2> HIDE DEF g
  <2>6. [k \in 0 .. m |-> g[k]]
          = [k \in 0 .. m |-> IF k = 0 THEN Start ELSE Turn(o, g[k - 1], k)]
    BY <2>4
  <2>7. Trace(g, m, o)
    BY <2>5, <2>6 DEF Trace
  <2>8. QED
    BY <1>2, <2>7
<1>5. QED
  BY <1>3, <1>4

\* The zones that the loop is through with are as the command wants them, and those
\* to come and outside are kept; behind a zone that failed all are kept.
Through(o, s, k) ==
    /\ s = [dev |-> s.dev, ret |-> s.ret] /\ Shape(s.dev) /\ s.ret \in {0, 1}
    /\ \A y \in Zones :
          \/ Kept(dev.zone[y], s.dev.zone[y])
          \/ y \in FirstZone(o) .. FirstZone(o) + k - 1
    /\ s.ret = 0 => \A y \in FirstZone(o) .. FirstZone(o) + k - 1 :
                        s.dev.zone[y].cond \in TargetOf(o.cmd)
    /\ s.ret = 1 => \E z \in FirstZone(o) .. FirstZone(o) + k - 1 :
                        \A y \in Zones : y >= z => Kept(dev.zone[y], s.dev.zone[y])

LEMMA NotImplicit ==
  ASSUME NEW cmd \in {"reset", "open", "close", "finish"}
  PROVE  "imp_open" \notin TargetOf(cmd)
BY DEF TargetOf

LEMMA ZoneCount == NZ \in Int
<1> DEFINE q == (Capacity + ZoneSize - 1) \div ZoneSize
<1>1. q \in Nat /\ q * ZoneSize \in Int
  BY ToolConstants
<1> HIDE DEF q
<1>2. (q * ZoneSize) \div ZoneSize \in Int
  BY <1>1, ToolConstants
<1>3. QED
  BY <1>2 DEF NZ, Lib!NZ, Lib!RoundUp, q

LEMMA ThroughOneMore ==
  ASSUME NEW o, o.cmd \in {"reset", "open", "close", "finish"}, Shape(dev),
         NEW k \in Nat \ {0}, FirstZone(o) \in Nat, FirstZone(o) + k - 1 \in Zones,
         NEW s, Through(o, s, k - 1), NEW t \in OperateZone(s, o.cmd, FirstZone(o) + k - 1)
  PROVE  Through(o, t, k)
<1> DEFINE a == FirstZone(o)
           z == a + k - 1
           ds == ZoneCommand(s.dev, o.cmd, z)
<1>1. a \in Nat /\ z \in Zones /\ z \in Nat /\ Zones \subseteq Int
      /\ a .. a + (k - 1) - 1 = a .. z - 1 /\ a .. a + k - 1 = a .. z
      /\ a .. z - 1 \subseteq a .. z /\ z \in a .. z
      /\ \A y \in a .. z : y = z \/ y \in a .. z - 1
  BY DEF Zones
<1>2. /\ s = [dev |-> s.dev, ret |-> s.ret] /\ Shape(s.dev) /\ s.ret \in {0, 1}
      /\ \A y \in Zones : Kept(dev.zone[y], s.dev.zone[y]) \/ y \in a .. z - 1
      /\ s.ret = 0 => \A y \in a .. z - 1 : s.dev.zone[y].cond \in TargetOf(o.cmd)
      /\ s.ret = 1 => \E x \in a .. z - 1 :
                          \A y \in Zones : y >= x => Kept(dev.zone[y], s.dev.zone[y])
  <2> HIDE DEF z
  <2>1. QED
    BY <1>1 DEF Through
<1>3. t \in IF s.ret = 1 THEN {s}
            ELSE IF ds = {} THEN {[s EXCEPT !.ret = 1]} ELSE {[s EXCEPT !.dev = d] : d \in ds}
  BY DEF OperateZone
<1> HIDE DEF z, ds
<1>4. CASE s.ret = 1
  <2>1. t = s
    BY <1>3, <1>4
  <2>2. QED
    BY <1>1, <1>2, <1>4, <2>1 DEF Through
<1>5. CASE s.ret = 0 /\ ds = {}
  <2>1. t = [dev |-> s.dev, ret |-> 1]
    BY <1>2, <1>3, <1>5
  <2>2. \A y \in Zones : y >= z => Kept(dev.zone[y], s.dev.zone[y])
    BY <1>1, <1>2
  <2>3. QED
    BY <1>1, <1>2, <2>1, <2>2 DEF Through
<1>6. CASE s.ret = 0 /\ ds # {}
  <2>1. PICK d \in ds : t = [dev |-> d, ret |-> 0]
    BY <1>2, <1>3, <1>6
  <2>2. /\ Shape(d) /\ d.zone[z].cond \in TargetOf(o.cmd)
        /\ \A y \in Zones \ {z} : Kept(s.dev.zone[y], d.zone[y])
    BY <1>1, <1>2, <2>1, CommandDone DEF Replaced, ds
  <2>3. ASSUME NEW y \in Zones, y \notin a .. z
        PROVE  Kept(dev.zone[y], d.zone[y])
    <3>1. y # z /\ Kept(dev.zone[y], s.dev.zone[y]) /\ ZoneShape(dev.zone[y])
      BY <1>1, <1>2, <2>3 DEF Shape
    <3>2. Kept(s.dev.zone[y], d.zone[y])
      BY <2>2, <3>1
    <3>3. QED
      BY <3>1, <3>2, KeptTwice
  <2>4. ASSUME NEW y \in a .. z
        PROVE  d.zone[y].cond \in TargetOf(o.cmd)
    <3>1. CASE y = z
      BY <2>2, <3>1
    <3>2. CASE y # z
      <4>1. y \in a .. z - 1 /\ y \in Zones
        BY <1>1, <2>4, <3>2, ZoneCount DEF Zones
      <4>2. s.dev.zone[y].cond \in TargetOf(o.cmd) /\ Kept(s.dev.zone[y], d.zone[y])
        BY <1>2, <1>6, <2>2, <3>2, <4>1
      <4>3. s.dev.zone[y].cond # "imp_open"
        BY <4>2, NotImplicit
      <4>4. QED
        BY <4>2, <4>3 DEF Kept
    <3>3. QED
      BY <3>1, <3>2
  <2>5. t.dev = d /\ t.ret = 0 /\ t = [dev |-> t.dev, ret |-> t.ret]
    BY <2>1
  <2>6. QED
    BY <1>1, <2>2, <2>3, <2>4, <2>5 DEF Through
<1>7. QED
  BY <1>2, <1>4, <1>5, <1>6

\* The same of the whole loop: otherwise take the first turn that breaks it.
LEMMA OperatedThrough ==
  ASSUME NEW o, o.cmd \in {"reset", "open", "close", "finish"}, Shape(dev),
         FirstZone(o) \in Nat, LastZone(o) \in Nat, FirstZone(o) <= LastZone(o),
         FirstZone(o) .. LastZone(o) \subseteq Zones,
         NEW s \in Operated(o)
  PROVE  Through(o, s, LastZone(o) + 1 - FirstZone(o))
<1> DEFINE n == LastZone(o) + 1 - FirstZone(o)
           after == CHOOSE f : Trace(f, n, o)
<1>1. Operated(o) = after[n]
  BY DEF Operated, Trace, Turn, Start
<1>2. n \in Nat
  OBVIOUS
<1> HIDE DEF n
<1>3. Trace(after, n, o)
  BY <1>2, TraceExists
<1> HIDE DEF after
<1>4. \A k \in 0 .. n : after[k] = IF k = 0 THEN Start ELSE Turn(o, after[k - 1], k)
  BY <1>3 DEF Trace
<1> DEFINE B == {k \in 0 .. n : \E r \in after[k] : ~Through(o, r, k)}
<1>5. B = {}
  <2>1. SUFFICES ASSUME B # {} PROVE FALSE
    OBVIOUS
  <2>2. B \in SUBSET Nat
    BY <1>2
  <2>3. PICK k \in B : \A j \in B : k <= j
    <3> HIDE DEF B
    <3>1. QED
      BY <2>1, <2>2, LeastOf
  <2>4. PICK r \in after[k] : ~Through(o, r, k)
    BY <2>3
  <2>5. CASE k = 0
    <3>1. r = [dev |-> dev, ret |-> 0]
      BY <1>4, <2>3, <2>4, <2>5 DEF Start
    <3>2. \A y \in Zones : Kept(dev.zone[y], dev.zone[y])
      BY DEF Kept
    <3>3. Through(o, r, k)
      BY <2>5, <3>1, <3>2 DEF Through
    <3>4. QED
      BY <2>4, <3>3
  <2>6. CASE k # 0
    <3>1. k \in Nat \ {0} /\ k - 1 \in 0 .. n /\ k - 1 \notin B /\ k \in 0 .. n
      BY <1>2, <2>3, <2>6
    <3>2. FirstZone(o) + k - 1 \in Zones
      BY <3>1 DEF n
    <3>3. PICK q \in after[k - 1] : r \in OperateZone(q, o.cmd, FirstZone(o) + k - 1)
      <4>1. after[k] = Turn(o, after[k - 1], k)
        BY <1>4, <2>6, <3>1
      <4>2. r \in Turn(o, after[k - 1], k)
        BY <2>4, <4>1
      <4>3. QED
        BY <4>2 DEF Turn
    <3>4. Through(o, q, k - 1)
      BY <3>1, <3>3
    <3>5. Through(o, r, k)
      BY <3>1, <3>2, <3>3, <3>4, ThroughOneMore
    <3>6. QED
      BY <2>4, <3>5
  <2>7. QED
    BY <2>5, <2>6
<1>6. Through(o, s, n)
  BY <1>1, <1>2, <1>5
<1>7. QED
  BY <1>6 DEF n

-----------------------------------------------------------------------------
(* The invariant.                                                          *)

LEMMA OptionTypes ==
  ASSUME NEW o \in Options
  PROVE  /\ o.ofst \in Nat /\ o.len \in Nat
         /\ o.cmd \in {"report", "reset", "open", "close", "finish", "dump"}
BY ToolConstants DEF Options

LEMMA ManageStep ==
  ASSUME Shape(dev), NEW o \in Options, Manage(o)
  PROVE  Shape(dev') /\ Managed
<1>1. /\ o.cmd \in {"reset", "open", "close", "finish"} /\ ~Refused(o) /\ ~Beyond(o)
      /\ o.ofst \in Nat /\ o.len \in Nat
  BY OptionTypes DEF Manage, Runs
<1>2. CASE Aligned(o)
  <2>1. PICK s \in Operated(o) : dev' = s.dev /\ res' = Result(o, s.ret, << >>)
    BY <1>2 DEF Manage
  <2> DEFINE a == FirstZone(o)
             b == LastZone(o)
  <2>2. a \in Nat /\ b \in Nat /\ a <= b /\ Touched(o) = a .. b /\ a .. b \subseteq Zones
    BY <1>1, <1>2, Spans
  <2>3. Through(o, s, b + 1 - a)
    BY <1>1, <2>2, OperatedThrough
  <2> HIDE DEF a, b
  <2>4. a .. a + (b + 1 - a) - 1 = a .. b
    BY <2>2
  <2>5. /\ Shape(s.dev) /\ s.ret \in {0, 1}
        /\ \A y \in Zones : Kept(dev.zone[y], s.dev.zone[y]) \/ y \in a .. b
        /\ s.ret = 0 => \A y \in a .. b : s.dev.zone[y].cond \in TargetOf(o.cmd)
        /\ s.ret = 1 => \E z \in a .. b :
                            \A y \in Zones : y >= z => Kept(dev.zone[y], s.dev.zone[y])
    BY <2>3, <2>4 DEF Through, a
  <2>6. res'.o = o /\ res'.ret = s.ret
    BY <2>1 DEF Result
  <2>7. DOMAIN dev.zone = Zones
    BY DEF Shape
  <2>8. s.ret = 0 => \A z \in Touched(o) : dev'.zone[z].cond \in TargetOf(o.cmd)
    BY <2>1, <2>2, <2>5
  <2>9. \A z \in DOMAIN dev.zone :
           dev'.zone[z] # dev.zone[z] =>
              \/ z \in Touched(o)
              \/ dev.zone[z].cond = "imp_open" /\ dev'.zone[z] = Closed(dev.zone[z])
    BY <2>1, <2>2, <2>5, <2>7 DEF Kept
  <2>10. s.ret = 1 => \E z \in Touched(o) : \A y \in Touched(o) :
                         y >= z => \/ dev'.zone[y] = dev.zone[y]
                                   \/ dev'.zone[y] = Closed(dev.zone[y])
    BY <2>1, <2>2, <2>5 DEF Kept
  <2>11. Managed
    BY <1>1, <1>2, <2>6, <2>8, <2>9, <2>10 DEF Managed
  <2>12. QED
    BY <2>1, <2>5, <2>11
<1>3. CASE ~Aligned(o)
  <2>1. dev' = dev /\ res' = Result(o, 1, << >>)
    BY <1>3 DEF Manage
  <2>2. res'.o = o /\ res'.ret = 1
    BY <2>1 DEF Result
  <2>3. QED
    BY <1>3, <2>1, <2>2 DEF Managed
<1>4. QED
  BY <1>2, <1>3

DeviceInv == Shape(dev) /\ writes \in Nat

LEMMA InitShape == Init => DeviceInv
<1> SUFFICES ASSUME Init PROVE DeviceInv
  OBVIOUS
<1> DEFINE fresh(z) == FreshZone(IF z \in CnvZones THEN "cnv" ELSE "seq", 2)
<1>1. \A z \in Zones : ZoneShape(fresh(z))
  BY DEF ZoneShape, FreshZone
<1> HIDE DEF fresh
<1>2. dev = [maxOpen |-> MaxOpen, maxActive |-> MaxActive, zone |-> [z \in Zones |-> fresh(z)]]
  BY DEF Init, Zones, fresh
<1>3. Shape(dev)
  BY <1>1, <1>2 DEF Shape
<1>4. writes \in Nat
  BY ToolConstants DEF Init
<1>5. QED
  BY <1>3, <1>4 DEF DeviceInv

LEMMA NextShape == DeviceInv /\ [Next]_vars => DeviceInv' /\ [Managed]_vars
<1> SUFFICES ASSUME Shape(dev), writes \in Nat, [Next]_vars
             PROVE  Shape(dev') /\ writes' \in Nat /\ [Managed]_vars
  BY DEF DeviceInv, Shape, ZoneShape
<1>1. ASSUME NEW o \in Options, Manage(o) PROVE Shape(dev') /\ writes' \in Nat /\ Managed
  BY <1>1, ManageStep DEF Manage
<1>2. ASSUME NEW o \in Options, Report(o) \/ ReportDump(o) \/ Dump(o)
      PROVE  Shape(dev') /\ writes' \in Nat /\ Managed
  <2>1. dev' = dev /\ writes' = writes /\ res'.o = o /\ o.cmd \in {"report", "dump"}
    BY <1>2 DEF Report, ReportDump, Dump, Runs, Result
  <2>2. QED
    BY <2>1 DEF Managed
<1>3. ASSUME NEW o \in Options, NothingToDo(o)
      PROVE  Shape(dev') /\ writes' \in Nat /\ Managed
  <2>1. dev' = dev /\ writes' = writes /\ res'.o = o /\ (~Beyond(o) => Refused(o) /\ res'.ret = 1)
    BY <1>3 DEF NothingToDo, Result
  <2>2. QED
    BY <2>1 DEF Managed
<1>4. CASE HostWrite
  <2>1. PICK z \in Zones : dev' \in Write(dev, z, dev.zone[z].wp, Zero)
    BY <1>4 DEF HostWrite, Shape
  <2>2. writes' # writes /\ writes' \in Nat
    BY <1>4 DEF HostWrite
  <2>3. QED
    BY <2>1, <2>2, WriteShape DEF Managed
<1>5. CASE UNCHANGED vars
  BY <1>5 DEF vars
<1>6. QED
  BY <1>1, <1>2, <1>3, <1>4, <1>5 DEF Next

-----------------------------------------------------------------------------
(* Reports from dumps.                                                     *)

\* Each zone of a set is at the place that it has by its number.
LEMMA OrderOf ==
  ASSUME NEW S \in SUBSET Nat, IsFiniteSet(S)
  PROVE  LET s == InOrder(S)
             N == Cardinality(S)
         IN  /\ DOMAIN s = 1 .. N /\ \A k \in 1 .. N : s[k] \in S
             /\ \A z \in S : \E k \in 1 .. N : s[k] = z
             /\ \A j, k \in 1 .. N : j < k => s[j] < s[k]
<1> DEFINE N == Cardinality(S)
           upto(z) == {y \in S : y <= z}
           rank == [z \in S |-> Cardinality(upto(z))]
           I == 1 .. N
<1>1. S \subseteq Nat /\ IsFiniteSet(S) /\ N \in Nat
  BY FS_CardinalityType
<1>2. ASSUME NEW z \in S
      PROVE  IsFiniteSet(upto(z)) /\ rank[z] \in Nat /\ rank[z] <= N /\ rank[z] > 0
  <2>1. upto(z) \in SUBSET S /\ z \in upto(z)
    BY <1>1
  <2>2. rank[z] = Cardinality(upto(z))
    OBVIOUS
  <2> HIDE DEF upto, rank
  <2>3. IsFiniteSet(upto(z)) /\ Cardinality(upto(z)) <= N
    BY <1>1, <2>1, FS_Subset
  <2>4. Cardinality(upto(z)) \in Nat /\ Cardinality(upto(z)) # 0
    BY <2>1, <2>3, FS_CardinalityType, FS_EmptySet
  <2> HIDE DEF N
  <2>5. QED
    BY <2>2, <2>3, <2>4
<1>3. ASSUME NEW y \in S, NEW z \in S, y <= z PROVE rank[y] <= rank[z]
  <2>1. upto(y) \in SUBSET upto(z)
    <3>1. y \in Nat /\ z \in Nat /\ \A x \in S : x \in Nat
      BY <1>1
    <3>2. \A x \in S : x <= y => x <= z
      BY <1>3, <3>1
    <3>3. QED
      BY <3>2
  <2>2. rank[y] = Cardinality(upto(y)) /\ rank[z] = Cardinality(upto(z))
    OBVIOUS
  <2> HIDE DEF upto, rank
  <2>3. QED
    BY <1>2, <2>1, <2>2, FS_Subset
<1>4. ASSUME NEW y \in S, NEW z \in S, y < z PROVE rank[y] < rank[z]
  <2>1. upto(y) \cup {z} \in SUBSET upto(z) /\ z \notin upto(y)
    <3>1. y \in Nat /\ z \in Nat /\ \A x \in S : x \in Nat
      BY <1>1
    <3>2. z <= z /\ ~(z <= y) /\ \A x \in S : x <= y => x <= z
      BY <1>4, <3>1
    <3>3. QED
      BY <3>2
  <2>2. rank[y] = Cardinality(upto(y)) /\ rank[z] = Cardinality(upto(z))
    OBVIOUS
  <2> HIDE DEF upto, rank
  <2>3. Cardinality(upto(y) \cup {z}) = Cardinality(upto(y)) + 1
    BY <1>2, <2>1, FS_AddElement
  <2>4. Cardinality(upto(y) \cup {z}) <= Cardinality(upto(z))
    BY <1>2, <2>1, FS_Subset
  <2>5. rank[y] \in Nat /\ rank[z] \in Nat
    BY <1>2
  <2>6. QED
    BY <2>2, <2>3, <2>4, <2>5
<1>5. rank = [z \in S |-> rank[z]] /\ \A z \in S : rank[z] = Cardinality(upto(z))
  OBVIOUS
<1> HIDE DEF rank, upto, N
<1>6. rank \in Injection(S, I)
  <2>1. rank \in [S -> I]
    BY <1>1, <1>2, <1>5
  <2>2. \A y, z \in S : rank[y] = rank[z] => y = z
    <3>1. SUFFICES ASSUME NEW y \in S, NEW z \in S, rank[y] = rank[z], y # z PROVE FALSE
      OBVIOUS
    <3>2. y < z \/ z < y
      BY <1>1, <3>1
    <3>3. QED
      BY <1>2, <1>4, <3>1, <3>2
  <2>3. QED
    BY <2>1, <2>2 DEF Injection, IsInjective
<1>7. rank \in Surjection(S, I)
  <2>1. IsFiniteSet(I) /\ Cardinality(I) = N
    BY <1>1, FS_Interval
  <2> HIDE DEF I
  <2>2. QED
    BY <1>6, <2>1, FS_Injection DEF N
<1> DEFINE s == InOrder(S)
<1>8. DOMAIN s = I /\ \A k \in I : s[k] = CHOOSE z \in S : Cardinality(upto(z)) = k
  BY DEF InOrder, N, upto
<1> HIDE DEF s
<1>9. ASSUME NEW k \in I PROVE s[k] \in S /\ rank[s[k]] = k
  <2>1. \E z \in S : rank[z] = k
    BY <1>7 DEF Surjection
  <2>2. \E z \in S : Cardinality(upto(z)) = k
    BY <1>5, <2>1
  <2>3. s[k] \in S /\ Cardinality(upto(s[k])) = k
    BY <1>8, <2>2
  <2>4. QED
    BY <1>5, <2>3
<1>10. ASSUME NEW j \in I, NEW k \in I, j < k PROVE s[j] < s[k]
  <2>1. s[j] \in S /\ s[k] \in S /\ rank[s[j]] = j /\ rank[s[k]] = k
    BY <1>9
  <2>2. ~(s[k] <= s[j])
    <3>1. SUFFICES ASSUME s[k] <= s[j] PROVE FALSE
      OBVIOUS
    <3>2. k <= j
      BY <1>3, <2>1, <3>1
    <3>3. QED
      BY <1>1, <1>10, <3>2
  <2>3. s[j] \in Nat /\ s[k] \in Nat
    BY <1>1, <2>1
  <2>4. QED
    BY <2>2, <2>3
<1>11. ASSUME NEW z \in S PROVE \E k \in I : s[k] = z
  <2>1. rank[z] \in I
    BY <1>6 DEF Injection
  <2>2. s[rank[z]] \in S /\ rank[s[rank[z]]] = rank[z]
    BY <1>9, <2>1
  <2>3. s[rank[z]] = z
    BY <1>6, <2>2 DEF Injection, IsInjective
  <2>4. QED
    BY <2>1, <2>3
<1>12. QED
  BY <1>8, <1>9, <1>10, <1>11 DEF s, N

\* What DumpReportSame says of the last run.
SameAsDump(r, d) ==
    /\ r.ret = 0
    /\ ListedIn(r.out) = {z \in Touched(r.o) : r.o.ro \in {"all", d[z].cond}}
    /\ \A i \in DOMAIN r.out :
          /\ r.out[i][2] = d[r.out[i][1]]
          /\ \A j \in DOMAIN r.out : i < j => r.out[i][1] < r.out[j][1]

\* The zones of a listing, and what the listing holds.
Selected(zones, first, end, ro) ==
    {z \in first .. end - 1 : ro \in {"all", zones[z].cond}}

LEMMA FoundIs ==
  ASSUME NEW zones, NEW first, NEW end, NEW ro
  PROVE  LET out == Found(zones, first, end, ro)
             zs  == InOrder(Selected(zones, first, end, ro))
         IN  /\ DOMAIN out = DOMAIN zs
             /\ \A k \in DOMAIN zs : out[k][1] = zs[k] /\ out[k][2] = zones[zs[k]]
<1> DEFINE S == Selected(zones, first, end, ro)
<1>1. Found(zones, first, end, ro)
         = [k \in DOMAIN InOrder(S) |-> <<InOrder(S)[k], zones[InOrder(S)[k]]>>]
  BY DEF Found, Matches, Selected
<1> HIDE DEF S
<1>2. QED
  BY <1>1 DEF S

\* A report from a dump of a range of whole zones.
LEMMA FromDumpSame ==
  ASSUME NEW o, o.ofst \in Nat, o.len \in Nat, ~Beyond(o), Aligned(o)
  PROVE  SameAsDump(Result(o, 0, FromDump(o)), dump) /\ ~Overflow(o)
<1> DEFINE a == FirstZone(o)
           b == LastZone(o)
           S == {z \in a .. b : o.ro \in {"all", dump[z].cond}}
           N == Cardinality(S)
           zs == InOrder(S)
           out == FromDump(o)
<1>1. /\ a \in Nat /\ b \in Nat /\ a <= b /\ Touched(o) = a .. b
      /\ o.ofst \div ZoneSize = a /\ (o.ofst + Len0(o) + ZoneSize - 1) \div ZoneSize = b + 1
      /\ Room(o) = b + 1 - a
  BY Spans
<1>2. /\ DOMAIN out = DOMAIN zs
      /\ \A k \in DOMAIN zs : out[k][1] = zs[k] /\ out[k][2] = dump[zs[k]]
  <2>1. out = Found(dump, a, b + 1, o.ro)
    BY <1>1 DEF FromDump
  <2>2. a .. (b + 1) - 1 = a .. b
    BY <1>1
  <2> HIDE DEF a, b
  <2>3. S = Selected(dump, a, b + 1, o.ro)
    BY <2>2 DEF Selected
  <2> HIDE DEF S, out
  <2>4. QED
    BY <2>1, <2>3, FoundIs
<1>3. /\ S \in SUBSET Nat /\ IsFiniteSet(S)
      /\ N \in Nat /\ N <= b + 1 - a
  <2>1. IsFiniteSet(a .. b) /\ Cardinality(a .. b) = b + 1 - a
    <3> HIDE DEF a, b
    <3>1. QED
      BY <1>1, FS_Interval
  <2>2. S \in SUBSET (a .. b)
    OBVIOUS
  <2> HIDE DEF S
  <2>3. IsFiniteSet(S) /\ Cardinality(S) <= Cardinality(a .. b)
    BY <2>1, <2>2, FS_Subset
  <2>4. Cardinality(S) \in Nat
    BY <2>3, FS_CardinalityType
  <2>5. S \in SUBSET Nat
    BY <1>1, <2>2
  <2> HIDE DEF a, b
  <2>6. QED
    BY <2>1, <2>3, <2>4, <2>5
<1> HIDE DEF S
<1>4. /\ DOMAIN zs = 1 .. N /\ \A k \in 1 .. N : zs[k] \in S
      /\ \A z \in S : \E k \in 1 .. N : zs[k] = z
      /\ \A j, k \in 1 .. N : j < k => zs[j] < zs[k]
  BY <1>3, OrderOf
<1> HIDE DEF zs, N
<1>5. /\ DOMAIN out = 1 .. N
      /\ \A k \in 1 .. N : out[k][1] = zs[k] /\ out[k][2] = dump[zs[k]]
  BY <1>2, <1>4
<1>6. ListedIn(out) = S
  BY <1>4, <1>5 DEF ListedIn
<1>7. S = {z \in Touched(o) : o.ro \in {"all", dump[z].cond}}
  BY <1>1 DEF S
<1>8. \A i \in DOMAIN out :
         /\ out[i][2] = dump[out[i][1]]
         /\ \A j \in DOMAIN out : i < j => out[i][1] < out[j][1]
  BY <1>4, <1>5
<1> DEFINE r == Result(o, 0, out)
<1>9. r.o = o /\ r.out = out /\ r.ret = 0
  BY DEF Result
<1> HIDE DEF r
<1>10. SameAsDump(r, dump)
  BY <1>6, <1>7, <1>8, <1>9 DEF SameAsDump
<1>11. ~Overflow(o)
  <2>1. Len(out) = N
    BY <1>3, <1>5
  <2> HIDE DEF a, b
  <2>2. QED
    BY <1>1, <1>3, <2>1 DEF Overflow, out
<1>12. QED
  BY <1>10, <1>11 DEF r, out

-----------------------------------------------------------------------------
(* The results.                                                            *)

\* A command on a range leaves all its zones in the condition it is named for, or
\* fails and leaves those behind the failure, and it leaves the zones outside to the
\* device (tools/cli/zbd.c, lines 10-44; lib/zbd.c, lines 710-764).
THEOREM RangesManaged == Spec => RangeManaged
<1>1. Init => DeviceInv
  BY InitShape
<1>2. DeviceInv /\ [Next]_vars => DeviceInv' /\ [Managed]_vars
  BY NextShape
<1>3. QED
  BY <1>1, <1>2, PTL DEF Spec, RangeManaged

LEMMA InitSame == Init => DumpReportSame
BY DEF Init, DumpReportSame

LEMMA NextSame == DumpReportSame /\ [Next]_vars => DumpReportSame'
<1> SUFFICES ASSUME DumpReportSame, [Next]_vars PROVE DumpReportSame'
  OBVIOUS
<1> DEFINE Given(o) == /\ o.cmd = "report" /\ o.file = "dump"
                       /\ ~Refused(o) /\ ~Beyond(o) /\ Aligned(o)
<1>1. /\ DumpReportSame <=> (Given(res.o) => SameAsDump(res, dump))
      /\ DumpReportSame' <=> (Given(res'.o) => SameAsDump(res', dump'))
  BY DEF DumpReportSame, SameAsDump, Refused, UnitOK, Beyond, Aligned, Len0, Touched, ListedIn
<1>2. ASSUME NEW o \in Options, ReportDump(o) PROVE DumpReportSame'
  <2>1. /\ dump' = dump /\ res'.o = o
        /\ res' = Result(o, 0, FromDump(o)) \/ Overflow(o)
    BY <1>2 DEF ReportDump, Result
  <2>2. o.ofst \in Nat /\ o.len \in Nat
    BY OptionTypes
  <2>3. ~Beyond(o) /\ Aligned(o) => SameAsDump(res', dump')
    BY <2>1, <2>2, FromDumpSame
  <2>4. QED
    BY <1>1, <2>1, <2>3
<1>3. ASSUME NEW o \in Options, Manage(o) \/ Report(o) \/ Dump(o) \/ NothingToDo(o)
      PROVE  DumpReportSame'
  <2>1. res'.o = o /\ ~Given(o)
    BY <1>3 DEF Manage, Report, Dump, NothingToDo, Runs, Result
  <2>2. QED
    BY <1>1, <2>1
<1>4. CASE HostWrite \/ UNCHANGED vars
  <2>1. dump' = dump /\ res' = res
    BY <1>4 DEF HostWrite, vars
  <2>2. QED
    BY <1>1, <2>1
<1>5. QED
  BY <1>2, <1>3, <1>4 DEF Next

\* A report from a dump lists, for every range of whole zones, the matching zones that
\* the range touches, each once, in order and as they were when the dump was written,
\* and does not run over its array (tools/cli/zbd_dump.c, lines 115-146; zbd.c, 101-107).
THEOREM DumpsReportTheDevice == Spec => []DumpReportSame
BY InitSame, NextSame, PTL DEF Spec
=============================================================================
