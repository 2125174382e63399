---------------------------- MODULE LibzbdProofs ----------------------------
(***************************************************************************)
(* libzbd, for every value of the constants of ZbdReport and of ZbdFd.     *)
(* Reports, lists and operations cover the range asked for, however the    *)
(* zones change under them.  The table of open devices, for any number of  *)
(* threads, devices and descriptors: if one thread opens and closes        *)
(* devices, and closes none while a call uses it, no descriptor is lost,   *)
(* no structure is read after it is freed, and what a caller holds works.  *)
(* With two such threads a descriptor may be opened again between close(2) *)
(* and the release of its structure, so the first condition is needed.     *)
(***************************************************************************)
EXTENDS ZbdReport, ZbdFd, FiniteSetTheorems, WellFoundedInduction, TLAPS

-----------------------------------------------------------------------------
(* The invariant of a call.                                                *)

CallNames == Ops \cup {"none", "report", "list"}
CallRecords ==
    [fn : CallNames, ofst : Nat, len : Nat, next : Nat, ro : Filters \cup {"all"},
           size : Nat \cup {Null}, stage : {"idle", "report", "op", "done"},
           out : Seq(Zones), n : Nat, ret : {"none", "ok", "-1", "errno"}]

\* Where zones start and end.
Edges == {0} \cup {EndOf(z) : z \in Zones}

Elements(q) == {q[k] : k \in DOMAIN q}

\* The zones that the loop of a call is through with.
Passed(c) == {z \in Zones : c.ofst < (z + 1) * ZoneSize /\ z * ZoneSize < c.next}

Spanned(c) == InRange(c.ofst, c.len)

\* The loop goes through the zones of its range from edge to edge.
Walking(c) ==
    /\ RangeFirst(c.ofst) < Capacity /\ RangeFirst(c.ofst) <= c.next /\ c.next \in Edges
    /\ Passed(c) \subseteq Spanned(c)

\* What a report has counted, or put in its array, of the zones it is through with.
Counting(c) ==
    /\ c.fn \in {"report", "list"} /\ c.size # 0
    /\ c.size = Null =>
         /\ Cardinality(Passed(c) \cap always) <= c.n
         /\ c.n <= Cardinality(Passed(c) \cap ever)
         /\ c.out = << >>
    /\ c.size # Null =>
         /\ Ascending(c.out) /\ Elements(c.out) \subseteq Passed(c) \cap ever
         /\ Passed(c) \cap always \subseteq Elements(c.out)
         /\ c.n = Len(c.out) /\ c.n = Cardinality(Elements(c.out)) /\ c.n <= c.size
         /\ c.fn = "list" /\ c.ro = "all" => c.size = Cardinality(Spanned(c))

Operating(c) ==
    /\ c.fn \in Ops /\ c.ro = "all" /\ c.size = Null
    /\ Ascending(c.out) /\ Elements(c.out) = Passed(c)

-----------------------------------------------------------------------------
(* Positions.                                                              *)

LEMMA MinTwo ==
  ASSUME NEW a \in Int, NEW b \in Int
  PROVE  Min({a, b}) = IF a <= b THEN a ELSE b
<1> DEFINE m == IF a <= b THEN a ELSE b
           Least(x) == x \in {a, b} /\ \A y \in {a, b} : x <= y
<1>1. Least(m)
  OBVIOUS
<1>2. \A x : Least(x) => x = m
  OBVIOUS
<1>3. QED
  BY <1>1, <1>2 DEF Min

LEMMA Division ==
  ASSUME NEW p \in Nat
  PROVE  /\ p \div ZoneSize \in Nat
         /\ (p \div ZoneSize) * ZoneSize <= p
         /\ p < (p \div ZoneSize + 1) * ZoneSize
  BY ReportConstants

\* Multiples of the zone size are ordered as their factors.
LEMMA Multiples ==
  ASSUME NEW a \in Int, NEW b \in Int
  PROVE  /\ a < b <=> a * ZoneSize < b * ZoneSize
         /\ a <= b <=> a * ZoneSize <= b * ZoneSize
         /\ a < b <=> (a + 1) * ZoneSize <= b * ZoneSize
         /\ (a + 1) * ZoneSize = a * ZoneSize + ZoneSize
  BY ReportConstants

LEMMA RoundedUp ==
  ASSUME NEW p \in Nat
  PROVE  /\ RoundUp(p) \in Nat /\ p <= RoundUp(p)
         /\ \A z \in Int : z * ZoneSize < RoundUp(p) <=> z * ZoneSize < p
<1> DEFINE q == (p + ZoneSize - 1) \div ZoneSize
<1>1. p + ZoneSize - 1 \in Nat
  BY ReportConstants
<1>2. /\ q \in Nat /\ q * ZoneSize <= p + ZoneSize - 1
      /\ p + ZoneSize - 1 < (q + 1) * ZoneSize
  BY <1>1, Division
<1>3. RoundUp(p) = q * ZoneSize
  BY DEF RoundUp
<1> HIDE DEF q
<1>4. q * ZoneSize \in Nat /\ (q + 1) * ZoneSize = q * ZoneSize + ZoneSize
  BY <1>2, ReportConstants
<1>5. p <= q * ZoneSize
  BY <1>2, <1>4, ReportConstants
<1>6. ASSUME NEW z \in Int PROVE z * ZoneSize < q * ZoneSize <=> z * ZoneSize < p
  <2>1. ASSUME z * ZoneSize < q * ZoneSize PROVE z * ZoneSize < p
    <3>1. (z + 1) * ZoneSize <= q * ZoneSize /\ (z + 1) * ZoneSize = z * ZoneSize + ZoneSize
      BY <1>2, <2>1, Multiples
    <3>2. z * ZoneSize \in Int
      BY ReportConstants
    <3>3. QED
      BY <1>2, <1>4, <3>1, <3>2, ReportConstants
  <2>2. z * ZoneSize \in Int
    BY ReportConstants
  <2>3. QED
    BY <1>4, <1>5, <2>1, <2>2
<1>7. QED
  BY <1>3, <1>4, <1>5, <1>6

LEMMA OnDevice == \A z \in Nat : z \in Zones <=> z * ZoneSize < Capacity
<1>1. Capacity \in Nat /\ RoundUp(Capacity) \in Nat
  BY RoundedUp, ReportConstants
<1>2. RoundUp(Capacity) = NZ * ZoneSize
  <2> DEFINE q == (Capacity + ZoneSize - 1) \div ZoneSize
  <2>1. q \in Nat
    BY Division, ReportConstants
  <2>2. (q * ZoneSize) \div ZoneSize = q
    BY <2>1, ReportConstants
  <2>3. NZ = q
    BY <2>2 DEF NZ, RoundUp
  <2>4. QED
    BY <2>3 DEF RoundUp
<1>3. NZ \in Nat
  BY <1>1, Division DEF NZ
<1>4. ASSUME NEW z \in Nat PROVE z \in Zones <=> z * ZoneSize < Capacity
  <2>1. z \in Zones <=> z < NZ
    BY <1>3 DEF Zones
  <2>2. z < NZ <=> z * ZoneSize < NZ * ZoneSize
    BY <1>3, Multiples
  <2>3. QED
    BY <1>1, <1>2, <2>1, <2>2, RoundedUp
<1>5. QED
  BY <1>4

LEMMA ZoneBounds ==
  ASSUME NEW z \in Zones
  PROVE  /\ z \in Nat /\ z * ZoneSize \in Nat /\ (z + 1) * ZoneSize \in Nat
         /\ z * ZoneSize < EndOf(z) /\ EndOf(z) \in 0 .. Capacity
         /\ EndOf(z) = IF (z + 1) * ZoneSize <= Capacity THEN (z + 1) * ZoneSize ELSE Capacity
<1>1. z \in Nat
  BY DEF Zones
<1>2. z * ZoneSize \in Nat /\ (z + 1) * ZoneSize \in Nat /\ z * ZoneSize < (z + 1) * ZoneSize
  BY <1>1, ReportConstants
<1>3. z * ZoneSize < Capacity
  BY <1>1, OnDevice
<1>4. EndOf(z) = IF (z + 1) * ZoneSize <= Capacity THEN (z + 1) * ZoneSize ELSE Capacity
  BY <1>2, MinTwo, ReportConstants DEF EndOf
<1>5. QED
  BY <1>1, <1>2, <1>3, <1>4, ReportConstants

\* The end that the library computes is the end of the range.
LEMMA EndOfRange ==
  ASSUME NEW ofst \in Nat, NEW len \in Nat
  PROVE  /\ RangeEnd(ofst, len) \in Nat /\ RangeEnd(ofst, len) <= Capacity
         /\ \A z \in Zones : z \in InRange(ofst, len) <=>
               /\ z * ZoneSize < RangeEnd(ofst, len)
               /\ ofst < (z + 1) * ZoneSize
<1> DEFINE l == IF len = 0 THEN Capacity ELSE len
           stop == IF len = 0 THEN Capacity ELSE ofst + len
           up == RoundUp(ofst + l)
<1>1. ofst + l \in Nat /\ Capacity \in Nat
  BY ReportConstants
<1>2. up \in Nat /\ ofst + l <= up
      /\ \A z \in Int : z * ZoneSize < up <=> z * ZoneSize < ofst + l
  BY <1>1, RoundedUp
<1>3. RangeEnd(ofst, len) = IF up <= Capacity THEN up ELSE Capacity
  <2> HIDE DEF up
  <2>1. Min({up, Capacity}) = IF up <= Capacity THEN up ELSE Capacity
    BY <1>1, <1>2, MinTwo
  <2>2. QED
    BY <2>1 DEF RangeEnd, up
<1>4. ASSUME NEW z \in Zones
      PROVE  z * ZoneSize < RangeEnd(ofst, len) <=> z * ZoneSize < stop
  <2>1. z \in Nat /\ z * ZoneSize \in Nat /\ z * ZoneSize < Capacity
    BY ZoneBounds, OnDevice DEF Zones
  <2>2. z * ZoneSize < up <=> z * ZoneSize < ofst + l
    BY <1>2, <2>1
  <2> HIDE DEF up
  <2>3. QED
    BY <1>1, <1>2, <1>3, <2>1, <2>2
<1>5. QED
  BY <1>1, <1>2, <1>3, <1>4 DEF InRange

LEMMA FirstZone ==
  ASSUME NEW ofst \in Nat
  PROVE  /\ RangeFirst(ofst) \in Nat /\ RangeFirst(ofst) <= ofst
         /\ \A z \in Int : ofst < (z + 1) * ZoneSize <=> RangeFirst(ofst) <= z * ZoneSize
<1> DEFINE q == ofst \div ZoneSize
<1>1. q \in Nat /\ q * ZoneSize <= ofst /\ ofst < (q + 1) * ZoneSize
  BY Division
<1>2. RangeFirst(ofst) = q * ZoneSize
  BY DEF RangeFirst, RoundDown
<1> HIDE DEF q
<1>3. q * ZoneSize \in Nat /\ (q + 1) * ZoneSize \in Nat
  BY <1>1, ReportConstants
<1>4. ASSUME NEW z \in Int
      PROVE  ofst < (z + 1) * ZoneSize <=> q * ZoneSize <= z * ZoneSize
  <2>1. z * ZoneSize \in Int /\ (z + 1) * ZoneSize \in Int
    BY ReportConstants
  <2>2. CASE q <= z
    <3>1. (q + 1) * ZoneSize <= (z + 1) * ZoneSize /\ q * ZoneSize <= z * ZoneSize
      BY <1>1, <2>2, Multiples
    <3>2. QED
      BY <1>1, <1>3, <2>1, <3>1
  <2>3. CASE z < q
    <3>1. (z + 1) * ZoneSize <= q * ZoneSize /\ z * ZoneSize < q * ZoneSize
      BY <1>1, <2>3, Multiples
    <3>2. QED
      BY <1>1, <1>3, <2>1, <3>1
  <2>4. QED
    BY <1>1, <2>2, <2>3
<1>5. QED
  BY <1>1, <1>2, <1>3, <1>4

\* Where the loop stands before the end of the device, a zone starts, and the next
\* stop is its end.
LEMMA Advance ==
  ASSUME NEW ofst \in Nat, NEW next \in Edges, RangeFirst(ofst) <= next, next < Capacity,
         NEW z, z = next \div ZoneSize
  PROVE  /\ z \in Zones /\ z * ZoneSize = next /\ ofst < (z + 1) * ZoneSize
         /\ EndOf(z) \in Edges /\ next < EndOf(z)
         /\ \A y \in Zones : /\ y * ZoneSize < EndOf(z) <=> y * ZoneSize < next \/ y = z
                             /\ y * ZoneSize < next => y < z
<1>1. PICK q \in Nat : next = q * ZoneSize
  <2>1. CASE next = 0
    BY <2>1, ReportConstants
  <2>2. CASE next # 0
    <3>1. PICK w \in Zones : next = EndOf(w)
      BY <2>2 DEF Edges
    <3>2. next = (w + 1) * ZoneSize /\ w + 1 \in Nat
      BY <3>1, ZoneBounds, ReportConstants
    <3>3. QED
      BY <3>2
  <2>3. QED
    BY <2>1, <2>2
<1>2. z = q
  BY <1>1, ReportConstants
<1>3. z \in Zones
  BY <1>1, <1>2, OnDevice
<1>4. ofst < (z + 1) * ZoneSize
  BY <1>1, <1>2, FirstZone
<1>5. ASSUME NEW y \in Zones
      PROVE  /\ y * ZoneSize < EndOf(z) <=> y * ZoneSize < next \/ y = z
             /\ y * ZoneSize < next => y < z
  <2>1. y \in Nat /\ y * ZoneSize \in Nat /\ y * ZoneSize < Capacity
    BY ZoneBounds, OnDevice
  <2>2. y * ZoneSize < next <=> y < z
    BY <1>1, <1>2, <2>1, Multiples
  <2>3. y * ZoneSize < (z + 1) * ZoneSize <=> y < z + 1
    BY <1>1, <1>2, <2>1, Multiples
  <2>4. y * ZoneSize < EndOf(z) <=> y < z + 1
    BY <1>3, <2>1, <2>3, ZoneBounds, ReportConstants
  <2>5. QED
    BY <1>1, <1>2, <2>1, <2>2, <2>4
<1>6. next < EndOf(z)
  BY <1>1, <1>2, <1>3, ZoneBounds
<1>7. QED
  BY <1>1, <1>2, <1>3, <1>4, <1>5, <1>6 DEF Edges

-----------------------------------------------------------------------------
(* One more zone.                                                          *)

LEMMA ZonesFinite == IsFiniteSet(Zones)
<1>1. RoundUp(Capacity) \in Nat
  BY RoundedUp, ReportConstants
<1>2. NZ \in Nat
  BY <1>1, Division DEF NZ
<1>3. QED
  BY <1>2, FS_Interval DEF Zones

LEMMA AppendLarger ==
  ASSUME NEW q \in Seq(Zones), NEW z \in Zones, Ascending(q), \A y \in Elements(q) : y < z
  PROVE  /\ Append(q, z) \in Seq(Zones) /\ Ascending(Append(q, z))
         /\ Elements(Append(q, z)) = Elements(q) \cup {z} /\ z \notin Elements(q)
         /\ Len(Append(q, z)) = Len(q) + 1
<1> DEFINE r == Append(q, z)
<1>1. /\ r \in Seq(Zones) /\ Len(r) = Len(q) + 1 /\ Len(q) \in Nat
      /\ DOMAIN q = 1 .. Len(q) /\ DOMAIN r = 1 .. Len(q) + 1
      /\ \A k \in 1 .. Len(q) : r[k] = q[k]
      /\ r[Len(q) + 1] = z
  OBVIOUS
<1> HIDE DEF r
<1>2. Elements(r) = Elements(q) \cup {z}
  <2>1. \A k \in DOMAIN r : k \in DOMAIN q \/ k = Len(q) + 1
    BY <1>1
  <2>2. \A k \in DOMAIN q : k \in DOMAIN r /\ k # Len(q) + 1 /\ r[k] = q[k]
    BY <1>1
  <2>3. Len(q) + 1 \in DOMAIN r
    BY <1>1
  <2>4. QED
    BY <1>1, <2>1, <2>2, <2>3 DEF Elements
<1>3. Ascending(r)
  <2>1. \A k \in 1 .. Len(q) : q[k] < z
    BY <1>1 DEF Elements
  <2>2. QED
    BY <1>1, <2>1 DEF Ascending
<1>4. z \notin Elements(q)
  BY DEF Zones
<1>5. QED
  BY <1>1, <1>2, <1>3, <1>4 DEF r

\* One more zone in a finite set.
LEMMA OneMore ==
  ASSUME NEW P \in SUBSET Zones, NEW A \in SUBSET Zones, NEW z \in Zones, z \notin P
  PROVE  /\ Cardinality(P \cap A) \in Nat /\ Cardinality((P \cup {z}) \cap A) \in Nat
         /\ z \in A => Cardinality((P \cup {z}) \cap A) = Cardinality(P \cap A) + 1
         /\ z \notin A => (P \cup {z}) \cap A = P \cap A
<1> DEFINE B == P \cap A
<1>1. IsFiniteSet(B) /\ z \notin B
  BY ZonesFinite, FS_Subset
<1>2. /\ IsFiniteSet(B \cup {z}) /\ Cardinality(B) \in Nat
      /\ Cardinality(B \cup {z}) = Cardinality(B) + 1
  <2> HIDE DEF B
  <2>1. QED
    BY <1>1, FS_AddElement, FS_CardinalityType
<1>3. (P \cup {z}) \cap A = IF z \in A THEN B \cup {z} ELSE B
  OBVIOUS
<1> HIDE DEF B
<1>4. QED
  BY <1>2, <1>3 DEF B

LEMMA WalkOn ==
  ASSUME NEW c \in CallRecords, Walking(c), c.next < RangeEnd(c.ofst, c.len),
         NEW z, z = c.next \div ZoneSize,
         NEW d \in CallRecords, d.ofst = c.ofst, d.len = c.len, d.next = EndOf(z)
  PROVE  /\ z \in Zones /\ z \notin Passed(c) /\ Passed(d) = Passed(c) \cup {z}
         /\ \A y \in Passed(c) : y < z
         /\ Walking(d)
<1>1. c.ofst \in Nat /\ c.len \in Nat /\ c.next \in Edges /\ RangeFirst(c.ofst) <= c.next
  BY DEF CallRecords, Walking
<1>2. RangeEnd(c.ofst, c.len) \in Nat /\ RangeEnd(c.ofst, c.len) <= Capacity
  BY <1>1, EndOfRange
<1>3. c.next < Capacity /\ c.next \in Nat
  BY <1>2, ReportConstants DEF CallRecords
<1>4. /\ z \in Zones /\ z * ZoneSize = c.next /\ c.ofst < (z + 1) * ZoneSize
      /\ EndOf(z) \in Edges /\ c.next < EndOf(z)
      /\ \A y \in Zones : /\ y * ZoneSize < EndOf(z) <=> y * ZoneSize < c.next \/ y = z
                          /\ y * ZoneSize < c.next => y < z
  BY <1>1, <1>3, Advance
<1>5. Passed(d) = Passed(c) \cup {z}
  BY <1>4 DEF Passed
<1>6. z \in Spanned(c)
  BY <1>1, <1>4, EndOfRange DEF Spanned
<1>7. \A y \in Passed(c) : y < z
  BY <1>4 DEF Passed
<1>8. z \notin Passed(c)
  BY <1>7, <1>4 DEF Zones
<1>9. RangeFirst(d.ofst) < Capacity /\ RangeFirst(d.ofst) <= d.next
  <2>1. RangeFirst(c.ofst) \in Nat /\ EndOf(z) \in Nat
    BY <1>1, <1>4, FirstZone, ZoneBounds
  <2>2. QED
    BY <1>1, <1>3, <1>4, <2>1 DEF Walking
<1>10. Walking(d)
  BY <1>4, <1>5, <1>6, <1>9 DEF Walking, Spanned
<1>11. QED
  BY <1>4, <1>5, <1>7, <1>8, <1>10

\* What the ghosts know of a filter.
GhostsOf(ro) ==
    /\ always \subseteq Zones /\ ever \subseteq Zones
    /\ always \subseteq Matching(ro) /\ Matching(ro) \subseteq ever
    /\ ro = "all" => always = Zones

\* A report under way.
Reporting(c) ==
    c \in CallRecords /\ c.stage = "report" /\ c.ret = "none" /\ Walking(c) /\ Counting(c)

SameCall(c, d) ==
    d.fn = c.fn /\ d.ofst = c.ofst /\ d.len = c.len /\ d.ro = c.ro /\ d.size = c.size

\* Every zone of an answer keeps what the report says of the zones so far.
LEMMA TakenKeeps ==
  ASSUME NEW c, Reporting(c), GhostsOf(c.ro)
  PROVE  Reporting(Taken(c)) /\ SameCall(c, Taken(c))
<1> DEFINE d == Taken(c)
           z == c.next \div ZoneSize
<1>1. CASE Stops(c)
  BY <1>1 DEF Taken, SameCall
<1>2. CASE ~Stops(c)
  <2>1. /\ c \in CallRecords /\ Walking(c) /\ Counting(c) /\ c.next \in Nat
        /\ c.out \in Seq(Zones) /\ c.n \in Nat /\ c.size \in Nat \cup {Null}
        /\ c.next < RangeEnd(c.ofst, c.len) /\ (c.size > 0 => c.n < c.size)
    <3>1. RangeEnd(c.ofst, c.len) \in Nat
      BY EndOfRange DEF Reporting, CallRecords
    <3>2. QED
      BY <1>2, <3>1 DEF Reporting, CallRecords, Stops, Null
  <2>2. /\ SameCall(c, d) /\ d.stage = c.stage /\ d.ret = c.ret /\ d.next = EndOf(z)
        /\ d.n = IF Matches(zone[z], c.ro) THEN c.n + 1 ELSE c.n
        /\ d.out = IF Matches(zone[z], c.ro) /\ c.size # Null THEN Append(c.out, z) ELSE c.out
        /\ d = [fn |-> d.fn, ofst |-> d.ofst, len |-> d.len, next |-> d.next, ro |-> d.ro,
                size |-> d.size, stage |-> d.stage, out |-> d.out, n |-> d.n, ret |-> d.ret]
    BY <1>2 DEF Taken, SameCall, Reporting, CallRecords
  <2> HIDE DEF d
  <2>3. z \in Zones /\ EndOf(z) \in Nat
    <3>1. RangeEnd(c.ofst, c.len) \in Nat /\ RangeEnd(c.ofst, c.len) <= Capacity
      BY EndOfRange DEF Reporting, CallRecords
    <3>2. c.next < Capacity
      BY <2>1, <3>1, ReportConstants
    <3>3. z \in Zones
      BY <2>1, <3>2, Advance DEF Reporting, CallRecords, Walking
    <3>4. QED
      BY <3>3, ZoneBounds
  <2>4. Append(c.out, z) \in Seq(Zones)
    BY <2>1, <2>3
  <2>5. d \in CallRecords
    <3>1. d.next \in Nat /\ d.n \in Nat /\ d.out \in Seq(Zones)
      BY <2>1, <2>2, <2>3, <2>4
    <3>2. /\ c.fn \in CallNames /\ c.ofst \in Nat /\ c.len \in Nat
          /\ c.ro \in Filters \cup {"all"} /\ c.size \in Nat \cup {Null}
          /\ c.stage \in {"idle", "report", "op", "done"}
          /\ c.ret \in {"none", "ok", "-1", "errno"}
      BY <2>1 DEF CallRecords
    <3>3. /\ d.fn \in CallNames /\ d.ofst \in Nat /\ d.len \in Nat
          /\ d.ro \in Filters \cup {"all"} /\ d.size \in Nat \cup {Null}
          /\ d.stage \in {"idle", "report", "op", "done"}
          /\ d.ret \in {"none", "ok", "-1", "errno"}
      BY <2>2, <3>2 DEF SameCall
    <3>4. QED
      BY <2>2, <3>1, <3>3 DEF CallRecords
  <2>6. /\ z \notin Passed(c) /\ Passed(d) = Passed(c) \cup {z}
        /\ \A y \in Passed(c) : y < z
        /\ Walking(d)
    BY <2>1, <2>2, <2>5, WalkOn DEF SameCall
  <2>7. Passed(c) \in SUBSET Zones /\ always \in SUBSET Zones /\ ever \in SUBSET Zones
    BY DEF Passed, GhostsOf
  <2> HIDE DEF z
  <2> DEFINE before(A) == Cardinality(Passed(c) \cap A)
             after(A) == Cardinality(Passed(d) \cap A)
  <2>8. ASSUME NEW A \in SUBSET Zones
        PROVE  before(A) \in Nat /\ after(A) = IF z \in A THEN before(A) + 1 ELSE before(A)
    <3>1. /\ Cardinality(Passed(c) \cap A) \in Nat
          /\ z \in A => Cardinality((Passed(c) \cup {z}) \cap A) = Cardinality(Passed(c) \cap A) + 1
          /\ z \notin A => (Passed(c) \cup {z}) \cap A = Passed(c) \cap A
      BY <2>3, <2>6, <2>7, OneMore
    <3>2. Passed(d) = Passed(c) \cup {z}
      BY <2>6
    <3>3. QED
      BY <3>1, <3>2
  <2>9. z \in always => Matches(zone[z], c.ro)
    BY DEF GhostsOf, Matching
  <2>10. Matches(zone[z], c.ro) => z \in ever
    BY <2>3 DEF GhostsOf, Matching
  <2>11. Spanned(d) = Spanned(c)
    BY <2>2 DEF Spanned, SameCall
  <2>12. d.fn \in {"report", "list"} /\ d.size # 0
    BY <2>1, <2>2 DEF Counting, SameCall
  <2>13. ASSUME c.size = Null PROVE Counting(d)
    <3>1. before(always) <= c.n /\ c.n <= before(ever) /\ c.out = << >>
      BY <2>1, <2>13 DEF Counting
    <3> HIDE DEF before, after
    <3>2. after(always) <= d.n /\ d.n <= after(ever)
      <4>1. /\ before(always) \in Nat /\ before(ever) \in Nat /\ c.n \in Nat
            /\ after(always) = IF z \in always THEN before(always) + 1 ELSE before(always)
            /\ after(ever) = IF z \in ever THEN before(ever) + 1 ELSE before(ever)
        BY <2>1, <2>7, <2>8
      <4>2. CASE Matches(zone[z], c.ro)
        BY <2>2, <2>10, <3>1, <4>1, <4>2
      <4>3. CASE ~Matches(zone[z], c.ro)
        BY <2>2, <2>9, <3>1, <4>1, <4>3
      <4>4. QED
        BY <4>2, <4>3
    <3>3. /\ Cardinality(Passed(d) \cap always) <= d.n
          /\ d.n <= Cardinality(Passed(d) \cap ever)
      BY <3>2 DEF after
    <3>4. d.size = Null /\ d.out = << >>
      BY <2>2, <2>13, <3>1 DEF SameCall
    <3>5. QED
      BY <2>12, <3>3, <3>4 DEF Counting
  <2>14. ASSUME c.size # Null PROVE Counting(d)
    <3>1. /\ Ascending(c.out) /\ Elements(c.out) \subseteq Passed(c) \cap ever
          /\ Passed(c) \cap always \subseteq Elements(c.out)
          /\ c.n = Len(c.out) /\ c.n = Cardinality(Elements(c.out)) /\ c.n <= c.size
          /\ c.fn = "list" /\ c.ro = "all" => c.size = Cardinality(Spanned(c))
      BY <2>1, <2>14 DEF Counting
    <3>2. c.n < c.size
      BY <2>1, <2>14 DEF Counting, Null
    <3>3. /\ Ascending(d.out) /\ d.n = Len(d.out) /\ d.n = Cardinality(Elements(d.out))
          /\ d.n <= d.size
          /\ Elements(d.out) = IF Matches(zone[z], c.ro) THEN Elements(c.out) \cup {z}
                               ELSE Elements(c.out)
      <4>1. CASE Matches(zone[z], c.ro)
        <5>1. \A y \in Elements(c.out) : y < z
          BY <2>6, <3>1
        <5>2. /\ Ascending(Append(c.out, z))
              /\ Elements(Append(c.out, z)) = Elements(c.out) \cup {z}
              /\ z \notin Elements(c.out)
              /\ Len(Append(c.out, z)) = Len(c.out) + 1
          BY <2>1, <2>3, <3>1, <5>1, AppendLarger
        <5>3. Elements(c.out) \in SUBSET Zones
          BY <2>7, <3>1
        <5>4. Cardinality(Elements(c.out) \cup {z}) = Cardinality(Elements(c.out)) + 1
          <6>1. IsFiniteSet(Elements(c.out))
            BY <5>3, ZonesFinite, FS_Subset
          <6>2. QED
            BY <5>2, <6>1, FS_AddElement
        <5>5. d.out = Append(c.out, z) /\ d.n = c.n + 1 /\ d.size = c.size
          BY <2>2, <2>14, <4>1 DEF SameCall
        <5>6. c.n + 1 <= c.size
          BY <2>1, <2>14, <3>2 DEF Null
        <5>7. QED
          BY <3>1, <4>1, <5>2, <5>4, <5>5, <5>6
      <4>2. CASE ~Matches(zone[z], c.ro)
        <5>1. d.out = c.out /\ d.n = c.n /\ d.size = c.size
          BY <2>2, <4>2 DEF SameCall
        <5>2. QED
          BY <3>1, <4>2, <5>1
      <4>3. QED
        BY <4>1, <4>2
    <3>4. Elements(d.out) \subseteq Passed(d) \cap ever
      BY <2>6, <2>10, <3>1, <3>3
    <3>5. Passed(d) \cap always \subseteq Elements(d.out)
      BY <2>6, <2>9, <3>1, <3>3
    <3>6. d.fn = "list" /\ d.ro = "all" => d.size = Cardinality(Spanned(d))
      BY <2>2, <2>11, <3>1 DEF SameCall
    <3>7. d.size # Null
      BY <2>2, <2>14 DEF SameCall
    <3>8. QED
      BY <2>12, <3>3, <3>4, <3>5, <3>6, <3>7 DEF Counting
  <2>15. Reporting(d)
    BY <2>2, <2>5, <2>6, <2>13, <2>14 DEF Reporting
  <2>16. QED
    BY <2>2, <2>15 DEF d
<1>3. QED
  BY <1>1, <1>2

\* Numbers of a set that is not empty have a least one.
LEMMA LeastOf ==
  ASSUME NEW S \in SUBSET Nat, S # {}
  PROVE  \E n \in S : \A m \in S : n <= m
<1>1. PICK n \in S : \A m \in S : <<m, n>> \notin OpToRel(<, Nat)
  BY NatLessThanWellFounded, WFMin
<1>2. \A m \in S : ~(m < n)
  BY <1>1 DEF OpToRel
<1>3. QED
  BY <1>2

\* The calls after each of the zones of an answer.
Trace(f, n, c) == f = [k \in 0 .. n |-> IF k = 0 THEN c ELSE Taken(f[k - 1])]

LEMMA TraceExists ==
  ASSUME NEW c, NEW n \in Nat
  PROVE  \E f : Trace(f, n, c)
<1> DEFINE B == {m \in Nat : ~ \E f : Trace(f, m, c)}
<1>1. SUFFICES ASSUME B # {} PROVE FALSE
  OBVIOUS
<1>2. PICK m \in B : \A j \in B : m <= j
  <2>1. B \in SUBSET Nat
    OBVIOUS
  <2> HIDE DEF B
  <2>2. QED
    BY <1>1, <2>1, LeastOf
<1>3. CASE m = 0
  <2> DEFINE f == [k \in 0 .. 0 |-> c]
  <2>1. f = [k \in 0 .. 0 |-> IF k = 0 THEN c ELSE Taken(f[k - 1])]
    OBVIOUS
  <2>2. QED
    BY <1>2, <1>3, <2>1 DEF Trace
<1>4. CASE m # 0
  <2>1. m - 1 \in Nat /\ m - 1 \notin B
    BY <1>2, <1>4
  <2>2. PICK f : Trace(f, m - 1, c)
    BY <2>1
  <2>3. /\ DOMAIN f = 0 .. m - 1
        /\ \A k \in 0 .. m - 1 : f[k] = IF k = 0 THEN c ELSE Taken(f[k - 1])
    BY <2>2 DEF Trace
  <2> DEFINE g == [k \in 0 .. m |-> IF k = m THEN Taken(f[m - 1]) ELSE f[k]]
  <2>4. \A k \in 0 .. m : g[k] = IF k = 0 THEN c ELSE Taken(g[k - 1])
    <3>1. TAKE k \in 0 .. m
    <3>2. CASE k = m
      <4>1. g[k] = Taken(f[m - 1]) /\ k # 0 /\ m - 1 \in 0 .. m /\ m - 1 # m
        BY <1>2, <1>4, <3>2
      <4>2. g[k - 1] = f[m - 1]
        BY <3>2, <4>1
      <4>3. QED
        BY <4>1, <4>2
    <3>3. CASE k # m /\ k # 0
      <4>1. k \in 0 .. m - 1 /\ k - 1 \in 0 .. m /\ k - 1 # m
        BY <1>2, <3>3
      <4>2. g[k] = f[k] /\ g[k - 1] = f[k - 1]
        BY <3>3, <4>1
      <4>3. QED
        BY <2>3, <3>3, <4>1, <4>2
    <3>4. CASE k # m /\ k = 0
      <4>1. g[k] = f[k] /\ k \in 0 .. m - 1
        BY <1>2, <1>4, <3>4
      <4>2. QED
        BY <2>3, <3>4, <4>1
    <3>5. QED
      BY <3>2, <3>3, <3>4
  <2>5. g = [k \in 0 .. m |-> g[k]]
    OBVIOUS
  <2> HIDE DEF g
  <2>6. [k \in 0 .. m |-> g[k]] = [k \in 0 .. m |-> IF k = 0 THEN c ELSE Taken(g[k - 1])]
    BY <2>4
  <2>7. Trace(g, m, c)
    BY <2>5, <2>6 DEF Trace
  <2>8. QED
    BY <1>2, <2>7
<1>5. QED
  BY <1>3, <1>4

LEMMA BatchKeeps ==
  ASSUME NEW c, Reporting(c), ~Stops(c), GhostsOf(c.ro)
  PROVE  Reporting(AfterBatch(c)) /\ SameCall(c, AfterBatch(c))
<1> DEFINE answer == Min({Requested(c), NZ - c.next \div ZoneSize})
           step == CHOOSE f : Trace(f, answer, c)
           Good(d) == Reporting(d) /\ SameCall(c, d)
<1>1. answer \in Nat
  <2>1. Requested(c) \in Nat
    <3>1. CASE c.size > 0
      <4>1. c.size \in Nat /\ Batch \in Nat
        BY <3>1, ReportConstants DEF Reporting, CallRecords, Null
      <4>2. QED
        BY <3>1, <4>1, MinTwo DEF Requested
    <3>2. CASE ~(c.size > 0)
      BY <3>2, ReportConstants DEF Requested
    <3>3. QED
      BY <3>1, <3>2
  <2>2. c.ofst \in Nat /\ c.len \in Nat /\ c.next \in Nat
    BY DEF Reporting, CallRecords
  <2>3. RangeEnd(c.ofst, c.len) \in Nat /\ RangeEnd(c.ofst, c.len) <= Capacity
    BY <2>2, EndOfRange
  <2>4. c.next < Capacity
    BY <2>2, <2>3, ReportConstants DEF Stops
  <2>5. c.next \div ZoneSize \in Zones
    BY <2>2, <2>4, Advance DEF Reporting, Walking
  <2>6. RoundUp(Capacity) \in Nat
    BY RoundedUp, ReportConstants
  <2>7. NZ \in Nat
    BY <2>6, Division DEF NZ
  <2> DEFINE z == c.next \div ZoneSize
  <2>8. NZ - z \in Nat
    <3>1. z \in 0 .. NZ - 1
      BY <2>5 DEF Zones
    <3> HIDE DEF z
    <3>2. QED
      BY <2>7, <3>1
  <2> HIDE DEF z
  <2>9. Min({Requested(c), NZ - z}) \in Nat
    BY <2>1, <2>8, MinTwo
  <2>10. QED
    BY <2>9 DEF z
<1>2. AfterBatch(c) = step[answer]
  BY DEF AfterBatch, Trace
<1> HIDE DEF answer
<1>3. Trace(step, answer, c)
  BY <1>1, TraceExists
<1> HIDE DEF step
<1>4. \A k \in 0 .. answer : step[k] = IF k = 0 THEN c ELSE Taken(step[k - 1])
  BY <1>3 DEF Trace
<1> DEFINE B == {k \in 0 .. answer : ~Good(step[k])}
<1>5. B = {}
  <2>1. SUFFICES ASSUME B # {} PROVE FALSE
    OBVIOUS
  <2>2. B \in SUBSET Nat
    BY <1>1
  <2>3. PICK k \in B : \A j \in B : k <= j
    <3> HIDE DEF B
    <3>1. QED
      BY <2>1, <2>2, LeastOf
  <2>4. CASE k = 0
    <3>1. step[k] = c
      BY <1>4, <2>3, <2>4
    <3>2. Good(c)
      BY DEF SameCall
    <3>3. QED
      BY <2>3, <3>1, <3>2
  <2>5. CASE k # 0
    <3>1. k - 1 \in 0 .. answer /\ k - 1 \notin B
      BY <1>1, <2>3, <2>5
    <3>2. Good(step[k - 1])
      BY <3>1
    <3>3. step[k] = Taken(step[k - 1])
      BY <1>4, <2>3, <2>5
    <3>4. GhostsOf(step[k - 1].ro)
      BY <3>2 DEF SameCall
    <3>5. Reporting(Taken(step[k - 1])) /\ SameCall(step[k - 1], Taken(step[k - 1]))
      BY <3>2, <3>4, TakenKeeps
    <3>6. Good(step[k])
      BY <3>2, <3>3, <3>5 DEF SameCall
    <3>7. QED
      BY <2>3, <3>6
  <2>6. QED
    BY <2>4, <2>5
<1>6. answer \in 0 .. answer
  BY <1>1
<1>7. QED
  BY <1>2, <1>5, <1>6

-----------------------------------------------------------------------------
(* The invariant.                                                          *)

\* A call with nothing to do.
Nothing(c) ==
    /\ c.n = 0 /\ c.out = << >>
    /\ RangeFirst(c.ofst) >= Capacity \/ (c.size = 0 /\ c.fn = "report")

StageInv ==
    /\ call.stage = "idle"   => call = NoCall
    /\ call.stage = "report" => Reporting(call)
    /\ call.stage = "op"     => Walking(call) /\ Operating(call)
    /\ call.stage = "done"   => Nothing(call)

Typed ==
    /\ zone \in [Zones -> ZoneStates] /\ call \in CallRecords /\ last \in CallRecords
    /\ call.ret = "none" /\ always \subseteq Zones /\ ever \subseteq Zones

Ghosts == call.stage # "idle" => GhostsOf(call.ro)

Results == ReportSound /\ ListAllComplete /\ OperationCovers

ReportInv == Typed /\ StageInv /\ Ghosts /\ Results

LEMMA NoCallType == NoCall \in CallRecords
  BY DEF NoCall, CallRecords, CallNames, Null

LEMMA NoResults == last = NoCall => Results
  BY DEF NoCall, Results, ReportSound, ListAllComplete, OperationCovers, Succeeded, Ops

\* A walk starts with the first zone of the range.
LEMMA WalkStarts ==
  ASSUME NEW c, c.ofst \in Nat, RangeFirst(c.ofst) < Capacity, c.next = RangeFirst(c.ofst)
  PROVE  Walking(c) /\ Passed(c) = {}
<1> DEFINE q == c.ofst \div ZoneSize
<1>1. q \in Nat /\ RangeFirst(c.ofst) = q * ZoneSize
  BY Division DEF RangeFirst, RoundDown
<1> HIDE DEF q
<1>2. RangeFirst(c.ofst) \in Nat
  BY FirstZone
<1>3. RangeFirst(c.ofst) \in Edges
  <2>1. CASE q = 0
    BY <1>1, <2>1, ReportConstants DEF Edges
  <2>2. CASE q # 0
    <3>1. q - 1 \in Nat /\ (q - 1) + 1 = q
      BY <1>1, <2>2
    <3>2. (q - 1) * ZoneSize < q * ZoneSize /\ (q - 1) * ZoneSize \in Nat
      BY <1>1, <3>1, Multiples, ReportConstants
    <3>3. q - 1 \in Zones
      BY <1>1, <1>2, <3>1, <3>2, OnDevice, ReportConstants
    <3>4. EndOf(q - 1) = q * ZoneSize
      BY <1>1, <1>2, <3>1, <3>3, ZoneBounds, ReportConstants
    <3>5. QED
      BY <1>1, <3>3, <3>4 DEF Edges
  <2>3. QED
    BY <2>1, <2>2
<1>4. Passed(c) = {}
  <2>1. ASSUME NEW z \in Zones, c.ofst < (z + 1) * ZoneSize, z * ZoneSize < c.next
        PROVE  FALSE
    <3>1. z \in Nat /\ z * ZoneSize \in Nat
      BY ZoneBounds
    <3>2. RangeFirst(c.ofst) <= z * ZoneSize
      BY <2>1, <3>1, FirstZone
    <3>3. QED
      BY <1>2, <2>1, <3>1, <3>2
  <2>2. QED
    BY <2>1 DEF Passed
<1>5. QED
  BY <1>2, <1>3, <1>4 DEF Walking

LEMMA NothingInRange ==
  ASSUME NEW ofst \in Nat, NEW len, RangeFirst(ofst) >= Capacity
  PROVE  InRange(ofst, len) = {}
<1>1. ASSUME NEW z \in Zones, ofst < (z + 1) * ZoneSize PROVE FALSE
  <2>1. z \in Nat /\ z * ZoneSize \in Nat /\ z * ZoneSize < Capacity
    BY ZoneBounds, OnDevice
  <2>2. RangeFirst(ofst) <= z * ZoneSize /\ RangeFirst(ofst) \in Nat
    BY <1>1, <2>1, FirstZone
  <2>3. QED
    BY <2>1, <2>2, ReportConstants
<1>2. QED
  BY <1>1 DEF InRange

\* Where the loop is over, it is through with the range.
LEMMA WalkEnds ==
  ASSUME NEW c \in CallRecords, Walking(c), c.next >= RangeEnd(c.ofst, c.len)
  PROVE  Passed(c) = Spanned(c)
<1>1. c.ofst \in Nat /\ c.len \in Nat /\ c.next \in Nat
  BY DEF CallRecords
<1>2. RangeEnd(c.ofst, c.len) \in Nat
  BY <1>1, EndOfRange
<1>3. ASSUME NEW z \in Spanned(c) PROVE z \in Passed(c)
  <2>1. z \in Zones /\ z * ZoneSize < RangeEnd(c.ofst, c.len) /\ c.ofst < (z + 1) * ZoneSize
    BY <1>1, <1>3, EndOfRange DEF Spanned, InRange
  <2>2. z * ZoneSize < c.next
    BY <1>1, <1>2, <2>1, ZoneBounds
  <2>3. QED
    BY <2>1, <2>2 DEF Passed
<1>4. QED
  BY <1>3 DEF Walking

LEMMA EmptyCounts ==
  /\ Ascending(<< >>) /\ Elements(<< >>) = {} /\ Len(<< >>) = 0 /\ << >> \in Seq(Zones)
  /\ Cardinality({}) = 0
  BY FS_EmptySet DEF Ascending, Elements

\* What is known of sets of zones that shrink and grow.
LEMMA Fewer ==
  ASSUME NEW A \in SUBSET Zones, NEW B \in SUBSET A
  PROVE  Cardinality(A) \in Nat /\ Cardinality(B) \in Nat /\ Cardinality(B) <= Cardinality(A)
<1>1. IsFiniteSet(A)
  BY ZonesFinite, FS_Subset
<1>2. IsFiniteSet(B) /\ Cardinality(B) <= Cardinality(A)
  BY <1>1, FS_Subset
<1>3. QED
  BY <1>1, <1>2, FS_CardinalityType

LEMMA ReportingGoesOn ==
  ASSUME NEW c, Reporting(c), call' = c, always' \subseteq always, ever \subseteq ever',
         always \subseteq Zones, ever' \subseteq Zones
  PROVE  Reporting(call)'
<1> DEFINE P == Passed(c)
<1>1. P \in SUBSET Zones /\ c.n \in Nat
  BY DEF Passed, Reporting, CallRecords
<1>2. Passed(call)' = P /\ Spanned(call)' = Spanned(c)
  BY DEF Passed, Spanned
<1>3. /\ Cardinality(P \cap always') <= Cardinality(P \cap always)
      /\ Cardinality(P \cap always') \in Nat /\ Cardinality(P \cap always) \in Nat
  <2>1. P \cap always \in SUBSET Zones /\ P \cap always' \in SUBSET (P \cap always)
    OBVIOUS
  <2>2. QED
    BY <2>1, Fewer
<1>4. /\ Cardinality(P \cap ever) <= Cardinality(P \cap ever')
      /\ Cardinality(P \cap ever) \in Nat /\ Cardinality(P \cap ever') \in Nat
  <2>1. P \cap ever' \in SUBSET Zones /\ P \cap ever \in SUBSET (P \cap ever')
    OBVIOUS
  <2>2. QED
    BY <2>1, Fewer
<1>5. Counting(call)'
  <2>1. Counting(c)
    BY DEF Reporting
  <2>2. ASSUME c.size = Null
        PROVE  Cardinality(P \cap always') <= c.n /\ c.n <= Cardinality(P \cap ever')
    <3>1. Cardinality(P \cap always) <= c.n /\ c.n <= Cardinality(P \cap ever)
      BY <2>1, <2>2 DEF Counting
    <3> HIDE DEF P
    <3>2. QED
      BY <1>1, <1>3, <1>4, <3>1
  <2>3. ASSUME c.size # Null
        PROVE  Elements(c.out) \subseteq P \cap ever' /\ P \cap always' \subseteq Elements(c.out)
    BY <2>1, <2>3 DEF Counting
  <2>4. QED
    BY <1>2, <2>1, <2>2, <2>3 DEF Counting
<1>6. Walking(call)'
  BY <1>2 DEF Reporting, Walking
<1>7. QED
  BY <1>5, <1>6 DEF Reporting

LEMMA ResultsStay ==
  ASSUME Typed, Results, last' = last, always' \subseteq always, ever \subseteq ever',
         ever' \subseteq Zones
  PROVE  Results'
<1>1. Asked' = Asked /\ Listed' = Listed /\ Asked \in SUBSET Zones
  BY DEF Asked, Listed, InRange
<1>2. \A fn : Succeeded(fn)' <=> Succeeded(fn)
  BY DEF Succeeded
<1>3. ListAllComplete' /\ OperationCovers'
  BY <1>1, <1>2 DEF Results, ListAllComplete, OperationCovers
<1>4. /\ Cardinality(Asked \cap always') <= Cardinality(Asked \cap always)
      /\ Cardinality(Asked \cap always') \in Nat /\ Cardinality(Asked \cap always) \in Nat
  <2>1. Asked \cap always \in SUBSET Zones /\ Asked \cap always' \in SUBSET (Asked \cap always)
    BY <1>1
  <2>2. QED
    BY <2>1, Fewer
<1>5. /\ Cardinality(Asked \cap ever) <= Cardinality(Asked \cap ever')
      /\ Cardinality(Asked \cap ever) \in Nat /\ Cardinality(Asked \cap ever') \in Nat
  <2>1. Asked \cap ever' \in SUBSET Zones /\ Asked \cap ever \in SUBSET (Asked \cap ever')
    BY <1>1
  <2>2. QED
    BY <2>1, Fewer
<1>6. ReportSound'
  <2>1. ASSUME Succeeded("report"), last.size = Null
        PROVE  /\ Cardinality(Asked \cap always') <= last.n
               /\ last.n <= Cardinality(Asked \cap ever')
    <3>1. Cardinality(Asked \cap always) <= last.n /\ last.n <= Cardinality(Asked \cap ever)
      BY <2>1 DEF Results, ReportSound
    <3>2. last.n \in Nat
      BY DEF Typed, CallRecords
    <3>3. QED
      BY <1>4, <1>5, <3>1, <3>2
  <2>2. ASSUME Succeeded("report"), last.size # Null
        PROVE  /\ Listed \subseteq Asked \cap ever'
               /\ \A z \in (Asked \cap always') \ Listed : z \in (Asked \cap always) \ Listed
    BY <2>2 DEF Results, ReportSound
  <2>3. QED
    BY <1>1, <1>2, <2>1, <2>2 DEF Results, ReportSound
<1>7. QED
  BY <1>3, <1>6 DEF Results

-----------------------------------------------------------------------------
(* The steps.                                                              *)

\* A report that has not seen a zone yet.
LEMMA ReportStarts ==
  ASSUME NEW c \in CallRecords, RangeFirst(c.ofst) < Capacity, c.next = RangeFirst(c.ofst),
         c.fn \in {"report", "list"}, c.stage = "report", c.ret = "none", c.size # 0,
         c.out = << >>, c.n = 0,
         c.size # Null /\ c.fn = "list" /\ c.ro = "all" => c.size = Cardinality(Spanned(c))
  PROVE  Reporting(c)
<1>1. c.ofst \in Nat /\ c.size \in Nat \cup {Null}
  BY DEF CallRecords
<1>2. Walking(c) /\ Passed(c) = {}
  BY <1>1, WalkStarts
<1>3. Passed(c) \cap always = {} /\ Passed(c) \cap ever = {}
  BY <1>2
<1>4. c.size = Null => Cardinality(Passed(c) \cap always) <= c.n /\ c.n <= Cardinality(Passed(c) \cap ever)
  <2>1. Cardinality(Passed(c) \cap always) = 0 /\ Cardinality(Passed(c) \cap ever) = 0
    BY <1>3, EmptyCounts
  <2>2. QED
    BY <2>1
<1>5. c.size # Null => c.n <= c.size
  BY <1>1
<1>6. Counting(c)
  BY <1>3, <1>4, <1>5, EmptyCounts DEF Counting
<1>7. QED
  BY <1>2, <1>6 DEF Reporting

LEMMA BeginKeeps ==
  ASSUME ReportInv, NEW c \in CallRecords, Begin(c), c.ret = "none", c.stage # "idle",
         c.out = << >>, c.n = 0, c.next = RangeFirst(c.ofst),
         c.stage = "done" => Nothing(c),
         c.stage = "report" => /\ RangeFirst(c.ofst) < Capacity /\ c.fn \in {"report", "list"}
                               /\ c.size # 0 /\ (c.fn = "list" => c.size = Null),
         c.stage = "op" => /\ RangeFirst(c.ofst) < Capacity /\ c.fn \in Ops
                           /\ c.ro = "all" /\ c.size = Null
  PROVE  ReportInv'
<1>1. /\ call' = c /\ last' = NoCall /\ zone' = zone
      /\ always' = Matching(c.ro) /\ ever' = Matching(c.ro)
  BY DEF Begin
<1>2. Matching(c.ro) \subseteq Zones /\ (c.ro = "all" => Matching(c.ro) = Zones)
  BY DEF Matching, Matches
<1>3. Typed'
  BY <1>1, <1>2, NoCallType DEF ReportInv, Typed
<1>4. Matching(c.ro)' = Matching(c.ro)
  BY <1>1 DEF Matching
<1>5. Ghosts'
  BY <1>1, <1>2, <1>4 DEF Ghosts, GhostsOf, Matching
<1>6. c.ofst \in Nat
  BY DEF CallRecords
<1>7. ASSUME c.stage = "report" PROVE Reporting(call)'
  <2>1. RangeFirst(c.ofst) < Capacity /\ Walking(c) /\ Passed(c) = {}
    BY <1>6, <1>7, WalkStarts
  <2>2. Passed(call)' = {} /\ Walking(call)'
    BY <1>1, <2>1 DEF Walking, Passed, Spanned
  <2>3. {} \cap always' = {} /\ {} \cap ever' = {} /\ c.size \in Nat \cup {Null}
    BY DEF CallRecords
  <2>4. /\ Cardinality({} \cap always') <= 0 /\ 0 <= Cardinality({} \cap ever')
    BY <2>3, EmptyCounts
  <2>5. c.size # Null => 0 <= c.size /\ c.fn # "list"
    BY <1>7, <2>3
  <2>6. Counting(call)'
    BY <1>1, <1>7, <2>2, <2>3, <2>4, <2>5, EmptyCounts DEF Counting
  <2>7. QED
    BY <1>1, <1>7, <2>2, <2>6 DEF Reporting
<1>8. ASSUME c.stage = "op" PROVE Walking(c) /\ Operating(c)
  BY <1>6, <1>8, WalkStarts, EmptyCounts DEF Operating
<1>9. StageInv'
  BY <1>1, <1>7, <1>8 DEF StageInv, Walking, Operating, Passed, Spanned, Nothing
<1>10. Results'
  BY <1>1, NoResults DEF Results, ReportSound, ListAllComplete, OperationCovers,
     Succeeded, NoCall, Ops
<1>11. QED
  BY <1>3, <1>5, <1>9, <1>10 DEF ReportInv

LEMMA ReportKeeps ==
  ASSUME ReportInv, NEW ofst \in Offsets, NEW len \in Lengths, NEW ro \in Filters,
         NEW size \in Sizes, Report(ofst, len, ro, size)
  PROVE  ReportInv'
<1> DEFINE stage == IF size = 0 \/ RangeFirst(ofst) >= Capacity THEN "done" ELSE "report"
           c == Start("report", ofst, len, ro, size, stage)
<1>1. ofst \in Nat /\ len \in Nat /\ size \in Nat \cup {Null}
  BY ReportConstants
<1>2. c = [fn |-> "report", ofst |-> ofst, len |-> len, next |-> RangeFirst(ofst), ro |-> ro,
           size |-> size, stage |-> stage, out |-> << >>, n |-> 0, ret |-> "none"]
  BY DEF Start
<1>3. RangeFirst(ofst) \in Nat
  BY <1>1, FirstZone
<1>4. c \in CallRecords
  <2>1. stage \in {"idle", "report", "op", "done"} /\ << >> \in Seq(Zones)
    BY EmptyCounts
  <2> HIDE DEF stage, c
  <2>2. QED
    BY <1>1, <1>2, <1>3, <2>1 DEF CallRecords, CallNames, Null
<1>5. stage = "report" => RangeFirst(ofst) < Capacity
  BY <1>3, ReportConstants
<1>6. Begin(c)
  BY DEF Report
<1>7. c.stage = "done" => Nothing(c)
  BY <1>2 DEF Nothing
<1> HIDE DEF stage, c
<1>8. stage \in {"done", "report"} /\ (stage = "report" => size # 0)
  BY DEF stage
<1>9. QED
  BY <1>2, <1>4, <1>5, <1>6, <1>7, <1>8, BeginKeeps

LEMMA ListKeeps ==
  ASSUME ReportInv, NEW ofst \in Offsets, NEW len \in Lengths, NEW ro \in Filters,
         List(ofst, len, ro)
  PROVE  ReportInv'
<1> DEFINE stage == IF RangeFirst(ofst) >= Capacity THEN "done" ELSE "report"
           c == Start("list", ofst, len, ro, Null, stage)
<1>1. ofst \in Nat /\ len \in Nat
  BY ReportConstants
<1>2. c = [fn |-> "list", ofst |-> ofst, len |-> len, next |-> RangeFirst(ofst), ro |-> ro,
           size |-> Null, stage |-> stage, out |-> << >>, n |-> 0, ret |-> "none"]
  BY DEF Start
<1>3. RangeFirst(ofst) \in Nat
  BY <1>1, FirstZone
<1>4. c \in CallRecords
  <2>1. stage \in {"idle", "report", "op", "done"} /\ << >> \in Seq(Zones)
    BY EmptyCounts
  <2> HIDE DEF stage, c
  <2>2. QED
    BY <1>1, <1>2, <1>3, <2>1 DEF CallRecords, CallNames, Null
<1>5. stage = "report" => RangeFirst(ofst) < Capacity
  BY <1>3, ReportConstants
<1>6. Begin(c)
  BY DEF List
<1>7. c.stage = "done" => Nothing(c)
  BY <1>2 DEF Nothing
<1> HIDE DEF stage, c
<1>8. stage \in {"done", "report"} /\ Null # 0
  BY DEF stage, Null
<1>9. QED
  BY <1>2, <1>4, <1>5, <1>6, <1>7, <1>8, BeginKeeps

\* The range of an operation that starts on the device is never empty.
LEMMA RangeNotEmpty ==
  ASSUME NEW ofst \in Nat, NEW len \in Nat, RangeFirst(ofst) < Capacity
  PROVE  RangeFirst(ofst) < RangeEnd(ofst, len)
<1> DEFINE l == IF len = 0 THEN Capacity ELSE len
           up == RoundUp(ofst + l)
<1>1. ofst + l \in Nat /\ ofst < ofst + l /\ Capacity \in Nat
  BY ReportConstants
<1>2. up \in Nat /\ ofst + l <= up /\ RangeFirst(ofst) \in Nat /\ RangeFirst(ofst) <= ofst
  BY <1>1, RoundedUp, FirstZone
<1> HIDE DEF up
<1>3. Min({up, Capacity}) = IF up <= Capacity THEN up ELSE Capacity
  BY <1>1, <1>2, MinTwo
<1>4. RangeEnd(ofst, len) = Min({up, Capacity})
  BY DEF RangeEnd, up
<1>5. QED
  BY <1>1, <1>2, <1>3, <1>4

LEMMA OperationKeeps ==
  ASSUME ReportInv, NEW ofst \in Offsets, NEW len \in Lengths, NEW op \in Ops,
         Operation(op, ofst, len)
  PROVE  ReportInv'
<1> DEFINE stage == IF RangeFirst(ofst) >= Capacity \/ RangeEnd(ofst, len) = RangeFirst(ofst)
                    THEN "done" ELSE "op"
           c == Start(op, ofst, len, "all", Null, stage)
<1>1. ofst \in Nat /\ len \in Nat
  BY ReportConstants
<1>2. c = [fn |-> op, ofst |-> ofst, len |-> len, next |-> RangeFirst(ofst), ro |-> "all",
           size |-> Null, stage |-> stage, out |-> << >>, n |-> 0, ret |-> "none"]
  BY DEF Start
<1>3. RangeFirst(ofst) \in Nat
  BY <1>1, FirstZone
<1>4. c \in CallRecords
  <2>1. stage \in {"idle", "report", "op", "done"} /\ << >> \in Seq(Zones)
    BY EmptyCounts
  <2> HIDE DEF stage, c
  <2>2. QED
    BY <1>1, <1>2, <1>3, <2>1 DEF CallRecords, CallNames, Null
<1>5. stage = "op" => RangeFirst(ofst) < Capacity
  BY <1>3, ReportConstants
<1>6. Begin(c)
  BY DEF Operation
<1>7. stage = "done" => RangeFirst(ofst) >= Capacity
  <2>1. RangeFirst(ofst) < Capacity => RangeEnd(ofst, len) # RangeFirst(ofst)
    BY <1>1, <1>3, RangeNotEmpty
  <2>2. QED
    BY <1>3, <2>1, ReportConstants
<1>8. c.stage = "done" => Nothing(c)
  BY <1>2, <1>7 DEF Nothing
<1> HIDE DEF stage, c
<1>9. stage \in {"done", "op"}
  BY DEF stage
<1>10. QED
  BY <1>2, <1>4, <1>5, <1>6, <1>8, <1>9, BeginKeeps

LEMMA RequestZonesKeeps ==
  ASSUME ReportInv, RequestZones
  PROVE  ReportInv'
<1>1. /\ call.stage = "report" /\ ~Stops(call) /\ call' = AfterBatch(call)
      /\ UNCHANGED <<zone, last, always, ever>>
  BY DEF RequestZones
<1>2. Reporting(call) /\ GhostsOf(call.ro)
  BY <1>1 DEF ReportInv, StageInv, Ghosts
<1>3. Reporting(AfterBatch(call)) /\ SameCall(call, AfterBatch(call))
  BY <1>1, <1>2, BatchKeeps
<1>4. Reporting(call)'
  BY <1>1, <1>3, ReportingGoesOn DEF ReportInv, Typed
<1>5. call' \in CallRecords /\ call'.stage = "report" /\ call'.ret = "none" /\ call'.ro = call.ro
  BY <1>1, <1>3 DEF Reporting, SameCall
<1>6. StageInv'
  BY <1>4, <1>5 DEF StageInv
<1>7. Typed'
  BY <1>1, <1>5 DEF ReportInv, Typed
<1>8. Ghosts'
  BY <1>1, <1>2, <1>5 DEF Ghosts, GhostsOf, Matching
<1>9. Results'
  BY <1>1, ResultsStay DEF ReportInv, Typed
<1>10. QED
  BY <1>6, <1>7, <1>8, <1>9 DEF ReportInv

\* A call that returns leaves its record, and its results are those of the record.
LEMMA ReturnKeeps ==
  ASSUME ReportInv, NEW ret \in {"ok", "-1", "errno"}, Return(call, ret),
         zone' \in [Zones -> ZoneStates], UNCHANGED <<always, ever>>,
         last' \in CallRecords /\ last'.fn = call.fn /\ last'.ofst = call.ofst /\
           last'.len = call.len /\ last'.ro = call.ro /\ last'.size = call.size /\
           last'.out = call.out /\ last'.n = call.n /\ last'.ret = ret
           => Results'
  PROVE  ReportInv'
<1>1. /\ last' \in CallRecords /\ last'.fn = call.fn /\ last'.ofst = call.ofst
      /\ last'.len = call.len /\ last'.ro = call.ro /\ last'.size = call.size
      /\ last'.out = call.out /\ last'.n = call.n /\ last'.ret = ret
  <2>1. last' = [call EXCEPT !.ret = ret] /\ call \in CallRecords
    BY DEF Return, ReportInv, Typed
  <2>2. QED
    BY <2>1 DEF CallRecords
<1>2. call' = NoCall
  BY DEF Return
<1>3. Typed'
  BY <1>1, <1>2, NoCallType DEF ReportInv, Typed, NoCall
<1>4. StageInv' /\ Ghosts'
  BY <1>2 DEF StageInv, Ghosts, NoCall
<1>5. QED
  BY <1>1, <1>3, <1>4 DEF ReportInv

LEMMA RequestFailsKeeps ==
  ASSUME ReportInv, RequestFails
  PROVE  ReportInv'
<1>1. call.fn \in {"report", "list"}
  BY DEF RequestFails, ReportInv, StageInv, Reporting, Counting
<1>2. last'.fn = call.fn /\ last'.ret = "errno" => Results'
  BY <1>1 DEF Results, ReportSound, ListAllComplete, OperationCovers, Succeeded, Ops
<1>3. QED
  BY <1>2, ReturnKeeps DEF RequestFails, ReportInv, Typed

\* The second report of a list: its array has room for as many zones as the first
\* one counted.
LEMMA ListAgainKeeps ==
  ASSUME ReportInv, ReportDone, call.fn = "list", call.size = Null, call.n > 0
  PROVE  ReportInv'
<1>1. /\ call.stage = "report" /\ Stops(call)
      /\ call' = [call EXCEPT !.size = call.n, !.n = 0, !.next = RangeFirst(call.ofst)]
      /\ UNCHANGED <<zone, last, always, ever>>
  BY DEF ReportDone, ReportInv, StageInv, Nothing
<1>2. call \in CallRecords /\ Reporting(call) /\ Walking(call) /\ Counting(call)
  BY <1>1 DEF ReportInv, StageInv, Reporting
<1>3. /\ call.ofst \in Nat /\ call.len \in Nat /\ call.n \in Nat /\ call.n # 0 /\ call.n # Null
      /\ call.out = << >>
      /\ Cardinality(Passed(call) \cap always) <= call.n
      /\ call.n <= Cardinality(Passed(call) \cap ever)
  BY <1>2 DEF CallRecords, Counting, Null
<1>4. RangeFirst(call.ofst) \in Nat /\ RangeFirst(call.ofst) < Capacity
  BY <1>2, <1>3, FirstZone DEF Walking
<1> DEFINE d == [call EXCEPT !.size = call.n, !.n = 0, !.next = RangeFirst(call.ofst)]
<1>5. /\ d.fn = "list" /\ d.ofst = call.ofst /\ d.len = call.len /\ d.ro = call.ro
      /\ d.size = call.n /\ d.n = 0 /\ d.next = RangeFirst(call.ofst)
      /\ d.stage = "report" /\ d.out = << >> /\ d.ret = "none"
      /\ d \in CallRecords
  BY <1>1, <1>2, <1>3, <1>4 DEF CallRecords, Reporting
<1>6. Passed(call) = Spanned(call)
  <2>1. call.next >= RangeEnd(call.ofst, call.len)
    BY <1>1 DEF Stops, Null
  <2>2. QED
    BY <1>2, <2>1, WalkEnds
<1>7. call.ro = "all" => call.n = Cardinality(Spanned(call))
  <2>1. ASSUME call.ro = "all" PROVE call.n = Cardinality(Spanned(call))
    <3>1. always = Zones /\ ever = Zones
      BY <1>1, <2>1 DEF ReportInv, Ghosts, GhostsOf
    <3>2. Spanned(call) \in SUBSET Zones
      BY DEF Spanned, InRange
    <3>3. Passed(call) \cap always = Spanned(call) /\ Passed(call) \cap ever = Spanned(call)
      BY <1>6, <3>1, <3>2
    <3>4. Cardinality(Spanned(call)) \in Nat
      BY <3>2, Fewer
    <3>5. Cardinality(Spanned(call)) <= call.n /\ call.n <= Cardinality(Spanned(call))
      BY <1>3, <3>3
    <3>6. QED
      BY <1>3, <3>4, <3>5
  <2>2. QED
    BY <2>1
<1>8. Spanned(d) = Spanned(call)
  BY <1>5 DEF Spanned
<1>9. call' = d
  BY <1>1
<1> HIDE DEF d
<1>10. Reporting(d)
  BY <1>3, <1>4, <1>5, <1>7, <1>8, ReportStarts
<1>11. Reporting(call)'
  BY <1>1, <1>9, <1>10, ReportingGoesOn DEF ReportInv, Typed
<1>12. StageInv'
  BY <1>5, <1>9, <1>11 DEF StageInv
<1>13. Typed'
  BY <1>1, <1>5, <1>9 DEF ReportInv, Typed
<1>14. Ghosts'
  BY <1>1, <1>5, <1>9 DEF ReportInv, Ghosts, GhostsOf, Matching
<1>15. Results'
  BY <1>1, ResultsStay DEF ReportInv, Typed
<1>16. QED
  BY <1>12, <1>13, <1>14, <1>15 DEF ReportInv

\* What a call returns that had nothing to do.
LEMMA NothingReturned ==
  ASSUME ReportInv, Return(call, "ok"), Nothing(call), UNCHANGED <<zone, always, ever>>
  PROVE  ReportInv'
<1>1. ASSUME /\ last' \in CallRecords /\ last'.fn = call.fn /\ last'.ofst = call.ofst
             /\ last'.len = call.len /\ last'.ro = call.ro /\ last'.size = call.size
             /\ last'.out = call.out /\ last'.n = call.n /\ last'.ret = "ok"
      PROVE  Results'
  <2>1. Listed' = {} /\ Ascending(last'.out) /\ last'.n = 0 /\ Len(last'.out) = 0
    BY <1>1, EmptyCounts DEF Nothing, Listed, Elements
  <2>2. CASE RangeFirst(call.ofst) >= Capacity
    <3>1. Asked' = {}
      BY <1>1, <2>2, NothingInRange DEF Asked, CallRecords
    <3>2. Asked' \cap always' = {} /\ Asked' \cap ever' = {}
      BY <3>1
    <3>3. /\ Cardinality(Asked' \cap always') <= last'.n
          /\ last'.n <= Cardinality(Asked' \cap ever')
      <4>1. Cardinality(Asked' \cap always') = 0 /\ Cardinality(Asked' \cap ever') = 0
        BY <3>2, EmptyCounts
      <4>2. QED
        BY <2>1, <4>1
    <3>4. last'.size # Null => last'.n <= last'.size
      BY <1>1, <2>1 DEF CallRecords
    <3>5. ReportSound'
      BY <2>1, <3>2, <3>3, <3>4 DEF ReportSound
    <3>6. QED
      BY <1>1, <2>1, <3>1, <3>5 DEF Results, ListAllComplete, OperationCovers
  <2>3. CASE call.size = 0 /\ call.fn = "report"
    <3>1. last'.size = 0 /\ last'.fn = "report" /\ 0 # Null
      BY <1>1, <2>3 DEF Null
    <3>2. ReportSound'
      BY <2>1, <3>1 DEF ReportSound
    <3>3. QED
      BY <3>1, <3>2 DEF Results, ListAllComplete, OperationCovers, Succeeded, Ops
  <2>4. QED
    BY <2>2, <2>3 DEF Nothing
<1>2. QED
  BY <1>1, ReturnKeeps DEF ReportInv, Typed

\* What a report returns whose loop is over.
LEMMA ReportReturned ==
  ASSUME ReportInv, Return(call, "ok"), Reporting(call), Stops(call),
         ~(call.fn = "list" /\ call.size = Null /\ call.n > 0),
         UNCHANGED <<zone, always, ever>>
  PROVE  ReportInv'
<1>1. call \in CallRecords /\ Walking(call) /\ Counting(call) /\ call.stage = "report"
  BY DEF Reporting
<1>2. GhostsOf(call.ro)
  BY <1>1 DEF ReportInv, Ghosts
<1>3. Passed(call) \subseteq Spanned(call) /\ Spanned(call) \in SUBSET Zones
  BY <1>1 DEF Walking, Spanned, InRange
<1>4. call.next >= RangeEnd(call.ofst, call.len) => Passed(call) = Spanned(call)
  BY <1>1, WalkEnds
<1>5. ASSUME /\ last' \in CallRecords /\ last'.fn = call.fn /\ last'.ofst = call.ofst
             /\ last'.len = call.len /\ last'.ro = call.ro /\ last'.size = call.size
             /\ last'.out = call.out /\ last'.n = call.n /\ last'.ret = "ok"
      PROVE  Results'
  <2>1. Asked' = Spanned(call) /\ Listed' = Elements(call.out)
    BY <1>5 DEF Asked, Spanned, Listed, Elements
  <2>2. CASE call.size = Null
    <3>1. Passed(call) = Spanned(call)
      BY <1>4, <2>2 DEF Stops, Null
    <3>2. /\ Cardinality(Spanned(call) \cap always) <= call.n
          /\ call.n <= Cardinality(Spanned(call) \cap ever) /\ call.out = << >>
      BY <1>1, <2>2, <3>1 DEF Counting
    <3>3. ReportSound'
      BY <1>5, <2>1, <2>2, <3>2 DEF ReportSound
    <3>4. ASSUME call.fn = "list", call.ro = "all"
          PROVE  Elements(call.out) = Spanned(call) /\ Ascending(call.out)
      <4>1. call.n = 0
        BY <1>1, <2>2, <3>4 DEF CallRecords
      <4>2. Spanned(call) \cap always = Spanned(call)
        BY <1>2, <1>3, <3>4 DEF GhostsOf
      <4>3. IsFiniteSet(Spanned(call)) /\ Cardinality(Spanned(call)) \in Nat
        BY <1>3, ZonesFinite, FS_Subset, FS_CardinalityType
      <4>4. Cardinality(Spanned(call)) = 0
        <5>1. Cardinality(Spanned(call)) <= 0
          BY <3>2, <4>1, <4>2
        <5>2. QED
          BY <4>3, <5>1
      <4>5. Spanned(call) = {}
        BY <4>3, <4>4, FS_EmptySet
      <4>6. QED
        BY <3>2, <4>5, EmptyCounts
    <3>5. ListAllComplete'
      BY <1>5, <2>1, <3>4 DEF ListAllComplete, Succeeded
    <3>6. OperationCovers'
      BY <1>1, <1>5 DEF OperationCovers, Counting, Ops
    <3>7. QED
      BY <3>3, <3>5, <3>6 DEF Results
  <2>3. CASE call.size # Null
    <3>1. /\ Ascending(call.out) /\ Elements(call.out) \subseteq Passed(call) \cap ever
          /\ Passed(call) \cap always \subseteq Elements(call.out)
          /\ call.n = Len(call.out) /\ call.n = Cardinality(Elements(call.out))
          /\ call.n <= call.size
          /\ call.fn = "list" /\ call.ro = "all" => call.size = Cardinality(Spanned(call))
      BY <1>1, <2>3 DEF Counting
    <3>2. call.n \in Nat /\ call.size \in Nat
      BY <1>1, <2>3 DEF CallRecords
    <3>3. ASSUME NEW z \in (Spanned(call) \cap always) \ Elements(call.out)
          PROVE  call.n = call.size /\ \A y \in Elements(call.out) : y < z
      <4>1. z \in Zones /\ z \notin Passed(call) /\ z \in Spanned(call)
        BY <1>3, <3>1, <3>3
      <4>2. ~(call.next >= RangeEnd(call.ofst, call.len))
        BY <1>4, <4>1
      <4>3. call.n = call.size
        BY <3>1, <3>2, <4>2 DEF Stops
      <4>4. ASSUME NEW y \in Elements(call.out) PROVE y < z
        <5>1. y \in Zones /\ y * ZoneSize < call.next
          BY <3>1, <4>4 DEF Passed
        <5>2. ~(z * ZoneSize < call.next)
          BY <4>1 DEF Passed, Spanned, InRange
        <5>3. y \in Int /\ z \in Int /\ y * ZoneSize \in Int /\ z * ZoneSize \in Int
          BY <4>1, <5>1, ZoneBounds
        <5>4. call.next \in Int
          BY <1>1 DEF CallRecords
        <5>5. y * ZoneSize < z * ZoneSize
          BY <5>1, <5>2, <5>3, <5>4
        <5>6. QED
          BY <5>3, <5>5, Multiples
      <4>5. QED
        BY <4>3, <4>4
    <3>4. ReportSound'
      BY <1>3, <1>5, <2>1, <2>3, <3>1, <3>3 DEF ReportSound
    <3>5. ASSUME call.fn = "list", call.ro = "all"
          PROVE  Elements(call.out) = Spanned(call)
      <4>1. always = Zones /\ Elements(call.out) \subseteq Spanned(call)
        BY <1>2, <1>3, <3>1, <3>5 DEF GhostsOf
      <4>2. CASE call.n = call.size
        <5>1. IsFiniteSet(Spanned(call))
          BY <1>3, ZonesFinite, FS_Subset
        <5>2. Cardinality(Spanned(call)) = Cardinality(Elements(call.out))
          BY <3>1, <3>5, <4>2
        <5>3. QED
          BY <4>1, <5>1, <5>2, FS_Subset
      <4>3. CASE call.n # call.size
        <5>1. \A z \in (Spanned(call) \cap always) \ Elements(call.out) : FALSE
          BY <3>3, <4>3
        <5>2. QED
          BY <1>3, <4>1, <5>1
      <4>4. QED
        BY <4>2, <4>3
    <3>6. ListAllComplete'
      BY <1>5, <2>1, <3>1, <3>5 DEF ListAllComplete, Succeeded
    <3>7. OperationCovers'
      BY <1>1, <1>5 DEF OperationCovers, Counting, Ops
    <3>8. QED
      BY <3>4, <3>6, <3>7 DEF Results
  <2>4. QED
    BY <2>2, <2>3
<1>6. QED
  BY <1>5, ReturnKeeps DEF ReportInv, Typed

LEMMA ReportDoneKeeps ==
  ASSUME ReportInv, ReportDone
  PROVE  ReportInv'
<1>1. CASE call.fn = "list" /\ call.size = Null /\ call.n > 0
  BY <1>1, ListAgainKeeps
<1>2. CASE ~(call.fn = "list" /\ call.size = Null /\ call.n > 0)
  <2>1. Return(call, "ok") /\ UNCHANGED <<zone, always, ever>>
    BY <1>2 DEF ReportDone
  <2>2. \/ Nothing(call)
        \/ Reporting(call) /\ Stops(call)
    BY DEF ReportDone, ReportInv, StageInv
  <2>3. QED
    BY <1>2, <2>1, <2>2, NothingReturned, ReportReturned
<1>3. QED
  BY <1>1, <1>2

\* An operation that goes on, or fails at the zone it has reached.
LEMMA OperateZoneKeeps ==
  ASSUME ReportInv, OperateZone
  PROVE  ReportInv'
<1> DEFINE z == call.next \div ZoneSize
           out == Outcome(call.fn, zone[z])
<1>1. /\ call.stage = "op" /\ ~Stops(call) /\ UNCHANGED <<always, ever>>
      /\ IF out = "refused"
         THEN Return(call, "-1") /\ UNCHANGED zone
         ELSE /\ zone' = [zone EXCEPT ![z].cond = out]
              /\ call' = [call EXCEPT !.next = EndOf(z), !.out = Append(@, z)]
              /\ UNCHANGED last
  BY DEF OperateZone
<1>2. /\ call \in CallRecords /\ call.ret = "none" /\ Walking(call) /\ Operating(call)
      /\ call.fn \in Ops /\ call.ro = "all" /\ call.size = Null
      /\ Ascending(call.out) /\ Elements(call.out) = Passed(call)
  BY <1>1 DEF ReportInv, Typed, StageInv, Operating
<1>3. /\ call.ofst \in Nat /\ call.len \in Nat /\ call.next \in Nat
      /\ call.out \in Seq(Zones)
  BY <1>2 DEF CallRecords
<1>4. call.next < RangeEnd(call.ofst, call.len) /\ call.next < Capacity
  <2>1. RangeEnd(call.ofst, call.len) \in Nat /\ RangeEnd(call.ofst, call.len) <= Capacity
    BY <1>3, EndOfRange
  <2>2. QED
    BY <1>1, <1>3, <2>1, ReportConstants DEF Stops
<1>5. /\ z \in Zones /\ z * ZoneSize = call.next /\ call.ofst < (z + 1) * ZoneSize
      /\ \A y \in Zones : y * ZoneSize < call.next => y < z
      /\ EndOf(z) \in Nat
  <2>1. call.next \in Edges /\ RangeFirst(call.ofst) <= call.next
    BY <1>2 DEF Walking
  <2>2. z \in Zones
    BY <1>3, <1>4, <2>1, Advance
  <2>3. EndOf(z) \in Nat
    BY <2>2, ZoneBounds
  <2>4. QED
    BY <1>3, <1>4, <2>1, <2>3, Advance
<1> HIDE DEF z, out
<1>6. CASE out = "refused"
  <2>1. Return(call, "-1") /\ UNCHANGED zone
    BY <1>1, <1>6
  <2>2. ASSUME /\ last' \in CallRecords /\ last'.fn = call.fn /\ last'.ofst = call.ofst
               /\ last'.len = call.len /\ last'.ro = call.ro /\ last'.size = call.size
               /\ last'.out = call.out /\ last'.n = call.n /\ last'.ret = "-1"
        PROVE  Results'
    <3>1. Asked' = Spanned(call) /\ Listed' = Passed(call)
      BY <1>2, <2>2 DEF Asked, Spanned, Listed, Elements
    <3>2. Passed(call) \subseteq Spanned(call)
      BY <1>2 DEF Walking
    <3>3. z \in Spanned(call)
      BY <1>3, <1>4, <1>5, EndOfRange DEF Spanned
    <3>4. ASSUME NEW y \in Spanned(call) PROVE y \in Passed(call) <=> y < z
      <4>1. y \in Zones /\ call.ofst < (y + 1) * ZoneSize
        BY <3>4 DEF Spanned, InRange
      <4>2. y \in Int /\ z \in Int /\ y * ZoneSize \in Int
        BY <1>5, <4>1, ZoneBounds
      <4>3. y < z <=> y * ZoneSize < z * ZoneSize
        BY <4>2, Multiples
      <4>4. QED
        BY <1>5, <4>1, <4>3 DEF Passed
    <3>5. Passed(call) = {y \in Spanned(call) : y < z}
      BY <3>2, <3>4
    <3>6. OperationCovers'
      BY <1>2, <2>2, <3>1, <3>2, <3>3, <3>5 DEF OperationCovers
    <3>7. ReportSound' /\ ListAllComplete'
      BY <2>2 DEF ReportSound, ListAllComplete, Succeeded
    <3>8. QED
      BY <3>6, <3>7 DEF Results
  <2>3. QED
    BY <1>1, <2>1, <2>2, ReturnKeeps DEF ReportInv, Typed
<1>7. CASE out # "refused"
  <2>1. /\ zone' = [zone EXCEPT ![z].cond = out] /\ UNCHANGED last
        /\ call' = [call EXCEPT !.next = EndOf(z), !.out = Append(@, z)]
    BY <1>1, <1>7
  <2>2. /\ call'.fn = call.fn /\ call'.ofst = call.ofst /\ call'.len = call.len
        /\ call'.ro = call.ro /\ call'.size = call.size /\ call'.stage = "op"
        /\ call'.next = EndOf(z) /\ call'.out = Append(call.out, z) /\ call'.ret = "none"
        /\ call' \in CallRecords
    <3>1. Append(call.out, z) \in Seq(Zones)
      BY <1>3, <1>5
    <3>2. QED
      BY <1>1, <1>2, <1>5, <2>1, <3>1 DEF CallRecords
  <2>3. out \in Conds
    BY <1>2, <1>7 DEF out, Outcome, Conds, Ops
  <2>4. zone' \in [Zones -> ZoneStates]
    <3>1. zone[z] \in ZoneStates
      BY <1>5 DEF ReportInv, Typed
    <3>2. [zone[z] EXCEPT !.cond = out] \in ZoneStates
      BY <2>3, <3>1 DEF ZoneStates
    <3>3. QED
      BY <2>1, <3>2 DEF ReportInv, Typed
  <2> DEFINE d == call'
  <2>5. /\ z \notin Passed(call) /\ Passed(d) = Passed(call) \cup {z}
        /\ \A y \in Passed(call) : y < z
        /\ Walking(d)
    BY <1>2, <1>4, <2>2, WalkOn DEF z
  <2>6. /\ Ascending(Append(call.out, z))
        /\ Elements(Append(call.out, z)) = Elements(call.out) \cup {z}
    BY <1>2, <1>3, <1>5, <2>5, AppendLarger
  <2>7. Walking(call)' /\ Operating(call)'
    BY <1>2, <2>2, <2>5, <2>6 DEF Operating, Walking, Passed, Spanned
  <2>8. StageInv'
    BY <2>2, <2>7 DEF StageInv
  <2>9. Typed'
    BY <1>1, <2>1, <2>2, <2>4 DEF ReportInv, Typed
  <2>10. Ghosts'
    BY <1>1, <1>2, <2>2 DEF ReportInv, Ghosts, GhostsOf, Matching, Matches
  <2>11. Results'
    BY <1>1, <2>1, ResultsStay DEF ReportInv, Typed
  <2>12. QED
    BY <2>8, <2>9, <2>10, <2>11 DEF ReportInv
<1>8. QED
  BY <1>6, <1>7

LEMMA OperationDoneKeeps ==
  ASSUME ReportInv, OperationDone
  PROVE  ReportInv'
<1>1. /\ call.stage = "op" /\ Stops(call) /\ Return(call, "ok")
      /\ UNCHANGED <<zone, always, ever>>
  BY DEF OperationDone
<1>2. call \in CallRecords /\ Walking(call) /\ Operating(call)
  BY <1>1 DEF ReportInv, Typed, StageInv
<1>3. Passed(call) = Spanned(call)
  <2>1. call.next >= RangeEnd(call.ofst, call.len)
    BY <1>1, <1>2 DEF Stops, Operating, Null
  <2>2. QED
    BY <1>2, <2>1, WalkEnds
<1>4. ASSUME /\ last' \in CallRecords /\ last'.fn = call.fn /\ last'.ofst = call.ofst
             /\ last'.len = call.len /\ last'.ro = call.ro /\ last'.size = call.size
             /\ last'.out = call.out /\ last'.n = call.n /\ last'.ret = "ok"
      PROVE  Results'
  <2>1. Asked' = Spanned(call) /\ Listed' = Spanned(call) /\ Ascending(last'.out)
    BY <1>2, <1>3, <1>4 DEF Asked, Spanned, Listed, Elements, Operating
  <2>2. OperationCovers'
    BY <1>4, <2>1 DEF OperationCovers
  <2>3. ReportSound' /\ ListAllComplete'
    BY <1>2, <1>4 DEF ReportSound, ListAllComplete, Succeeded, Operating, Ops
  <2>4. QED
    BY <2>2, <2>3 DEF Results
<1>5. QED
  BY <1>1, <1>4, ReturnKeeps DEF ReportInv, Typed

\* Other programs change a zone: what is known of the call stays true.
LEMMA ChangeKeeps ==
  ASSUME ReportInv, Change
  PROVE  ReportInv'
<1>1. PICK z \in Zones, s \in States : zone' = [zone EXCEPT ![z] = s]
  BY DEF Change
<1> DEFINE now == {y \in Zones : Matches(zone'[y], call.ro)}
<1>2. always' = always \cap now /\ ever' = ever \cup now /\ UNCHANGED <<call, last>>
  BY DEF Change
<1>3. /\ always' \subseteq always /\ ever \subseteq ever' /\ ever' \subseteq Zones
      /\ always \subseteq Zones
  BY <1>2 DEF ReportInv, Typed
<1>4. s \in ZoneStates
  BY ReportConstants
<1>5. Typed'
  BY <1>1, <1>2, <1>3, <1>4 DEF ReportInv, Typed
<1>6. Matching(call.ro)' = now
  BY <1>2 DEF Matching
<1>7. Ghosts'
  <2>1. ASSUME call.stage # "idle"
        PROVE  always' \subseteq now /\ now \subseteq ever' /\ (call.ro = "all" => always' = Zones)
    <3>1. call.ro = "all" => now = Zones /\ always = Zones
      BY <2>1 DEF ReportInv, Ghosts, GhostsOf, Matches
    <3>2. QED
      BY <1>2, <3>1
  <2>2. QED
    BY <1>2, <1>3, <1>6, <2>1 DEF Ghosts, GhostsOf
<1>8. StageInv'
  <2>1. call.stage = "report" => Reporting(call)'
    BY <1>2, <1>3, ReportingGoesOn DEF ReportInv, StageInv
  <2>2. QED
    BY <1>2, <2>1 DEF ReportInv, StageInv, Walking, Operating, Passed, Spanned, Nothing
<1>9. Results'
  BY <1>2, <1>3, ResultsStay DEF ReportInv
<1>10. QED
  BY <1>5, <1>7, <1>8, <1>9 DEF ReportInv

LEMMA InitReport == Init => ReportInv
<1>1. SUFFICES ASSUME Init PROVE ReportInv
  OBVIOUS
<1>2. zone \in [Zones -> ZoneStates]
  BY <1>1, ReportConstants DEF Init
<1>3. call = NoCall /\ last = NoCall /\ always = {} /\ ever = {}
  BY <1>1 DEF Init
<1>4. NoCall.stage = "idle" /\ NoCall.ret = "none"
  BY DEF NoCall
<1>5. Results
  BY <1>3, NoResults
<1>6. QED
  BY <1>2, <1>3, <1>4, <1>5, NoCallType DEF ReportInv, Typed, StageInv, Ghosts

LEMMA NextReport == ReportInv /\ [Next]_vars => ReportInv'
<1>1. SUFFICES ASSUME ReportInv, [Next]_vars PROVE ReportInv'
  OBVIOUS
<1>2. CASE UNCHANGED vars
  <2>1. UNCHANGED <<zone, call, last, always, ever>>
    BY <1>2 DEF vars
  <2>2. StageInv'
    <3>1. call.stage = "report" => Reporting(call)'
      BY <1>1, <2>1, ReportingGoesOn DEF ReportInv, Typed, StageInv
    <3>2. QED
      BY <1>1, <2>1, <3>1 DEF ReportInv, StageInv, Walking, Operating, Passed, Spanned, Nothing
  <2>3. Results'
    BY <1>1, <2>1, ResultsStay DEF ReportInv, Typed
  <2>4. Typed' /\ Ghosts'
    BY <1>1, <2>1 DEF ReportInv, Typed, Ghosts, GhostsOf, Matching
  <2>5. QED
    BY <2>2, <2>3, <2>4 DEF ReportInv
<1>3. CASE \E ofst \in Offsets, len \in Lengths :
             \/ \E ro \in Filters, size \in Sizes : Report(ofst, len, ro, size)
             \/ \E ro \in Filters : List(ofst, len, ro)
             \/ \E op \in Ops : Operation(op, ofst, len)
  BY <1>1, <1>3, ReportKeeps, ListKeeps, OperationKeeps
<1>4. CASE \/ RequestZones \/ RequestFails \/ ReportDone \/ OperateZone \/ OperationDone
           \/ Change
  BY <1>1, <1>4, RequestZonesKeeps, RequestFailsKeeps, ReportDoneKeeps, OperateZoneKeeps,
     OperationDoneKeeps, ChangeKeeps
<1>5. QED
  BY <1>1, <1>2, <1>3, <1>4 DEF Next

LEMMA Reported == Spec => []ReportInv
  BY InitReport, NextReport, PTL DEF Spec

-----------------------------------------------------------------------------
(* The theorems.                                                           *)

\* zbd_report_zones on a device of any size, for any range, filter, array and batch,
\* however the zones change between its requests: it returns zones of the range that
\* matched at some time during the call, in ascending order, and misses none that
\* matched all the time but those for which the array has no room.
THEOREM ReportsAreSound == Spec => []ReportSound
<1>1. ReportInv => ReportSound
  BY DEF ReportInv, Results
<1>2. QED
  BY <1>1, Reported, PTL

\* zbd_list_zones without a filter returns every zone of the range, though it counts
\* the zones in one report and reads them in another.
THEOREM ListsAreComplete == Spec => []ListAllComplete
<1>1. ReportInv => ListAllComplete
  BY DEF ReportInv, Results
<1>2. QED
  BY <1>1, Reported, PTL

\* zbd_zones_operation covers exactly the zones that its range touches, and on an
\* error exactly those before the zone that was refused.
THEOREM OperationsCover == Spec => []OperationCovers
<1>1. ReportInv => OperationCovers
  BY DEF ReportInv, Results
<1>2. QED
  BY <1>1, Reported, PTL

\* No request asks the kernel for what is behind the device, and no call writes
\* behind its array.
THEOREM ReportTyped == Spec => []TypeOK
<1>1. ReportInv => TypeOK
  <2>1. SUFFICES ASSUME ReportInv PROVE TypeOK
    OBVIOUS
  <2>2. call \in CallRecords /\ call.next \in Nat /\ call.size \in Nat \cup {Null}
    BY <2>1 DEF ReportInv, Typed, CallRecords
  <2>3. ASSUME call.stage \in {"report", "op"} PROVE call.next <= Capacity
    <3>1. call.next \in Edges
      BY <2>1, <2>3 DEF ReportInv, StageInv, Reporting, Walking
    <3>2. \A z \in Zones : EndOf(z) <= Capacity
      BY ZoneBounds
    <3>3. QED
      BY <3>1, <3>2, ReportConstants DEF Edges
  <2>4. ASSUME call.size >= 0 PROVE Len(call.out) <= call.size
    <3>1. call.size # Null
      BY <2>4 DEF Null
    <3>2. CASE call.stage = "report"
      BY <2>1, <3>1, <3>2 DEF ReportInv, StageInv, Reporting, Counting
    <3>3. CASE call.stage # "report"
      <4>1. call.out = << >>
        BY <2>1, <2>2, <3>1, <3>3
           DEF ReportInv, StageInv, Operating, Nothing, NoCall, CallRecords
      <4>2. QED
        BY <2>4, <4>1
    <3>4. QED
      BY <3>2, <3>3
  <2>5. last.ret \in {"none", "ok", "-1", "errno"}
    BY <2>1 DEF ReportInv, Typed, CallRecords
  <2>6. QED
    BY <2>1, <2>2, <2>3, <2>4, <2>5 DEF ReportInv, Typed, TypeOK
<1>2. QED
  BY <1>1, Reported, PTL

-----------------------------------------------------------------------------
(* The table of open devices.                                              *)

\* One thread opens and closes devices, and waits for the calls that use them.
OneOpener == CloseWaits /\ \A t, u \in Openers : t = u

-----------------------------------------------------------------------------
(* The inductive invariant.                                                *)

Threaded ==
    \A t \in Threads :
        /\ th[t].pc \in {"info", "put"} => t \in Openers /\ th[t].fd \in Fds \ held
        /\ th[t].pc = "info" => kernel[th[t].fd] # Nil /\ fdi[th[t].fd] = Nil
        /\ th[t].pc = "put"  => kernel[th[t].fd] = Nil /\ fdi[th[t].fd] # Nil
        /\ th[t].pc = "use"  => th[t].fd \in held /\ th[t].ptr = fdi[th[t].fd]

Entered ==
    \A f \in Fds :
        /\ kernel[f] # Nil => f \in held \/ \E t \in Threads : th[t].pc = "info" /\ th[t].fd = f
        /\ fdi[f] # Nil => f \in held \/ \E t \in Threads : th[t].pc = "put" /\ th[t].fd = f
        /\ fdi[f] # Nil => fdi[f] \in 1 .. infos /\ fdi[f] \notin freed
        /\ \A g \in Fds : fdi[f] = fdi[g] /\ fdi[f] # Nil => f = g

Tabled == \A i \in 1 .. infos : i \in freed \/ \E f \in Fds : fdi[f] = i

FdInv == FdTypeOK /\ HeldWorks /\ Threaded /\ Entered /\ Tabled

-----------------------------------------------------------------------------

\* open(2) returns a free descriptor: a set of natural numbers has a least one.
LEMMA LowestFreeIsFree ==
  ASSUME Free # {}
  PROVE  LowestFree \in Free
<1>1. Free \in SUBSET Nat
  BY FdConstants DEF Free, Fds
<1>2. \E x \in Free : \A y \in Free : x <= y
  BY <1>1, LeastOf
<1>3. QED
  BY <1>2 DEF LowestFree

LEMMA InitFd ==
  ASSUME FdInit
  PROVE  FdInv
BY FdConstants DEF FdInit, FdInv, FdTypeOK, HeldWorks, Threaded, Entered, Tabled,
       Fds, Infos, Nil, Ready

LEMMA InfoFrame ==
  ASSUME NEW f
  PROVE  [Ready EXCEPT !.pc = "info", !.fd = f] = [pc |-> "info", fd |-> f, ptr |-> Nil]
<1> DEFINE r == [pc |-> "ready", fd |-> 0, ptr |-> Nil]
<1>1. [r EXCEPT !.pc = "info"] = [pc |-> "info", fd |-> 0, ptr |-> Nil]
  OBVIOUS
<1>2. [[pc |-> "info", fd |-> 0, ptr |-> Nil] EXCEPT !.fd = f]
         = [pc |-> "info", fd |-> f, ptr |-> Nil]
  OBVIOUS
<1>3. QED
  BY <1>1, <1>2 DEF Ready

\* open(2) takes a descriptor that no one has.
LEMMA OpenFileStep ==
  ASSUME OneOpener, FdInv, NEW t \in Threads, NEW d \in Devices, OpenFile(t, d)
  PROVE  FdInv'
<1> DEFINE fd == LowestFree
<1>1. fd \in Fds /\ kernel[fd] = Nil /\ d # Nil
  BY LowestFreeIsFree, FdConstants DEF OpenFile, Free
<1>2. /\ th[t].pc = "ready" /\ t \in Openers
      /\ kernel' = [kernel EXCEPT ![fd] = d]
      /\ th' = [th EXCEPT ![t] = [pc |-> "info", fd |-> fd, ptr |-> Nil]]
      /\ UNCHANGED <<fdi, infos, info, freed, held>>
  BY InfoFrame DEF OpenFile
<1>3. fd \notin held /\ fdi[fd] = Nil
  <2>1. fd \notin held
    BY <1>1 DEF FdInv, HeldWorks
  <2>2. \A u \in Threads : th[u].pc \notin {"info", "put"}
    BY <1>2 DEF FdInv, Threaded, OneOpener
  <2>3. QED
    BY <1>1, <2>1, <2>2 DEF FdInv, Entered
<1> HIDE DEF fd
<1>4. FdTypeOK'
  <2>1. kernel' \in [Fds -> Devices \cup {Nil}]
    BY <1>1, <1>2 DEF FdInv, FdTypeOK
  <2>2. [pc |-> "info", fd |-> fd, ptr |-> Nil]
           \in [pc : {"ready", "info", "put", "use"}, fd : Fds \cup {0}, ptr : Infos \cup {Nil}]
    BY <1>1
  <2>3. QED
    BY <1>2, <2>1, <2>2 DEF FdInv, FdTypeOK
<1>5. HeldWorks'
  BY <1>1, <1>2, <1>3 DEF FdInv, FdTypeOK, HeldWorks
<1>6. Threaded'
  BY <1>1, <1>2, <1>3 DEF FdInv, FdTypeOK, Threaded, OneOpener
<1>7. Entered'
  BY <1>1, <1>2, <1>3 DEF FdInv, FdTypeOK, Entered, Fds
<1>8. Tabled'
  BY <1>2 DEF FdInv, Tabled
<1>9. QED
  BY <1>4, <1>5, <1>6, <1>7, <1>8 DEF FdInv

\* The table gets a structure that no descriptor has.
LEMMA OpenInfoStep ==
  ASSUME OneOpener, FdInv, NEW t \in Threads, OpenInfo(t)
  PROVE  FdInv'
<1>1. FdTypeOK'
  <2>1. infos' \in 0 .. MaxOpens /\ infos' \in Infos /\ infos' = infos + 1
    BY FdConstants DEF FdInv, FdTypeOK, OpenInfo, Infos
  <2>2. fdi' \in [Fds -> Infos \cup {Nil}]
    BY <2>1 DEF FdInv, FdTypeOK, OpenInfo
  <2>3. DOMAIN info' = Infos
    BY DEF FdInv, FdTypeOK, OpenInfo
  <2>4. freed' \subseteq 1 .. infos' /\ held' \subseteq Fds
    BY FdConstants DEF FdInv, FdTypeOK, OpenInfo, Threaded
  <2>5. th' \in [Threads -> [pc : {"ready", "info", "put", "use"}, fd : Fds \cup {0},
                             ptr : Infos \cup {Nil}]]
    BY DEF FdInv, FdTypeOK, OpenInfo, Ready
  <2>6. QED
    BY <2>1, <2>2, <2>3, <2>4, <2>5 DEF FdInv, FdTypeOK, OpenInfo
<1>2. HeldWorks'
  <2> DEFINE fd == th[t].fd
             n  == infos + 1
  <2>1. /\ fd \in Fds /\ kernel[fd] # Nil /\ n \in Infos /\ n # Nil
        /\ n \notin freed /\ \A f \in Fds : fdi[f] # n
    <3>1. fd \in Fds /\ kernel[fd] # Nil
      BY DEF FdInv, Threaded, OpenInfo
    <3>2. n \in Infos /\ n # Nil /\ n \notin freed
      BY FdConstants DEF FdInv, FdTypeOK, OpenInfo, Infos, Nil
    <3>3. \A f \in Fds : fdi[f] # n
      BY <3>2 DEF FdInv, FdTypeOK, Entered
    <3>4. QED
      BY <3>1, <3>2, <3>3
  <2>2. /\ fdi' = [fdi EXCEPT ![fd] = n] /\ info' = [info EXCEPT ![n] = InfoOf(kernel[fd])]
        /\ held' = held \cup {fd} /\ UNCHANGED <<kernel, freed>>
    BY DEF OpenInfo
  <2> HIDE DEF fd, n
  <2>3. info'[n] = InfoOf(kernel[fd]) /\ \A i \in Infos \ {n} : info'[i] = info[i]
    BY <2>1, <2>2 DEF FdInv, FdTypeOK
  <2>4. ASSUME NEW f \in held'
        PROVE  kernel'[f] # Nil /\ fdi'[f] # Nil /\ fdi'[f] \notin freed'
               /\ info'[fdi'[f]] = InfoOf(kernel[f])
    <3>1. CASE f = fd
      BY <2>1, <2>2, <2>3, <3>1 DEF FdInv, FdTypeOK
    <3>2. CASE f # fd
      BY <2>1, <2>2, <2>3, <2>4, <3>2 DEF FdInv, FdTypeOK, HeldWorks
    <3>3. QED
      BY <3>1, <3>2
  <2>5. \A f \in held' : InfoOf(kernel'[f]) = InfoOf(kernel[f])
    BY <2>2
  <2>6. QED
    BY <2>4, <2>5 DEF HeldWorks
<1>3. Threaded'
  BY DEF FdInv, FdTypeOK, Threaded, OpenInfo, Ready, OneOpener
<1>4. Entered'
  BY DEF FdInv, FdTypeOK, Threaded, Entered, OpenInfo, Ready
<1>5. Tabled'
  BY DEF FdInv, FdTypeOK, Threaded, Tabled, OpenInfo, Nil
<1>6. QED
  BY <1>1, <1>2, <1>3, <1>4, <1>5 DEF FdInv

\* A failing open gives its descriptor back.
LEMMA OpenFailsStep ==
  ASSUME OneOpener, FdInv, NEW t \in Threads, OpenFails(t)
  PROVE  FdInv'
<1>1. FdTypeOK'
  BY DEF FdInv, FdTypeOK, Threaded, OpenFails, Ready
<1>2. HeldWorks'
  BY DEF FdInv, FdTypeOK, HeldWorks, Threaded, OpenFails
<1>3. Threaded'
  BY DEF FdInv, FdTypeOK, Threaded, OpenFails, Ready, OneOpener
<1>4. Entered'
  BY DEF FdInv, FdTypeOK, Threaded, Entered, OpenFails, Ready
<1>5. Tabled'
  BY DEF FdInv, FdTypeOK, Tabled, OpenFails
<1>6. QED
  BY <1>1, <1>2, <1>3, <1>4, <1>5 DEF FdInv

\* A device that no call uses is closed.
LEMMA CloseFileStep ==
  ASSUME OneOpener, FdInv,
         NEW t \in Threads, NEW fd \in Fds, CloseFile(t, fd)
  PROVE  FdInv'
<1>1. FdTypeOK'
  BY DEF FdInv, FdTypeOK, Threaded, CloseFile, Ready
<1>2. HeldWorks'
  BY DEF FdInv, FdTypeOK, HeldWorks, Threaded, CloseFile
<1>3. Threaded'
  BY DEF FdInv, FdTypeOK, Threaded, CloseFile, Ready, OneOpener, InUse
<1>4. Entered'
  BY DEF FdInv, FdTypeOK, Threaded, Entered, CloseFile, Ready
<1>5. Tabled'
  BY DEF FdInv, FdTypeOK, Tabled, CloseFile
<1>6. QED
  BY <1>1, <1>2, <1>3, <1>4, <1>5 DEF FdInv

\* The table gives back the structure of the descriptor that was closed: with one
\* opener, no other descriptor has taken its place.
LEMMA ClosePutStep ==
  ASSUME OneOpener, FdInv, NEW t \in Threads, ClosePut(t)
  PROVE  FdInv'
<1>1. FdTypeOK'
  <2>1. th[t].fd \in Fds /\ fdi[th[t].fd] \in 1 .. infos
    BY DEF FdInv, Threaded, Entered, ClosePut
  <2>2. fdi' \in [Fds -> Infos \cup {Nil}] /\ freed' \subseteq 1 .. infos
    BY <2>1 DEF FdInv, FdTypeOK, ClosePut
  <2>3. Ready \in [pc : {"ready", "info", "put", "use"}, fd : Fds \cup {0},
                   ptr : Infos \cup {Nil}]
    BY DEF Ready
  <2>4. QED
    BY <2>2, <2>3 DEF FdInv, FdTypeOK, ClosePut
<1>2. HeldWorks'
  BY DEF FdInv, FdTypeOK, HeldWorks, Threaded, Entered, ClosePut
<1>3. Threaded'
  BY DEF FdInv, FdTypeOK, Threaded, ClosePut, Ready, OneOpener
<1>4. Entered'
  BY DEF FdInv, FdTypeOK, Threaded, Entered, ClosePut, Ready
<1>5. Tabled'
  BY DEF FdInv, FdTypeOK, Tabled, ClosePut
<1>6. QED
  BY <1>1, <1>2, <1>3, <1>4, <1>5 DEF FdInv

\* A call takes the structure of a descriptor in use.
LEMMA UseStartStep ==
  ASSUME OneOpener, FdInv,
         NEW t \in Threads, NEW fd \in Fds, UseStart(t, fd)
  PROVE  FdInv'
<1>1. FdTypeOK'
  <2>1. fdi[fd] \in Infos \cup {Nil}
    BY DEF FdInv, FdTypeOK
  <2>2. [pc |-> "use", fd |-> fd, ptr |-> fdi[fd]]
           \in [pc : {"ready", "info", "put", "use"}, fd : Fds \cup {0}, ptr : Infos \cup {Nil}]
    BY <2>1
  <2>3. QED
    BY <2>2 DEF FdInv, FdTypeOK, UseStart
<1>2. HeldWorks'
  BY DEF FdInv, FdTypeOK, HeldWorks, Threaded, UseStart
<1>3. Threaded'
  BY DEF FdInv, FdTypeOK, Threaded, UseStart, Ready, OneOpener
<1>4. Entered'
  BY DEF FdInv, FdTypeOK, Threaded, Entered, UseStart, Ready
<1>5. Tabled'
  BY DEF FdInv, FdTypeOK, Tabled, UseStart
<1>6. QED
  BY <1>1, <1>2, <1>3, <1>4, <1>5 DEF FdInv

\* A call ends.
LEMMA UseEndStep ==
  ASSUME OneOpener, FdInv, NEW t \in Threads, UseEnd(t)
  PROVE  FdInv'
<1>1. FdTypeOK'
  BY DEF FdInv, FdTypeOK, Threaded, UseEnd, Ready
<1>2. HeldWorks'
  BY DEF FdInv, FdTypeOK, HeldWorks, Threaded, UseEnd
<1>3. Threaded'
  BY DEF FdInv, FdTypeOK, Threaded, UseEnd, Ready, OneOpener
<1>4. Entered'
  BY DEF FdInv, FdTypeOK, Threaded, Entered, UseEnd, Ready
<1>5. Tabled'
  BY DEF FdInv, FdTypeOK, Tabled, UseEnd
<1>6. QED
  BY <1>1, <1>2, <1>3, <1>4, <1>5 DEF FdInv

-----------------------------------------------------------------------------
(* The invariant, and what it says to a caller.                            *)

LEMMA NextFd ==
  ASSUME OneOpener, FdInv, [FdNext]_fdVars
  PROVE  FdInv'
<1>1. ASSUME NEW t \in Threads, Step(t)
      PROVE  FdInv'
  <2>1. CASE \E d \in Devices : OpenFile(t, d)
    BY <2>1, OpenFileStep
  <2>2. CASE OpenInfo(t)
    BY <2>2, OpenInfoStep
  <2>3. CASE OpenFails(t)
    BY <2>3, OpenFailsStep
  <2>4. CASE ClosePut(t)
    BY <2>4, ClosePutStep
  <2>5. CASE UseEnd(t)
    BY <2>5, UseEndStep
  <2>6. CASE \E fd \in Fds : CloseFile(t, fd) \/ UseStart(t, fd)
    BY <2>6, CloseFileStep, UseStartStep
  <2>7. QED
    BY <1>1, <2>1, <2>2, <2>3, <2>4, <2>5, <2>6 DEF Step
<1>2. CASE UNCHANGED fdVars
  BY <1>2 DEF fdVars, FdInv, FdTypeOK, HeldWorks, Threaded, Entered, Tabled
<1>3. QED
  BY <1>1, <1>2 DEF FdNext

LEMMA FdInvariant ==
  ASSUME OneOpener
  PROVE  FdSpec => []FdInv
<1>1. FdInit => FdInv
  BY InitFd
<1>2. FdInv /\ [FdNext]_fdVars => FdInv'
  BY NextFd
<1>3. QED
  BY <1>1, <1>2, PTL DEF FdSpec

\* The tables of descriptors keep their types through every interleaving of opens,
\* closes, other files and replacements of a device, and every entry of the table of
\* the process is a descriptor of an open file or free (lib/zbd.c:374-456).
THEOREM FdTyped ==
  ASSUME OneOpener
  PROVE  FdSpec => []FdTypeOK
<1>1. FdInv => FdTypeOK
  BY DEF FdInv
<1>2. QED
  BY <1>1, FdInvariant, PTL

\* A descriptor that zbd_open has returned works until its owner closes it
\* (lib/zbd.c:374-456), for any number of devices, descriptors and calling threads,
\* if one thread opens and closes.
THEOREM HeldDescriptorsWork ==
  ASSUME OneOpener
  PROVE  FdSpec => []HeldWorks
<1>1. FdInv => HeldWorks
  BY DEF FdInv
<1>2. QED
  BY <1>1, FdInvariant, PTL

\* No call of the library reads a structure that zbd_close has freed.
THEOREM NoUseAfterFree ==
  ASSUME OneOpener
  PROVE  FdSpec => []UseSafe
<1>1. FdInv => UseSafe
  BY DEF FdInv, HeldWorks, Threaded, UseSafe
<1>2. QED
  BY <1>1, FdInvariant, PTL

\* No descriptor and no structure is lost, also when an open fails half-way.
THEOREM NoLeak ==
  ASSUME OneOpener
  PROVE  FdSpec => []NothingLost
<1>1. FdInv => NothingLost
  BY DEF FdInv, Entered, Tabled, NothingLost
<1>2. QED
  BY <1>1, FdInvariant, PTL
=============================================================================
