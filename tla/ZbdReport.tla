----------------------------- MODULE ZbdReport ------------------------------
(***************************************************************************)
(* libzbd's zone reports, zone lists and zone operations (lib/zbd.c) on a  *)
(* device whose zones other programs change at any time, also between the  *)
(* reports that one call asks the kernel for.  Positions are in units of   *)
(* which ZoneSize make a zone; the last zone may be smaller.               *)
(***************************************************************************)
EXTENDS Integers, Sequences, FiniteSets, FiniteSetsExt

CONSTANTS
    ZoneSize,     \* a power of two, as the masks of the code need it
    Capacity,     \* nr_sectors
    States,       \* conditions and flags that zones take
    Filters,      \* reporting options that callers use
    Batch,        \* ZBD_REPORT_MAX_NR_ZONE
    Changes,      \* bound: changes of zones by other programs
    Calls,        \* bound: calls of the library
    Offsets, Lengths, Sizes   \* arguments of the calls

RoundUp(p) == ((p + ZoneSize - 1) \div ZoneSize) * ZoneSize
RoundDown(p) == (p \div ZoneSize) * ZoneSize

NZ    == RoundUp(Capacity) \div ZoneSize
Zones == 0 .. NZ - 1
Null  == -1                               \* no array: count only
Ops   == {"reset", "open", "close", "finish"}
Conds == {"not_wp", "empty", "imp_open", "exp_open", "closed", "full", "rdonly", "offline"}
Flags == {"rwp_recommended", "non_seq"}
ZoneStates == [cond : Conds, flags : SUBSET Flags]

ASSUME ReportConstants ==
    /\ ZoneSize \in Nat \ {0} /\ Capacity \in Nat \ {0} /\ Batch \in Nat \ {0}
    /\ Changes \in Nat /\ Calls \in Nat
    /\ States \subseteq ZoneStates /\ Filters \subseteq Conds \cup Flags \cup {"all"}
    /\ Offsets \subseteq Nat /\ Lengths \subseteq Nat /\ Sizes \subseteq Nat \cup {Null}

VARIABLES
    zone,      \* the zones of the device
    call,      \* the call under way
    last,      \* the last call, with its return value
    bound,     \* what is left of Changes and Calls
    always,    \* ghost: the zones that match the filter of the call since its start
    ever       \* ghost: the zones that have matched since then

vars == <<zone, call, last, bound, always, ever>>

NoCall == [fn |-> "none", ofst |-> 0, len |-> 0, next |-> 0, ro |-> "all", size |-> Null,
           stage |-> "idle", out |-> << >>, n |-> 0, ret |-> "none"]

-----------------------------------------------------------------------------
(* zbd_should_report_zone, and the range that a call covers.               *)

Matches(s, ro) ==
    \/ ro = "all" \/ ro = s.cond
    \/ ro \in s.flags

Matching(ro) == {z \in Zones : Matches(zone[z], ro)}

\* fault: the end of the range is rounded down
RangeEndDown(ofst, len) == Min({RoundDown(ofst + (IF len = 0 THEN Capacity ELSE len)), Capacity})

\* [first, end): the range is widened to whole zones and cut at the capacity.
RangeEnd(ofst, len) == Min({RoundUp(ofst + (IF len = 0 THEN Capacity ELSE len)), Capacity})

\* fault: a range that starts inside a zone starts at the next one
RangeFirstUp(ofst) == RoundUp(ofst)
RangeFirst(ofst) == RoundDown(ofst)

EndOf(z) == Min({(z + 1) * ZoneSize, Capacity})

\* The zones of a range, by what zbd.h says of it: those that [ofst, ofst + len)
\* touches.  The end of the device does not cut what a zone covers: only an offset
\* behind all of the last zone is behind the device (lines 566-570).
InRange(ofst, len) ==
    {z \in Zones : /\ z * ZoneSize < (IF len = 0 THEN Capacity ELSE ofst + len)
                   /\ ofst < (z + 1) * ZoneSize}

-----------------------------------------------------------------------------
(* zbd_report_zones and zbd_list_zones.                                    *)

Start(fn, ofst, len, ro, size, stage) ==
    [fn |-> fn, ofst |-> ofst, len |-> len, next |-> RangeFirst(ofst), ro |-> ro,
     size |-> size, stage |-> stage, out |-> << >>, n |-> 0, ret |-> "none"]

Begin(c) ==
    /\ call.stage = "idle" /\ bound.calls > 0
    /\ call' = c
    /\ bound' = [bound EXCEPT !.calls = @ - 1]
    /\ always' = Matching(c.ro) /\ ever' = Matching(c.ro)
    /\ last' = NoCall
    /\ UNCHANGED zone

Return(c, ret) == last' = [c EXCEPT !.ret = ret] /\ call' = NoCall

\* With an array of no entries there is nothing to do, and beyond the capacity
\* nothing to report.
Report(ofst, len, ro, size) ==
    Begin(Start("report", ofst, len, ro, size,
                IF size = 0 \/ RangeFirst(ofst) >= Capacity THEN "done" ELSE "report"))

List(ofst, len, ro) ==
    Begin(Start("list", ofst, len, ro, Null,
                IF RangeFirst(ofst) >= Capacity THEN "done" ELSE "report"))

\* How many zones one request to the kernel asks for.
Requested(c) == IF c.size > 0 THEN Min({c.size, Batch}) ELSE Batch

\* fault: the size of the array is only a hint for the kernel
StopsAtEndOnly(c) == c.next >= RangeEnd(c.ofst, c.len)

\* Whether the loop is over: the array is full, or the range ends.
Stops(c) == (c.size > 0 /\ c.n >= c.size) \/ c.next >= RangeEnd(c.ofst, c.len)

\* The call after one more zone of the answer.
Taken(c) ==
    LET z == c.next \div ZoneSize
    IN  IF Stops(c) THEN c
        ELSE IF Matches(zone[z], c.ro)
        THEN [c EXCEPT !.next = EndOf(z), !.n = @ + 1,
                       !.out = IF c.size = Null THEN @ ELSE Append(@, z)]
        ELSE [c EXCEPT !.next = EndOf(z)]

\* One BLKREPORTZONE: the zones from c.next on, as they are now.
AfterBatch(c) ==
    LET answer == Min({Requested(c), NZ - c.next \div ZoneSize})
        step[k \in 0 .. answer] == IF k = 0 THEN c ELSE Taken(step[k - 1])
    IN  step[answer]

RequestZones ==
    /\ call.stage = "report" /\ ~Stops(call)
    /\ call' = AfterBatch(call)
    /\ UNCHANGED <<zone, last, bound, always, ever>>

\* The kernel refuses a request: the call returns -errno.
RequestFails ==
    /\ call.stage = "report" /\ ~Stops(call)
    /\ Return(call, "errno")
    /\ UNCHANGED <<zone, bound, always, ever>>

\* The loop is over.  zbd_list_zones now knows the number of zones, allocates its
\* array, and reports again.
ReportDone ==
    /\ call.stage = "done" \/ (call.stage = "report" /\ Stops(call))
    /\ IF call.fn = "list" /\ call.size = Null /\ call.n > 0
       THEN /\ call' = [call EXCEPT !.size = call.n, !.n = 0, !.next = RangeFirst(call.ofst)]
            /\ UNCHANGED last
       ELSE Return(call, "ok")
    /\ UNCHANGED <<zone, bound, always, ever>>

-----------------------------------------------------------------------------
(* zbd_zones_operation.                                                    *)

Operation(op, ofst, len) ==
    Begin(Start(op, ofst, len, "all", Null,
                IF RangeFirst(ofst) >= Capacity \/ RangeEnd(ofst, len) = RangeFirst(ofst)
                THEN "done" ELSE "op"))

\* What an operation makes of a zone; it refuses the others.
Outcome(op, s) ==
    IF s.cond \in {"not_wp", "rdonly", "offline"} \/ (op = "open" /\ s.cond = "full")
       \/ (op = "close" /\ s.cond \in {"empty", "full"})
    THEN "refused"
    ELSE CASE op = "reset" -> "empty" [] op = "open" -> "exp_open"
           [] op = "close" -> "closed" [] op = "finish" -> "full"

\* The kernel goes through the range zone by zone and stops at the first failure.
OperateZone ==
    /\ call.stage = "op" /\ ~Stops(call)
    /\ LET z == call.next \div ZoneSize
       IN  IF Outcome(call.fn, zone[z]) = "refused"
           THEN Return(call, "-1") /\ UNCHANGED zone
           ELSE /\ zone' = [zone EXCEPT ![z].cond = Outcome(call.fn, zone[z])]
                /\ call' = [call EXCEPT !.next = EndOf(z), !.out = Append(@, z)]
                /\ UNCHANGED last
    /\ UNCHANGED <<bound, always, ever>>

OperationDone ==
    /\ call.stage = "op" /\ Stops(call)
    /\ Return(call, "ok")
    /\ UNCHANGED <<zone, bound, always, ever>>

-----------------------------------------------------------------------------
(* The specification.                                                      *)

Change ==
    /\ bound.changes > 0
    /\ \E z \in Zones, s \in States : zone' = [zone EXCEPT ![z] = s]
    /\ bound' = [bound EXCEPT !.changes = @ - 1]
    /\ always' = always \cap {z \in Zones : Matches(zone'[z], call.ro)}
    /\ ever' = ever \cup {z \in Zones : Matches(zone'[z], call.ro)}
    /\ UNCHANGED <<call, last>>

Init ==
    /\ zone \in [Zones -> States]
    /\ call = NoCall /\ last = NoCall
    /\ bound = [changes |-> Changes, calls |-> Calls]
    /\ always = {} /\ ever = {}

Next ==
    \/ \E ofst \in Offsets, len \in Lengths :
          \/ \E ro \in Filters, size \in Sizes : Report(ofst, len, ro, size)
          \/ \E ro \in Filters : List(ofst, len, ro)
          \/ \E op \in Ops : Operation(op, ofst, len)
    \/ RequestZones \/ RequestFails \/ ReportDone \/ OperateZone \/ OperationDone
    \/ Change

Spec == Init /\ [][Next]_vars

-----------------------------------------------------------------------------
(* Properties.                                                             *)

Asked == InRange(last.ofst, last.len)
Listed == {last.out[k] : k \in DOMAIN last.out}
Ascending(q) == \A j, k \in DOMAIN q : j < k => q[j] < q[k]
Succeeded(fn) == last.fn = fn /\ last.ret = "ok"

\* Types: a call asks only for what is on the device, and its array has room for
\* what is in it.
TypeOK ==
    /\ zone \in [Zones -> ZoneStates]
    /\ call.next \in Nat
    /\ call.stage \in {"report", "op"} => call.next <= Capacity
    /\ call.size >= 0 => Len(call.out) <= call.size
    /\ always \subseteq Zones /\ ever \subseteq Zones
    /\ last.ret \in {"none", "ok", "-1", "errno"}

\* zbd_report_zones on a device that changes under it: the zones it returns are
\* zones of the range in ascending order that matched the filter at some time
\* during the call, and a zone that matched all the time is missing only behind
\* the last zone that the caller's array had room for.  Without an array, as
\* zbd_report_nr_zones calls it, it counts at least the zones that matched all the
\* time and at most those that matched at some time.
ReportSound ==
  /\ Succeeded("report") /\ last.size = Null =>
      Cardinality(Asked \cap always) <= last.n /\ last.n <= Cardinality(Asked \cap ever)
  /\ Succeeded("report") /\ last.size # Null =>
      /\ Ascending(last.out) /\ Listed \subseteq Asked \cap ever
      /\ last.n = Len(last.out) /\ last.n <= last.size
      /\ \A z \in (Asked \cap always) \ Listed :
            last.n = last.size /\ \A y \in Listed : y < z

\* zbd_list_zones without a filter, as zbd_dump and zbd_restore call it, returns
\* every zone of the range, however the zones change between its two reports.
ListAllComplete ==
    Succeeded("list") /\ last.ro = "all" => Listed = Asked /\ Ascending(last.out)

\* zbd_zones_operation: when it returns 0, it has done every zone that the range
\* touches and no other; when it fails, the zones before the one that was refused.
OperationCovers ==
    last.fn \in Ops /\ last.ret # "none" =>
      /\ Listed \subseteq Asked /\ Ascending(last.out)
      /\ last.ret = "ok" => Listed = Asked
      /\ last.ret = "-1" => \E z \in Asked : Listed = {y \in Asked : y < z}
=============================================================================
