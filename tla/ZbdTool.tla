------------------------------- MODULE ZbdTool ------------------------------
(***************************************************************************)
(* The commands of the zbd tool on a range of zones (tools/cli/zbd.c), and *)
(* reports from a dump file (tools/cli/zbd_dump.c).  Every run of the tool *)
(* is one step: what other programs do meanwhile is the subject of         *)
(* ZbdReport, what dump and restore do to the data that of ZbdDump.        *)
(* Positions and sizes are in bytes, of which Sector (512) make a sector.  *)
(***************************************************************************)
EXTENDS Integers, Sequences, FiniteSets, FiniteSetsExt, ZonedDevice

CONSTANTS
    Sector, ZoneSize, Capacity,   \* 512, zone_size and the capacity
    CnvZones,                     \* the conventional zones
    MaxOpen, MaxActive,           \* the limits of the device, 0: none
    Commands, Offsets, Lengths, Units, Filters,   \* arguments of the runs
    Writes                        \* bound: writes of other programs between the runs

ASSUME ToolConstants ==
    /\ Sector \in Nat \ {0} /\ ZoneSize \in Nat \ {0} /\ ZoneSize % Sector = 0
    /\ Capacity \in Nat \ {0} /\ Capacity % Sector = 0
    /\ Writes \in Nat /\ Offsets \cup Lengths \cup Units \subseteq Nat
    /\ Commands \subseteq {"report", "reset", "open", "close", "finish", "dump"}

VARIABLES
    dev,      \* the device
    dump,     \* the zone information file, NoDump before the first dump
    res,      \* the last run: its options and its result
    writes    \* writes left

vars == <<dev, dump, res, writes>>

NoDump == << >>

Lib == INSTANCE ZbdReport WITH
          States <- {}, Batch <- 1, Changes <- 0, Calls <- 0, Sizes <- {},
          zone <- 0, call <- 0, last <- 0, bound <- 0, always <- 0, ever <- 0

NZ == Lib!NZ

-----------------------------------------------------------------------------
(* The range of a run.                                                     *)

UnitOK(o) == o.unit <= 1 \/ (o.unit <= ZoneSize /\ o.unit % Sector = 0)

\* The length, by default the capacity, cut at the end of the device.
Len0(o) == Min({IF o.len = 0 THEN Capacity ELSE o.len, Capacity - o.ofst})

Aligned(o) == o.ofst % ZoneSize = 0 /\ Len0(o) % ZoneSize = 0

\* What main refuses, and what it does nothing for.
Refused(o) == ~UnitOK(o) \/ o.ofst % Sector # 0 \/ o.len % Sector # 0
Beyond(o)  == o.ofst >= Capacity

Runs(o, cmds) == o.cmd \in cmds /\ ~Refused(o) /\ ~Beyond(o)

Killed == 2   \* stopped by a signal
Result(o, ret, out) == [o |-> o, ret |-> ret, out |-> out]

-----------------------------------------------------------------------------
(* reset, open, close and finish.                                          *)

\* fault: the first zone of the range is left out
FirstZoneAfter(o) == Lib!RangeFirst(o.ofst) \div ZoneSize + 1

\* The zones that zbd_zones_operation hands to the kernel.
FirstZone(o) == Lib!RangeFirst(o.ofst) \div ZoneSize
LastZone(o)  == (Lib!RangeEnd(o.ofst, Len0(o)) - 1) \div ZoneSize

\* What the kernel makes of the next zone, and of none behind one that failed.
OperateZone(s, cmd, z) ==
    LET ds == ZoneCommand(s.dev, cmd, z)
    IN  IF s.ret = 1 THEN {s}
        ELSE IF ds = {} THEN {[s EXCEPT !.ret = 1]}
        ELSE {[s EXCEPT !.dev = d] : d \in ds}

Operated(o) ==
    LET first == FirstZone(o)
        after[n \in 0 .. LastZone(o) + 1 - first] ==
            IF n = 0 THEN {[dev |-> dev, ret |-> 0]}
            ELSE UNION {OperateZone(s, o.cmd, first + n - 1) : s \in after[n - 1]}
    IN  after[LastZone(o) + 1 - first]

Manage(o) ==
    /\ Runs(o, {"reset", "open", "close", "finish"})
    /\ IF Aligned(o)
       THEN \E s \in Operated(o) : dev' = s.dev /\ res' = Result(o, s.ret, << >>)
       ELSE UNCHANGED dev /\ res' = Result(o, 1, << >>)
    /\ UNCHANGED <<dump, writes>>

-----------------------------------------------------------------------------
(* report and dump.                                                        *)

\* zbd_dump_should_report_zone, and the kernel for a device.
Matches(zn, ro) == ro \in {"all", zn.cond}

\* The entries that zbd_report allocates.
Room(o) == (Len0(o) + ZoneSize - 1) \div ZoneSize

\* Zones in the order of their numbers.
InOrder(S) ==
    [k \in 1 .. Cardinality(S) |-> CHOOSE z \in S : Cardinality({y \in S : y <= z}) = k]

Found(zones, first, end, ro) ==
    LET zs == InOrder({z \in first .. end - 1 : Matches(zones[z], ro)})
    IN  [k \in DOMAIN zs |-> <<zs[k], zones[zs[k]]>>]

\* zbd_report_zones: not more than there is room for.
FromDevice(o, d) ==
    LET all == Found(ReportOf(d), FirstZone(o), LastZone(o) + 1, o.ro)
    IN  SubSeq(all, 1, Min({Len(all), Room(o)}))

\* fault: the range starts at the first zone of the dump
FromDumpStart(o) ==
    Found(dump, 0, (o.ofst + Len0(o) + ZoneSize - 1) \div ZoneSize, o.ro)

\* zbd_dump_report_zones: all that the range touches.
FromDump(o) ==
    Found(dump, o.ofst \div ZoneSize, (o.ofst + Len0(o) + ZoneSize - 1) \div ZoneSize, o.ro)

Report(o) ==
    /\ Runs(o, {"report"}) /\ o.file = "device"
    /\ res' = Result(o, 0, FromDevice(o, dev))
    /\ UNCHANGED <<dev, dump, writes>>

\* Entries behind the end of the array overwrite the heap.
Overflow(o) == Len(FromDump(o)) > Room(o)

\* Given a regular file, zbd_open_dump takes it for a dump with its own header.  A
\* listing that overflows is printed all the same, or the program faults.
ReportDump(o) ==
    /\ Runs(o, {"report"}) /\ o.file = "dump" /\ dump # NoDump
    /\ \/ res' = Result(o, 0, FromDump(o))
       \/ Overflow(o) /\ res' = Result(o, Killed, << >>)
    /\ UNCHANGED <<dev, dump, writes>>

\* The information of every zone, whatever the range.
Dump(o) ==
    /\ Runs(o, {"dump"})
    /\ dump' = ReportOf(dev)
    /\ res' = Result(o, 0, << >>)
    /\ UNCHANGED <<dev, writes>>

NothingToDo(o) ==
    /\ Refused(o) \/ Beyond(o)
    /\ res' = Result(o, IF Refused(o) THEN 1 ELSE 0, << >>)
    /\ UNCHANGED <<dev, dump, writes>>

-----------------------------------------------------------------------------

\* Another program writes; what it writes is not looked at.
HostWrite ==
    /\ writes > 0 /\ writes' = writes - 1
    /\ \E z \in DOMAIN dev.zone : dev' \in Write(dev, z, dev.zone[z].wp, Zero)
    /\ UNCHANGED <<dump, res>>

Init ==
    /\ dev = [maxOpen |-> MaxOpen, maxActive |-> MaxActive,
              zone |-> [z \in 0 .. NZ - 1 |->
                           FreshZone(IF z \in CnvZones THEN "cnv" ELSE "seq", 2)]]
    /\ dump = NoDump /\ writes = Writes
    /\ res = [o |-> [cmd |-> "none"], ret |-> 0, out |-> << >>]

Options ==
    [cmd : Commands \ {"report"}, file : {"device"}, ofst : Offsets, len : Lengths,
     unit : Units, ro : {"all"}]
    \cup [cmd : Commands \cap {"report"}, file : {"device", "dump"}, ofst : Offsets,
          len : Lengths, unit : Units, ro : Filters]

Next ==
    \/ \E o \in Options : Manage(o) \/ Report(o) \/ ReportDump(o) \/ Dump(o) \/ NothingToDo(o)
    \/ HostWrite

Spec == Init /\ [][Next]_vars

-----------------------------------------------------------------------------
(* Properties.                                                             *)

Touched(o) == Lib!InRange(o.ofst, Len0(o))
ListedIn(out) == {out[i][1] : i \in DOMAIN out}

TargetOf(cmd) ==
    CASE cmd = "reset" -> {"empty"} [] cmd = "open" -> {"exp_open"}
      [] cmd = "close" -> {"closed", "empty"} [] cmd = "finish" -> {"full"}

Managed ==
    LET o == res'.o
    IN  writes' = writes /\ o.cmd \in {"reset", "open", "close", "finish"} /\ ~Beyond(o) =>
           /\ res'.ret = 0 => \A z \in Touched(o) : dev'.zone[z].cond \in TargetOf(o.cmd)
           /\ \A z \in DOMAIN dev.zone :
                 dev'.zone[z] # dev.zone[z] =>
                    \/ ~Refused(o) /\ Aligned(o) /\ z \in Touched(o)
                    \/ dev.zone[z].cond = "imp_open" /\ dev'.zone[z] = Closed(dev.zone[z])
           /\ res'.ret = 1 /\ ~Refused(o) /\ Aligned(o) =>
                 \E z \in Touched(o) : \A y \in Touched(o) :
                    y >= z => \/ dev'.zone[y] = dev.zone[y]
                              \/ dev'.zone[y] = Closed(dev.zone[y])

\* A command that succeeds has brought all the zones that its range touches to the
\* condition it is named for, and one that fails has changed none behind the first
\* zone it failed at; of the zones outside, the device at most closes an implicitly
\* open one to keep its limit.
RangeManaged == [][Managed]_vars

\* A dump gives the report that the device would have given when it was written, for
\* every range of whole zones: the matching zones that the range touches, and no
\* other, once each and in their order, as they were; and they fit into the array,
\* which other ranges overflow.
DumpReportSame ==
    res.o.cmd = "report" /\ res.o.file = "dump" /\ ~Refused(res.o) /\ ~Beyond(res.o)
        /\ Aligned(res.o) =>
      /\ res.ret = 0
      /\ ListedIn(res.out) = {z \in Touched(res.o) : res.o.ro \in {"all", dump[z].cond}}
      /\ \A i \in DOMAIN res.out :
            /\ res.out[i][2] = dump[res.out[i][1]]
            /\ \A j \in DOMAIN res.out : i < j => res.out[i][1] < res.out[j][1]
=============================================================================
