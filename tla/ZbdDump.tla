------------------------------ MODULE ZbdDump -------------------------------
(***************************************************************************)
(* "zbd dump" and "zbd restore" (tools/cli/zbd_dump.c): one device, two    *)
(* files under one prefix, one command at a time, and other programs that  *)
(* use the device meanwhile.  Data move in chunks of ZBD_DUMP_IO_SIZE; any *)
(* call may fail and the command may be killed: then it closes what it has *)
(* open and leaves device and files as they are.                           *)
(***************************************************************************)
EXTENDS Integers, FiniteSets, ZonedDevice

CONSTANTS
    NZ,           \* zones of the devices
    Devices,      \* the devices a user attaches, as they are found
    HostOps,      \* bound: how often another program or a fault changes a device
    DuringDump,   \* what other programs do while a dump runs
    ShortIO,      \* whether a transfer may take more than one system call
    MaxDumps,     \* bound: dumps written under the prefix
    Attempts      \* bound: restores

Zones  == 0 .. NZ - 1
Ranges == {r \in Zones \X (1 .. NZ) : r[1] < r[2]}     \* [zstart, zend)
Absent == [geom |-> "absent"]      \* no file, or one too short to be accepted
Junk   == <<-1>>                   \* a chunk put together wrongly
HostActs == {"write", "append", "open", "close", "finish", "reset", "rdonly", "offline"}

ASSUME DumpConstants ==
    /\ NZ \in Nat \ {0} /\ HostOps \in Nat /\ MaxDumps \in Nat /\ Attempts \in Nat
    /\ DuringDump \subseteq HostActs /\ ShortIO \in BOOLEAN
    /\ \A d \in Devices : DeviceOK(d, Zones)

VARIABLES
    dev,       \* the device attached
    data,      \* <prefix>_zone_data.dump
    info,      \* <prefix>_zone_info.dump
    run,       \* the frame of zbd_dump or zbd_restore
    result,    \* how the last command ended
    bound,     \* what is left of HostOps, MaxDumps, Attempts
    snap,      \* ghost: the device when a dump listed its zones: of the last dump,
               \* and of the one that wrote info
    orig       \* ghost: the device when the last restore listed its zones

vars == <<dev, data, info, run, result, bound, snap, orig>>

Idle == [pc |-> "idle", pass |-> 0, i |-> 0, o |-> 0, lo |-> 0, hi |-> 0, zones |-> << >>]

Init ==
    /\ dev \in Devices
    /\ data = Absent /\ info = Absent
    /\ run = Idle /\ result = "none"
    /\ bound = [host |-> HostOps, dumps |-> MaxDumps, tries |-> Attempts]
    /\ snap = [last |-> dev, info |-> dev] /\ orig = dev

-----------------------------------------------------------------------------
(* What the two commands share.                                            *)

\* A chunk as zbd_rw moves it: a transfer that takes a second call puts the
\* rest of the chunk where the first part already is.
Moved(v) == {v} \cup (IF ShortIO THEN {Junk} ELSE {})

\* The chunks of a zone that are copied: up to the write pointer of a sequential
\* zone that is not full, the whole capacity of any other.
CopyEnd(zn) == IF SeqZone(zn) /\ zn.cond # "full" THEN zn.wp ELSE zn.cap

NextZone(r) == [r EXCEPT !.i = @ + 1, !.o = 0]

End(how) == run' = Idle /\ result' = how

\* An error of any call, or a kill: the command ends where it is.
Abort ==
    /\ run.pc # "idle"
    /\ End(IF run.pc = "restore" THEN "failed" ELSE "aborted")
    /\ UNCHANGED <<dev, data, info, bound, snap, orig>>

-----------------------------------------------------------------------------
(* zbd_dump.                                                               *)

\* The zones are listed and the data file opened with O_TRUNC | O_CREAT ...
DumpStart(r) ==
    /\ run.pc = "idle" /\ bound.dumps > 0
    /\ bound' = [bound EXCEPT !.dumps = @ - 1]
    /\ data' = Absent
    /\ snap' = [snap EXCEPT !.last = dev]
    /\ run' = [Idle EXCEPT !.pc = "size", !.i = r[1], !.lo = r[1], !.hi = r[2],
                           !.zones = ReportOf(dev)]
    /\ result' = "none" /\ UNCHANGED <<dev, info, orig>>

\* ... and made as large as the device.
DumpSize ==
    /\ run.pc = "size"
    /\ data' = [geom |-> dev.geom,
                zone |-> [z \in Zones |-> [o \in 0 .. dev.zone[z].cap - 1 |-> Zero]]]
    /\ run' = [run EXCEPT !.pc = "dump"]
    /\ UNCHANGED <<dev, info, result, bound, snap, orig>>

DumpZone ==
    /\ run.pc = "dump" /\ run.i < run.hi
    /\ LET zn == run.zones[run.i]
       IN  IF zn.cond = "offline" \/ run.o >= CopyEnd(zn)
           THEN run' = NextZone(run) /\ UNCHANGED data
           ELSE /\ dev.zone[run.i].cond # "offline"
                /\ \E v \in Moved(dev.zone[run.i].data[run.o]) :
                       data' = [data EXCEPT !.zone[run.i][run.o] = v]
                /\ run' = [run EXCEPT !.o = @ + 1]
    /\ UNCHANGED <<dev, info, result, bound, snap, orig>>

\* fault: the information is written while zones are still to be copied
DumpDataEarly ==
    /\ run.pc = "dump"
    /\ info' = Absent
    /\ run' = [run EXCEPT !.pc = "info"]
    /\ UNCHANGED <<dev, data, result, bound, snap, orig>>

\* All zones are copied and the data file is synced; the information file is
\* opened with O_TRUNC | O_CREAT ...
DumpData ==
    /\ run.pc = "dump" /\ run.i = run.hi
    /\ info' = Absent
    /\ run' = [run EXCEPT !.pc = "info"]
    /\ UNCHANGED <<dev, data, result, bound, snap, orig>>

\* ... and gets the header and the zones.
DumpInfo ==
    /\ run.pc = "info"
    /\ info' = [geom |-> dev.geom, lo |-> run.lo, hi |-> run.hi, zones |-> run.zones]
    /\ snap' = [snap EXCEPT !.info = snap.last]
    /\ End("dumped")
    /\ UNCHANGED <<dev, data, bound, orig>>

-----------------------------------------------------------------------------
(* zbd_restore.                                                            *)

\* zbd_load_zone_info: the dump fits the zones of the target ...
ZonesFit ==
    /\ info # Absent /\ info.geom = dev.geom
    /\ \A z \in Zones :
          /\ info.zones[z].type = dev.zone[z].type
          /\ info.zones[z].cap = dev.zone[z].cap
          /\ dev.zone[z].cond = "offline" => info.zones[z].cond = "offline"
          /\ dev.zone[z].cond # "rdonly"
    /\ dev.maxOpen > 0 => Cardinality({z \in Zones : IsOpen(info.zones[z])}) <= dev.maxOpen
    /\ dev.maxActive > 0 => Cardinality({z \in Zones : IsActive(info.zones[z])}) <= dev.maxActive

\* ... and zbd_open_zone_data: the data file has the size of the target.
DataFits == data # Absent /\ data.geom = dev.geom

\* fault: the passes run over all the zones of the dump
AllZones(dump) == <<0, NZ>>

\* fault: zend is taken for the last zone of the range
ZendIncluded(dump) == <<dump.lo, dump.hi + 1>>

\* The range of the passes, zstart to zend of the header.
DumpRange(dump) == <<dump.lo, dump.hi>>

RestoreStart ==
    /\ run.pc = "idle" /\ bound.tries > 0
    /\ bound' = [bound EXCEPT !.tries = @ - 1]
    /\ orig' = dev
    /\ IF ZonesFit /\ DataFits
       THEN LET r == DumpRange(info)
            IN  /\ run' = [pc |-> "restore", pass |-> 1, i |-> r[1], o |-> 0,
                           lo |-> r[1], hi |-> r[2], zones |-> info.zones]
                /\ result' = "none"
       ELSE End("refused")
    /\ UNCHANGED <<dev, data, info, snap>>

\* fault: explicitly open zones come before closed ones
PassOrderSwapped == <<"exp_open", "closed", "imp_open">>

\* fault: the last pass repeats the condition of the one before
PassOrderTwice == <<"closed", "exp_open", "exp_open">>

\* The conditions that the last three passes restore.
PassOrder == <<"closed", "exp_open", "imp_open">>

\* The zones that each pass handles: the first one resets, the second copies
\* conventional and full zones.
Selected(pass, zn) ==
    CASE pass = 1 -> zn.cond # "offline" /\ SeqZone(zn) /\ zn.cond # "empty"
      [] pass = 2 -> Cnv(zn) \/ zn.cond = "full"
      [] pass > 2 -> zn.cond = PassOrder[pass - 2]

NextPass ==
    /\ run.pc = "restore" /\ run.i = run.hi
    /\ IF run.pass < 5
       THEN run' = [run EXCEPT !.pass = @ + 1, !.i = run.lo] /\ UNCHANGED result
       ELSE End("restored")
    /\ UNCHANGED <<dev, data, info, bound, snap, orig>>

\* The command that the current pass gives the device next; the device may refuse it.
RestoreDevs ==
    LET z == run.i  zn == run.zones[z]
    IN  IF run.pass = 1 THEN Reset(dev, z)
        ELSE IF run.o < CopyEnd(zn)
        THEN UNION {Write(dev, z, run.o, v) : v \in Moved(data.zone[z][run.o])}
        ELSE IF zn.cond = "closed" THEN Close(dev, z)
        ELSE IF zn.cond = "exp_open" THEN Open(dev, z) ELSE {dev}

RestoreZone ==
    /\ run.pc = "restore" /\ run.i < run.hi
    /\ IF ~Selected(run.pass, run.zones[run.i])
       THEN run' = NextZone(run) /\ UNCHANGED <<dev, result>>
       ELSE \/ /\ dev' \in RestoreDevs
               /\ run' = IF run.pass > 1 /\ run.o < CopyEnd(run.zones[run.i])
                         THEN [run EXCEPT !.o = @ + 1] ELSE NextZone(run)
               /\ UNCHANGED result
            \/ /\ RestoreDevs = {} /\ UNCHANGED dev
               /\ End("no_slot")
    /\ UNCHANGED <<data, info, bound, snap, orig>>

-----------------------------------------------------------------------------
(* The rest of the world, and the specification.                           *)

HostActing(acts) ==
    CASE run.pc = "idle" -> acts
      [] run.pc \in {"size", "dump", "info"} -> acts \cap DuringDump
      [] OTHER -> {}

\* What a program writes: a chunk of its own, told apart by place and by whether
\* a dump has been taken.
Content(z, o) == <<z, o, bound.dumps>>

HostDevs(act) ==
    UNION {CASE act = "write" ->
                  IF Cnv(dev.zone[z])
                  THEN UNION {Write(dev, z, o, Content(z, o)) : o \in 0 .. dev.zone[z].cap - 1}
                  ELSE {}
             [] act = "append" ->
                  IF SeqZone(dev.zone[z])
                  THEN Write(dev, z, dev.zone[z].wp, Content(z, dev.zone[z].wp)) ELSE {}
             [] act \in {"rdonly", "offline"} -> {Fault(dev, z, act)}
             [] OTHER -> ZoneCommand(dev, act, z) : z \in Zones}

Host ==
    /\ bound.host > 0
    /\ \E act \in HostActing(HostActs) : dev' \in HostDevs(act)
    /\ bound' = [bound EXCEPT !.host = @ - 1]
    /\ result' = "none"
    /\ UNCHANGED <<data, info, run, snap, orig>>

Attach(d) ==
    /\ run.pc = "idle" /\ info # Absent /\ d # dev
    /\ dev' = d /\ result' = "none"
    /\ UNCHANGED <<data, info, run, bound, snap, orig>>

Command == Abort \/ (\E r \in Ranges : DumpStart(r)) \/ DumpSize \/ DumpZone
           \/ DumpData \/ DumpInfo \/ RestoreStart \/ NextPass \/ RestoreZone

Next == Command \/ Host \/ \E d \in Devices : Attach(d)

Spec == Init /\ [][Next]_vars

-----------------------------------------------------------------------------
(* Properties.                                                             *)

InRange(z) == info.lo <= z /\ z < info.hi
SameData(zn, old) == zn.data = old.data /\ zn.wp = old.wp

\* The zones that restore neither resets nor writes: what they hold of the
\* limits is not given back.
Kept(z) == ~InRange(z) \/ info.zones[z].cond \in {"empty", "offline"}
LimitsFree == \A z \in Zones : Kept(z) => ~IsActive(orig.zone[z])

\* Types: the frame stays inside the zones, and the files, when present, have an
\* entry for every zone.
TypeOK ==
    /\ DeviceOK(dev, Zones)
    /\ run.i \in 0 .. NZ /\ run.hi \in 0 .. NZ /\ run.o \in Nat /\ run.pass \in 0 .. 5
    /\ data # Absent => DOMAIN data.zone = Zones
    /\ info # Absent => DOMAIN info.zones = Zones /\ <<info.lo, info.hi>> \in Ranges
    /\ result \in {"none", "dumped", "restored", "refused", "failed", "no_slot",
                   "aborted"}

\* "restore : Restore a device zones status and data from dump files": when zbd
\* restore reports success, every zone of the range that held data when the dump
\* listed the zones holds the same data, up to the same write pointer and in the
\* same condition, whatever was restored, aborted and retried before; an
\* implicitly open zone may have been closed by a device short of slots.  Zones
\* that the dump lists as empty or read-only, or offline, are not restored.
RestoredIsDumped ==
    result = "restored" =>
      \A z \in Zones :
        LET zn == dev.zone[z]  old == snap.info.zone[z]
        IN  /\ InRange(z) /\ old.cond \in {"full", "closed", "exp_open", "imp_open"} =>
                 SameData(zn, old) /\ (zn.cond = old.cond \/
                   (~LimitsFree /\ old.cond = "imp_open" /\ zn.cond = "closed"))
            /\ InRange(z) /\ old.cond = "not_wp" => zn.data = old.data

\* A restore, at every step of it and however it ends, leaves the data of the
\* zones outside the range of the dump alone.
OutsideUntouched ==
    run.pc = "restore" \/ result \in {"restored", "failed", "no_slot"} =>
      \A z \in Zones : ~InRange(z) => SameData(dev.zone[z], orig.zone[z])

\* As long as one dump is written under a prefix, an information file means that
\* the data file is complete: a dump that was killed leaves nothing that restore
\* accepts, and what other programs append meanwhile does not show in it.
InfoDescribesData ==
    info # Absent =>
      /\ data # Absent
      /\ \A z \in Zones : InRange(z) /\ info.zones[z].cond # "offline" =>
            \A o \in 0 .. CopyEnd(info.zones[z]) - 1 :
                data.zone[z][o] = snap.info.zone[z].data[o]

\* The order of the passes keeps restore within the limits of the target, which
\* accepted the dump as a whole: if the zones that restore leaves alone hold no
\* slot, the device refuses no command of it.
NoLimitHit ==
    result = "no_slot" =>
        \/ ~LimitsFree
        \/ \E z \in Zones : Cnv(orig.zone[z]) /\ orig.zone[z].cond = "offline"
=============================================================================
