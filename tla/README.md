# Verification of the data placement engine for zoned SSDs and of its libzbd

This directory holds TLA+ models of the programs of this repository, the TLC
configurations that check them on small instances, and proofs, checked by
TLAPS, of what holds for every size. Line numbers refer to the repository's
sources. `libzbd/` stands for `libzbd-2.0.3/`.

## 1. The system and its parts

| part | sources | state it keeps | operations |
|---|---|---|---|
| placement engine (`ZNS_Simulation`) | `zns_simulation.cc`, `parameter.h` | `block_valid_map`, `key_index`, `gc_queue`, `gc_flag`, the lifetime maps, the rates; the local buffers of its functions | `request_workload`, `myInsert`, `myUpdate_Delete`, `myGcDetect`, `myGarbageCollection` |
| zone controller (`ZONE_SIM`, `ZNS_SIM`) | `zns_controller.cc` | descriptor, start and capacity of each zone; write pointer and condition are the device's | `set_zone`, `get_zone_wp`, `get_zone_cond`, `get_empty_rate`, `reset_zone`, open/close/finish |
| workload generator | `workload.cc` | bitmap of present keys | two constructors that write the workload file |
| libzbd | `libzbd/lib/zbd.c` | table of open descriptors | open, close, information, report, list, zone operations |
| `zbd` tool | `libzbd/tools/cli` | two dump files under a prefix | report, reset, open, close, finish, dump, restore |
| gzbd | `libzbd/tools/gui` | slots of open devices, tabs; for each device its zones, filter, selection, the running command | open and close a device, refresh, filter, select, zone commands, drawing |
| gzbd-viewer | `libzbd/tools/viewer` | one device, shown | - |
| baseline | `compare.cc` | - | not built, `comInsert` has no body |
| scripts, data | `null_blk`, `data` | - | create the device; results of runs |

`main` constructs the engine (every zone is reset), initializes it, generates
the workload file and calls `request_workload`. That function reads requests
(`ADD_KV`, `MODIFY_KV`, `DELETE_KV` with key and value size), packs additions
into a page in memory and, when the page is full or an update comes, calls
`myInsert`. `myUpdate_Delete` reads the page of the key, invalidates its block
and writes the page anew. `myInsert` chooses a zone by empty rate or by
lifetime, writes the page at the zone's write pointer, enters it in the maps and
calls `myGcDetect`, which queues zones with little space and much garbage (or
scattered lifetimes). When `gl` zones are queued it calls
`myGarbageCollection`, which copies the valid records of each of them - through
`myInsert` - and resets it.

The engine runs in one thread. What is hard is the depth of the calls: an
update may call `myInsert` in the middle of a page, `myInsert` may run a whole
collection, the collection calls `myInsert` again, and each of these levels has
records in local arrays while `block_valid_map`, `key_index` and the device are
half changed. No test of the repository exercises this.

libzbd is a library for programs with threads, on a device that other programs
use at the same time: a report is made of many requests to the kernel, a list of
two reports, a dump of one list and many reads, a restore of five passes of
commands that the device may refuse. gzbd runs every command in a thread of its
own behind a modal dialog, while the main loop goes on drawing from the same
zone list.

What makes each part correct:

* engine: no record is lost, doubled or changed by an update or a collection;
  the maps agree with the device; the queue is bounded and drained; a collection
  does not use up space; every request ends; an update finds the key it is for
  (the assertion of line 443; two others can fail, section 6);
* zone lifetimes: they order the keys by their last change, exactly the valid
  blocks have one, and they only choose among placements that lose nothing;
* generator: only present keys are modified or deleted, hot and cold keys stay
  apart, its probing ends;
* libzbd: a report in batches is one that the device could have given; an
  operation does the zones of its range, in order, and no other; the descriptor
  table is neither leaked nor overrun nor read after a release;
* `zbd` tool: a restored device equals the dumped one, whatever was aborted
  before; a range means the same zones in every command;
* gzbd: the tabs are the open devices, the list is the filtered report, a
  command changes only the zone selected, a dialog ends with its command.

## 2. Modules

| module | models | composed with |
|---|---|---|
| `KVStore` | the promise to the workload: a map from keys to sizes | implemented by `ZnsStore` |
| `ZnsStore` | the engine over the zones of the device | `KVStore` by `INSTANCE` (refinement) |
| `Lifetimes` | key, block and zone lifetimes, and what they decide | extends `ZnsStore`, whose choices it makes (refinement) |
| `Workload` | the generator | - |
| `ZonedDevice` | the zoned block device and its commands, as the kernel answers (external) | used by `ZbdDump`, `ZbdTool` |
| `ZbdFd` | the descriptor table of libzbd under threads | - |
| `ZbdReport` | reports, lists and operations of libzbd on a changing device | its range operators are used by `ZbdTool` |
| `ZbdDump` | `zbd dump` and `zbd restore`, chunk by chunk | `ZonedDevice` |
| `ZbdTool` | the other commands of `zbd`, and reports from dumps | `ZonedDevice`, `ZbdReport` |
| `GzbdDevices` | slots and tabs of gzbd | - |
| `GzbdZones` | one device in gzbd: list, filter, selection, command thread, dialog, drawing | - |
| `ZnsStoreProofs` | the theorems about `ZnsStore`: types and queue; where keys are; values and `KVStore` | |
| `LifetimesProofs` | the theorems about `Lifetimes` | |
| `WorkloadProofs` | the theorems about `Workload` | |
| `LibzbdProofs` | the theorems about reports, lists and operations, and about the descriptor table | |
| `ZbdDumpProofs` | the theorems about dump and restore | |
| `ZbdToolProofs` | the theorems about the ranges of `zbd` and its reports from dumps | |
| `GzbdDevicesProofs`, `GzbdZonesProofs` | the theorems about slots and tabs, and about the list and the commands of one device | |
| `MC...` | the instances for TLC: symmetry, devices, and what the program says of itself | |

A definition marked `fault:` is a wrong version of the one after it; no
specification uses it. Each property of a passing run has one that violates it,
so the property says something about the code.

### `ZnsStore` and `zns_simulation.cc`

State: `wp` and `media` are the device; `valid` and `index` are
`block_valid_map` and `key_index`; `gcQueue` is the set of zones with
`gc_queue[z] = 1`; `seenWp` stands for `empty_rate`, which is a function of the
write pointers at the time it was last computed; `pend`, `upd` and `gc` are the
local variables of `request_workload`, `myUpdate_Delete` and
`myGarbageCollection`. `pc` is the statement the program is at and `ret` where
an insertion outside a collection returns to when its `myGcDetect` is done (an
insertion of a collection returns at once, `gc_flag` is 1).

A page is the sequence of records its parsers find in it; sizes are in words.
A step is what happens between two calls that other functions can see: a page
write together with the maps it updates, one record of a page, one block of a
scan, one reset. `Insert` is all of `myInsert` up to its call of `myGcDetect`.

| action | code (`zns_simulation.cc`) |
|---|---|
| `ReadRequest`, `ReadPastEnd`, `Exit` | the loop of `request_workload`, 163-187 |
| `FlushBuffer`, `ServeAdd` | 188-194, 201-206 |
| `StartUpdate` ... `EndUpdate` | `myUpdate_Delete`, 382-445 |
| `Detect` | `myGcDetect`, 261-278 |
| `StartZone` ... `ResetZone`, `EndGc` | `myGarbageCollection`, 447-545 |

Uninitialised memory is a choice: `HeapWords` are the words `malloc` may have
left in `can_zone` (2 stands for any word that is neither 0 nor 1),
`StrayZones` what `zone_in` may hold when no zone is free, `StrayKeys` what
`key_read` may hold when the first page parsed has no record, and `Overrun` how
a scan beyond `block_valid_map` ends (it meets a word 1, or faults). An
assertion that fails ends the run in a state named for its line.

The ghost `live` is the map the requests so far ask for. The ghost `astray`
says that a collection has read a block of another zone, or taken a record from
a page that has none (lines 475 and 504-514). Both happen in the code;
`zns_deleted` shows what the first leads to. The safety properties speak about
the executions before; so they say what the rest of the code guarantees.

Abstractions: lifetimes. The lifetime path of `myInsert` may choose any `gl` of
the zones it compares, whether it is taken is free in every call, and the
variance test may go either way for a zone with two valid blocks or more.
`Lifetimes` shows that all choices of the code are among these. Capacity equals
zone size, as in null_blk. Rates are compared exactly, not in floats.

### `Lifetimes` and `zns_simulation.cc`

`Lifetimes` extends `ZnsStore`: all of its state and steps are there, updates that
spill twice, empty pages and scans that leave their zone among them. What is new
is the state of the lifetimes and what decides by it. `keyLife`, `blockLife` and
`zoneLife` are the three lifetime maps; an average is kept as a sum and a count
and compared by multiplication, so nothing is rounded. A sum over the blocks of a
zone counts the pairs of a block and a number below its lifetime.

| definition | code (`zns_simulation.cc`) |
|---|---|
| `get_page_lifetime`, `Aged`, `MeanOf` | 228-239, 241-244, 246-258 |
| `WidelySpread`, in `DetectSpread` | `lifetimeVarience`, 206-226, in `myGcDetect` |
| `ByEmptyRate` | the test between the two placements, 286-287 and 295 |
| `Nearer`, `Marked` | the `gl` rounds over `can_zone`, 305-317: each marks the zone nearest in lifetime that is not marked yet, so together the zones to which fewer than `gl` others are preferred |
| `NearestOf` | the choice among the words that are 1 by then, 318-324 |
| `Targets`, `Place` | all of `myInsert` up to its call of `myGcDetect` |
| `PlaceBuffer`, `PlaceSpill`, `PlaceLast`, `PlaceGcSpill`, `PlaceGcRest` | its five calls |
| `InvalidateBlock`, `RewriteRecord`, `ForgetZone` | steps of `ZnsStore` that change lifetimes: 396-397, 424-428, 536-541 |
| `Ageless` | the steps that change none |

`met` says that the record an update is at has been compared with its key
(line 424), which happens before the page is written that has no room for it. The
ghost `since` holds for each key those that were changed after it. An insertion
whose assertion fails, or that writes outside of the maps, changes no lifetime.

### `Workload` and `workload.cc`

The constructor that `main` uses (24-83): `Fill` is the loop that adds keys
before the first round, `Choose` draws the kind of a line and the random key it
begins at, `Probe` is one turn of one of the three `while` loops (`NextAbsent`,
`NextHot`, `NextCold`), and `AddKv`, `ModifyKv`, `DeleteKv` write the line.
`stored` is a ghost: what a reader of the file has stored by then.

### `ZonedDevice`

What `null_blk` and the kernel's zoned block layer answer to the ioctls and
transfers of libzbd: types, conditions, write pointers, the limits of open and
active zones, the implicit close of an implicitly open zone, and faults that
make a zone read-only or offline. It has no state of its own; the modules that
use it hold a device in a variable. `DeviceOK` says what a device can be: the
write pointer of every zone goes with its condition, and nothing is written
behind it. The instances begin with such devices, and `TypeOK` of `ZbdDump` says
that they stay such.

### `ZbdFd` and `lib/zbd.c`

`kernel` are the descriptors of the process, `fdi` is `zbd_fdi`, `infos`, `info`
and `freed` the structures `zbd_info`, `th` the call of each thread. `OpenFile`,
`OpenInfo` and `OpenFails` are `zbd_open` (374-420), `CloseFile` and `ClosePut`
are `zbd_close` (425-436) with close(2) before the release, `UseStart` and
`UseEnd` stand for every call between `zbd_get_fd` and its last look at the
structure. `ModelOf`, `LimitOf`, `NrZones`, `InfoOf` are what the library
makes of sysfs and the ioctls (62-334). `Openers` and `CloseWaits` say how a
program uses the library: in gzbd one thread opens and closes, and the modal
dialog keeps it from closing while a command runs. `FdInit`, `FdNext`, `FdSpec`
and `FdTypeOK` have names of their own, so that `LibzbdProofs` can extend this module
and `ZbdReport` together.

### `ZbdReport` and `lib/zbd.c`

`call` is the frame of `zbd_report_zones`, `zbd_list_zones` or
`zbd_zones_operation`; `RequestZones` is one `BLKREPORTZONE` and the loop over
its answer (585-617), `RequestFails` its error, `ReportDone` the end of the
loop, where a list allocates its array and reports again (631-671),
`OperateZone` one zone of a command (748-762). `Change` is any other program,
between any two of these. The ghosts `always` and `ever` hold the zones that
matched the filter all the time, and at some time, since the call began.
`InRange` is what the properties call the range: the zones that it touches, where
an offset between the capacity and the end that the smaller last zone would have
at full size is still in that zone, as in the code (566-570).

### `ZbdDump` and `tools/cli/zbd_dump.c`

`dev` is the device attached, `data` and `info` are the two files, `run` is the
frame of `zbd_dump` or `zbd_restore`. A dump is `DumpStart` (list, truncate),
`DumpSize`, `DumpZone` for every chunk, `DumpData`, `DumpInfo` (information
file: truncated first, written last). A restore is `RestoreStart` (all checks
of `zbd_load_zone_info` and `zbd_open_zone_data`), then five passes of
`RestoreZone` and `NextPass`: reset, conventional and full zones, closed,
explicitly open, implicitly open. `Abort` is an error of any call, or a kill, at
any step. `Host` is any other program or a fault, `Attach` another device.
With `ShortIO`, a transfer may need a second system call (`Moved`).

### `ZbdTool` and `tools/cli/zbd.c`

Every run of the tool is one step on `dev` and `dump`: `Manage` (reset, open,
close, finish), `Report` from the device, `ReportDump` from a file, `Dump` and
`NothingToDo` (refused arguments, or an offset behind the device). The range of
a run goes through `main` (454-496), then through the library, whose
`RangeFirst` and `RangeEnd` are those of `ZbdReport`. `Room` is the array that a
report allocates. A listing from a dump that is longer (`Overflow`) writes one
entry behind the array; what this leads to is a choice, the run prints the
listing or is stopped (`Killed`).

### `GzbdDevices` and `tools/gui`

`dz` holds the slots, their count, the notebook and the frame shown when no
device is open. `DzClose`, `RemoveDevice`, `HideNodev`, `ShowNodev` are the
functions of these names; `AddRefused`, `AddFails`, `AddDevice` are the ways out
of `dz_if_add_device` and `dz_open`; `CloseCurrent`, `ClosePage`, `Exit` and
`Signal` the callbacks. A closed slot is filled with zeros, so its descriptor is
0: `dz_open` never chooses it again, and the loops over the slots take it for
one of a device; both are in the model.

### `GzbdZones` and `tools/gui`

The main thread (`ui`), the command thread (`cmd`) and the drawing callback
(`draw`), which the main loop runs also while a dialog is up. `Exec` is
`dz_cmd_exec`; `Refresh`, `FilterSet`, `ZoneOp`, `SelectRow`, `ZnumSet`,
`ZblockSet` are the callbacks of the user; `ZoneOperation`, `ReportZones`,
`ApplyFilter` and `Respond` are the thread, one zone at a time where it applies
the report; `DialogRun`, `DialogEnd`, `Dismiss`, `Join` the main thread in
`dz_cmd_exec`. `Respond` reaches a dialog only if it runs already. A drawing
(`DrawZone`) adds up the capacity of the zones in view first and divides by it
later, while the thread may change which zones are visible: a zone that has come
into view since, where none was, makes it divide by 0, which stops the program.

## 3. Runs

A passing run explores its instance completely.

| run | instance | what it shows |
|---|---|---|
| `zns_small` | keys 2, sizes 1 and 2, 3 zones of 2 blocks, `gl = 1`, 5 requests, variance on | no key is lost, stale or changed by any interleaving of updates and collections, the maps agree with the device, collections do not use up space, an update meets its key (line 443); the engine implements `KVStore` (`ImplementsMap`) |
| `zns_queue` | keys 2, size 1, 3 zones of 3 blocks, `gl = 2`, 6 requests | zones are queued while they still have space: the queue holds at most `gl` zones, and `gl` only during a collection; every request ends |
| `life_zones` | 3 keys, sizes 1 and 4, 3 zones of 2 blocks, `gl = 2`, `RECENT_MODIFY` 4, 6 requests (458,590 states) | lifetimes keep the order of the changes, belong to valid blocks only, and every step is one of `ZnsStore`: every zone they choose or queue is one that it allows |
| `workload_lines` | 10 keys, 4 hot, 3 rounds, 3 additions before them | every line can be served in its place, the three probes keep to their kind of key, and end when they can; one for an absent key comes nearer to it at every turn (`AbsentNearer`) |
| `fd_table` | 2 threads, one opens and closes, 4 devices, 3 descriptors, 4 structures | descriptors work while held, nothing is read after its release, nothing leaks |
| `report_zones` | 3 zones, the last one half, batches of 2, 2 changes by others | reports, lists and operations over every range, with errors, on a device that changes at any moment |
| `dump_restore` | 2 zones of 2 chunks; one device without limits and with a conventional zone, one with one open and two active zones at most; 4 actions of others, 2 restores | a restore that succeeds gives back what was dumped, after aborts and retries too; other zones are left alone; the order of the passes meets no limit |
| `tool_ranges` | 3 zones, one conventional, one may be open and two active; ranges that are whole, cut, unaligned, empty and beyond; a unit of a sector and one larger than a zone | a command brings all zones of its range to the condition it is named for or fails, and leaves those behind the failure and outside of the range; a dump gives the report of its device, within its array |
| `gzbd_tabs` | 5 slots (`DZ_MAX_DEV` is 32), 3 opens that fail half-way | tabs, slots and descriptors stay in step in every order of events |
| `gzbd_zones` | 3 zones, one conventional, two filters, reset and open | list, filter, row and count agree whenever the user can act; commands change the selected zone only; dialogs end, unless a drawing stops the program |
| `zns_deleted` (violation) | 2 keys, 3 zones of 2 blocks, 8 requests | a first scan that leaves its zone makes a second copy of a block; a key deleted later comes back |
| `dump_short_io` (violation) | transfers in two system calls | a restore succeeds with other data |

### Why the bounds are enough to be worth running

`ZnsStore`: pages have 5 words with a header of 1 word (`PageSize`, `Header`: one
record of any size fits, two of size 1 fit, two of size 2 do not), thresholds are
the code's `se = sg = 40 %`. `Length` bounds the number of requests; a run reads
any workload up to that length and may end anywhere. With `gl = 1` and 2 blocks
a collection starts every few requests, and within 5 requests it starts in the
middle of an update whose page overflows, merges two pages into one and copies
a page whole; the scans of the first and of the following blocks, scans that
leave the zone and empty pages all occur. Zones of 3 blocks are the smallest
that are due before they are full (one block is less than 40 %), which lets a
queued zone have space. Keys are symmetric, since every key can be named by
every request; the run with a liveness property uses no symmetry.

`Lifetimes`: with pages of 6 words three records of size 1 fill a page, and one of
size 4 leaves room for no other. Six requests give three keys of different age and
an update in the middle of which a collection runs; 4 is enough of a
`RECENT_MODIFY` for three keys to have different lifetimes below it. `SZ = 60` lets
both placements of `myInsert` happen (two recorded zones of three), and with
`SE = SG = 40`, `SL = 1` zones are queued by garbage and by variance.

`Workload`: 10 keys and 3 rounds move the window by 3, so it overlaps the one
before and never begins at 0 again; cold probes wrap around below and above it.
With 4 hot keys the hot probe steps by 1, 4 and 7 modulo 4 in the three rounds: in
the second one it stays on its key for ever if that is not stored, which is the
condition (`HotReachable`) that `ProbesEnd` states.

`ZbdFd`: three descriptors can all be in use, and four structures let a
descriptor be used again after a close. Among the devices is one that is not
zoned, one whose limits are not exported and one that does not tell its zone
size. `ZbdReport`: batches of two (`Batch`) on three zones make two requests of
every full report, the last zone is smaller than the others (`Capacity` 5,
`ZoneSize` 2), and two changes (`Changes`) can fall into different batches.
Lengths and offsets are on and off the boundaries of zones; the offsets go beyond
the capacity and beyond the end that the last zone would have at full size.

`ZbdDump`: two zones are enough to have one inside and one outside of a range, to
run out of the one slot for an open zone, and for a pass to skip one; chunks of
which two make a zone give write pointers at the start, in the middle and at the
end. `HostOps` = 4 lets other programs bring both zones to any pair of
conditions before the dump, and change the device between dump and restore or
during the dump. `DuringDump` leaves out resets and writes in place: of data that
change while they are copied a dump promises nothing. `Attempts` = 2 is an aborted restore and a retry.

`ZbdTool` and the gzbd modules: sequences have no bound but that of their state
spaces (`Writes` of other programs in `ZbdTool`; `MaxFailed` in `GzbdDevices`,
where every open that fails half-way lowers the count of devices once more).

Every property of a passing run is shown to depend on the code: one of the
definitions marked `fault:`, put in the place of the right one, violates it.

### Fairness

`ZnsStore`: `WF_vars(Serving)`, on everything the program does once it has read a
request. The program is one thread that never waits: what it can do it does.
Reading the next request has no fairness, the file may be over.

`Workload`: `WF_vars(Next)`, the constructor is sequential code. The draws of
random numbers are choices, and nothing is assumed of them.

`GzbdZones`: weak fairness of the command thread (`CmdStep`), of the main thread
where it waits for nobody but the thread (`MainStep`) and of a drawing that has
begun (`DrawZone`). The user (callbacks, `Dismiss`), the requests to redraw and
other programs have none.

Deadlock is checked where a program that has ended stutters (`Stopped`), and in
gzbd's zones, whose user can always act again. The other runs have an end: the
workload is written, a bound on calls or actions of others is used up, gzbd has
been left.

## 4. Refinements

* `ImplementsMap`: `ZnsStore` implements `KVStore`, the promise to the workload.
  What is stored under a key is what the page its `key_index` names says, or,
  while an update is under way, what its buffers hold; every collection is a
  stuttering step of the map.
* `ImplementsPlacement`: an execution of `Lifetimes` is one of `ZnsStore`. The
  insertions and the detection, which `Lifetimes` states anew, are an `Insert` or
  a `Detect` of `ZnsStore`; all other steps, empty pages and scans outside of
  their zone among them, are those of `ZnsStore` itself. This is what entitles
  `ZnsStore`, and the proofs about it, to leave lifetimes out.
* `ZbdTool` takes the range of an operation from `ZbdReport`, whose
  `OperationCovers` says that these are the zones the range touches.

## 5. Proofs

TLAPS checks, for every value of the constants that the named assumptions admit:

| module | theorem | states | on |
|---|---|---|---|
| `ZnsStoreProofs` | `TypeCorrect` | `[]TypeOK` | - |
| | `QueueNeverFull` | `[]QueueBounded` | - |
| | `MapAgrees` | `[]MapMatchesDevice` | `CleanWords` |
| | `NoKeyLost` | `[]IndexNamesRecord` | `CleanWords` |
| | `UpdatesFindKeys` | `[]KeyFound` | `CleanWords` |
| | `CollectionsShrink` | `[]GcNeverGrows` | `CleanWords` |
| | `NothingStale` | `[]NoStaleCopy` | `CleanWords` |
| | `RequestsServed` | `[]Served` | `CleanWords` |
| | `MapImplemented` | `ImplementsMap` | `CleanWords` |
| `LifetimesProofs` | `LifetimesTyped` | `[]LifeTypeOK` | - |
| | `LifetimesOfValid` | `[]LifeIffValid` | - |
| | `RecencyKept` | `[]RecencyOrder` | - |
| | `BlocksNotOlder` | `[]BlockNotOlder` | `CleanWords` |
| | `PlacementImplemented` | `ImplementsPlacement` | - |
| `WorkloadProofs` | `TypesHold`, `KindsHold`, `LinesHold` | `[]TypeOK`, `[]HotAndCold`, `LinesLegal` | `WorkloadFits` |
| | `ProbesComeNearer` | `AbsentNearer` | `WorkloadFits` |
| `LibzbdProofs` | `ReportTyped` | `[]TypeOK` | - |
| | `ReportsAreSound`, `ListsAreComplete`, `OperationsCover` | `[]ReportSound`, `[]ListAllComplete`, `[]OperationCovers` | - |
| | `FdTyped` | `[]FdTypeOK` | `OneOpener` |
| | `HeldDescriptorsWork`, `NoUseAfterFree`, `NoLeak` | `[]HeldWorks`, `[]UseSafe`, `[]NothingLost` | `OneOpener` |
| `ZbdDumpProofs` | `DumpTyped` | `[]TypeOK` | - |
| | `RestoreStaysInRange` | `[]OutsideUntouched` | - |
| | `OrderOfPassesFits` | `[]NoLimitHit` | - |
| | `InfoVouches` | `[]InfoDescribesData` | `Exclusive` |
| | `RestoreRestoresDump` | `[]RestoredIsDumped` | `Exclusive` |
| `ZbdToolProofs` | `RangesManaged` | `RangeManaged` | - |
| | `DumpsReportTheDevice` | `[]DumpReportSame` | - |
| `GzbdDevicesProofs` | `DescriptorsOwned`, `TabsMatch`, `LeavingCloses` | `[]FdsOwned`, `[]TabsAreDevices`, `[]ExitCloses` | - |
| `GzbdZonesProofs` | `ListFiltered`, `OperatesOnSelected` | `[]ListIsFiltered`, `OnlySelected` | - |

Every module also rests on the assumptions that its model names about its
constants (`NumbersOK`, `StrayOK`, `OneValueFits`, `LifetimeConstants`,
`WorkloadConstants`, `FdConstants`, `ReportConstants`, `DumpConstants`,
`ToolConstants`, `GzbdConstants`, `ZonesConstants`).

### The engine

`CleanWords` says that no uninitialised word of `can_zone` is 1 and that the
uninitialised `zone_in` is no zone. Without it the theorems about keys are false
(section 6); types and the bound of the queue hold without it.

*Types.* `TypeOK` alone is not inductive: an update indexes `key_index` with a
key only because a request was read, and an insertion's return address is a
label only because `gc_flag` is up exactly during collections. `TypeInv` adds
these two facts.

*Keys.* A reset loses no key because (1) the collection has met every valid
block of the zone, (2) its own pages go to other zones, and (3) keys that are
not at home meanwhile are those in the buffers of the update it interrupts.
`Safe` states this step by step: `Homes` (every other key is at home),
`Covered` (a key whose home is in the zone is still ahead of the scan or in the
collection's buffers), `InPlace` (the zone is in the queue, the scan in the
zone), `UpdateEmpty` and `OnTheWay` (what the frame of an update holds, also
while a collection runs inside it), `Mapped` (map and device agree, so the block
a page is written to is nobody's home), and `AllSized` facts about records
without a value, which an update would drop. The proof has one lemma per action;
writing a page, common to four of them, is `InsertEffect` and `WrittenKeeps`.
That the scan misses no block is `ScanFinds`, from the existence of a first
element in every non-empty set of blocks.

*Space.* A collection writes at most one page for each valid block it has left
behind (`CollectionsShrink`): a page it writes is filled by records of blocks
that were read since the page before, and one block never fills two.

*Values.* `Held` adds to `Safe` where the values are. A key has one record at
most among the buffer of additions (`Additions`), the buffers of an update
(`Rewrites`) and the valid blocks that no collection has read (`Single`,
`Sole`); what a collection holds are copies of the records at home (`Copies`).
Then `Answers`: every key has the value the requests ask for, except the key of
a request that is not served yet. Each action is shown to change the value of no
other key, and that of the request only to the size it asks for (`Changes`).
`NothingStale` and `RequestsServed` are read off `Held`, and `Changes` is the
step of `KVStore` that `MapImplemented` needs.

### Lifetimes

`LifeInv` is inductive for any words on the heap (`LifeAlways`). It joins `TypeInv`
of the engine, the types, `LifeIffValid` and `RecencyOrder` with `Aging`: a key has
lifetime 0 only during the update that changes it. So the key that changes is below
all others even if the update writes a page before it is done with the key, since
every page that is no addition ages all keys. `PlaceOrder` does this for one page,
so the number of pages of an update does not matter. The types of the averages
(`MeansInv`) need that a sum over blocks of one zone is at most `BPZ * Recent`
(`SumBound`).

`BlockNotOlder` needs the engine: `Young` says of every valid block that it is no
older than the keys whose record it holds. The update that makes a key young again
must find it in no valid block; `ChangedNowhere` gets this from `Rewrites` of
`Held`, the invariant that the values of the engine rest on, so this theorem is
about `CleanWords` as those are. `PlaceYoung` is the step of a page that is written.

`PlacementImplemented` is a simulation, step by step (`StepRefines`), that needs
only `LifeInv`. Its core is `MarkedAllowed`: `gl` rounds, or as many as there
are free zones, mark that many different zones. `Nearer` is a strict total order
on zones (`NearerOrder`, by cross-multiplication of fractions in
`FractionsChain`), so that the number of zones before another one runs through
every value (`Ranks`), and the zones with fewer than `gl` before them are
exactly `gl`. `SpreadNeedsTwo` shows that a zone with one valid block has no
variance.

### The generator

Assumptions: `WorkloadConstants` and `WorkloadFits` (the last window ends before
`MaxKey`, and there are fewer lines than keys). `IInv` is `TypeOK`, `HotAndCold`,
`bitmap = stored`, and that only a finished generator is past the last round.
The work is in the arithmetic: `ShiftFits` (the window of every round lies within
the keys; the product of round and shift is bounded by that of the last round)
and `ColdKey` with `ModOnce` (a cold key, shifted and wrapped around, is outside
of the window).

`ProbesComeNearer` is what there is to say of the loop for an absent key without
fairness. `CountInv`: the bitmap has at most as many keys as lines have been
written, because a line sets one bit at most; with fewer lines than keys one is
always absent (`SomeAbsent`). The first absent key from the one looked at is some
number of turns away, fewer than there are keys (`FirstAbsent`, from the least
number, and `OneDistance`), and a turn takes one off it (`TurnTaken`). With the
fairness of sequential code the loop ends; that last step is left to TLC
(`ProbesEnd`).

### The descriptor table

Assumptions: `FdConstants`, and `OneOpener`: at most one thread opens and closes,
and it closes no device that a call uses. `FdInv` is `FdTypeOK`, `HeldWorks` and
three facts. `Threaded` says what each thread may rely on between its steps: the
descriptor of an open or a close under way is nobody else's, and a call under
way uses a descriptor that is held, with the structure the table has for it.
`Entered` says that every descriptor and every entry of the table belongs to a
holder or to such a step, and that two descriptors never share a structure.
`Tabled` says that a structure is in the table until it is freed. `FdTypeOK` is part of
the invariant and proved; the run leaves it to the proof. `HeldWorks`
alone is not inductive: without `Threaded` a close could release the structure
of another descriptor. There is one lemma per action.

### Reports, lists and operations

`ReportInv` follows the loop of a call. `Walking`: it stands on an edge between
zones, and the zones it is through with (`Passed`) are in the range. `Counting`:
what it has counted, or put in the array, lies between the zones it has passed
that matched all the time and those that matched at some time. `Operating`: the
zones done are those passed, in order. The function that runs through one answer
of the kernel is recursive; `TraceExists` and `BatchKeeps` prove what it
preserves by a least counterexample among its steps. The rest is arithmetic of
positions (`Multiples`, `EndOfRange`, `Advance`): the walk goes from edge to edge,
ends with the range, and has then passed all of it (`WalkEnds`). The proof holds
for any offsets, also behind the device; there it needed `InRange` to be what
section 2 says, and the instance was extended to such offsets.

### Dump and restore

`DumpTyped` shows first that a device stays a possible device (`DeviceOK`) under
every command, with one lemma for each command on what it changes (`Alike`: same
zones and limits; `Apart`: no other zone changes but one that loses its slot).

`Exclusive` says: transfers are whole, one dump is made under a prefix, and
nobody writes in place or resets while it runs. The code needs each of these: a
short transfer spoils the data (`dump_short_io`), a second dump that is killed
leaves data that do not fit the information file (section 6), and of data that
change while they are copied nothing can be said. `Spooled` is the invariant
during the dump: what other programs append is behind the write pointers listed
(`Still`), and what has been copied is what was there.

`Restoring` is the invariant of the five passes: every zone of the range whose
turn has come is rebuilt, one whose turn is still to come is empty, and the
slots in use are at most those that the dump had (`Placed`, `Progress`,
`LimitsFit`); so no command is refused (`NoRefusal`, which counts the zones with
slots on both sides: `Fewer`, `Room`, `OwnSlot`). `Loaded` adds that the chunks on
the device come from the data file, and with `InfoDescribesData` a finished
restore has what was dumped.

### Ranges of the tool

`Spans` is the arithmetic that the three ways of computing a range have in common:
for a range of whole zones that begins on the device, the zones from `FirstZone` to
`LastZone`, those that `zbd_dump_report_zones` goes through, and those that the range
touches are the same; the library gets there by rounding to zones, the tool by a
division that rounds up. It also gives that a range of whole zones has room in the
array of a report, so a listing from a dump does not leave it.

`Through` is the invariant of the loop over the zones of a command: the zones it has
been through are in the condition of the command (`TargetOf`), all others are `Kept`,
which means unchanged or closed because they were implicitly open; behind a zone
that failed all are kept. A zone is closed at most once (`KeptTwice`), and one that
has the condition of the command is not closed to make room for another
(`NotImplicit`); `CommandDone` is what every command of `ZonedDevice` does to its
zone and to the others. The set of outcomes of the loop is a recursive
function, and `OperatedThrough` is proved by its first turn without the invariant.
Of the device the proof needs only that its records have their fields (`Shape`).

A report from a dump puts the zones in order with the function that `OrderOf` proves
to be ascending and onto; `FromDumpSame` joins it with `Spans`.

### Devices and tabs of gzbd

The properties are not inductive: that a tab closes its own device and no other
rests on where pages are. `DevInv` says of each slot that it is open with its
descriptor and its own page, or has neither (`Paged`); that the descriptors of
the library are those of the open slots, one for each (`Owned`); that the tabs
are of open slots and distinct (`Tabbed`); and, as long as no open has failed
half-way, that all open slots are counted and have a tab (`Counted`). The last
one is lost for good by such a failure, which lowers a count that it never
raised; the others are not. A free slot implies a free descriptor
(`FreeFdIsFree`, by counting). `dz_if_close_cb` looks for the first slot with the
page of the current tab: there is only one, unless the notebook is empty, when it
takes a cleared slot (`CloseCurrentInv`). The loop of the exit callbacks removes
cleared slots too, and the last tab with them, so tabs and slots come apart on the
way; `Sound` is what is left of the invariant then, and slots the loop has been
through are not open (`Through`, `RemoveAllSound`). Recursion over the slots is
replaced by a least counterexample, as for reports (`TraceExists`).

### The list of a device of gzbd

`ListInv`: the user can act only when no command runs, and a command on a zone is
for the zone selected (`OneCommand`). `Applied` is the invariant of the loop that
applies a report: the entries left are of zones to come, in ascending order, the
visible zones it has been through pass the filter, and there are as many of both as
`nr_zones` says. It needs that a report is in order; `OrderOf` proves it of the
function that numbers zones by how many are not above them. `ZblockSetInv` shows
that every block is of a zone.

### Only model-checked

Every invariant and every action property of the passing runs is proved. What is left
is `RequestServed`, `ProbesEnd` and `CommandEnds`: they are liveness under fairness,
which the prover cannot do. Of `ProbesEnd` the measure is proved
(`ProbesComeNearer`), for the absent keys. The properties of the violation runs are
refuted by their counterexamples.

## 6. Where the code and what is said of it differ

Shown by a run:

* `zns_deleted`: the scan for the first valid block of a zone that has none goes
  on into the next zone and copies a block from there
  (`zns_simulation.cc:475`). The original stays valid beside its copy, is copied
  again by the collection of its own zone, and one of the two survives the
  deletion of the key: a later collection stores the key again.
* `dump_short_io`: `zbd_rw` goes on at the start of the buffer after a short
  transfer (`zbd_dump.c:29`), and a restore succeeds with other data.

In the models, without a run of their own. Properties say where they stop:

* A deletion of the only record of a page writes an empty page as a valid block
  (`zns_simulation.cc:407-411`). A collection that meets it behind the first block
  of a zone takes a record of size 0 from it, under the key read last or an
  uninitialised one (504), and a key loses its value.
* A request at the end of the file is served twice (164); a deletion then reads the
  page of a key that has none, and the assertion of line 394 fails. `Served` speaks
  of the requests of the file.
* When no zone is free, `zone_in` is not set (line 288), and the assertion of
  line 327 fails or memory outside of the maps is written.
* A word 1 in the uninitialised `can_zone` (283) makes a zone a candidate that was
  not marked, and so tested neither for being full nor for being queued: the
  assertion of line 327 fails, or a page is lost with the reset of its zone. On
  clean words a full zone is not chosen while another one is free.
* The variance counts blocks with a lifetime above 0, the averages those from 0
  on; without any it is a NaN, which no threshold exceeds. A zone that was
  collected has lifetime 0 until it is written, so it counts as recorded.
* `zbd_close` closes the descriptor before it releases the entry (`zbd.c:434`); of
  two threads that open and close, one releases the entry of the other, and
  `HeldWorks` fails.
* A list with a filter is counted in one report and filled in another (`zbd.c:646`);
  a zone that matched all the time may be missing, if others come to match between
  the two.
* Limits that cannot be read are reported as 0, which means none.
* `zbd_report_zones` returns `-errno` where `zbd.h` says -1.
* A report or an operation at an offset behind the capacity, but before the end
  that the smaller last zone would have at full size, is done on that zone.
* `zbd restore` does not reset zones that the dump lists as empty: they keep
  their data. Zones that it leaves alone keep their slots, and a dump that fits
  the device may then fail half-way, or leave an implicitly open zone closed.
* A second dump under a prefix that is killed leaves its data with the
  information of the first.
* A range with the default length is refused by reset, open, close and finish if
  the last zone is smaller than the others; the unit of `-u` is tested and
  never applied. A report allocates an entry for each zone size that the length
  has begun (`zbd.c:102-107`). One from the device stops there; one from a dump
  lists all zones that the range touches (`zbd_dump.c:123-137`), and writes one
  entry behind the array if the range crosses one boundary more than that.
* In gzbd the count of devices is lowered by every open that fails half-way, so
  the notebook may go while devices are open; slots are never used again.
* A zone command on a zone behind the number of zones that the filter lets
  through is refused; a zone chosen by its number highlights the row of that
  number in the filtered list; a command that failed is shown as done if the
  report behind it succeeds.
* In gzbd a drawing divides by 0, an integer division that stops the program, if a
  zone becomes visible in a view that had none when the drawing added up its
  capacity.

## 7. Not modelled

* gzbd-viewer, which shows one device and changes nothing; in gzbd the
  construction of widgets, the text of cells and tooltips, legends, the choice of
  units. They compute what is displayed, not what is done.
* `zbd_utils.c`: names of conditions, reading single files of sysfs. Its answers
  are `Attr` in `ZbdFd`.
* What the commands print, and the result files.
* The content of values in the engine: a value is known by its size.
* Integer widths (byte offsets of 2 GiB and more in `zns_simulation.cc:477`), the
  bound of the arrays of `MAX_KV_PER_BLOCK` records, descriptors from
  `ZBD_FD_MAX` on, negative offsets of the tool.
* `open_zone`, `close_zone` and `finish_zone` of the controller, which nothing
  calls; capacities below the zone size in the engine. `set_zone` hands
  `zbd_report_zones` an uninitialised size; the models begin when the zones are
  known.
* The sequential constructor of the generator, which nothing calls; additions
  still in the buffer at the end of the file are not written, which `Served`
  takes into account.
* In gzbd: the second `pthread_join` of a command that never had a dialog, and
  timers, whose refresh is the `Refresh` of the user.
* `compare.cc` (not built, its insertion is empty), `main.cc` (three calls), the
  scripts.

## 8. Plan

1. `KVStore`, `ZnsStore`, type correctness and the theorems about lost keys: done.
2. `Lifetimes`, `Workload`, the modules of libzbd, `zbd` and gzbd with their runs,
   the theorems about descriptors and about the generator: done.
3. The theorems about the engine's values and its map, lifetimes and placement,
   reports and operations, dump and restore: done.
4. The theorems about the devices, tabs and zone lists of gzbd: done.
5. `RangeManaged` and `DumpReportSame` of `ZbdTool`, with its loops written as
   functions on the zones of a range, and the measure of the probe for an absent
   key: done.
