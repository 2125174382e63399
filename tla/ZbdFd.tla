-------------------------------- MODULE ZbdFd -------------------------------
(***************************************************************************)
(* The table of open devices of libzbd (zbd_fdi of lib/zbd.c) under the    *)
(* threads of a program.  zbd_open and zbd_close change the descriptors of *)
(* the process and the table in separate steps; every other call takes the *)
(* pointer of the table at its start and reads it until its end; with a    *)
(* descriptor that the table does not have it returns at once.             *)
(* Descriptors stay below ZBD_FD_MAX: zbd_open does not test for it.       *)
(***************************************************************************)
EXTENDS Integers, FiniteSets

CONSTANTS
    Threads,
    Openers,      \* the threads that open and close devices
    CloseWaits,   \* whether a device is closed only while no call uses it
    Devices,      \* names of the device files
    Attr,         \* what sysfs and the ioctls answer for each of them
    Unreadable,   \* no answer
    FdMax,        \* descriptors of the process: 0 .. FdMax - 1
    MaxOpens      \* bound: allocations of struct zbd_info

Fds  == 0 .. FdMax - 1
Infos == 1 .. MaxOpens               \* the structures zbd_info allocated so far
Nil == 0

ASSUME FdConstants ==
    /\ Openers \subseteq Threads /\ CloseWaits \in BOOLEAN
    /\ FdMax \in Nat /\ MaxOpens \in Nat
    /\ Nil \notin Devices

VARIABLES
    kernel,    \* the device each descriptor is open on, Nil: free
    fdi,       \* zbd_fdi: a structure, or Nil
    infos,     \* structures allocated so far
    info,      \* what each of them says: the device and its attributes
    freed,     \* structures freed
    held,      \* descriptors that zbd_open has returned and no one has closed
    th         \* the call of each thread

fdVars == <<kernel, fdi, infos, info, freed, held, th>>

Ready == [pc |-> "ready", fd |-> 0, ptr |-> Nil]

-----------------------------------------------------------------------------
(* What the library reads about a device.                                  *)

\* Without queue/zoned the device is an ordinary one if it is a block device.
ModelOf(a) ==
    IF a.zoned = Unreadable
    THEN IF a.lblock = Unreadable THEN "unknown" ELSE "not_zoned"
    ELSE CASE a.zoned = "none" -> "not_zoned"
           [] a.zoned \in {"host-aware", "host-managed"} -> a.zoned
           [] OTHER -> "unknown"

IsZoned(a) == ModelOf(a) \in {"host-aware", "host-managed"}

\* Limits that cannot be read are taken for none.
LimitOf(v) == IF v = Unreadable THEN 0 ELSE v

NrZones(a) == (a.sectors + a.zoneSectors - 1) \div a.zoneSectors

\* zbd_do_get_info, when all of its questions are answered.
InfoOf(d) ==
    LET a == Attr[d]
    IN  [dev |-> d, model |-> ModelOf(a), sectors |-> a.sectors,
         zoneSectors |-> a.zoneSectors, nrZones |-> NrZones(a),
         maxOpen |-> LimitOf(a.maxOpen), maxActive |-> LimitOf(a.maxActive)]

\* Capacity and zone size are there and not zero.
Answers(a) == Unreadable \notin {a.lblock, a.sectors, a.zoneSectors}
              /\ a.lblock > 0 /\ a.sectors >= a.lblock /\ a.zoneSectors > 0

-----------------------------------------------------------------------------
(* The calls.                                                              *)

Free == {f \in Fds : kernel[f] = Nil}

\* open(2) returns the lowest free descriptor.
LowestFree == CHOOSE f \in Free : \A g \in Free : f <= g

\* zbd_open: a zoned device is opened ...
OpenFile(t, d) ==
    /\ th[t].pc = "ready" /\ t \in Openers
    /\ IsZoned(Attr[d]) /\ Free # {}
    /\ kernel' = [kernel EXCEPT ![LowestFree] = d]
    /\ th' = [th EXCEPT ![t] = [Ready EXCEPT !.pc = "info", !.fd = LowestFree]]
    /\ UNCHANGED <<fdi, infos, info, freed, held>>

\* ... its information is gathered and entered in the table ...
OpenInfo(t) ==
    LET fd == th[t].fd
    IN  /\ th[t].pc = "info" /\ infos < MaxOpens /\ Answers(Attr[kernel[fd]])
        /\ infos' = infos + 1
        /\ info' = [info EXCEPT ![infos + 1] = InfoOf(kernel[fd])]
        /\ fdi' = [fdi EXCEPT ![fd] = infos + 1]
        /\ held' = held \cup {fd}
        /\ th' = [th EXCEPT ![t] = Ready]
        /\ UNCHANGED <<kernel, freed>>

\* fault: the error path forgets to close the descriptor
OpenFailsOpen(t) ==
    /\ th[t].pc = "info"
    /\ th' = [th EXCEPT ![t] = Ready]
    /\ UNCHANGED <<kernel, fdi, infos, info, freed, held>>

\* ... or something of it cannot be read, and the descriptor is closed again.
OpenFails(t) ==
    /\ th[t].pc = "info"
    /\ kernel' = [kernel EXCEPT ![th[t].fd] = Nil]
    /\ th' = [th EXCEPT ![t] = Ready]
    /\ UNCHANGED <<fdi, infos, info, freed, held>>

\* fault: a user can close the device while a command runs
InUseNever(fd) == FALSE

\* The command thread of gzbd; its modal dialog keeps the user from closing meanwhile.
InUse(fd) == \E u \in Threads : th[u].pc = "use" /\ th[u].fd = fd

\* zbd_close: close(2) first ...
CloseFile(t, fd) ==
    /\ th[t].pc = "ready" /\ t \in Openers /\ fd \in held
    /\ CloseWaits => ~InUse(fd)
    /\ fdi[fd] # Nil
    /\ kernel' = [kernel EXCEPT ![fd] = Nil]
    /\ held' = held \ {fd}
    /\ th' = [th EXCEPT ![t] = [Ready EXCEPT !.pc = "put", !.fd = fd]]
    /\ UNCHANGED <<fdi, infos, info, freed>>

\* ... then zbd_put_fd, on what the table holds by then.
ClosePut(t) ==
    /\ th[t].pc = "put"
    /\ freed' = freed \cup ({fdi[th[t].fd]} \ {Nil})
    /\ fdi' = [fdi EXCEPT ![th[t].fd] = Nil]
    /\ th' = [th EXCEPT ![t] = Ready]
    /\ UNCHANGED <<kernel, infos, info, held>>

\* zbd_get_info, zbd_report_zones, zbd_list_zones, zbd_zones_operation: from
\* zbd_get_fd at the start ...
UseStart(t, fd) ==
    /\ th[t].pc = "ready" /\ fd \in held
    /\ fdi[fd] # Nil
    /\ th' = [th EXCEPT ![t] = [pc |-> "use", fd |-> fd, ptr |-> fdi[fd]]]
    /\ UNCHANGED <<kernel, fdi, infos, info, freed, held>>

\* fault: the call releases the structure it has used
UseEndFrees(t) ==
    /\ th[t].pc = "use"
    /\ freed' = freed \cup {th[t].ptr}
    /\ th' = [th EXCEPT ![t] = Ready]
    /\ UNCHANGED <<kernel, fdi, infos, info, held>>

\* ... to the last look at the structure.
UseEnd(t) ==
    /\ th[t].pc = "use"
    /\ th' = [th EXCEPT ![t] = Ready]
    /\ UNCHANGED <<kernel, fdi, infos, info, freed, held>>

-----------------------------------------------------------------------------

FdInit ==
    /\ kernel = [f \in Fds |-> Nil] /\ fdi = [f \in Fds |-> Nil]
    /\ infos = 0 /\ info = [i \in Infos |-> Nil]
    /\ freed = {} /\ held = {}
    /\ th = [t \in Threads |-> Ready]

Step(t) ==
    \/ \E d \in Devices : OpenFile(t, d)
    \/ OpenInfo(t) \/ OpenFails(t) \/ ClosePut(t) \/ UseEnd(t)
    \/ \E fd \in Fds : CloseFile(t, fd) \/ UseStart(t, fd)

FdNext == \E t \in Threads : Step(t)

FdSpec == FdInit /\ [][FdNext]_fdVars

-----------------------------------------------------------------------------
(* Properties.                                                             *)

\* Types: descriptors and structures are in range, and only a thread in a call of
\* the library's readers has a pointer.
FdTypeOK ==
    /\ kernel \in [Fds -> Devices \cup {Nil}]
    /\ fdi \in [Fds -> Infos \cup {Nil}]
    /\ infos \in 0 .. MaxOpens /\ DOMAIN info = Infos
    /\ freed \subseteq 1 .. infos /\ held \subseteq Fds
    /\ th \in [Threads -> [pc : {"ready", "info", "put", "use"}, fd : Fds \cup {0},
                           ptr : Infos \cup {Nil}]]

\* A descriptor that zbd_open returned works until it is closed: the table has a
\* structure for it, which is not freed and describes the device it is open on.
HeldWorks ==
    \A fd \in held :
        /\ kernel[fd] # Nil /\ fdi[fd] # Nil /\ fdi[fd] \notin freed
        /\ info[fdi[fd]] = InfoOf(kernel[fd])

\* A call never reads a structure that another thread has freed.
UseSafe == \A t \in Threads : th[t].pc = "use" => th[t].ptr \notin freed

\* Nothing is lost: a descriptor that is open in the kernel belongs to a caller or
\* to an open under way, and a structure that is not freed is in the table.
NothingLost ==
    /\ \A fd \in Fds : kernel[fd] # Nil =>
          fd \in held \/ \E t \in Threads : th[t].pc = "info" /\ th[t].fd = fd
    /\ \A i \in 1 .. infos : i \in freed \/ \E fd \in Fds : fdi[fd] = i
=============================================================================
