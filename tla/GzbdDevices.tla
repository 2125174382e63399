----------------------------- MODULE GzbdDevices ----------------------------
(***************************************************************************)
(* The devices that gzbd has open: the slots of dz.dev, their count and    *)
(* the tabs of the notebook that stand for them.  The callbacks run one at *)
(* a time in the GTK main loop.  A slot is unused (dev_fd = -1), open, or  *)
(* cleared: dz_close fills it with zeros, so its dev_fd is 0 from then on. *)
(* The tab of a device is named by its slot: a slot has one at most.       *)
(***************************************************************************)
EXTENDS Integers, Sequences, SequencesExt, FiniteSets

CONSTANTS
    MaxDev,       \* DZ_MAX_DEV
    Outcomes,     \* how opening may end: "open", "no_device", "no_zones"
    MaxFailed     \* bound: opens that fail after zbd_open

Slots  == 1 .. MaxDev
NoPage == 0
NoBook == <<NoPage>>                     \* dz.notebook = NULL

ASSUME GzbdConstants ==
    /\ MaxDev \in Nat \ {0} /\ MaxFailed \in Nat
    /\ Outcomes \subseteq {"open", "no_device", "no_zones"}

VARIABLES
    dz,       \* the fields of dz: dev, nr_devs, notebook, no_dev_frame
    fds,      \* the descriptors that the library has open
    main,     \* whether the main loop runs
    failed    \* opens that failed after zbd_open

vars == <<dz, fds, main, failed>>

OpenSlots  == {i \in Slots : dz.dev[i].fd > 0}
Selectable == {i \in Slots : dz.dev[i].fd < 0}

-----------------------------------------------------------------------------

\* fault: the slot can be used again
DzCloseReuse(s, i) ==
    IF s.dz.dev[i].fd < 0 THEN s
    ELSE [dz  |-> [s.dz EXCEPT !.dev[i] = [fd |-> -1, page |-> NoPage], !.nr_devs = @ - 1],
          fds |-> s.fds]

\* dz_close; zbd_close refuses a descriptor that is not of a device.
DzClose(s, i) ==
    IF s.dz.dev[i].fd < 0 THEN s
    ELSE [dz  |-> [s.dz EXCEPT !.dev[i] = [fd |-> 0, page |-> NoPage], !.nr_devs = @ - 1],
          fds |-> s.fds \ {s.dz.dev[i].fd}]

\* gtk_notebook_page_num for the page of slot i.  A page that the notebook does not have
\* is number -1, for which gtk_notebook_remove_page takes the last one.
PageNum(book, i) ==
    IF Contains(book, i) THEN CHOOSE n \in DOMAIN book : book[n] = i ELSE Len(book)

\* The tabs that gtk_notebook_remove_page leaves.
Without(book, i) == IF book = NoBook THEN NoBook ELSE RemoveAt(book, PageNum(book, i))

\* dz_if_show_nodev, dz_if_hide_nodev
ShowNodev(d) == [d EXCEPT !.notebook = NoBook, !.no_dev_frame = TRUE]

HideNodev(d) == [d EXCEPT !.no_dev_frame = FALSE,
                          !.notebook = IF @ = NoBook THEN << >> ELSE @]

\* fault: the count is taken before the device is closed
RemoveCountsEarly(s, i) ==
    LET c == DzClose(s, i)
        d == [c.dz EXCEPT !.notebook = Without(@, i), !.dev[i].page = NoPage]
    IN  [c EXCEPT !.dz = IF s.dz.nr_devs = 0 THEN ShowNodev(d) ELSE d]

\* dz_if_remove_device
RemoveDevice(s, i) ==
    LET c == DzClose(s, i)
        d == [c.dz EXCEPT !.notebook = Without(@, i), !.dev[i].page = NoPage]
    IN  [c EXCEPT !.dz = IF d.nr_devs = 0 THEN ShowNodev(d) ELSE d]

Becomes(s) == dz' = s.dz /\ fds' = s.fds

-----------------------------------------------------------------------------

\* The lowest descriptor that the program, its pipes and the display leave free.
FreeFd == CHOOSE f \in 1 .. MaxDev : f \notin fds /\ \A g \in 1 .. f - 1 : g \in fds

Slot == CHOOSE i \in Selectable : \A j \in Selectable : i <= j

\* dz_if_add_device: no slot left, or zbd_open fails, and nothing changes ...
AddRefused ==
    /\ main = "runs"
    /\ Selectable = {} \/ "no_device" \in Outcomes
    /\ UNCHANGED vars

\* ... or the device is open, but its zones do not fit the block size or cannot be
\* listed: dz_close, before dz.nr_devs counts the device ...
AddFails ==
    /\ main = "runs" /\ "no_zones" \in Outcomes /\ failed < MaxFailed
    /\ Selectable # {}
    /\ Becomes(DzClose([dz |-> [dz EXCEPT !.dev[Slot].fd = FreeFd], fds |-> fds \cup {FreeFd}],
                       Slot))
    /\ failed' = failed + 1
    /\ UNCHANGED main

\* ... or it gets a tab.
AddDevice ==
    /\ main = "runs" /\ "open" \in Outcomes
    /\ Selectable # {}
    /\ dz' = [HideNodev(dz) EXCEPT !.dev[Slot] = [fd |-> FreeFd, page |-> Slot],
                                   !.nr_devs = @ + 1, !.notebook = Append(@, Slot)]
    /\ fds' = fds \cup {FreeFd}
    /\ UNCHANGED <<main, failed>>

\* dz_if_get_device for the current page p: the first slot that is not unused and
\* has this page.
DevicesOf(p) == {i \in Slots : dz.dev[i].fd >= 0 /\ dz.dev[i].page = p}

\* dz_if_close_cb, with any tab selected, or none in an empty notebook.  (Bound: the
\* cleared slots of an empty notebook can be closed for ever.)
CloseCurrent ==
    /\ main = "runs" /\ dz.notebook # NoBook /\ dz.nr_devs > -MaxDev
    /\ \E p \in IF dz.notebook = << >> THEN {NoPage} ELSE Range(dz.notebook) :
          /\ DevicesOf(p) # {}
          /\ Becomes(RemoveDevice([dz |-> dz, fds |-> fds],
                                  CHOOSE i \in DevicesOf(p) : \A j \in DevicesOf(p) : i <= j))
    /\ UNCHANGED <<main, failed>>

\* dz_if_close_page_cb: the button of a tab knows its slot.
ClosePage ==
    /\ main = "runs" /\ dz.notebook # NoBook
    /\ \E i \in Range(dz.notebook) : Becomes(RemoveDevice([dz |-> dz, fds |-> fds], i))
    /\ UNCHANGED <<main, failed>>

\* fault: the loop stops when the notebook is gone
RemoveAllTabs(s) ==
    LET after[i \in 0 .. MaxDev] ==
            IF i = 0 THEN s
            ELSE LET t == after[i - 1]
                 IN  IF t.dz.notebook # NoBook /\ t.dz.dev[i].fd >= 0
                     THEN RemoveDevice(t, i) ELSE t
    IN  after[MaxDev]

\* One turn of the loop of dz_if_exit_cb and dz_if_delete_cb: it takes the cleared slots
\* too.
RemoveSlot(s, i) == IF s.dz.dev[i].fd >= 0 THEN RemoveDevice(s, i) ELSE s

RemoveAll(s) ==
    LET after[i \in 0 .. MaxDev] == IF i = 0 THEN s ELSE RemoveSlot(after[i - 1], i)
    IN  IF s.dz.notebook = NoBook THEN s ELSE after[MaxDev]

\* dz_if_exit_cb, dz_if_delete_cb
Exit ==
    /\ main = "runs"
    /\ Becomes(RemoveAll([dz |-> dz, fds |-> fds]))
    /\ main' = "left" /\ UNCHANGED failed

\* dz_process_signal leaves the main loop and closes nothing; the process ends.
Signal ==
    /\ main = "runs" /\ main' = "killed" /\ fds' = {}
    /\ UNCHANGED <<dz, failed>>

-----------------------------------------------------------------------------

Init ==
    /\ dz = [dev |-> [i \in Slots |-> [fd |-> -1, page |-> NoPage]], nr_devs |-> 0,
             notebook |-> NoBook, no_dev_frame |-> TRUE]
    /\ fds = {} /\ main = "runs" /\ failed = 0

Next == AddRefused \/ AddFails \/ AddDevice \/ CloseCurrent \/ ClosePage \/ Exit \/ Signal

Spec == Init /\ [][Next]_vars

-----------------------------------------------------------------------------
(* Properties.                                                             *)

\* Types: the fields of dz are in range, and the count is never above the number of
\* devices that are open.
TypeOK ==
    /\ dz \in [dev : [Slots -> [fd : -1 .. MaxDev, page : {NoPage} \cup Slots]], nr_devs : Int,
               notebook : {NoBook} \cup Seq(Slots), no_dev_frame : BOOLEAN]
    /\ \A i \in Slots : dz.dev[i].page \in {NoPage, i}
    /\ dz.nr_devs <= Cardinality(OpenSlots)
    /\ fds \subseteq 1 .. MaxDev /\ failed \in 0 .. MaxFailed
    /\ main \in {"runs", "left", "killed"}

\* The library holds exactly the descriptors of the open slots, each for one slot,
\* whatever order of opens, failures and closes led here.
FdsOwned ==
    /\ TypeOK
    /\ main = "runs" =>
        /\ fds = {dz.dev[i].fd : i \in OpenSlots}
        /\ \A i, j \in OpenSlots : dz.dev[i].fd = dz.dev[j].fd => i = j

\* Every tab belongs to an open device.  While no open fails half-way, every open
\* device has one tab, so that each can be closed and no tab closes another's, and
\* "No device open" is shown exactly when none is, without a notebook.
TabsAreDevices ==
    /\ main = "runs" /\ dz.notebook # NoBook => Range(dz.notebook) \subseteq OpenSlots
    /\ main = "runs" /\ failed = 0 =>
        /\ dz.notebook # NoBook =>
              Range(dz.notebook) = OpenSlots /\ Len(dz.notebook) = Cardinality(OpenSlots)
        /\ \A i \in OpenSlots : dz.dev[i].page = i
        /\ dz.no_dev_frame <=> OpenSlots = {}
        /\ dz.no_dev_frame <=> dz.notebook = NoBook

\* While no open fails half-way, leaving by the button or the window closes every
\* device, although the loop takes cleared slots for devices and removes the tabs of
\* others for them.  (After such a failure the count is too low, and the notebook with
\* its tabs may be gone while a device is open.)
ExitCloses == main = "left" /\ failed = 0 => fds = {}
=============================================================================
