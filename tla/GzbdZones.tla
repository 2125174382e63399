------------------------------ MODULE GzbdZones -----------------------------
(***************************************************************************)
(* One device in gzbd: its zone list, the filter and the selection, and    *)
(* the thread that runs each command while the GTK main loop shows a       *)
(* dialog or waits.  The main loop draws the zones while a dialog is up.   *)
(* Every zone has the same length, one unit.                               *)
(***************************************************************************)
EXTENDS Integers, Sequences, FiniteSets

CONSTANTS
    MaxNrZones,   \* dzd->max_nr_zones
    CnvZones,     \* the conventional zones
    Filters,      \* the filters of the combo box that the user tries
    Ops,          \* the buttons: "reset", "open", "close", "finish"
    Draws         \* whether the drawing area is exposed

None  == -1
Zones == 0 .. MaxNrZones - 1
SeqConds == {"empty", "open", "closed", "full"}
Conds == SeqConds \cup {"not_wp"}

ASSUME ZonesConstants ==
    /\ MaxNrZones \in Nat \ {0} /\ CnvZones \subseteq Zones
    /\ Ops \subseteq {"reset", "open", "close", "finish"} /\ Draws \in BOOLEAN

VARIABLES
    dev,        \* the condition of each zone on the device
    zones,      \* dzd->zones: visible, and the condition last reported
    nrZones,    \* dzd->nr_zones
    filter,     \* dzd->zone_ro
    selection,  \* dzd->zlist_selection
    row,        \* the zone of the highlighted row of the list
    ui,         \* the main thread and its dialog
    cmd,        \* the command and its thread
    draw        \* the drawing callback

vars == <<dev, zones, nrZones, filter, selection, row, ui, cmd, draw>>

list == <<zones, nrZones>>
user == <<filter, selection, row>>

\* The conditions that a filter of the zfilter table lets through.
Through(f) ==
    CASE f = "all" -> Conds
      [] f = "conventional" -> {"not_wp"}
      [] OTHER -> {f}

Visible == {z \in Zones : zones[z].visible}

\* Zones in the order of their numbers, as zbd_report_zones and the list have them.
InOrder(S) ==
    [k \in 1 .. Cardinality(S) |-> CHOOSE z \in S : Cardinality({y \in S : y <= z}) = k]

Idle  == [pc |-> "idle", then |-> "none", answer |-> None]
NoCmd == [pc |-> "none", op |-> "none", zno |-> None, zbdz |-> << >>, i |-> 0,
          ret |-> 0, opRet |-> 0]
NoDraw == [pc |-> "none", i |-> 0, to |-> 0, cap |-> 0]

CanAct == ui.pc = "idle" /\ draw.pc = "none"

-----------------------------------------------------------------------------
(* The device.                                                             *)

\* What a command makes of a zone; the empty set: it fails.
Outcome(op, cond) ==
    CASE cond = "not_wp" -> {}
      [] cond # "not_wp" /\ op = "reset" -> {"empty"}
      [] cond # "not_wp" /\ op = "finish" -> {"full"}
      [] cond # "not_wp" /\ op = "open" -> IF cond = "full" THEN {} ELSE {"open"}
      [] OTHER -> CASE cond = "open" -> {"closed"} [] cond = "full" -> {} [] OTHER -> {cond}

\* zbd_zones_operation on the zones S: all of them, or an error after some.
Operate(op, S) ==
    {o \in [dev : [Zones -> Conds], ret : {0, -1}] :
        /\ \A z \in Zones :
              o.dev[z] = dev[z] \/ (z \in S /\ o.dev[z] \in Outcome(op, dev[z]))
        /\ o.ret = 0 => \A z \in S : o.dev[z] \in Outcome(op, dev[z])}

\* Another program writes a zone.
Change ==
    /\ \E z \in Zones \ CnvZones, c \in {"open", "full"} : dev' = [dev EXCEPT ![z] = c]
    /\ UNCHANGED <<list, user, ui, cmd, draw>>

-----------------------------------------------------------------------------
(* The callbacks.                                                          *)

\* dz_cmd_exec: the dialog, if there is one, and the thread
Exec(first, op, zno, dialog, then) ==
    /\ ui' = [pc |-> IF dialog THEN "created" ELSE "join", then |-> then, answer |-> None]
    /\ cmd' = [NoCmd EXCEPT !.pc = first, !.op = op, !.zno = zno]

Refresh ==
    /\ CanAct /\ Exec("report", "none", None, TRUE, "update")
    /\ UNCHANGED <<dev, list, user, draw>>

FilterSet(f) ==
    /\ CanAct /\ f # filter /\ filter' = f
    /\ Exec("report", "none", None, TRUE, "filter")
    /\ UNCHANGED <<dev, list, selection, row, draw>>

\* fault: the button acts on the row of the filtered list
ZoneOpRow(op) ==
    /\ CanAct
    /\ LET zno == IF row = None THEN selection ELSE Cardinality({z \in Visible : z < row})
       IN  Exec("op", op, zno, op = "reset", "op")
    /\ UNCHANGED <<dev, list, user, draw>>

\* dz_if_zone_op: only a reset comes with a message, hence with a dialog.
ZoneOp(op) ==
    /\ CanAct /\ Exec("op", op, selection, op = "reset", "op")
    /\ UNCHANGED <<dev, list, user, draw>>

\* dz_if_zlist_select_cb: a click on a row, and on the highlighted row to undo it
SelectRow(z) ==
    /\ CanAct /\ z \in Visible
    /\ row' = IF row = z THEN None ELSE z
    /\ selection' = IF row = z THEN selection ELSE z
    /\ UNCHANGED <<dev, list, filter, ui, cmd, draw>>

ClearSelection ==
    /\ row' = IF selection < 0 THEN row ELSE None
    /\ selection' = None

\* The zone in line zno of the list.
RowAt(zno) == InOrder(Visible)[zno + 1]

\* dz_if_zlist_set_selection takes the zone for the number of its line.
SetSelection(zno) ==
    /\ row' = IF zno # selection /\ zno < Cardinality(Visible) THEN RowAt(zno) ELSE row
    /\ selection' = zno

\* dz_if_znum_set_cb
ZnumSet(n) ==
    /\ CanAct
    /\ IF n \in Zones THEN SetSelection(n) ELSE ClearSelection
    /\ UNCHANGED <<dev, list, filter, ui, cmd, draw>>

\* dz_if_zblock_set_cb, with a block size of size units
ZblockSet(block, size) ==
    /\ CanAct
    /\ IF block \in 0 .. MaxNrZones \div size - 1
       THEN SetSelection(CHOOSE z \in Zones : /\ z \div size <= block
                                              /\ block < (z + 1) \div size
                                              /\ \A y \in 0 .. z - 1 : (y + 1) \div size <= block)
       ELSE ClearSelection
    /\ UNCHANGED <<dev, list, filter, ui, cmd, draw>>

-----------------------------------------------------------------------------
(* The command thread.                                                     *)

\* dz_zone_operation compares the zone with the number of zones of the filter.
ZoneOperation ==
    /\ cmd.pc = "op"
    /\ IF cmd.zno >= nrZones
       THEN /\ cmd' = [cmd EXCEPT !.pc = "report", !.opRet = -1]
            /\ UNCHANGED dev
       ELSE \E o \in Operate(cmd.op, IF cmd.zno < 0 THEN Zones ELSE {cmd.zno}) :
            /\ dev' = o.dev
            /\ cmd' = [cmd EXCEPT !.pc = "report", !.opRet = o.ret]
    /\ UNCHANGED <<list, user, ui, draw>>

\* dz_report_zones: a report of the zones of the filter, or an error ...
ReportZones ==
    /\ cmd.pc = "report"
    /\ \/ LET zs == InOrder({z \in Zones : dev[z] \in Through(filter)})
          IN  /\ nrZones' = Len(zs)
              /\ cmd' = [cmd EXCEPT !.pc = "apply", !.ret = 0,
                                    !.zbdz = [k \in DOMAIN zs |-> [no |-> zs[k], cond |-> dev[zs[k]]]]]
       \/ nrZones' = 0 /\ cmd' = [cmd EXCEPT !.pc = "apply", !.ret = -1]
    /\ UNCHANGED <<dev, zones, user, ui, draw>>

\* fault: the entries are taken in order, whatever zone they are of
ApplyFilterInOrder ==
    /\ cmd.pc = "apply"
    /\ LET hit == cmd.zbdz # << >>
       IN  /\ zones' = [zones EXCEPT ![cmd.i] =
                           IF hit THEN [visible |-> TRUE, cond |-> Head(cmd.zbdz).cond]
                           ELSE [@ EXCEPT !.visible = FALSE]]
           /\ cmd' = [cmd EXCEPT !.i = @ + 1,
                                 !.zbdz = IF hit THEN Tail(@) ELSE @,
                                 !.pc = IF cmd.i + 1 = MaxNrZones THEN "respond" ELSE @]
    /\ UNCHANGED <<dev, nrZones, user, ui, draw>>

\* ... that is applied to the zones one by one.
ApplyFilter ==
    /\ cmd.pc = "apply"
    /\ LET hit == cmd.zbdz # << >> /\ Head(cmd.zbdz).no = cmd.i
       IN  /\ zones' = [zones EXCEPT ![cmd.i] =
                           IF hit THEN [visible |-> TRUE, cond |-> Head(cmd.zbdz).cond]
                           ELSE [@ EXCEPT !.visible = FALSE]]
           /\ cmd' = [cmd EXCEPT !.i = @ + 1,
                                 !.zbdz = IF hit THEN Tail(@) ELSE @,
                                 !.pc = IF cmd.i + 1 = MaxNrZones THEN "respond" ELSE @]
    /\ UNCHANGED <<dev, nrZones, user, ui, draw>>

\* fault: only a success is told to the dialog
RespondOk ==
    /\ cmd.pc = "respond"
    /\ cmd' = [cmd EXCEPT !.pc = "end"]
    /\ ui' = [ui EXCEPT !.answer = IF ui.pc = "dialog" /\ cmd.ret = 0 THEN 1 ELSE @]
    /\ UNCHANGED <<dev, list, user, draw>>

\* dz_cmd_run ends: the answer reaches a dialog that runs already.
Respond ==
    /\ cmd.pc = "respond"
    /\ cmd' = [cmd EXCEPT !.pc = "end"]
    /\ ui' = [ui EXCEPT !.answer = IF ui.pc = "dialog" THEN IF cmd.ret = 0 THEN 1 ELSE 0 ELSE @]
    /\ UNCHANGED <<dev, list, user, draw>>

\* No thread is left once a drawing has faulted.
CmdStep == draw.pc # "fault" /\ (ZoneOperation \/ ReportZones \/ ApplyFilter \/ Respond)

-----------------------------------------------------------------------------
(* The main thread in dz_cmd_exec, and what its callers do then.           *)

DialogRun ==
    /\ ui.pc = "created" /\ ui' = [ui EXCEPT !.pc = "dialog"]
    /\ UNCHANGED <<dev, list, user, cmd, draw>>

\* The dialog has its answer, or the user dismisses it: REJECT for dz_cmd_exec.
DialogEnd ==
    /\ ui.pc = "dialog" /\ ui.answer # None /\ draw.pc = "none"
    /\ ui' = [ui EXCEPT !.pc = "join"]
    /\ UNCHANGED <<dev, list, user, cmd, draw>>

Dismiss ==
    /\ ui.pc = "dialog" /\ ui.answer = None /\ draw.pc = "none"
    /\ ui' = [ui EXCEPT !.pc = "join", !.answer = 0]
    /\ UNCHANGED <<dev, list, user, cmd, draw>>

\* pthread_join; the list is filled again, and a highlighted row that it no longer
\* has is forgotten, the selection not, except by a change of the filter.
Join ==
    /\ ui.pc = "join" /\ cmd.pc = "end"
    /\ IF ui.then = "filter" THEN row' = None /\ selection' = None
       ELSE row' = (IF row \in Visible THEN row ELSE None) /\ UNCHANGED selection
    /\ ui' = Idle
    /\ UNCHANGED <<dev, list, filter, cmd, draw>>

MainStep == DialogRun \/ DialogEnd \/ Join

-----------------------------------------------------------------------------
(* Drawing, in the main loop: the capacity of the range in view first ...  *)

\* (An answered dialog leaves its loop, which draws no more.)
DrawStart ==
    /\ Draws /\ ui.pc \in {"idle", "dialog"} /\ ui.answer = None
    /\ draw.pc = "none" /\ nrZones > 0
    /\ \E from \in Zones : \E to \in from .. MaxNrZones - 1 :
          draw' = [pc |-> "zones", i |-> from, to |-> to,
                   cap |-> Cardinality(Visible \cap from .. to)]
    /\ UNCHANGED <<dev, list, user, ui, cmd>>

\* ... then the share of each visible zone in it, by a division of integers: it
\* stops the program if the zone was not visible, nor any other, in the first pass.
DrawZone ==
    /\ draw.pc = "zones"
    /\ draw' = IF draw.cap = 0 /\ zones[draw.i].visible THEN [draw EXCEPT !.pc = "fault"]
               ELSE IF draw.i = draw.to THEN NoDraw ELSE [draw EXCEPT !.i = @ + 1]
    /\ UNCHANGED <<dev, list, user, ui, cmd>>

-----------------------------------------------------------------------------

Start == [z \in Zones |-> IF z \in CnvZones THEN "not_wp" ELSE "empty"]

\* The list that dz_open has read.
Init ==
    /\ dev = Start
    /\ zones = [z \in Zones |-> [visible |-> TRUE, cond |-> Start[z]]]
    /\ nrZones = MaxNrZones /\ filter = "all" /\ selection = None /\ row = None
    /\ ui = Idle /\ cmd = NoCmd /\ draw = NoDraw

Next ==
    \/ Change \/ Refresh
    \/ \E f \in Filters : FilterSet(f)
    \/ \E op \in Ops : ZoneOp(op)
    \/ \E z \in Zones : SelectRow(z)
    \/ \E n \in Zones \cup {None} : ZnumSet(n)
    \/ \E b \in Zones \cup {None}, size \in 1 .. 2 : ZblockSet(b, size)
    \/ CmdStep \/ MainStep \/ Dismiss
    \/ DrawStart \/ DrawZone

Spec == Init /\ [][Next]_vars

FairSpec ==
    Spec /\ WF_vars(CmdStep) /\ WF_vars(MainStep) /\ WF_vars(DrawZone)

-----------------------------------------------------------------------------
(* Properties.                                                             *)

\* Types: zones, rows and steps are in range.
TypeOK ==
    /\ dev \in [Zones -> Conds] /\ nrZones \in 0 .. MaxNrZones
    /\ zones \in [Zones -> [visible : BOOLEAN, cond : Conds]]
    /\ selection \in Zones \cup {None} /\ row \in Zones \cup {None}
    /\ ui.pc \in {"idle", "created", "dialog", "join"} /\ ui.answer \in {None, 0, 1}
    /\ cmd.pc \in {"none", "op", "report", "apply", "respond", "end"}
    /\ cmd.i \in 0 .. MaxNrZones

\* Between commands the list shows just zones that the filter lets through, in the
\* condition it shows them in, counts them all, and highlights none that it does
\* not show; after an error it is empty.  The conventional zones keep their kind.
ListIsFiltered ==
    /\ TypeOK
    /\ \A z \in Zones : (zones[z].cond = "not_wp") <=> (z \in CnvZones)
    /\ ui.pc = "idle" =>
          /\ nrZones = Cardinality(Visible)
          /\ \A z \in Visible : zones[z].cond \in Through(filter)
          /\ row = None \/ row \in Visible
          /\ (cmd.pc = "end" /\ cmd.ret = -1) => Visible = {}

\* A command with a zone selected changes no other zone of the device.
OnlySelected ==
    [][cmd.pc = "op" /\ cmd'.pc = "report" /\ selection # None =>
         \A z \in Zones \ {selection} : dev'[z] = dev[z]]_vars

\* A command whose dialog runs before its thread answers comes to its end, whether
\* it succeeds or not, with no help from the user, unless a drawing stops the
\* program.
CommandEnds ==
    ui.pc = "dialog" /\ cmd.pc \in {"op", "report", "apply", "respond"}
        ~> ui.pc = "idle" \/ draw.pc = "fault"
=============================================================================
