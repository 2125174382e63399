--------------------------- MODULE GzbdZonesProofs ---------------------------
(***************************************************************************)
(* One device in gzbd, for any number of zones and whatever the commands   *)
(* report: proofs that the list is what the filter lets through whenever   *)
(* the user can act, and that a command changes the selected zone only.    *)
(***************************************************************************)
EXTENDS GzbdZones, FiniteSetTheorems, TLAPS

Views   == [visible : BOOLEAN, cond : Conds]
Entries == [no : Zones, cond : Conds]
Dialogs == [pc : {"idle", "created", "dialog", "join"},
            then : {"none", "update", "filter", "op"}, answer : {None, 0, 1}]
Cmds    == [pc : {"none", "op", "report", "apply", "respond", "end"}, op : Ops \cup {"none"},
            zno : Zones \cup {None}, zbdz : Seq(Entries), i : 0 .. MaxNrZones,
            ret : {0, -1}, opRet : {0, -1}]

Typed ==
    /\ dev \in [Zones -> Conds] /\ zones \in [Zones -> Views] /\ nrZones \in 0 .. MaxNrZones
    /\ selection \in Zones \cup {None} /\ row \in Zones \cup {None}
    /\ ui \in Dialogs /\ cmd \in Cmds

\* Conventional zones keep their kind: on the device, in the report and in the list.
Kinds ==
    /\ \A z \in Zones : dev[z] = "not_wp" <=> z \in CnvZones
    /\ \A z \in Zones : zones[z].cond = "not_wp" <=> z \in CnvZones
    /\ \A k \in DOMAIN cmd.zbdz : cmd.zbdz[k].cond = "not_wp" <=> cmd.zbdz[k].no \in CnvZones

\* The user cannot act while a command runs, which is for the zone selected.
OneCommand ==
    /\ ui.pc = "idle" => cmd.pc \in {"none", "end"}
    /\ cmd.pc = "op" => cmd.zno = selection
    /\ cmd.pc \in {"op", "report"} => cmd.i = 0 /\ cmd.zbdz = << >> /\ cmd.ret = 0

\* The zones that have their new place in the list.
Done(i) == {z \in Visible : z < i}

\* Applying the filter, as far as it is: entries of the report that are left are of
\* zones to come, in order, and the others are the zones now visible.
Applied ==
    /\ IF cmd.pc = "apply" THEN cmd.i < MaxNrZones ELSE cmd.i = MaxNrZones
    /\ \A k \in DOMAIN cmd.zbdz :
          cmd.i <= cmd.zbdz[k].no /\ cmd.zbdz[k].cond \in Through(filter)
    /\ \A j, k \in DOMAIN cmd.zbdz : j < k => cmd.zbdz[j].no < cmd.zbdz[k].no
    /\ nrZones = Cardinality(Done(cmd.i)) + Len(cmd.zbdz)
    /\ \A z \in Done(cmd.i) : zones[z].cond \in Through(filter)
    /\ cmd.ret = -1 => nrZones = 0

Listed ==
    /\ cmd.pc = "none" => filter = "all" /\ Visible = Zones /\ nrZones = MaxNrZones
    /\ cmd.pc \in {"apply", "respond", "end"} => Applied
    /\ ui.pc = "idle" => row = None \/ row \in Visible

ListInv == Typed /\ Kinds /\ OneCommand /\ Listed

-----------------------------------------------------------------------------
(* Zones in order.                                                         *)

LEMMA ZonesFinite ==
    /\ Zones \subseteq Nat /\ IsFiniteSet(Zones) /\ Cardinality(Zones) = MaxNrZones
    /\ None \notin Zones /\ MaxNrZones \in Nat /\ MaxNrZones > 0
<1>1. Zones \subseteq Nat /\ None \notin Zones /\ MaxNrZones \in Nat /\ MaxNrZones > 0
  BY ZonesConstants DEF Zones, None
<1>2. IsFiniteSet(0 .. MaxNrZones - 1) /\ Cardinality(0 .. MaxNrZones - 1) = MaxNrZones
  BY <1>1, FS_Interval
<1>3. QED
  BY <1>1, <1>2 DEF Zones

LEMMA FewZones ==
  ASSUME NEW S \in SUBSET Zones
  PROVE  IsFiniteSet(S) /\ Cardinality(S) \in 0 .. MaxNrZones
<1>1. IsFiniteSet(S) /\ Cardinality(S) <= MaxNrZones
  BY ZonesFinite, FS_Subset
<1>2. Cardinality(S) \in Nat
  BY <1>1, FS_CardinalityType
<1>3. QED
  BY <1>1, <1>2, ZonesFinite

\* Each zone of a set is at the place that it has by its number.
LEMMA OrderOf ==
  ASSUME NEW S \in SUBSET Zones
  PROVE  LET s == InOrder(S)
             N == Cardinality(S)
         IN  /\ DOMAIN s = 1 .. N /\ \A k \in 1 .. N : s[k] \in S
             /\ \A j, k \in 1 .. N : j < k => s[j] < s[k]
<1> DEFINE N == Cardinality(S)
           upto(z) == {y \in S : y <= z}
           rank == [z \in S |-> Cardinality(upto(z))]
           I == 1 .. N
<1>1. S \subseteq Nat /\ IsFiniteSet(S) /\ N \in Nat
  BY ZonesFinite, FewZones
<1>2. ASSUME NEW z \in S
      PROVE  IsFiniteSet(upto(z)) /\ rank[z] \in Nat /\ rank[z] <= N /\ rank[z] > 0
  <2>1. upto(z) \in SUBSET S /\ z \in upto(z)
    BY <1>1
  <2>2. rank[z] = Cardinality(upto(z))
    OBVIOUS
  <2> HIDE DEF upto, rank
  <2>3. IsFiniteSet(upto(z)) /\ Cardinality(upto(z)) <= N
    BY <1>1, <2>1, FS_Subset
  <2>4. Cardinality(upto(z)) \in Nat /\ Cardinality(upto(z)) # 0
    BY <2>1, <2>3, FS_CardinalityType, FS_EmptySet
  <2> HIDE DEF N
  <2>5. QED
    BY <2>2, <2>3, <2>4
<1>3. ASSUME NEW y \in S, NEW z \in S, y <= z PROVE rank[y] <= rank[z]
  <2>1. upto(y) \in SUBSET upto(z)
    <3>1. y \in Nat /\ z \in Nat /\ \A x \in S : x \in Nat
      BY <1>1
    <3>2. \A x \in S : x <= y => x <= z
      BY <1>3, <3>1
    <3>3. QED
      BY <3>2
  <2>2. rank[y] = Cardinality(upto(y)) /\ rank[z] = Cardinality(upto(z))
    OBVIOUS
  <2> HIDE DEF upto, rank
  <2>3. QED
    BY <1>2, <2>1, <2>2, FS_Subset
<1>4. ASSUME NEW y \in S, NEW z \in S, y < z PROVE rank[y] < rank[z]
  <2>1. upto(y) \cup {z} \in SUBSET upto(z) /\ z \notin upto(y)
    <3>1. y \in Nat /\ z \in Nat /\ \A x \in S : x \in Nat
      BY <1>1
    <3>2. z <= z /\ ~(z <= y) /\ \A x \in S : x <= y => x <= z
      BY <1>4, <3>1
    <3>3. QED
      BY <3>2
  <2>2. rank[y] = Cardinality(upto(y)) /\ rank[z] = Cardinality(upto(z))
    OBVIOUS
  <2> HIDE DEF upto, rank
  <2>3. Cardinality(upto(y) \cup {z}) = Cardinality(upto(y)) + 1
    BY <1>2, <2>1, FS_AddElement
  <2>4. Cardinality(upto(y) \cup {z}) <= Cardinality(upto(z))
    BY <1>2, <2>1, FS_Subset
  <2>5. rank[y] \in Nat /\ rank[z] \in Nat
    BY <1>2
  <2>6. QED
    BY <2>2, <2>3, <2>4, <2>5
<1>5. rank = [z \in S |-> rank[z]] /\ \A z \in S : rank[z] = Cardinality(upto(z))
  OBVIOUS
<1> HIDE DEF rank, upto, N
<1>6. rank \in Injection(S, I)
  <2>1. rank \in [S -> I]
    BY <1>1, <1>2, <1>5
  <2>2. \A y, z \in S : rank[y] = rank[z] => y = z
    <3>1. SUFFICES ASSUME NEW y \in S, NEW z \in S, rank[y] = rank[z], y # z PROVE FALSE
      OBVIOUS
    <3>2. y < z \/ z < y
      BY <1>1, <3>1
    <3>3. QED
      BY <1>2, <1>4, <3>1, <3>2
  <2>3. QED
    BY <2>1, <2>2 DEF Injection, IsInjective
<1>7. rank \in Surjection(S, I)
  <2>1. IsFiniteSet(I) /\ Cardinality(I) = N
    BY <1>1, FS_Interval
  <2> HIDE DEF I
  <2>2. QED
    BY <1>6, <2>1, FS_Injection DEF N
<1> DEFINE s == InOrder(S)
<1>8. DOMAIN s = I /\ \A k \in I : s[k] = CHOOSE z \in S : Cardinality(upto(z)) = k
  BY DEF InOrder, N, upto
<1> HIDE DEF s
<1>9. ASSUME NEW k \in I PROVE s[k] \in S /\ rank[s[k]] = k
  <2>1. \E z \in S : rank[z] = k
    BY <1>7 DEF Surjection
  <2>2. \E z \in S : Cardinality(upto(z)) = k
    BY <1>5, <2>1
  <2>3. s[k] \in S /\ Cardinality(upto(s[k])) = k
    BY <1>8, <2>2
  <2>4. QED
    BY <1>5, <2>3
<1>10. ASSUME NEW j \in I, NEW k \in I, j < k PROVE s[j] < s[k]
  <2>1. s[j] \in S /\ s[k] \in S /\ rank[s[j]] = j /\ rank[s[k]] = k
    BY <1>9
  <2>2. ~(s[k] <= s[j])
    <3>1. SUFFICES ASSUME s[k] <= s[j] PROVE FALSE
      OBVIOUS
    <3>2. k <= j
      BY <1>3, <2>1, <3>1
    <3>3. QED
      BY <1>1, <1>10, <3>2
  <2>3. s[j] \in Nat /\ s[k] \in Nat
    BY <1>1, <2>1
  <2>4. QED
    BY <2>2, <2>3
<1>11. QED
  BY <1>8, <1>9, <1>10 DEF s, N

-----------------------------------------------------------------------------
(* The callbacks.                                                          *)

LEMMA InitList == Init => ListInv
<1> SUFFICES ASSUME Init PROVE ListInv
  OBVIOUS
<1>1. /\ dev = Start /\ zones = [z \in Zones |-> [visible |-> TRUE, cond |-> Start[z]]]
      /\ nrZones = MaxNrZones /\ filter = "all" /\ selection = None /\ row = None
      /\ ui = Idle /\ cmd = NoCmd
  BY DEF Init
<1>2. \A z \in Zones : /\ Start[z] \in Conds
                       /\ Start[z] = "not_wp" <=> z \in CnvZones
                       /\ zones[z].visible /\ zones[z].cond = Start[z]
  BY <1>1 DEF Start, Conds, SeqConds
<1>3. Start \in [Zones -> Conds]
  BY <1>2 DEF Start
<1>4. zones \in [Zones -> Views]
  BY <1>1, <1>3 DEF Views
<1>5. cmd \in Cmds /\ cmd.pc = "none" /\ DOMAIN cmd.zbdz = {}
  BY <1>1, ZonesFinite DEF Cmds, NoCmd
<1>6. ui \in Dialogs /\ ui.pc = "idle"
  BY <1>1 DEF Dialogs, Idle
<1>7. Visible = Zones
  BY <1>2 DEF Visible
<1>8. Typed
  BY <1>1, <1>3, <1>4, <1>5, <1>6, ZonesFinite DEF Typed
<1>9. Kinds
  BY <1>1, <1>2, <1>5 DEF Kinds
<1>10. OneCommand /\ Listed
  BY <1>1, <1>5, <1>6, <1>7 DEF OneCommand, Listed
<1>11. QED
  BY <1>8, <1>9, <1>10 DEF ListInv

LEMMA ExecStarts ==
  ASSUME NEW first \in {"op", "report"}, NEW op \in Ops \cup {"none"},
         NEW zno \in Zones \cup {None}, NEW dialog, NEW then \in {"update", "filter", "op"},
         Exec(first, op, zno, dialog, then)
  PROVE  /\ ui' \in Dialogs /\ ui'.pc # "idle"
         /\ cmd' \in Cmds /\ cmd'.pc = first /\ cmd'.zno = zno
         /\ cmd'.i = 0 /\ cmd'.zbdz = << >> /\ cmd'.ret = 0
<1>1. ui' \in Dialogs /\ ui'.pc # "idle"
  BY DEF Exec, Dialogs
<1>2. cmd' = [pc |-> first, op |-> op, zno |-> zno, zbdz |-> << >>, i |-> 0,
              ret |-> 0, opRet |-> 0]
  BY DEF Exec, NoCmd
<1>3. QED
  BY <1>1, <1>2, ZonesFinite DEF Cmds

\* Nothing but the selection is needed when a command starts.
LEMMA CommandInv ==
  ASSUME ListInv, UNCHANGED <<dev, list, row>>, selection' = selection,
         NEW first \in {"op", "report"}, NEW op \in Ops \cup {"none"},
         NEW zno \in Zones \cup {None}, NEW dialog, NEW then \in {"update", "filter", "op"},
         Exec(first, op, zno, dialog, then), first = "op" => zno = selection
  PROVE  ListInv'
<1>1. /\ ui' \in Dialogs /\ ui'.pc # "idle"
      /\ cmd' \in Cmds /\ cmd'.pc = first /\ cmd'.zno = zno
      /\ cmd'.i = 0 /\ cmd'.zbdz = << >> /\ cmd'.ret = 0
  BY ExecStarts
<1>2. Typed'
  BY <1>1 DEF ListInv, Typed, list
<1>3. Kinds'
  <2>1. DOMAIN cmd'.zbdz = {}
    BY <1>1
  <2>2. QED
    BY <2>1 DEF ListInv, Kinds, list
<1>4. OneCommand' /\ Listed'
  BY <1>1 DEF OneCommand, Listed
<1>5. QED
  BY <1>2, <1>3, <1>4 DEF ListInv

LEMMA RefreshInv == ASSUME ListInv, Refresh PROVE ListInv'
<1>1. /\ UNCHANGED <<dev, list, row>> /\ selection' = selection
      /\ Exec("report", "none", None, TRUE, "update")
  BY DEF Refresh, user
<1>2. QED
  BY <1>1, CommandInv

LEMMA FilterSetInv == ASSUME ListInv, NEW f, FilterSet(f) PROVE ListInv'
<1>1. /\ UNCHANGED <<dev, list, row>> /\ selection' = selection
      /\ Exec("report", "none", None, TRUE, "filter")
  BY DEF FilterSet
<1>2. QED
  BY <1>1, CommandInv

LEMMA ZoneOpInv == ASSUME ListInv, NEW op \in Ops, ZoneOp(op) PROVE ListInv'
<1>1. /\ UNCHANGED <<dev, list, row>> /\ selection' = selection
      /\ Exec("op", op, selection, op = "reset", "op")
  BY DEF ZoneOp, user
<1>2. selection \in Zones \cup {None} /\ op \in Ops \cup {"none"}
  BY DEF ListInv, Typed
<1>3. QED
  BY <1>1, <1>2, CommandInv

\* The list stays what it is while its variables do.
LEMMA ListSame ==
  ASSUME ListInv, UNCHANGED <<list, cmd>>, filter' = filter
  PROVE  /\ Visible' = Visible
         /\ cmd.pc = "none" => filter' = "all" /\ Visible' = Zones /\ nrZones' = MaxNrZones
         /\ cmd.pc \in {"apply", "respond", "end"} => Applied'
  BY DEF ListInv, Listed, Applied, Done, Visible, list

\* A selection of the user: the row is of a zone in the list.
LEMMA SelectInv ==
  ASSUME ListInv, CanAct, UNCHANGED <<dev, list, filter, ui, cmd>>,
         row' \in Visible \cup {None}, selection' \in Zones \cup {None}
  PROVE  ListInv'
<1>1. ui.pc = "idle" /\ cmd.pc \in {"none", "end"}
  BY DEF CanAct, ListInv, OneCommand
<1>2. row' \in Zones \cup {None}
  BY DEF Visible
<1>3. Typed' /\ Kinds' /\ OneCommand'
  BY <1>1, <1>2 DEF ListInv, Typed, Kinds, OneCommand, list
<1>4. Listed'
  BY ListSame DEF Listed
<1>5. QED
  BY <1>3, <1>4 DEF ListInv

LEMMA SelectRowInv == ASSUME ListInv, NEW z \in Zones, SelectRow(z) PROVE ListInv'
<1>1. row' \in Visible \cup {None} /\ selection' \in Zones \cup {None}
  BY DEF SelectRow, ListInv, Typed
<1>2. QED
  BY <1>1, SelectInv DEF SelectRow

LEMMA RowStays ==
  ASSUME ListInv, CanAct
  PROVE  row \in Visible \cup {None}
  BY DEF ListInv, Listed, CanAct

LEMMA ClearSelects ==
  ASSUME ListInv, CanAct, ClearSelection
  PROVE  row' \in Visible \cup {None} /\ selection' \in Zones \cup {None}
  BY RowStays DEF ClearSelection

LEMMA SetSelects ==
  ASSUME ListInv, CanAct, NEW zno \in Zones, SetSelection(zno)
  PROVE  row' \in Visible \cup {None} /\ selection' \in Zones \cup {None}
<1>1. zno \in Nat /\ Visible \in SUBSET Zones
  BY ZonesFinite DEF Visible
<1>2. ASSUME zno < Cardinality(Visible) PROVE RowAt(zno) \in Visible
  <2>1. zno + 1 \in 1 .. Cardinality(Visible)
    BY <1>1, <1>2, FewZones
  <2>2. QED
    BY <1>1, <2>1, OrderOf DEF RowAt
<1>3. QED
  BY <1>2, RowStays DEF SetSelection

LEMMA ZnumSetInv == ASSUME ListInv, NEW n, ZnumSet(n) PROVE ListInv'
<1>1. row' \in Visible \cup {None} /\ selection' \in Zones \cup {None}
  BY SetSelects, ClearSelects DEF ZnumSet
<1>2. QED
  BY <1>1, SelectInv DEF ZnumSet

\* The zone of a block: the first that reaches beyond it.
LEMMA ZblockSetInv == ASSUME ListInv, NEW block \in Int, NEW size \in 1 .. 2, ZblockSet(block, size)
                      PROVE  ListInv'
<1> DEFINE Of(z) == /\ z \div size <= block /\ block < (z + 1) \div size
                    /\ \A y \in 0 .. z - 1 : (y + 1) \div size <= block
<1>1. CASE block \in 0 .. MaxNrZones \div size - 1
  <2>1. \E z \in Zones : Of(z)
    <3>1. CASE size = 1
      <4>1. block \in Zones
        BY <1>1, <3>1, ZonesFinite DEF Zones
      <4>2. Of(block)
        BY <1>1, <3>1, ZonesFinite
      <4>3. QED
        BY <4>1, <4>2
    <3>2. CASE size = 2
      <4>1. 2 * block + 1 \in Zones
        BY <1>1, <3>2, ZonesFinite DEF Zones
      <4>2. Of(2 * block + 1)
        BY <1>1, <3>2, ZonesFinite
      <4>3. QED
        BY <4>1, <4>2
    <3>3. QED
      BY <3>1, <3>2
  <2>2. SetSelection(CHOOSE z \in Zones : Of(z)) /\ CanAct
    BY <1>1 DEF ZblockSet
  <2> HIDE DEF Of
  <2>3. (CHOOSE z \in Zones : Of(z)) \in Zones
    BY <2>1
  <2>4. QED
    BY <2>2, <2>3, SetSelects, SelectInv DEF ZblockSet
<1>2. CASE block \notin 0 .. MaxNrZones \div size - 1
  BY <1>2, ClearSelects, SelectInv DEF ZblockSet
<1>3. QED
  BY <1>1, <1>2

-----------------------------------------------------------------------------
(* The device and the command thread.                                      *)

LEMMA SeqOfFunction ==
  ASSUME NEW S, NEW n \in Nat, NEW q \in [1 .. n -> S]
  PROVE  q \in Seq(S) /\ Len(q) = n
<1>1. q \in Seq(S)
  OBVIOUS
<1>2. Len(q) \in Nat /\ DOMAIN q = 1 .. Len(q) /\ DOMAIN q = 1 .. n
  BY <1>1
<1>3. QED
  BY <1>1, <1>2

\* A device that keeps the conventional zones changes nothing else.
LEMMA DeviceInv ==
  ASSUME ListInv, UNCHANGED <<list, user, ui, cmd>>, dev' \in [Zones -> Conds],
         \A z \in Zones : dev'[z] = "not_wp" <=> z \in CnvZones
  PROVE  ListInv'
<1>1. Typed' /\ Kinds' /\ OneCommand'
  BY DEF ListInv, Typed, Kinds, OneCommand, list, user
<1>2. Listed'
  BY ListSame DEF ListInv, Listed, user
<1>3. QED
  BY <1>1, <1>2 DEF ListInv

LEMMA ChangeInv == ASSUME ListInv, Change PROVE ListInv'
<1>1. PICK z \in Zones \ CnvZones, c \in {"open", "full"} : dev' = [dev EXCEPT ![z] = c]
  BY DEF Change
<1>2. c \in Conds /\ c # "not_wp"
  BY DEF Conds, SeqConds
<1>3. dev' \in [Zones -> Conds]
  BY <1>1, <1>2 DEF ListInv, Typed
<1>4. \A y \in Zones : dev'[y] = "not_wp" <=> y \in CnvZones
  BY <1>1, <1>2 DEF ListInv, Typed, Kinds
<1>5. QED
  BY <1>3, <1>4, DeviceInv DEF Change

LEMMA OutcomeKind ==
  ASSUME NEW op, NEW c, NEW x \in Outcome(op, c)
  PROVE  c # "not_wp" /\ x # "not_wp"
  BY DEF Outcome

LEMMA OperateKeeps ==
  ASSUME Typed, Kinds, NEW op, NEW S, NEW o \in Operate(op, S)
  PROVE  /\ o.dev \in [Zones -> Conds] /\ o.ret \in {0, -1}
         /\ \A z \in Zones : o.dev[z] = "not_wp" <=> z \in CnvZones
         /\ \A z \in Zones \ S : o.dev[z] = dev[z]
  BY OutcomeKind DEF Typed, Kinds, Operate

LEMMA ZoneOperationInv == ASSUME ListInv, ZoneOperation PROVE ListInv'
<1>1. /\ cmd.pc = "op" /\ UNCHANGED <<list, user, ui, draw>>
      /\ cmd \in Cmds /\ ui.pc # "idle" /\ Typed /\ Kinds
      /\ cmd.i = 0 /\ cmd.zbdz = << >> /\ cmd.ret = 0
  BY DEF ZoneOperation, ListInv, Typed, OneCommand
<1>2. /\ dev' \in [Zones -> Conds] /\ \A z \in Zones : dev'[z] = "not_wp" <=> z \in CnvZones
      /\ \E r \in {0, -1} : cmd' = [cmd EXCEPT !.pc = "report", !.opRet = r]
  <2>1. CASE cmd.zno >= nrZones
    BY <1>1, <2>1 DEF ZoneOperation, Typed, Kinds
  <2>2. CASE ~(cmd.zno >= nrZones)
    <3>1. PICK o \in Operate(cmd.op, IF cmd.zno < 0 THEN Zones ELSE {cmd.zno}) :
            /\ dev' = o.dev
            /\ cmd' = [cmd EXCEPT !.pc = "report", !.opRet = o.ret]
      BY <2>2 DEF ZoneOperation
    <3>2. /\ o.dev \in [Zones -> Conds] /\ o.ret \in {0, -1}
          /\ \A z \in Zones : o.dev[z] = "not_wp" <=> z \in CnvZones
      BY <1>1, OperateKeeps
    <3>3. QED
      BY <3>1, <3>2
  <2>3. QED
    BY <2>1, <2>2
<1>3. /\ cmd' \in Cmds /\ cmd'.pc = "report" /\ cmd'.i = 0 /\ cmd'.zbdz = << >> /\ cmd'.ret = 0
  BY <1>1, <1>2 DEF Cmds
<1>4. Typed'
  BY <1>1, <1>2, <1>3 DEF Typed, list, user
<1>5. Kinds'
  <2>1. DOMAIN cmd'.zbdz = {}
    BY <1>3
  <2>2. QED
    BY <1>1, <1>2, <2>1 DEF Kinds, list
<1>6. OneCommand' /\ Listed'
  BY <1>1, <1>3 DEF OneCommand, Listed
<1>7. QED
  BY <1>4, <1>5, <1>6 DEF ListInv

LEMMA ReportZonesInv == ASSUME ListInv, ReportZones PROVE ListInv'
<1> DEFINE S == {z \in Zones : dev[z] \in Through(filter)}
           zs == InOrder(S)
           N == Cardinality(S)
           q == [k \in DOMAIN zs |-> [no |-> zs[k], cond |-> dev[zs[k]]]]
<1>1. /\ cmd.pc = "report" /\ UNCHANGED <<dev, zones, user, ui, draw>>
      /\ cmd \in Cmds /\ ui.pc # "idle" /\ Typed /\ Kinds
      /\ cmd.i = 0 /\ cmd.zbdz = << >> /\ cmd.ret = 0
  BY DEF ReportZones, ListInv, Typed, OneCommand
<1>2. PICK r \in {0, -1}, b \in {q, << >>} :
          /\ cmd' = [cmd EXCEPT !.pc = "apply", !.ret = r, !.zbdz = b]
          /\ r = 0 => b = q /\ nrZones' = Len(zs)
          /\ r = -1 => b = << >> /\ nrZones' = 0
  <2>1. CASE /\ nrZones' = Len(zs)
             /\ cmd' = [cmd EXCEPT !.pc = "apply", !.ret = 0, !.zbdz = q]
    BY <2>1
  <2>2. CASE nrZones' = 0 /\ cmd' = [cmd EXCEPT !.pc = "apply", !.ret = -1]
    <3>1. [cmd EXCEPT !.pc = "apply", !.ret = -1]
            = [cmd EXCEPT !.pc = "apply", !.ret = -1, !.zbdz = << >>]
      BY <1>1 DEF Cmds
    <3>2. QED
      BY <2>2, <3>1
  <2>3. QED
    BY <2>1, <2>2 DEF ReportZones
<1>3. /\ N \in 0 .. MaxNrZones /\ DOMAIN zs = 1 .. N
      /\ \A k \in 1 .. N : zs[k] \in S
      /\ \A j, k \in 1 .. N : j < k => zs[j] < zs[k]
  <2>1. S \in SUBSET Zones
    OBVIOUS
  <2> HIDE DEF S
  <2>2. QED
    BY <2>1, FewZones, OrderOf
<1> HIDE DEF zs
<1>4. \A k \in 1 .. N : zs[k] \in Zones /\ dev[zs[k]] \in Conds /\ dev[zs[k]] \in Through(filter)
  BY <1>1, <1>3 DEF Typed
<1>5. /\ q \in [1 .. N -> Entries]
      /\ \A k \in 1 .. N : q[k].no = zs[k] /\ q[k].cond = dev[zs[k]]
  BY <1>3, <1>4 DEF Entries
<1>6. zs \in [1 .. N -> Zones]
  <2> DEFINE at(k) == CHOOSE z \in S : Cardinality({y \in S : y <= z}) = k
  <2>1. zs = [k \in 1 .. N |-> at(k)]
    BY DEF zs, InOrder
  <2> HIDE DEF at
  <2>2. zs = [k \in 1 .. N |-> zs[k]]
    BY <2>1
  <2>3. QED
    BY <1>4, <2>2
<1>7. N \in Nat
  BY <1>3
<1> HIDE DEF q, S, N
<1>8. /\ zs \in Seq(Zones) /\ Len(zs) = N
      /\ q \in Seq(Entries) /\ Len(q) = N /\ DOMAIN q = 1 .. N
  BY <1>5, <1>6, <1>7, SeqOfFunction
<1>9. /\ cmd'.pc = "apply" /\ cmd'.ret = r /\ cmd'.zbdz = b /\ cmd'.i = 0
      /\ cmd'.zno = cmd.zno /\ cmd' \in Cmds
  <2>1. b \in Seq(Entries)
    <3>1. CASE b = q
      BY <1>8, <3>1
    <3>2. CASE b = << >>
      BY <3>2
    <3>3. QED
      BY <3>1, <3>2
  <2> HIDE DEF Entries
  <2>2. QED
    BY <1>1, <1>2, <2>1 DEF Cmds
<1>10. nrZones' \in 0 .. MaxNrZones /\ nrZones' = Len(b)
  <2>1. CASE r = 0
    BY <1>2, <1>3, <1>8, <2>1
  <2>2. CASE r = -1
    BY <1>2, <2>2, ZonesFinite
  <2>3. QED
    BY <2>1, <2>2
<1>11. \A k \in DOMAIN b : /\ b[k].no \in Zones /\ b[k].cond = dev[b[k].no]
                           /\ b[k].cond \in Through(filter)
  BY <1>2, <1>4, <1>5, <1>8
<1>12. \A j, k \in DOMAIN b : j < k => b[j].no < b[k].no
  BY <1>2, <1>3, <1>5, <1>8
<1>13. Typed'
  BY <1>1, <1>9, <1>10 DEF Typed, user
<1>14. Kinds'
  BY <1>1, <1>9, <1>11 DEF Kinds
<1>15. OneCommand'
  BY <1>1, <1>9 DEF OneCommand
<1>16. Applied'
  <2>1. Done(0)' = {}
    <3>1. Visible' \subseteq Zones
      BY DEF Visible
    <3>2. \A z \in Zones : ~(z < 0)
      BY ZonesFinite
    <3>3. QED
      BY <3>1, <3>2 DEF Done
  <2>2. nrZones' = Cardinality(Done(0)') + Len(b)
    <3>1. Cardinality(Done(0)') = 0
      BY <2>1, FS_EmptySet
    <3>2. nrZones' \in Int
      BY <1>10, ZonesFinite
    <3>3. QED
      BY <1>10, <3>1, <3>2
  <2>3. \A k \in DOMAIN b : 0 <= b[k].no
    <3>1. \A z \in Zones : 0 <= z
      BY ZonesFinite
    <3>2. QED
      BY <1>11, <3>1
  <2>4. filter' = filter /\ cmd'.i < MaxNrZones
    BY <1>1, <1>9, ZonesFinite DEF user
  <2>5. cmd'.ret = -1 => nrZones' = 0
    BY <1>2, <1>9
  <2>6. QED
    BY <1>9, <1>11, <1>12, <2>1, <2>2, <2>3, <2>4, <2>5 DEF Applied
<1>17. QED
  BY <1>1, <1>9, <1>13, <1>14, <1>15, <1>16 DEF ListInv, Listed

\* One zone has its new place: the next entry is of this zone, or of a later one.
LEMMA ApplyFilterInv == ASSUME ListInv, ApplyFilter PROVE ListInv'
<1> DEFINE hit  == cmd.zbdz # << >> /\ Head(cmd.zbdz).no = cmd.i
           view == IF hit THEN [visible |-> TRUE, cond |-> Head(cmd.zbdz).cond]
                   ELSE [zones[cmd.i] EXCEPT !.visible = FALSE]
           rest == IF hit THEN Tail(cmd.zbdz) ELSE cmd.zbdz
           pc1  == IF cmd.i + 1 = MaxNrZones THEN "respond" ELSE cmd.pc
           i == cmd.i
           q == cmd.zbdz
<1>1. /\ cmd.pc = "apply" /\ UNCHANGED <<dev, nrZones, user, ui, draw>>
      /\ zones' = [zones EXCEPT ![i] = view]
      /\ cmd' = [cmd EXCEPT !.i = @ + 1, !.zbdz = rest, !.pc = pc1]
  BY DEF ApplyFilter
<1>2. /\ cmd \in Cmds /\ zones \in [Zones -> Views] /\ ui.pc # "idle" /\ Typed /\ Kinds /\ Applied
  BY <1>1 DEF ListInv, Typed, OneCommand, Listed
<1>3. /\ i \in Zones /\ i \in Nat /\ i < MaxNrZones /\ MaxNrZones \in Nat
      /\ q \in Seq(Entries)
  BY <1>1, <1>2, ZonesFinite DEF Cmds, Applied, Zones
<1>4. \A k \in DOMAIN q : q[k] \in Entries /\ q[k].no \in Nat /\ i <= q[k].no
  <2>1. \A k \in DOMAIN q : q[k] \in Entries
    BY <1>3
  <2>2. \A k \in DOMAIN q : q[k].no \in Zones
    BY <2>1 DEF Entries
  <2>3. QED
    BY <1>2, <2>1, <2>2, ZonesFinite DEF Applied
<1>5. ASSUME hit
      PROVE  /\ Len(q) \in Nat /\ Len(q) > 0 /\ 1 \in DOMAIN q /\ Head(q) = q[1] /\ q[1].no = i
             /\ rest = Tail(q) /\ Tail(q) \in Seq(Entries) /\ Len(Tail(q)) = Len(q) - 1
             /\ \A k \in DOMAIN Tail(q) : k + 1 \in DOMAIN q /\ Tail(q)[k] = q[k + 1] /\ 1 < k + 1
  BY <1>3, <1>5
<1>6. /\ view \in Views /\ (view.visible <=> hit)
      /\ view.cond = "not_wp" <=> i \in CnvZones
      /\ hit => view.cond \in Through(filter)
  <2>1. CASE hit
    <3>1. view.visible /\ view.cond = q[1].cond /\ view = [visible |-> TRUE, cond |-> q[1].cond]
      BY <1>5, <2>1
    <3>2. q[1] \in Entries /\ q[1].cond \in Through(filter)
      BY <1>2, <1>4, <1>5, <2>1 DEF Applied
    <3>3. q[1].cond = "not_wp" <=> i \in CnvZones
      BY <1>2, <1>5, <2>1 DEF Kinds
    <3> HIDE DEF view, hit
    <3>4. QED
      BY <2>1, <3>1, <3>2, <3>3 DEF Views, Entries
  <2>2. CASE ~hit
    <3>1. zones[i] \in Views /\ (zones[i].cond = "not_wp" <=> i \in CnvZones)
      BY <1>2, <1>3 DEF Kinds
    <3>2. view = [zones[i] EXCEPT !.visible = FALSE]
      BY <2>2
    <3> HIDE DEF view, hit
    <3>3. QED
      BY <2>2, <3>1, <3>2 DEF Views
  <2>3. QED
    BY <2>1, <2>2
<1>7. /\ rest \in Seq(Entries)
      /\ \A k \in DOMAIN rest : \E m \in DOMAIN q : rest[k] = q[m]
      /\ \A k \in DOMAIN rest : i + 1 <= rest[k].no
      /\ \A j, k \in DOMAIN rest : j < k => rest[j].no < rest[k].no
      /\ Len(rest) = IF hit THEN Len(q) - 1 ELSE Len(q)
  <2>1. CASE hit
    <3>1. \A j, k \in DOMAIN rest : j < k => rest[j].no < rest[k].no
      <4>1. SUFFICES ASSUME NEW j \in DOMAIN rest, NEW k \in DOMAIN rest, j < k
                     PROVE  rest[j].no < rest[k].no
        OBVIOUS
      <4>2. j + 1 \in DOMAIN q /\ k + 1 \in DOMAIN q /\ j + 1 < k + 1
        BY <1>3, <1>5, <2>1, <4>1
      <4>3. rest[j] = q[j + 1] /\ rest[k] = q[k + 1]
        BY <1>5, <2>1, <4>1
      <4>4. QED
        BY <1>2, <4>2, <4>3 DEF Applied
    <3>2. \A k \in DOMAIN rest : i + 1 <= rest[k].no
      <4>1. TAKE k \in DOMAIN rest
      <4>2. k + 1 \in DOMAIN q /\ rest[k] = q[k + 1] /\ 1 < k + 1 /\ 1 \in DOMAIN q
        BY <1>5, <2>1
      <4>3. q[1].no < q[k + 1].no /\ q[1].no = i
        BY <1>2, <1>5, <2>1, <4>2 DEF Applied
      <4>4. QED
        BY <1>3, <1>4, <4>2, <4>3
    <3>3. \A k \in DOMAIN rest : \E m \in DOMAIN q : rest[k] = q[m]
      BY <1>5, <2>1
    <3>4. rest \in Seq(Entries) /\ Len(rest) = Len(q) - 1
      BY <1>5, <2>1
    <3> HIDE DEF rest, hit
    <3>5. QED
      BY <2>1, <3>1, <3>2, <3>3, <3>4
  <2>2. CASE ~hit
    <3>1. rest = q
      BY <2>2
    <3>2. \A k \in DOMAIN q : i + 1 <= q[k].no
      <4>1. SUFFICES ASSUME NEW k \in DOMAIN q PROVE i < q[k].no
        BY <1>3, <1>4
      <4>2. Head(q) = q[1] /\ 1 \in DOMAIN q /\ k \in Nat /\ (k = 1 \/ 1 < k)
        BY <1>3
      <4>3. q[1].no # i
        BY <1>3, <2>2, <4>2
      <4>4. i < q[1].no
        BY <1>3, <1>4, <4>2, <4>3
      <4>5. k = 1 \/ q[1].no < q[k].no
        BY <1>2, <4>2 DEF Applied
      <4>6. QED
        BY <1>3, <1>4, <4>2, <4>4, <4>5
    <3>3. \A j, k \in DOMAIN q : j < k => q[j].no < q[k].no
      BY <1>2 DEF Applied
    <3> HIDE DEF rest, hit, q
    <3>4. QED
      BY <1>3, <2>2, <3>1, <3>2, <3>3
  <2>3. QED
    BY <2>1, <2>2
<1> HIDE DEF view, rest, hit
<1>8. /\ cmd'.i = i + 1 /\ cmd'.zbdz = rest /\ cmd'.pc = pc1 /\ cmd'.ret = cmd.ret
      /\ cmd' \in Cmds /\ pc1 \in {"apply", "respond"}
  <2>1. i + 1 \in 0 .. MaxNrZones
    BY <1>3
  <2>2. pc1 \in {"apply", "respond"}
    BY <1>1
  <2> HIDE DEF pc1, Entries
  <2>3. QED
    BY <1>1, <1>2, <1>7, <2>1, <2>2 DEF Cmds
<1>9. /\ zones'[i] = view /\ \A z \in Zones \ {i} : zones'[z] = zones[z]
      /\ zones' \in [Zones -> Views]
  BY <1>1, <1>2, <1>3, <1>6
<1>10. Done(cmd.i)' = IF hit THEN Done(i) \cup {i} ELSE Done(i)
  <2>1. \A z \in Zones : z < i + 1 <=> z < i \/ z = i
    BY <1>3, ZonesFinite
  <2>2. ~(i < i)
    BY <1>3
  <2>3. \A z \in Zones : zones'[z].visible <=> IF z = i THEN hit ELSE zones[z].visible
    BY <1>6, <1>9
  <2>4. Done(cmd.i)' = {z \in Zones : zones'[z].visible /\ z < i + 1}
    BY <1>8 DEF Done, Visible
  <2>5. Done(i) = {z \in Zones : zones[z].visible /\ z < i}
    BY DEF Done, Visible
  <2>6. QED
    BY <1>3, <2>1, <2>2, <2>3, <2>4, <2>5
<1>11. Typed'
  BY <1>1, <1>2, <1>8, <1>9 DEF Typed, user
<1>12. Kinds'
  <2>1. \A z \in Zones : zones'[z].cond = "not_wp" <=> z \in CnvZones
    BY <1>2, <1>6, <1>9 DEF Kinds
  <2>2. \A k \in DOMAIN rest : rest[k].cond = "not_wp" <=> rest[k].no \in CnvZones
    BY <1>2, <1>7 DEF Kinds
  <2>3. QED
    BY <1>1, <1>2, <1>8, <2>1, <2>2 DEF Kinds
<1>13. OneCommand'
  BY <1>1, <1>2, <1>8 DEF OneCommand
<1>14. Applied'
  <2>1. IF cmd'.pc = "apply" THEN cmd'.i < MaxNrZones ELSE cmd'.i = MaxNrZones
    BY <1>1, <1>3, <1>8
  <2>2. \A k \in DOMAIN rest : i + 1 <= rest[k].no /\ rest[k].cond \in Through(filter)
    BY <1>2, <1>7 DEF Applied
  <2>3. nrZones' = Cardinality(Done(cmd.i)') + Len(rest)
    <3>1. IsFiniteSet(Done(i)) /\ Cardinality(Done(i)) \in Nat /\ i \notin Done(i)
      <4>1. Done(i) \in SUBSET Zones /\ ~(i < i)
        BY <1>3 DEF Done, Visible
      <4>2. IsFiniteSet(Done(i)) /\ Cardinality(Done(i)) \in 0 .. MaxNrZones
        BY <4>1, FewZones
      <4>3. QED
        BY <1>3, <4>1, <4>2 DEF Done
    <3>2. Cardinality(Done(cmd.i)') = IF hit THEN Cardinality(Done(i)) + 1 ELSE Cardinality(Done(i))
      BY <1>10, <3>1, FS_AddElement
    <3>3. nrZones' = Cardinality(Done(i)) + Len(q) /\ Len(q) \in Nat
      BY <1>1, <1>2, <1>3 DEF Applied
    <3>4. QED
      BY <1>7, <3>1, <3>2, <3>3
  <2>4. \A z \in Done(cmd.i)' : zones'[z].cond \in Through(filter)
    <3>1. \A z \in Done(i) : z \in Zones \ {i} /\ zones[z].cond \in Through(filter)
      <4>1. \A z \in Done(i) : z \in Zones /\ z < i /\ zones[z].cond \in Through(filter)
        BY <1>2 DEF Applied, Done, Visible
      <4>2. ~(i < i)
        BY <1>3
      <4>3. QED
        BY <4>1, <4>2
    <3>2. QED
      BY <1>6, <1>9, <1>10, <3>1
  <2>5. filter' = filter /\ (cmd'.ret = -1 => nrZones' = 0)
    BY <1>1, <1>2, <1>8 DEF user, Applied
  <2>6. QED
    BY <1>7, <1>8, <2>1, <2>2, <2>3, <2>4, <2>5 DEF Applied
<1>15. QED
  BY <1>1, <1>2, <1>8, <1>11, <1>12, <1>13, <1>14 DEF ListInv, Listed

\* Whatever the dialog and the drawing do, the list stays.
LEMMA DialogInv ==
  ASSUME ListInv, UNCHANGED <<dev, list, user, cmd>>, ui' \in Dialogs, ui'.pc # "idle" \/ ui' = ui
  PROVE  ListInv'
<1>1. Typed' /\ Kinds' /\ OneCommand'
  BY DEF ListInv, Typed, Kinds, OneCommand, list, user
<1>2. Listed'
  BY ListSame DEF ListInv, Listed, user
<1>3. QED
  BY <1>1, <1>2 DEF ListInv

\* A zone is in the list once the filter is applied to all of them.
LEMMA AllDone ==
  ASSUME Typed, cmd.pc \in {"respond", "end"}, Applied
  PROVE  /\ nrZones = Cardinality(Visible)
         /\ \A z \in Visible : zones[z].cond \in Through(filter)
         /\ cmd.ret = -1 => Visible = {}
<1>1. cmd.i = MaxNrZones /\ cmd.zbdz \in Seq(Entries)
  BY DEF Applied, Typed, Cmds
<1>2. \A z \in Zones : z < MaxNrZones /\ ~(MaxNrZones <= z)
  BY ZonesConstants DEF Zones
<1>3. Done(cmd.i) = Visible
  BY <1>1, <1>2 DEF Done, Visible
<1>4. Len(cmd.zbdz) = 0
  <2>1. SUFFICES ASSUME Len(cmd.zbdz) # 0 PROVE FALSE
    OBVIOUS
  <2>2. 1 \in DOMAIN cmd.zbdz /\ cmd.zbdz[1] \in Entries
    BY <1>1, <2>1
  <2>3. cmd.zbdz[1].no \in Zones
    BY <2>2 DEF Entries
  <2>4. MaxNrZones <= cmd.zbdz[1].no
    BY <1>1, <2>2 DEF Applied
  <2>5. QED
    BY <1>2, <2>3, <2>4
<1>5. IsFiniteSet(Visible) /\ Cardinality(Visible) \in 0 .. MaxNrZones
  BY FewZones DEF Visible
<1>6. nrZones = Cardinality(Visible)
  BY <1>3, <1>4, <1>5, ZonesFinite DEF Applied
<1>7. cmd.ret = -1 => Visible = {}
  BY <1>5, <1>6, FS_EmptySet DEF Applied
<1>8. QED
  BY <1>3, <1>6, <1>7 DEF Applied

LEMMA RespondInv == ASSUME ListInv, Respond PROVE ListInv'
<1>1. /\ cmd.pc = "respond" /\ UNCHANGED <<dev, list, user, draw>>
      /\ cmd' = [cmd EXCEPT !.pc = "end"]
      /\ \E a \in {ui.answer, 0, 1} : ui' = [ui EXCEPT !.answer = a]
  BY DEF Respond
<1>2. cmd \in Cmds /\ ui \in Dialogs /\ ui.pc # "idle" /\ Applied
  BY <1>1 DEF ListInv, Typed, OneCommand, Listed
<1>3. /\ cmd' \in Cmds /\ cmd'.pc = "end" /\ cmd'.zbdz = cmd.zbdz /\ cmd'.i = cmd.i
      /\ cmd'.ret = cmd.ret
  BY <1>1, <1>2 DEF Cmds
<1>4. ui' \in Dialogs /\ ui'.pc # "idle"
  BY <1>1, <1>2 DEF Dialogs
<1>5. Typed' /\ Kinds' /\ OneCommand'
  BY <1>1, <1>3, <1>4 DEF ListInv, Typed, Kinds, OneCommand, list, user
<1>6. Applied'
  BY <1>1, <1>2, <1>3 DEF Applied, Done, Visible, list, user
<1>7. QED
  BY <1>3, <1>4, <1>5, <1>6 DEF ListInv, Listed

LEMMA JoinInv == ASSUME ListInv, Join PROVE ListInv'
<1>1. /\ cmd.pc = "end" /\ ui' = Idle /\ UNCHANGED <<dev, list, filter, cmd, draw>>
      /\ row' \in Visible \cup {None} /\ selection' \in {selection, None}
  BY DEF Join
<1>2. ui' \in Dialogs /\ ui'.pc = "idle"
  BY <1>1 DEF Dialogs, Idle
<1>3. row' \in Zones \cup {None} /\ selection' \in Zones \cup {None}
  BY <1>1 DEF Visible, ListInv, Typed
<1>4. Typed' /\ Kinds' /\ OneCommand'
  BY <1>1, <1>2, <1>3 DEF ListInv, Typed, Kinds, OneCommand, list
<1>5. Listed'
  BY <1>1, ListSame DEF Listed
<1>6. QED
  BY <1>4, <1>5 DEF ListInv

LEMMA DialogSteps == ASSUME ListInv, DialogRun \/ DialogEnd \/ Dismiss PROVE ListInv'
<1>1. ui \in Dialogs /\ UNCHANGED <<dev, list, user, cmd>>
  BY DEF ListInv, Typed, DialogRun, DialogEnd, Dismiss
<1>2. ui' \in Dialogs /\ ui'.pc # "idle"
  BY <1>1 DEF Dialogs, DialogRun, DialogEnd, Dismiss
<1>3. QED
  BY <1>1, <1>2, DialogInv

LEMMA OtherSteps == ASSUME ListInv, DrawStart \/ DrawZone \/ UNCHANGED vars PROVE ListInv'
<1>1. ui \in Dialogs /\ UNCHANGED <<dev, list, user, ui, cmd>>
  BY DEF ListInv, Typed, DrawStart, DrawZone, vars, list, user
<1>2. QED
  BY <1>1, DialogInv

-----------------------------------------------------------------------------

LEMMA NextList == ListInv /\ [Next]_vars => ListInv'
<1>1. SUFFICES ASSUME ListInv, [Next]_vars PROVE ListInv'
  OBVIOUS
<1>2. CASE Change \/ Refresh
  BY <1>1, <1>2, ChangeInv, RefreshInv
<1>3. CASE (\E f \in Filters : FilterSet(f)) \/ \E op \in Ops : ZoneOp(op)
  BY <1>1, <1>3, FilterSetInv, ZoneOpInv
<1>4. CASE \E z \in Zones : SelectRow(z)
  BY <1>1, <1>4, SelectRowInv
<1>5. CASE \E n \in Zones \cup {None} : ZnumSet(n)
  BY <1>1, <1>5, ZnumSetInv
<1>6. CASE \E b \in Zones \cup {None}, size \in 1 .. 2 : ZblockSet(b, size)
  <2>1. PICK b \in Zones \cup {None}, size \in 1 .. 2 : ZblockSet(b, size)
    BY <1>6
  <2>2. b \in Int
    BY ZonesFinite DEF None
  <2>3. QED
    BY <1>1, <2>1, <2>2, ZblockSetInv
<1>7. CASE CmdStep
  BY <1>1, <1>7, ZoneOperationInv, ReportZonesInv, ApplyFilterInv, RespondInv DEF CmdStep
<1>8. CASE MainStep \/ Dismiss
  BY <1>1, <1>8, DialogSteps, JoinInv DEF MainStep
<1>9. CASE DrawStart \/ DrawZone \/ UNCHANGED vars
  BY <1>1, <1>9, OtherSteps
<1>10. QED
  BY <1>1, <1>2, <1>3, <1>4, <1>5, <1>6, <1>7, <1>8, <1>9 DEF Next

LEMMA ListInvariant == Spec => []ListInv
  BY InitList, NextList, PTL DEF Spec

LEMMA FilteredWhenIdle ==
  ASSUME ListInv, ui.pc = "idle"
  PROVE  /\ nrZones = Cardinality(Visible)
         /\ \A z \in Visible : zones[z].cond \in Through(filter)
         /\ row = None \/ row \in Visible
         /\ (cmd.pc = "end" /\ cmd.ret = -1) => Visible = {}
<1>1. row = None \/ row \in Visible
  BY DEF ListInv, Listed
<1>2. CASE cmd.pc = "none"
  <2>1. filter = "all" /\ Visible = Zones /\ nrZones = MaxNrZones
    BY <1>2 DEF ListInv, Listed
  <2>2. \A z \in Zones : zones[z].cond \in Through(filter)
    BY <2>1 DEF ListInv, Typed, Views, Through
  <2>3. QED
    BY <1>1, <1>2, <2>1, <2>2, ZonesFinite
<1>3. CASE cmd.pc = "end"
  BY <1>1, <1>3, AllDone DEF ListInv, Listed
<1>4. QED
  BY <1>2, <1>3 DEF ListInv, OneCommand

\* For any number of zones, filters and operations: whenever the user can act, the zones
\* shown are counted by dzd->nr_zones and all pass the filter, and a highlighted row is one
\* of them; after a failed report there is none (dz_report_zones, dz_if_refresh_zlist).
THEOREM ListFiltered == Spec => []ListIsFiltered
<1>1. ListInv => ListIsFiltered
  <2>1. SUFFICES ASSUME ListInv PROVE ListIsFiltered
    OBVIOUS
  <2>2. TypeOK
    BY <2>1 DEF ListInv, Typed, TypeOK, Views, Dialogs, Cmds
  <2>3. \A z \in Zones : (zones[z].cond = "not_wp") <=> (z \in CnvZones)
    BY <2>1 DEF ListInv, Kinds
  <2>4. QED
    BY <2>1, <2>2, <2>3, FilteredWhenIdle DEF ListIsFiltered
<1>2. QED
  BY <1>1, ListInvariant, PTL

\* The command thread operates on the zone that is selected while it runs, and on no other
\* zone (dz_if_zone_op, dz_zone_operation), although the callbacks share dzd with it.
THEOREM OperatesOnSelected == Spec => OnlySelected
<1> DEFINE A == cmd.pc = "op" /\ cmd'.pc = "report" /\ selection # None =>
                    \A z \in Zones \ {selection} : dev'[z] = dev[z]
<1>1. ASSUME ListInv, [Next]_vars, cmd.pc = "op", cmd'.pc = "report", selection # None,
             NEW z \in Zones \ {selection}
      PROVE  dev'[z] = dev[z]
  <2>1. /\ cmd.zno = selection /\ selection \in Zones /\ ui.pc # "idle"
        /\ Typed /\ Kinds /\ cmd \in Cmds
    BY <1>1 DEF ListInv, Typed, OneCommand
  <2>2. CASE ZoneOperation
    <3>1. CASE cmd.zno >= nrZones
      BY <2>2, <3>1 DEF ZoneOperation
    <3>2. CASE ~(cmd.zno >= nrZones)
      <4>1. ~(cmd.zno < 0)
        BY <2>1, ZonesFinite
      <4>2. PICK o \in Operate(cmd.op, {cmd.zno}) : dev' = o.dev
        BY <2>2, <3>2, <4>1 DEF ZoneOperation
      <4>3. \A y \in Zones \ {cmd.zno} : o.dev[y] = dev[y]
        BY <2>1, OperateKeeps
      <4>4. QED
        BY <1>1, <2>1, <4>2, <4>3
    <3>3. QED
      BY <3>1, <3>2
  <2>3. CASE ~ZoneOperation
    <3>1. cmd' # cmd
      BY <1>1
    <3>2. FALSE
      BY <1>1, <2>1, <2>3, <3>1
         DEF Next, vars, Change, Refresh, FilterSet, ZoneOp, SelectRow, ZnumSet, ZblockSet, CanAct,
             CmdStep, ReportZones, ApplyFilter, Respond, MainStep, DialogRun, DialogEnd, Join,
             Dismiss, DrawStart, DrawZone
    <3>3. QED
      BY <3>2
  <2>4. QED
    BY <2>2, <2>3
<1>2. ListInv /\ [Next]_vars => [A]_vars
  BY <1>1
<1>3. QED
  BY <1>2, ListInvariant, PTL DEF Spec, OnlySelected
=============================================================================
