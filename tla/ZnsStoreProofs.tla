--------------------------- MODULE ZnsStoreProofs ---------------------------
(***************************************************************************)
(* The engine, for every value of its constants that the assumptions       *)
(* admit.  Four parts, each resting on those before: types and the facts   *)
(* about its operators; the bound on its queue; where each key is, for the *)
(* valid map, the index and the device; the values, and the map KVStore.   *)
(***************************************************************************)
EXTENDS ZnsStore, FiniteSetTheorems, WellFoundedInduction, TLAPS

\* What type correctness needs besides itself: a request is only served when
\* one was read, and gc_flag is up exactly inside a collection.
Collecting == {"gczone", "gcread", "gcreset"}
OpRead  == /\ op.kind = "NONE" => pc = "request" /\ ~eof
           /\ op.kind # "NONE" => op.key \in Keys
FlagSet == pc \in Labels => (gcFlag <=> pc \in Collecting)

TypeInv == TypeOK /\ OpRead /\ FlagSet

-----------------------------------------------------------------------------
(* Facts about the operators.                                              *)

LEMMA BlocksDef ==
    /\ \A z \in Zones, o \in Offsets : <<z, o>> \in Blocks
    /\ \A b \in Blocks : b[1] \in Zones /\ b[2] \in Offsets /\ b = <<b[1], b[2]>>
    /\ NoBlock \notin Blocks
  BY NumbersOK DEF Blocks, Zones, Offsets, NoBlock

\* Numbers have a least one wherever there is one.
LEMMA LeastOf ==
  ASSUME NEW S \in SUBSET Nat, S # {}
  PROVE  \E n \in S : \A m \in S : n <= m
<1>1. PICK n \in S : \A m \in S : <<m, n>> \notin OpToRel(<, Nat)
  BY NatLessThanWellFounded, WFMin
<1>2. \A m \in S : ~(m < n)
  BY <1>1 DEF OpToRel
<1>3. QED
  BY <1>2

\* The keys of a page of records are keys, and taking a page apart or joining
\* pages takes its set of keys apart or joins it.
LEMMA KeysOfType ==
  ASSUME NEW page \in Seq(Records)
  PROVE  KeysOf(page) \subseteq Keys
<1>1. \A i \in DOMAIN page : page[i] \in Records
  OBVIOUS
<1>2. \A r \in Records : r.key \in Keys
  BY DEF Records
<1>3. QED
  BY <1>1, <1>2 DEF KeysOf

LEMMA KeysOfEmpty == KeysOf(<< >>) = {}
  BY DEF KeysOf

LEMMA KeysOfHeadTail ==
  ASSUME NEW page \in Seq(Records), page # << >>
  PROVE  /\ Head(page) \in Records
         /\ Tail(page) \in Seq(Records)
         /\ KeysOf(page) = {Head(page).key} \cup KeysOf(Tail(page))
<1>1. Head(page) \in Records /\ Tail(page) \in Seq(Records)
  OBVIOUS
<1>2. ASSUME NEW k \in KeysOf(page)
      PROVE  k \in {Head(page).key} \cup KeysOf(Tail(page))
  <2>1. PICK i \in DOMAIN page : page[i].key = k
    BY <1>2 DEF KeysOf
  <2>2. CASE i = 1
    BY <2>1, <2>2
  <2>3. CASE i # 1
    <3>1. i - 1 \in DOMAIN Tail(page) /\ Tail(page)[i - 1] = page[i]
      BY <2>1, <2>3
    <3>2. QED
      BY <2>1, <3>1 DEF KeysOf
  <2>4. QED
    BY <2>2, <2>3
<1>3. ASSUME NEW k \in {Head(page).key} \cup KeysOf(Tail(page))
      PROVE  k \in KeysOf(page)
  <2>1. CASE k = Head(page).key
    <3>1. 1 \in DOMAIN page /\ page[1].key = k
      BY <2>1
    <3>2. QED
      BY <3>1 DEF KeysOf
  <2>2. CASE k \in KeysOf(Tail(page))
    <3>1. PICK i \in DOMAIN Tail(page) : Tail(page)[i].key = k
      BY <2>2 DEF KeysOf
    <3>2. i + 1 \in DOMAIN page /\ page[i + 1] = Tail(page)[i]
      BY <3>1
    <3>3. QED
      BY <3>1, <3>2 DEF KeysOf
  <2>3. QED
    BY <1>3, <2>1, <2>2
<1>4. QED
  BY <1>1, <1>2, <1>3

LEMMA KeysOfAppend ==
  ASSUME NEW page \in Seq(Records), NEW r \in Records
  PROVE  /\ Append(page, r) \in Seq(Records)
         /\ KeysOf(Append(page, r)) = KeysOf(page) \cup {r.key}
<1>1. Append(page, r) \in Seq(Records)
  OBVIOUS
<1>2. ASSUME NEW k \in KeysOf(Append(page, r))
      PROVE  k \in KeysOf(page) \cup {r.key}
  BY <1>2 DEF KeysOf
<1>3. ASSUME NEW k \in KeysOf(page)
      PROVE  k \in KeysOf(Append(page, r))
  <2>1. PICK i \in DOMAIN page : page[i].key = k
    BY <1>3 DEF KeysOf
  <2>2. i \in DOMAIN Append(page, r) /\ Append(page, r)[i] = page[i]
    BY <2>1
  <2>3. QED
    BY <2>1, <2>2 DEF KeysOf
<1>4. r.key \in KeysOf(Append(page, r))
  <2>1. /\ Len(page) + 1 \in DOMAIN Append(page, r)
        /\ Append(page, r)[Len(page) + 1] = r
    OBVIOUS
  <2>2. QED
    BY <2>1 DEF KeysOf
<1>5. QED
  BY <1>1, <1>2, <1>3, <1>4

-----------------------------------------------------------------------------
(* Type correctness.                                                       *)

\* What writing a page does to the variables, whatever zone it goes to.
LEMMA InsertType ==
  ASSUME TypeInv, NEW page \in Pages, NEW keys \in SUBSET Keys,
         NEW after, Insert(page, keys, after)
  PROVE  /\ wp' \in [Zones -> 0 .. BPZ]
         /\ seenWp' \in [Zones -> 0 .. BPZ]
         /\ media' \in [Blocks -> Pages]
         /\ valid' \in [Blocks -> {"EMPTY", "VALID", "INVALID"}]
         /\ index' \in [Keys -> Blocks \cup {NoBlock}]
         /\ \/ pc' \in Halts /\ ret' = ret
            \/ gcFlag /\ pc' = after /\ ret' = ret
            \/ ~gcFlag /\ pc' = "detect" /\ ret' = after
<1>0. /\ wp \in [Zones -> 0 .. BPZ] /\ seenWp \in [Zones -> 0 .. BPZ]
      /\ media \in [Blocks -> Pages]
      /\ valid \in [Blocks -> {"EMPTY", "VALID", "INVALID"}]
      /\ index \in [Keys -> Blocks \cup {NoBlock}]
      /\ gcFlag \in BOOLEAN
  BY DEF TypeInv, TypeOK
<1>1. seenWp' \in [Zones -> 0 .. BPZ]
  BY <1>0 DEF Insert
<1>2. PICK z : WritePage(z, page, keys, after)
  BY DEF Insert
<1>3. CASE z \in Zones /\ wp[z] < BPZ
  <2>1. /\ wp' = [wp EXCEPT ![z] = @ + 1]
        /\ media' = [media EXCEPT ![<<z, wp[z]>>] = page]
        /\ valid' = [valid EXCEPT ![<<z, wp[z]>>] = "VALID"]
        /\ index' = [k \in Keys |-> IF k \in keys THEN <<z, wp[z]>> ELSE index[k]]
        /\ \/ gcFlag /\ pc' = after /\ ret' = ret
           \/ ~gcFlag /\ pc' = "detect" /\ ret' = after
    BY <1>2, <1>3 DEF WritePage
  <2>2. wp[z] \in Offsets
    BY <1>0, <1>3, NumbersOK DEF Offsets
  <2>3. <<z, wp[z]>> \in Blocks
    BY <1>3, <2>2, BlocksDef
  <2>4. wp' \in [Zones -> 0 .. BPZ]
    BY <1>0, <1>3, <2>1, NumbersOK
  <2>5. /\ media' \in [Blocks -> Pages]
        /\ valid' \in [Blocks -> {"EMPTY", "VALID", "INVALID"}]
        /\ index' \in [Keys -> Blocks \cup {NoBlock}]
    BY <1>0, <2>1, <2>3
  <2>6. QED
    BY <1>1, <2>1, <2>4, <2>5
<1>4. CASE ~(z \in Zones /\ wp[z] < BPZ)
  <2>1. UNCHANGED <<wp, media, valid, index>> /\ pc' \in Halts /\ ret' = ret
    BY <1>2, <1>4 DEF WritePage, Halt, Halts, device
  <2>2. QED
    BY <1>0, <1>1, <2>1
<1>5. QED
  BY <1>3, <1>4

\* Sizes are natural numbers, also those in records.
LEMMA SizesNat == /\ Sizes \subseteq Nat /\ 0 \in Sizes
                  /\ \A r \in Records : r.key \in Keys /\ r.size \in Sizes
  BY NumbersOK DEF Sizes, Records

LEMMA RecordType ==
  ASSUME NEW k \in Keys, NEW v \in Sizes
  PROVE  [key |-> k, size |-> v] \in Records
  BY DEF Records

LEMMA EmptyPage == << >> \in Pages
  BY DEF Pages

LEMMA PageType ==
  ASSUME NEW page \in Pages
  PROVE  page \in Seq(Records) /\ KeysOf(page) \in SUBSET Keys
  BY KeysOfType DEF Pages

\* The frames after a page was written, and at the start of their work.
LEMMA UpdateFlushedType ==
  ASSUME upd \in Updates
  PROVE  UpdateFlushed \in Updates
  BY EmptyPage DEF UpdateFlushed, Updates

LEMMA GcFlushedType ==
  ASSUME gc \in Collections
  PROVE  GcFlushed \in Collections
<1>1. gc.wrote + 1 \in Nat
  BY DEF Collections
<1>2. QED
  BY <1>1, EmptyPage DEF GcFlushed, Collections

LEMMA ParsedType ==
  ASSUME op.key \in Keys, NEW page \in Pages
  PROVE  Parsed(page) \subseteq Pages
<1>1. [key |-> op.key, size |-> 0] \in Records
  BY RecordType, SizesNat
<1>2. <<[key |-> op.key, size |-> 0]>> \in Pages
  BY <1>1 DEF Pages
<1>3. QED
  BY <1>2 DEF Parsed

LEMMA NewFrames ==
  /\ NoBuffer \in Buffers
  /\ \A page \in Pages : [NoUpdate EXCEPT !.todo = page] \in Updates
  /\ \A z \in Zones, b \in Blocks, page \in Pages :
        [NoGc EXCEPT !.zone = z, !.src = b, !.todo = page] \in Collections
  /\ NoUpdate \in Updates /\ NoGc \in Collections
  BY EmptyPage DEF NoBuffer, NoUpdate, NoGc, Buffers, Updates, Collections

LEMMA GcTakenType ==
  ASSUME gc \in Collections, NEW r \in Records, NEW rest \in Pages
  PROVE  GcTaken(r, rest) \in Collections
<1>1. Append(gc.acc, r) \in Pages /\ gc.acc \in Pages
  BY KeysOfAppend DEF Collections, Pages
<1>2. r.key \in Keys /\ r.size \in Nat /\ gc.cap \in Nat
  BY SizesNat DEF Collections
<1>3. gc.cap + Header + r.size \in Nat
  BY <1>2, NumbersOK
<1>4. gc.cut \cup {r.key} \in SUBSET Keys
  BY <1>2 DEF Collections
<1>5. QED
  BY <1>1, <1>2, <1>3, <1>4 DEF GcTaken, Collections

LEMMA InitType == Init => TypeInv
<1> SUFFICES ASSUME Init PROVE TypeInv
  OBVIOUS
<1>1. pend \in Buffers /\ upd \in Updates /\ gc \in Collections /\ op \in Operations
  BY DEF Init, NoBuffer, NoUpdate, NoGc, Buffers, Updates, Collections, Operations,
         Pages, Sizes
<1>2. /\ wp \in [Zones -> 0 .. BPZ] /\ seenWp \in [Zones -> 0 .. BPZ]
      /\ load \in 0 .. Length
  BY NumbersOK DEF Init
<1>3. /\ media \in [Blocks -> Pages]
      /\ valid \in [Blocks -> {"EMPTY", "VALID", "INVALID"}]
      /\ index \in [Keys -> Blocks \cup {NoBlock}]
      /\ live \in [Keys -> Sizes]
  BY DEF Init, Pages, Sizes
<1>4. QED
  BY <1>1, <1>2, <1>3 DEF Init, TypeInv, TypeOK, OpRead, FlagSet, Collecting, Labels

\* The types of the variables that a step changes, with those of the others.
LEMMA StepType == TypeInv /\ [Next]_vars => TypeInv'
<1> SUFFICES ASSUME TypeInv, [Next]_vars PROVE TypeInv'
  OBVIOUS
<1> USE DEF TypeInv, TypeOK, OpRead, FlagSet, Collecting, Labels, Halts
<1>1. CASE ReadRequest
  <2>1. PICK r \in Requests : op' = r /\ live' = [live EXCEPT ![r.key] = r.size]
    BY <1>1 DEF ReadRequest
  <2>2. r \in Operations /\ r.kind # "NONE" /\ r.key \in Keys /\ r.size \in Sizes
    BY DEF Requests, Operations, Sizes
  <2>3. live' \in [Keys -> Sizes] /\ op' \in Operations
    BY <2>1, <2>2
  <2>4. seenWp' \in [Zones -> 0 .. BPZ]
    BY <1>1 DEF ReadRequest, Progress
  <2>5. load' \in 0 .. Length
    BY <1>1, NumbersOK DEF ReadRequest
  <2>6. QED
    BY <1>1, <2>1, <2>2, <2>3, <2>4, <2>5 DEF ReadRequest, device
<1>2. CASE ReadPastEnd
  BY <1>2 DEF ReadPastEnd, Progress, device
<1>3. CASE Exit
  BY <1>3 DEF Exit, device
<1>4. CASE FlushBuffer
  <2>1. pend.recs \in Pages /\ KeysOf(pend.recs) \in SUBSET Keys
    BY KeysOfType DEF Buffers, Pages
  <2>2. Insert(pend.recs, KeysOf(pend.recs), "serve")
    BY <1>4 DEF FlushBuffer
  <2>3. pend' \in Buffers
    BY <1>4, NewFrames DEF FlushBuffer, Returned
  <2>4. QED
    BY <1>4, <2>1, <2>2, <2>3, InsertType DEF FlushBuffer
<1>5. CASE ServeAdd
  <2>1. [key |-> op.key, size |-> op.size] \in Records /\ op.size \in Nat
    <3>1. op.key \in Keys /\ op.size \in Sizes
      BY <1>5 DEF ServeAdd, Operations
    <3>2. QED
      BY <3>1, RecordType, SizesNat
  <2>2. pend' \in Buffers
    BY <1>5, <2>1, KeysOfAppend, NumbersOK DEF ServeAdd, Buffers, Pages
  <2>3. QED
    BY <1>5, <2>2 DEF ServeAdd, device
<1>6. CASE StartUpdate
  <2>1. op.key \in Keys
    BY <1>6 DEF StartUpdate
  <2>2. CASE index[op.key] = NoBlock
    BY <1>6, <2>2 DEF StartUpdate, Halt
  <2>3. CASE index[op.key] # NoBlock
    <3>1. index[op.key] \in Blocks /\ media[index[op.key]] \in Pages
      BY <2>1, <2>3
    <3>2. PICK page \in Parsed(media[index[op.key]]) :
             upd' = [NoUpdate EXCEPT !.todo = page]
      BY <1>6, <2>3 DEF StartUpdate
    <3>3. page \in Pages
      BY <2>1, <3>1, ParsedType
    <3>4. upd' \in Updates
      BY <3>2, <3>3, NewFrames
    <3>5. valid' \in [Blocks -> {"EMPTY", "VALID", "INVALID"}]
      BY <1>6, <2>3, <3>1 DEF StartUpdate, Invalidate
    <3>6. index' \in [Keys -> Blocks \cup {NoBlock}]
      BY <1>6, <2>3, <2>1 DEF StartUpdate
    <3>7. QED
      BY <1>6, <2>3, <3>4, <3>5, <3>6 DEF StartUpdate
  <2>4. QED
    BY <2>2, <2>3
<1>7. CASE SpillUpdate
  <2>1. upd.acc \in Pages /\ KeysOf(upd.acc) \in SUBSET Keys
    BY KeysOfType DEF Updates, Pages
  <2>2. Insert(upd.acc, KeysOf(upd.acc), "update")
    BY <1>7 DEF SpillUpdate
  <2>3. upd' \in Updates
    BY <1>7, UpdateFlushedType DEF SpillUpdate, Returned
  <2>4. QED
    BY <1>7, <2>1, <2>2, <2>3, InsertType DEF SpillUpdate
<1>8. CASE UpdateRecord
  <2>1. /\ upd.todo \in Seq(Records) /\ upd.todo # << >> /\ upd.acc \in Seq(Records)
        /\ upd.cap \in Nat /\ upd.found \in BOOLEAN
    BY <1>8 DEF UpdateRecord, Updates, Pages
  <2>2. Head(upd.todo) \in Records /\ Tail(upd.todo) \in Seq(Records)
    BY <2>1, KeysOfHeadTail
  <2>3. NewSize \in Sizes /\ NewSize \in Nat
    BY <2>2, SizesNat DEF NewSize, Operations
  <2>4. [key |-> Head(upd.todo).key, size |-> NewSize] \in Records
    BY <2>2, <2>3 DEF Records
  <2>5. upd' \in Updates
    BY <1>8, <2>1, <2>2, <2>3, <2>4, NumbersOK DEF UpdateRecord, Updates, Pages
  <2>6. QED
    BY <1>8, <2>5 DEF UpdateRecord, device
<1>9. CASE LastPage
  <2>1. upd.acc \in Pages /\ KeysOf(upd.acc) \in SUBSET Keys
    BY KeysOfType DEF Updates, Pages
  <2>2. Insert(upd.acc, KeysOf(upd.acc), "updated")
    BY <1>9 DEF LastPage
  <2>3. upd' \in Updates
    BY <1>9, UpdateFlushedType DEF LastPage, Returned
  <2>4. QED
    BY <1>9, <2>1, <2>2, <2>3, InsertType DEF LastPage
<1>10. CASE EndUpdate
  <2>1. upd' \in Updates
    BY <1>10, NewFrames DEF EndUpdate
  <2>2. QED
    BY <1>10, <2>1 DEF EndUpdate, device
<1>11. CASE Detect
  <2>1. gcQueue' \subseteq Zones /\ gcFlag' \in BOOLEAN
    BY <1>11 DEF Detect, Queued
  <2>2. \/ gcFlag' = TRUE /\ pc' = "gczone" /\ ret' = ret
        \/ gcFlag' = FALSE /\ pc' = ret /\ ret' = "request"
    BY <1>11 DEF Detect
  <2>3. QED
    BY <1>11, <2>1, <2>2 DEF Detect, device
<1>12. CASE StartZone
  <2>1. PICK z \in gcQueue :
          IF Scan(<<z, 0>>) = {}
          THEN /\ \E how \in {"fault", "assert481"} : Halt(how)
               /\ UNCHANGED <<gc, astray>>
          ELSE \E b \in Scan(<<z, 0>>) :
               /\ gc' = [NoGc EXCEPT !.zone = z, !.src = b, !.todo = media[b]]
               /\ astray' = (astray \/ b[1] # z)
               /\ pc' = "gcread" /\ UNCHANGED ret
    BY <1>12 DEF StartZone
  <2>2. CASE Scan(<<z, 0>>) = {}
    BY <1>12, <2>1, <2>2 DEF StartZone, Halt, device
  <2>3. CASE Scan(<<z, 0>>) # {}
    <3>1. PICK b \in Scan(<<z, 0>>) :
             /\ gc' = [NoGc EXCEPT !.zone = z, !.src = b, !.todo = media[b]]
             /\ astray' = (astray \/ b[1] # z)
             /\ pc' = "gcread" /\ UNCHANGED ret
      BY <2>1, <2>3
    <3>2. b \in Blocks /\ media[b] \in Pages /\ z \in Zones
      BY DEF Scan
    <3>3. gc' \in Collections
      BY <3>1, <3>2, NewFrames
    <3>4. astray' \in BOOLEAN
      BY <3>1
    <3>5. QED
      BY <1>12, <3>1, <3>3, <3>4 DEF StartZone, device
  <2>4. QED
    BY <2>2, <2>3
<1>13. CASE SpillGc
  <2>1. gc.acc \in Pages /\ KeysOf(gc.acc) \cup gc.cut \in SUBSET Keys
    BY KeysOfType DEF Collections, Pages
  <2>2. Insert(gc.acc, KeysOf(gc.acc) \cup gc.cut, "gcread")
    BY <1>13 DEF SpillGc
  <2>3. gc' \in Collections
    BY <1>13, GcFlushedType DEF SpillGc, Returned
  <2>4. QED
    BY <1>13, <2>1, <2>2, <2>3, InsertType DEF SpillGc
<1>14. CASE GcRecord
  <2>1. gc.todo \in Seq(Records) /\ gc.todo # << >>
    BY <1>14 DEF GcRecord, Collections, Pages
  <2>2. Head(gc.todo) \in Records /\ Tail(gc.todo) \in Pages
    BY <2>1, KeysOfHeadTail DEF Pages
  <2>3. gc' \in Collections
    BY <1>14, <2>2, GcTakenType DEF GcRecord
  <2>4. QED
    BY <1>14, <2>3 DEF GcRecord, device
<1>15. CASE NextBlock
  <2>1. PICK b \in NextBlocks : gc' = [gc EXCEPT !.src = b, !.todo = media[b]]
    BY <1>15 DEF NextBlock
  <2>2. b \in Blocks /\ media[b] \in Pages
    BY DEF NextBlocks, Scan
  <2>3. gc' \in Collections
    BY <2>1, <2>2 DEF Collections
  <2>4. QED
    BY <1>15, <2>3 DEF NextBlock, device
<1>16. CASE NextBlockEmpty
  <2>1. gc' \in Collections /\ pc' \in {pc, "fault"} /\ ret' = ret
    <3>1. PICK k \in IF gc.key = NoKey THEN StrayKeys ELSE {gc.key} :
            IF k = NoKey
            THEN Halt("fault") /\ UNCHANGED gc
            ELSE /\ \E b \in NextBlocks :
                      gc' = [GcTaken([key |-> k, size |-> 0], << >>) EXCEPT !.src = b]
                 /\ UNCHANGED <<pc, ret>>
      BY <1>16 DEF NextBlockEmpty
    <3>2. CASE k = NoKey
      BY <3>1, <3>2 DEF Halt
    <3>3. CASE k # NoKey
      <4>1. PICK b \in NextBlocks :
               gc' = [GcTaken([key |-> k, size |-> 0], << >>) EXCEPT !.src = b]
        BY <3>1, <3>3
      <4>2. b \in Blocks
        BY DEF NextBlocks, Scan
      <4>3. k \in Keys
        BY <3>3, StrayOK DEF Collections
      <4>4. [key |-> k, size |-> 0] \in Records /\ << >> \in Pages
        BY <4>3 DEF Records, Sizes, Pages
      <4>5. GcTaken([key |-> k, size |-> 0], << >>) \in Collections
        BY <4>4, GcTakenType
      <4>6. gc' \in Collections
        BY <4>1, <4>2, <4>5 DEF Collections
      <4>7. QED
        BY <3>1, <3>3, <4>6
    <3>4. QED
      BY <3>2, <3>3
  <2>2. QED
    BY <1>16, <2>1 DEF NextBlockEmpty, device
<1>17. CASE EndZone
  <2>1. CASE RecordsLeft
    <3>1. gc.acc \in Pages /\ KeysOf(gc.acc) \cup gc.cut \in SUBSET Keys
      BY KeysOfType DEF Collections, Pages
    <3>2. Insert(gc.acc, KeysOf(gc.acc) \cup gc.cut, "gcreset")
      BY <1>17, <2>1 DEF EndZone
    <3>3. gc' \in Collections
      BY <1>17, <2>1, GcFlushedType DEF EndZone, Returned
    <3>4. QED
      BY <1>17, <3>1, <3>2, <3>3, InsertType DEF EndZone
  <2>2. CASE ~RecordsLeft
    BY <1>17, <2>2 DEF EndZone, device
  <2>3. QED
    BY <2>1, <2>2
<1>18. CASE OverrunFault
  BY <1>18 DEF OverrunFault, Halt, device
<1>19. CASE ResetZone
  <2>1. /\ wp' = Rewound(wp, gc.zone)
        /\ media' = [b \in Blocks |-> IF b[1] = gc.zone THEN << >> ELSE media[b]]
        /\ valid' = Cleared(gc.zone)
        /\ gcQueue' = Unqueued(gc.zone)
        /\ gc' = NoGc
    BY <1>19 DEF ResetZone
  <2>2. wp' \in [Zones -> 0 .. BPZ]
    <3>1. 0 \in 0 .. BPZ
      BY NumbersOK
    <3>2. QED
      BY <2>1, <3>1 DEF Rewound
  <2>3. media' \in [Blocks -> Pages]
    BY <2>1 DEF Pages
  <2>4. valid' \in [Blocks -> {"EMPTY", "VALID", "INVALID"}]
    BY <2>1 DEF Cleared
  <2>5. gcQueue' \subseteq Zones
    BY <2>1 DEF Unqueued
  <2>6. gc' \in Collections
    BY <2>1, NewFrames
  <2>7. QED
    BY <1>19, <2>2, <2>3, <2>4, <2>5, <2>6 DEF ResetZone
<1>20. CASE EndGc
  BY <1>20 DEF EndGc, device
<1>21. CASE Stopped \/ UNCHANGED vars
  BY <1>21 DEF Stopped, vars, device
<1>22. QED
  BY <1>1, <1>2, <1>3, <1>4, <1>5, <1>6, <1>7, <1>8, <1>9, <1>10, <1>11, <1>12,
     <1>13, <1>14, <1>15, <1>16, <1>17, <1>18, <1>19, <1>20, <1>21
  DEF Next, Serving

\* Every variable keeps its range (TypeOK), whatever pages the parsers read
\* and whatever the uninitialised words hold.
THEOREM TypeCorrect == Spec => []TypeOK
<1>1. TypeInv => TypeOK
  BY DEF TypeInv
<1>2. QED
  BY <1>1, InitType, StepType, PTL DEF Spec
-----------------------------------------------------------------------------
(* The queue of zones that wait for a collection.                          *)

LEMMA ZoneSets ==
  ASSUME NEW S \in SUBSET Zones
  PROVE  IsFiniteSet(S) /\ Cardinality(S) \in Nat
<1>1. IsFiniteSet(Zones)
  BY FS_Interval, NumbersOK DEF Zones
<1>2. IsFiniteSet(S)
  BY <1>1, FS_Subset
<1>3. QED
  BY <1>2, FS_CardinalityType

LEMMA LastZone ==
  ASSUME NEW S \in SUBSET Zones, S # {}
  PROVE  \E m \in S : \A z \in S : z <= m
<1> DEFINE Mirror == {n \in Nat : NZ - n \in S}
<1>1. Mirror \in SUBSET Nat /\ Mirror # {}
  <2>1. PICK z \in S : TRUE
    OBVIOUS
  <2>2. NZ - z \in Nat /\ NZ - (NZ - z) = z
    BY NumbersOK DEF Zones
  <2>3. QED
    BY <2>1, <2>2
<1>2. PICK n \in Mirror : \A m \in Mirror : n <= m
  BY <1>1, LeastOf
<1>3. ASSUME NEW z \in S PROVE z <= NZ - n
  <2>1. z \in Int /\ NZ - z \in Nat /\ NZ - (NZ - z) = z
    BY NumbersOK DEF Zones
  <2>2. n <= NZ - z
    BY <1>2, <2>1
  <2>3. QED
    BY <1>2, <2>1, <2>2, NumbersOK
<1>4. QED
  BY <1>2, <1>3

\* The last zone that is queued finds fewer than gl zones before it.
LEMMA QueuedFits ==
  ASSUME TypeInv, NEW due \in SUBSET Zones, Cardinality(gcQueue) < GL
  PROVE  Cardinality(gcQueue \cup Queued(due)) <= GL
<1>1. gcQueue \in SUBSET Zones /\ Queued(due) \in SUBSET due
  BY DEF TypeInv, TypeOK, Queued
<1>2. CASE Queued(due) = {}
  <2>1. gcQueue \cup Queued(due) = gcQueue /\ Cardinality(gcQueue) \in Nat
    BY <1>1, <1>2, ZoneSets
  <2>2. QED
    BY <2>1, NumbersOK
<1>3. CASE Queued(due) # {}
  <2>1. PICK m \in Queued(due) : \A z \in Queued(due) : z <= m
    BY <1>1, <1>3, LastZone
  <2> DEFINE before == gcQueue \cup {y \in due : y < m}
  <2>2. before \in SUBSET Zones /\ Cardinality(before) < GL
    <3>1. before \in SUBSET Zones
      BY <1>1
    <3>2. Cardinality(before) \in Nat
      BY <3>1, ZoneSets
    <3>3. ~(Cardinality(before) >= GL)
      BY <2>1 DEF Queued, Enough
    <3>4. QED
      BY <3>1, <3>2, <3>3, NumbersOK
  <2>3. gcQueue \cup Queued(due) \subseteq before \cup {m}
    <3>1. ASSUME NEW z \in Queued(due) PROVE z = m \/ z \in {y \in due : y < m}
      <4>1. z \in due /\ z \in Zones /\ m \in Zones /\ z <= m
        BY <1>1, <2>1
      <4>2. QED
        BY <4>1, NumbersOK DEF Zones
    <3>2. QED
      BY <3>1
  <2>4. before \cup {m} \in SUBSET Zones
    BY <1>1, <2>1, <2>2
  <2>5. Cardinality(before \cup {m}) <= Cardinality(before) + 1
    <3>1. IsFiniteSet(before) /\ Cardinality(before) \in Nat
      BY <2>2, ZoneSets
    <3> HIDE DEF before
    <3>2. QED
      BY <3>1, FS_AddElement
  <2>6. Cardinality(gcQueue \cup Queued(due)) <= Cardinality(before \cup {m})
    BY <2>3, <2>4, ZoneSets, FS_Subset
  <2>7. /\ Cardinality(before) \in Nat /\ Cardinality(before \cup {m}) \in Nat
        /\ Cardinality(gcQueue \cup Queued(due)) \in Nat
    BY <1>1, <2>2, <2>4, ZoneSets
  <2>8. QED
    BY <2>2, <2>5, <2>6, <2>7, NumbersOK
<1>4. QED
  BY <1>2, <1>3

LEMMA StepQueue == TypeInv /\ QueueBounded /\ [Next]_vars => QueueBounded'
<1> SUFFICES ASSUME TypeInv, QueueBounded, [Next]_vars PROVE QueueBounded'
  OBVIOUS
<1>1. gcQueue \in SUBSET Zones /\ IsFiniteSet(gcQueue) /\ Cardinality(gcQueue) \in Nat
  BY ZoneSets DEF TypeInv, TypeOK
<1>2. CASE UNCHANGED <<gcQueue, gcFlag>>
  BY <1>2 DEF QueueBounded
<1>3. CASE Detect
  <2>1. PICK spread \in SUBSET MayVary :
          LET due == {z \in Zones \ gcQueue :
                        LowSpace(z) /\ (HighGarbage(z) \/ z \in spread)}
              new  == Queued(due)
              full == new # {} /\ Enough(gcQueue \cup new)
          IN  gcQueue' = gcQueue \cup new /\ gcFlag' = full
    BY <1>3 DEF Detect
  <2> DEFINE due == {z \in Zones \ gcQueue :
                       LowSpace(z) /\ (HighGarbage(z) \/ z \in spread)}
  <2>2. /\ gcQueue' = gcQueue \cup Queued(due)
        /\ gcFlag' = (Queued(due) # {} /\ Enough(gcQueue'))
    BY <2>1
  <2>3. Cardinality(gcQueue) < GL
    BY <1>3 DEF Detect, TypeInv, FlagSet, Labels, Collecting, QueueBounded
  <2>4. due \in SUBSET Zones
    OBVIOUS
  <2> HIDE DEF due
  <2>5. Cardinality(gcQueue') <= GL
    BY <2>2, <2>3, <2>4, QueuedFits
  <2>6. CASE Queued(due) = {}
    <3>1. gcQueue' = gcQueue
      BY <2>2, <2>6
    <3>2. QED
      BY <2>3, <2>5, <3>1 DEF QueueBounded
  <2>7. CASE Queued(due) # {}
    <3>1. Cardinality(gcQueue') \in Nat
      BY <1>1, <2>2, <2>4, ZoneSets DEF Queued
    <3>2. ASSUME ~gcFlag' PROVE Cardinality(gcQueue') < GL
      <4>1. ~Enough(gcQueue')
        BY <2>2, <2>7, <3>2
      <4>2. QED
        BY <3>1, <4>1, NumbersOK DEF Enough
    <3>3. QED
      BY <2>5, <3>2 DEF QueueBounded
  <2>8. QED
    BY <2>6, <2>7
<1>4. CASE ResetZone
  <2>1. gcQueue' \in SUBSET gcQueue /\ gcFlag' = gcFlag
    BY <1>4 DEF ResetZone, Unqueued
  <2>2. Cardinality(gcQueue') <= Cardinality(gcQueue) /\ Cardinality(gcQueue') \in Nat
    BY <1>1, <2>1, FS_Subset, ZoneSets
  <2>3. QED
    BY <1>1, <2>1, <2>2, NumbersOK DEF QueueBounded
<1>5. CASE EndGc
  <2>1. gcQueue' = {}
    BY <1>5 DEF EndGc
  <2>2. QED
    BY <2>1, FS_EmptySet, NumbersOK DEF QueueBounded
<1>6. CASE ReadRequest \/ ReadPastEnd \/ Exit \/ Stopped \/ UNCHANGED vars
  BY <1>2, <1>6 DEF ReadRequest, ReadPastEnd, Exit, Stopped, vars
<1>7. CASE FlushBuffer \/ ServeAdd \/ StartUpdate \/ SpillUpdate \/ UpdateRecord
           \/ LastPage \/ EndUpdate
  BY <1>2, <1>7 DEF FlushBuffer, ServeAdd, StartUpdate, SpillUpdate, UpdateRecord,
                    LastPage, EndUpdate
<1>8. CASE StartZone \/ SpillGc \/ GcRecord \/ NextBlock \/ NextBlockEmpty \/ EndZone
           \/ OverrunFault
  BY <1>2, <1>8 DEF StartZone, SpillGc, GcRecord, NextBlock, NextBlockEmpty, EndZone,
                    OverrunFault
<1>9. QED
  BY <1>3, <1>4, <1>5, <1>6, <1>7, <1>8 DEF Next, Serving

\* myGcDetect never queues more than gl zones, and below gl the collection has
\* not been started, so that the next insertion finds room in the queue
\* (QueueBounded).  Nothing is assumed of the uninitialised words.
THEOREM QueueNeverFull == Spec => []QueueBounded
<1>1. Init => QueueBounded
  BY FS_EmptySet, NumbersOK DEF Init, QueueBounded
<1>2. QED
  BY <1>1, InitType, StepType, StepQueue, PTL DEF Spec

-----------------------------------------------------------------------------
(***************************************************************************)
(* No update and no collection loses a key, and no collection needs more   *)
(* room than it makes: proofs that MapMatchesDevice, IndexNamesRecord,     *)
(* KeyFound and GcNeverGrows are invariants.                               *)
(*                                                                         *)
(* None of them is inductive: a reset loses no key because the collection  *)
(* has met every valid block of the zone, because none of its own pages    *)
(* goes to a queued zone, and because the only keys that are not at home   *)
(* while it runs are those of the update it interrupts.                    *)
(***************************************************************************)

\* What they need of the heap: a word 1 in the uninitialised can_zone, or the
\* number of a zone in the uninitialised zone_in, may send a page into the zone
\* that is about to be reset.
CleanWords == 1 \notin HeapWords /\ StrayZones \cap Zones = {}

\* Where the code goes on once a collection is over.
Within == IF pc = "detect" \/ pc \in Collecting THEN ret ELSE pc

Mapped == \A b \in Blocks : valid[b] = "EMPTY" <=> b[2] >= wp[b[1]]

\* Only a deletion has size 0, and no page has a record without a value.
Sized(page)  == \A i \in DOMAIN page : page[i].size # 0
RequestSized == op.size = 0 <=> op.kind \in {"NONE", "DELETE"}
BuffersSized == /\ Sized(pend.recs) /\ Sized(upd.todo) /\ Sized(upd.acc)
                /\ Sized(gc.todo) /\ Sized(gc.acc) /\ gc.cut = {}
MediaSized   == \A b \in Blocks : Sized(media[b])

\* Every key is at home, but for those an update has in its buffers.
Homed(k) == index[k] # NoBlock => /\ valid[index[k]] = "VALID"
                                  /\ k \in KeysOf(media[index[k]])
Homes    == \A k \in Keys \ InFlight : Homed(k)

\* Outside an update no record is in its buffers; inside, the key of the
\* request has been found or is still to come.
UpdateEmpty == Within \in {"request", "serve", "updated"} =>
                   upd.todo = << >> /\ upd.acc = << >>
OnTheWay == Within \in {"update", "updated"} =>
                upd.found \/ op.key \in KeysOf(upd.todo)

\* A collection reads blocks of the zone it will reset, which is in the queue,
\* and a key whose home is in the zone is still ahead of it or in its buffers.
InPlace == pc \in {"gcread", "gcreset"} =>
               gc.zone \in gcQueue /\ gc.src \in Blocks /\ gc.src[1] = gc.zone
Ahead(k) == \/ Before(gc.src, index[k])
            \/ k \in KeysOf(gc.todo) \cup KeysOf(gc.acc)
Covered == \A k \in Keys \ InFlight :
               index[k][1] = gc.zone => /\ pc = "gcread" => Ahead(k)
                                        /\ pc # "gcreset"

Steady == Mapped /\ MediaSized /\ BuffersSized /\ RequestSized /\ pc # "assert443"
Going  == Homes /\ UpdateEmpty /\ OnTheWay /\ InPlace /\ Covered

Safe == ~astray => Steady /\ (pc \notin Halts => Going)

-----------------------------------------------------------------------------
(* Scans.                                                                  *)

\* A set of blocks that is not empty has a first one, and only one.
LEMMA FirstBlock ==
  ASSUME NEW A \in SUBSET Blocks, A # {}
  PROVE  \E c \in A : \A d \in A : ~Before(d, c)
<1>1. \A b \in A : b[1] \in Nat /\ b[2] \in Nat
  BY BlocksDef DEF Zones, Offsets
<1> DEFINE Zs == {b[1] : b \in A}
<1>2. PICK z \in Zs : \A y \in Zs : z <= y
  <2>1. Zs \in SUBSET Nat /\ Zs # {}
    BY <1>1
  <2>2. QED
    BY <2>1, LeastOf
<1> DEFINE Os == {b[2] : b \in {c \in A : c[1] = z}}
<1>3. PICK o \in Os : \A y \in Os : o <= y
  <2>1. Os \in SUBSET Nat /\ Os # {}
    BY <1>1, <1>2
  <2>2. QED
    BY <2>1, LeastOf
<1>4. PICK c \in A : c[1] = z /\ c[2] = o
  BY <1>3
<1>5. ASSUME NEW d \in A PROVE ~Before(d, c)
  <2>1. z <= d[1] /\ (d[1] = z => o <= d[2])
    BY <1>2, <1>3
  <2>2. QED
    BY <1>1, <1>4, <2>1 DEF Before
<1>6. QED
  BY <1>4, <1>5

LEMMA FirstIsOnly ==
  ASSUME NEW a \in Blocks, NEW b \in Blocks, ~Before(a, b), ~Before(b, a)
  PROVE  a = b
<1>1. /\ a[1] \in Nat /\ a[2] \in Nat /\ a = <<a[1], a[2]>>
      /\ b[1] \in Nat /\ b[2] \in Nat /\ b = <<b[1], b[2]>>
  BY BlocksDef DEF Zones, Offsets
<1>2. a[1] = b[1] /\ a[2] = b[2]
  BY <1>1 DEF Before
<1>3. QED
  BY <1>1, <1>2

\* A scan from b stops at a valid block that is not before b, and passes over
\* none.
LEMMA ScanStops ==
  ASSUME NEW b, NEW c \in Scan(b)
  PROVE  /\ c \in Blocks /\ valid[c] = "VALID" /\ ~Before(c, b)
         /\ \A d \in Scan(b) : d = c
         /\ \A d \in Blocks : valid[d] = "VALID" /\ ~Before(d, b) =>
                                  d = c \/ Before(c, d)
  BY FirstIsOnly DEF Scan

LEMMA ScanFinds ==
  ASSUME NEW b, NEW c \in Blocks, valid[c] = "VALID", ~Before(c, b)
  PROVE  \E d \in Scan(b) : ~Before(c, d)
<1> DEFINE A == {d \in Blocks : valid[d] = "VALID" /\ ~Before(d, b)}
<1>1. A \in SUBSET Blocks /\ c \in A
  OBVIOUS
<1>2. PICK d \in A : \A e \in A : ~Before(e, d)
  BY <1>1, FirstBlock
<1>3. d \in Scan(b)
  BY <1>2 DEF Scan
<1>4. QED
  BY <1>1, <1>2, <1>3
-----------------------------------------------------------------------------
(* Writing a page.                                                         *)

\* On clean words the zone chosen is a free one.
LEMMA ChosenFree ==
  ASSUME TypeInv, CleanWords, NEW z \in Zones,
         z \in Emptiest(Free, wp) \cup ByLifetime \cup Unset
  PROVE  z \in Free
<1>1. z \notin Unset
  BY DEF Unset, CleanWords
<1>2. CASE z \in Emptiest(Free, wp)
  BY <1>2 DEF Emptiest
<1>3. CASE z \in ByLifetime
  <2>1. PICK words \in [Zones -> HeapWords] : \E picked \in Rounds(words) :
          z \in FromMarked(words, picked)
    BY <1>3 DEF ByLifetime
  <2>2. PICK picked \in Rounds(words) : z \in FromMarked(words, picked)
    BY <2>1
  <2>3. picked \subseteq Free
    BY DEF Rounds, Emptiest
  <2>4. {y \in Zones : words[y] = 1} = {}
    BY DEF CleanWords
  <2>5. QED
    BY <2>2, <2>3, <2>4 DEF FromMarked, Emptiest
<1>4. QED
  BY <1>1, <1>2, <1>3

\* Block b of a zone that is not queued is written at the write pointer.
Written(b, page, keys) ==
    /\ b[1] \notin gcQueue /\ b[2] = wp[b[1]]
    /\ wp' = [wp EXCEPT ![b[1]] = @ + 1]
    /\ media' = [media EXCEPT ![b] = page]
    /\ valid' = [valid EXCEPT ![b] = "VALID"]
    /\ index' = [k \in Keys |-> IF k \in keys THEN b ELSE index[k]]

Refused == UNCHANGED <<wp, media, valid, index>> /\ pc' \in {"assert327", "fault"}

LEMMA InsertEffect ==
  ASSUME TypeInv, CleanWords, NEW page, NEW keys, NEW after,
         Insert(page, keys, after)
  PROVE  \/ Refused
         \/ /\ \E b \in Blocks : Written(b, page, keys)
            /\ \/ gcFlag /\ pc' = after /\ ret' = ret
               \/ ~gcFlag /\ pc' = "detect" /\ ret' = after
<1>1. PICK z \in Emptiest(Free, wp) \cup ByLifetime \cup Unset :
         WritePage(z, page, keys, after)
  BY DEF Insert
<1>2. CASE z \in Zones /\ wp[z] < BPZ
  <2>1. z \notin gcQueue
    BY <1>2, ChosenFree DEF Free
  <2>2. wp[z] \in Offsets
    BY <1>2, NumbersOK DEF TypeInv, TypeOK, Offsets
  <2>3. <<z, wp[z]>> \in Blocks
    BY <1>2, <2>2, BlocksDef
  <2>4. Written(<<z, wp[z]>>, page, keys)
    BY <1>1, <1>2, <2>1 DEF WritePage, Written
  <2>5. QED
    BY <1>1, <1>2, <2>3, <2>4 DEF WritePage
<1>3. CASE ~(z \in Zones /\ wp[z] < BPZ)
  BY <1>1, <1>3 DEF WritePage, Halt, Refused, device
<1>4. QED
  BY <1>2, <1>3

\* The page is the home of its keys, the other keys keep theirs, and the map
\* and the device go on agreeing.
LEMMA WrittenKeeps ==
  ASSUME TypeInv, Mapped, MediaSized, NEW page \in Pages, Sized(page),
         NEW b \in Blocks, Written(b, page, KeysOf(page))
  PROVE  /\ Mapped' /\ MediaSized'
         /\ \A k \in Keys : k \in KeysOf(page) => Homed(k)' /\ index'[k] = b
         /\ \A k \in Keys \ KeysOf(page) : index'[k] = index[k]
                                           /\ (Homed(k) => Homed(k)')
<1> USE DEF TypeInv, TypeOK, Written
<1>1. b[1] \in Zones /\ b[2] \in Nat /\ wp[b[1]] \in Nat
  BY BlocksDef, NumbersOK DEF Offsets
<1>2. Mapped'
  <2> SUFFICES ASSUME NEW c \in Blocks
               PROVE  valid'[c] = "EMPTY" <=> c[2] >= wp'[c[1]]
    BY DEF Mapped
  <2>1. c[1] \in Zones /\ c[2] \in Nat /\ wp[c[1]] \in Nat /\ c = <<c[1], c[2]>>
        /\ b = <<b[1], b[2]>>
    BY BlocksDef, NumbersOK DEF Offsets
  <2>2. CASE c = b
    BY <1>1, <2>1, <2>2
  <2>3. CASE c # b /\ c[1] = b[1]
    <3>1. c[2] # b[2]
      BY <2>1, <2>3
    <3>2. valid'[c] = valid[c] /\ wp'[c[1]] = wp[c[1]] + 1
      BY <2>3, <1>1
    <3>3. QED
      BY <1>1, <2>1, <2>3, <3>1, <3>2 DEF Mapped
  <2>4. CASE c[1] # b[1]
    <3>1. valid'[c] = valid[c] /\ wp'[c[1]] = wp[c[1]]
      BY <2>1, <2>4, <1>1
    <3>2. QED
      BY <3>1 DEF Mapped
  <2>5. QED
    BY <2>2, <2>3, <2>4
<1>3. MediaSized'
  BY DEF MediaSized
<1>4. valid[b] = "EMPTY"
  BY <1>1 DEF Mapped
<1>5. ASSUME NEW k \in Keys, k \in KeysOf(page)
      PROVE  Homed(k)' /\ index'[k] = b
  <2>1. index'[k] = b /\ valid'[b] = "VALID" /\ media'[b] = page
    BY <1>5
  <2>2. QED
    BY <1>5, <2>1 DEF Homed
<1>6. ASSUME NEW k \in Keys \ KeysOf(page)
      PROVE  index'[k] = index[k] /\ (Homed(k) => Homed(k)')
  <2>1. index'[k] = index[k]
    OBVIOUS
  <2>2. CASE index[k] = NoBlock
    BY <2>1, <2>2 DEF Homed
  <2>3. CASE index[k] # NoBlock /\ Homed(k)
    <3>1. index[k] \in Blocks /\ index[k] # b
      BY <1>4, <2>3 DEF Homed
    <3>2. valid'[index[k]] = valid[index[k]] /\ media'[index[k]] = media[index[k]]
      BY <3>1
    <3>3. QED
      BY <2>1, <2>3, <3>2 DEF Homed
  <2>4. QED
    BY <2>1, <2>2, <2>3
<1>7. QED
  BY <1>2, <1>3, <1>5, <1>6
-----------------------------------------------------------------------------
(* Every step keeps Safe.  The steps that write a page come first.         *)

LEMMA SizedPages ==
  /\ Sized(<< >>)
  /\ \A page \in Seq(Records) : page # << >> /\ Sized(page) =>
        Head(page).size # 0 /\ Sized(Tail(page))
  /\ \A page \in Seq(Records), r \in Records :
        Sized(page) /\ r.size # 0 => Sized(Append(page, r))
<1>1. Sized(<< >>)
  BY DEF Sized
<1>2. ASSUME NEW page \in Seq(Records), page # << >>, Sized(page)
      PROVE  Head(page).size # 0 /\ Sized(Tail(page))
  <2>1. Head(page).size # 0
    BY <1>2 DEF Sized
  <2>2. ASSUME NEW i \in DOMAIN Tail(page) PROVE Tail(page)[i].size # 0
    <3>1. i + 1 \in DOMAIN page /\ page[i + 1] = Tail(page)[i]
      BY <1>2
    <3>2. QED
      BY <1>2, <3>1 DEF Sized
  <2>3. QED
    BY <2>1, <2>2 DEF Sized
<1>3. ASSUME NEW page \in Seq(Records), NEW r \in Records, Sized(page), r.size # 0
      PROVE  Sized(Append(page, r))
  <2>1. ASSUME NEW i \in DOMAIN Append(page, r) PROVE Append(page, r)[i].size # 0
    <3>1. CASE i = Len(page) + 1
      BY <1>3, <3>1
    <3>2. CASE i # Len(page) + 1
      <4>1. i \in DOMAIN page /\ Append(page, r)[i] = page[i]
        BY <3>2
      <4>2. QED
        BY <1>3, <4>1 DEF Sized
    <3>3. QED
      BY <3>1, <3>2
  <2>2. QED
    BY <2>1 DEF Sized
<1>4. QED
  BY <1>1, <1>2, <1>3

LEMMA FlushBufferSafe ==
  ASSUME CleanWords, TypeInv, Steady, Going, FlushBuffer
  PROVE  Steady' /\ (pc' \notin Halts => Going')
<1>1. /\ pend.recs \in Pages /\ Sized(pend.recs)
      /\ pc = "serve" /\ ~gcFlag /\ pend' = Returned(pend, NoBuffer)
      /\ UNCHANGED <<gcQueue, gcFlag, op, upd, gc>>
  BY DEF TypeInv, TypeOK, FlagSet, Labels, Collecting, Buffers, FlushBuffer, Steady,
         BuffersSized
<1>2. InFlight' = InFlight
  BY <1>1 DEF InFlight
<1>3. /\ BuffersSized' /\ RequestSized'
  BY <1>1, SizedPages DEF Steady, BuffersSized, RequestSized, NoBuffer, Returned
<1>4. CASE Refused
  BY <1>3, <1>4 DEF Refused, Steady, Mapped, MediaSized, Halts
<1>5. CASE ~Refused
  <2>1. pc' = "detect" /\ ret' = "serve"
    BY <1>1, <1>5, InsertEffect DEF FlushBuffer
  <2>2. PICK b \in Blocks : Written(b, pend.recs, KeysOf(pend.recs))
    BY <1>1, <1>5, InsertEffect DEF FlushBuffer
  <2>3. Mapped' /\ MediaSized' /\ Homes'
    BY <1>1, <1>2, <2>2, WrittenKeeps DEF Steady, Going, Homes
  <2>4. UpdateEmpty' /\ OnTheWay' /\ InPlace' /\ Covered'
    BY <1>1, <2>1 DEF Going, UpdateEmpty, OnTheWay, InPlace, Covered, Within, Collecting
  <2>5. QED
    BY <1>3, <2>1, <2>3, <2>4 DEF Steady, Going
<1>6. QED
  BY <1>4, <1>5

\* The keys of the buffer that is written leave it for their new home.
LEMMA UpdateWriteSafe ==
  ASSUME CleanWords, TypeInv, Steady, Going, NEW after \in {"update", "updated"},
         pc = "update", after = "updated" => upd.todo = << >>,
         Insert(upd.acc, KeysOf(upd.acc), after), upd' = Returned(upd, UpdateFlushed),
         UNCHANGED <<gcQueue, gcFlag, pend, op, gc>>
  PROVE  Steady' /\ (pc' \notin Halts => Going')
<1>1. /\ upd.acc \in Pages /\ Sized(upd.acc) /\ ~gcFlag
      /\ upd'.todo = upd.todo /\ upd'.found = upd.found
      /\ upd'.acc = IF pc' \in Halts THEN upd.acc ELSE << >>
  BY DEF TypeInv, TypeOK, FlagSet, Labels, Collecting, Updates, Steady, BuffersSized,
         UpdateFlushed, Returned
<1>2. BuffersSized' /\ RequestSized'
  BY <1>1, SizedPages DEF Steady, BuffersSized, RequestSized
<1>3. CASE Refused
  BY <1>2, <1>3 DEF Refused, Steady, Mapped, MediaSized, Halts
<1>4. CASE ~Refused
  <2>1. /\ pc' = "detect" /\ ret' = after
        /\ upd'.todo = upd.todo /\ upd'.acc = << >> /\ upd'.found = upd.found
    BY <1>1, <1>4, InsertEffect DEF Halts
  <2>2. PICK b \in Blocks : Written(b, upd.acc, KeysOf(upd.acc))
    BY <1>1, <1>4, InsertEffect
  <2>3. InFlight' \cup (KeysOf(upd.acc) \cap InFlight) = InFlight
    BY <2>1, KeysOfEmpty DEF InFlight
  <2>4. Mapped' /\ MediaSized'
    BY <1>1, <2>2, WrittenKeeps DEF Steady
  <2>5. Homes'
    <3> SUFFICES ASSUME NEW k \in Keys, k \notin InFlight' PROVE Homed(k)'
      BY DEF Homes
    <3>1. CASE k \in KeysOf(upd.acc)
      BY <1>1, <2>2, <3>1, WrittenKeeps DEF Steady
    <3>2. CASE k \notin KeysOf(upd.acc)
      <4>1. Homed(k)
        BY <2>3, <3>2 DEF Going, Homes
      <4>2. QED
        BY <1>1, <2>2, <3>2, <4>1, WrittenKeeps DEF Steady
    <3>3. QED
      BY <3>1, <3>2
  <2>6. UpdateEmpty' /\ OnTheWay' /\ InPlace' /\ Covered'
    BY <1>1, <2>1 DEF Going, UpdateEmpty, OnTheWay, InPlace, Covered, Within, Collecting
  <2>7. QED
    BY <1>2, <2>1, <2>4, <2>5, <2>6 DEF Steady, Going
<1>5. QED
  BY <1>3, <1>4

\* No key of a page that a collection writes is left in the zone.
LEMMA GcWriteSafe ==
  ASSUME CleanWords, TypeInv, Steady, Going, NEW after \in {"gcread", "gcreset"},
         pc = "gcread",
         after = "gcreset" =>
             \A k \in Keys \ InFlight :
                 index[k][1] = gc.zone => k \in KeysOf(gc.acc),
         Insert(gc.acc, KeysOf(gc.acc) \cup gc.cut, after), gc' = Returned(gc, GcFlushed),
         UNCHANGED <<gcQueue, gcFlag, pend, op, upd>>
  PROVE  Steady' /\ (pc' \notin Halts => Going')
<1>1. /\ gc.acc \in Pages /\ Sized(gc.acc) /\ gcFlag
      /\ KeysOf(gc.acc) \cup gc.cut = KeysOf(gc.acc)
  BY DEF TypeInv, TypeOK, FlagSet, Labels, Collecting, Collections, Steady,
         BuffersSized
<1>2. /\ gc'.zone = gc.zone /\ gc'.src = gc.src /\ gc'.todo = gc.todo
      /\ gc'.acc = (IF pc' \in Halts THEN gc.acc ELSE << >>) /\ gc'.cut = {}
  BY DEF TypeInv, TypeOK, Collections, Steady, BuffersSized, GcFlushed, Returned
<1>3. InFlight' = InFlight
  BY DEF InFlight
<1>4. BuffersSized' /\ RequestSized'
  BY <1>1, <1>2, SizedPages DEF Steady, BuffersSized, RequestSized
<1>5. CASE Refused
  BY <1>4, <1>5 DEF Refused, Steady, Mapped, MediaSized, Halts
<1>6. CASE ~Refused
  <2>1. pc' = after /\ ret' = ret
    BY <1>1, <1>6, InsertEffect
  <2>2. PICK b \in Blocks : Written(b, gc.acc, KeysOf(gc.acc))
    BY <1>1, <1>6, InsertEffect
  <2>3. /\ Mapped' /\ MediaSized'
        /\ \A k \in Keys : k \in KeysOf(gc.acc) => Homed(k)' /\ index'[k] = b
        /\ \A k \in Keys \ KeysOf(gc.acc) : index'[k] = index[k]
                                            /\ (Homed(k) => Homed(k)')
    BY <1>1, <2>2, WrittenKeeps DEF Steady
  <2>4. Homes'
    BY <1>3, <2>3 DEF Going, Homes
  <2>5. Covered'
    <3> SUFFICES ASSUME NEW k \in Keys \ InFlight, index'[k][1] = gc.zone
                 PROVE  after = "gcread" /\ Ahead(k)'
      BY <1>2, <1>3, <2>1 DEF Covered
    <3>1. b[1] # gc.zone
      BY <2>2 DEF Going, InPlace, Written
    <3>2. k \notin KeysOf(gc.acc) /\ index'[k] = index[k]
      BY <2>3, <3>1
    <3>3. Before(gc.src, index[k]) \/ k \in KeysOf(gc.todo)
      BY <3>2 DEF Going, Covered, Ahead
    <3>4. QED
      BY <1>2, <3>2, <3>3 DEF Ahead
  <2>6. UpdateEmpty' /\ OnTheWay' /\ InPlace'
    BY <1>2, <2>1 DEF Going, UpdateEmpty, OnTheWay, InPlace, Within, Collecting
  <2>7. QED
    BY <1>4, <2>1, <2>3, <2>4, <2>5, <2>6 DEF Steady, Going
<1>7. QED
  BY <1>5, <1>6

LEMMA EndZoneSafe ==
  ASSUME CleanWords, TypeInv, Steady, Going, EndZone
  PROVE  Steady' /\ (pc' \notin Halts => Going')
<1>1. /\ pc = "gcread" /\ gc.todo = << >> /\ ~InThisZone
      /\ UNCHANGED <<gcQueue, gcFlag, pend, op, upd>>
  BY DEF EndZone
<1>2. ASSUME NEW k \in Keys \ InFlight, index[k][1] = gc.zone
      PROVE  k \in KeysOf(gc.acc)
  <2>1. gc.zone \in Zones /\ gc.src \in Blocks /\ gc.src[1] = gc.zone
    BY <1>1 DEF Going, InPlace, TypeInv, TypeOK
  <2>2. index[k] \in Blocks /\ valid[index[k]] = "VALID"
    BY <1>2, <2>1 DEF TypeInv, TypeOK, Going, Homes, Homed, Zones, NoBlock
  <2>3. ~Before(gc.src, index[k])
    <3> SUFFICES ASSUME Before(gc.src, index[k]) PROVE FALSE
      OBVIOUS
    <3>1. /\ index[k][2] \in Nat /\ gc.src[2] \in Nat /\ gc.src[1] \in Nat
      BY <2>1, <2>2, BlocksDef DEF Offsets, Zones
    <3>2. ~Before(index[k], After(gc.src))
      BY <1>2, <2>1, <3>1 DEF Before, After
    <3>3. PICK d \in NextBlocks : ~Before(index[k], d)
      BY <2>2, <3>2, ScanFinds DEF NextBlocks
    <3>4. d \in Blocks /\ ~Before(d, After(gc.src))
      BY ScanStops DEF NextBlocks
    <3>5. d[1] \in Nat /\ d[2] \in Nat
      BY <3>4, BlocksDef DEF Offsets, Zones
    <3>6. d[1] = gc.zone
      BY <1>2, <2>1, <3>1, <3>3, <3>4, <3>5 DEF Before, After
    <3>7. QED
      BY <1>1, <3>6 DEF InThisZone
  <2>4. QED
    BY <1>1, <1>2, <2>3, KeysOfEmpty DEF Going, Covered, Ahead
<1>3. CASE RecordsLeft
  BY <1>1, <1>2, <1>3, GcWriteSafe DEF EndZone
<1>4. CASE ~RecordsLeft
  <2>1. pc' = "gcreset" /\ UNCHANGED <<wp, media, valid, index, gc, ret>>
    BY <1>4 DEF EndZone, device
  <2>2. InFlight' = InFlight
    BY <1>1 DEF InFlight
  <2>3. gc.acc = << >>
    BY <1>4 DEF RecordsLeft
  <2>4. Covered'
    BY <1>2, <2>1, <2>2, <2>3, KeysOfEmpty DEF Covered
  <2>5. Homes'
    BY <2>1, <2>2 DEF Going, Homes, Homed
  <2>6. UpdateEmpty' /\ OnTheWay' /\ InPlace'
    BY <1>1, <2>1 DEF Going, UpdateEmpty, OnTheWay, InPlace, Within, Collecting
  <2>7. Steady'
    BY <1>1, <2>1 DEF Steady, Mapped, MediaSized, BuffersSized, RequestSized
  <2>8. QED
    BY <2>4, <2>5, <2>6, <2>7 DEF Going
<1>5. QED
  BY <1>3, <1>4

\* The steps that write nothing: which of them leave the homes alone is clear
\* from what they change.
LEMMA RequestSafe ==
  ASSUME TypeInv, Steady, Going, ReadRequest \/ ReadPastEnd \/ Exit \/ ServeAdd
  PROVE  Steady' /\ (pc' \notin Halts => Going')
<1>1. /\ upd.todo = << >> /\ upd.acc = << >> /\ pc \in {"request", "serve"}
      /\ UNCHANGED <<wp, media, valid, index, upd, gc, gcQueue>>
  BY DEF ReadRequest, ReadPastEnd, Exit, ServeAdd, Going, UpdateEmpty, Within,
         Collecting, device
<1>2. InFlight = {} /\ InFlight' = {}
  BY <1>1, KeysOfEmpty DEF InFlight
<1>3. RequestSized'
  <2>1. CASE ReadRequest
    <3>1. \A r \in Requests : r.size = 0 <=> r.kind \in {"NONE", "DELETE"}
      BY NumbersOK DEF Requests
    <3>2. QED
      BY <2>1, <3>1 DEF ReadRequest, RequestSized
  <2>2. CASE ReadPastEnd \/ Exit \/ ServeAdd
    BY <2>2 DEF ReadPastEnd, Exit, ServeAdd, Steady, RequestSized
  <2>3. QED
    BY <2>1, <2>2
<1>4. Sized(pend'.recs)
  <2>1. CASE ServeAdd
    <3>1. op.key \in Keys /\ op.size \in Sizes /\ op.size # 0
      BY <2>1 DEF ServeAdd, TypeInv, TypeOK, OpRead, Operations, Steady, RequestSized
    <3>2. [key |-> op.key, size |-> op.size] \in Records
      BY <3>1, RecordType
    <3>3. pend.recs \in Seq(Records) /\ Sized(pend.recs)
      BY DEF TypeInv, TypeOK, Buffers, Pages, Steady, BuffersSized
    <3>4. pend'.recs = Append(pend.recs, [key |-> op.key, size |-> op.size])
      BY <2>1 DEF ServeAdd
    <3>5. QED
      BY <3>1, <3>2, <3>3, <3>4, SizedPages
  <2>2. CASE ReadRequest \/ ReadPastEnd \/ Exit
    BY <2>2 DEF ReadRequest, ReadPastEnd, Exit, Steady, BuffersSized
  <2>3. QED
    BY <2>1, <2>2
<1>5. Steady'
  <2>1. pc' # "assert443"
    BY DEF ReadRequest, ReadPastEnd, Exit, ServeAdd
  <2>2. QED
    BY <1>1, <1>3, <1>4, <2>1 DEF Steady, Mapped, MediaSized, BuffersSized
<1>6. Homes'
  BY <1>1, <1>2 DEF Going, Homes, Homed
<1>7. ASSUME pc' \notin Halts
      PROVE  UpdateEmpty' /\ OnTheWay' /\ InPlace' /\ Covered'
  <2>1. pc' \in {"request", "serve"}
    BY <1>7 DEF ReadRequest, ReadPastEnd, Exit, ServeAdd, Halts
  <2>2. QED
    BY <1>1, <2>1 DEF UpdateEmpty, OnTheWay, InPlace, Covered, Within, Collecting
<1>8. QED
  BY <1>5, <1>6, <1>7 DEF Going

\* The page that an update reads has the key, and the others of its keys are
\* in the buffers from now on.
LEMMA StartUpdateSafe ==
  ASSUME TypeInv, Steady, Going, StartUpdate
  PROVE  Steady' /\ (pc' \notin Halts => Going')
<1>1. /\ op.key \in Keys /\ pc = "serve" /\ upd.todo = << >> /\ upd.acc = << >>
      /\ UNCHANGED <<wp, media, gcQueue, pend, op, gc>>
  BY DEF StartUpdate, TypeInv, TypeOK, OpRead, Labels, Going, UpdateEmpty, Within,
         Collecting
<1>2. InFlight = {}
  BY <1>1, KeysOfEmpty DEF InFlight
<1>3. CASE index[op.key] = NoBlock
  <2>1. pc' = "assert394" /\ UNCHANGED <<valid, index, upd>>
    BY <1>3 DEF StartUpdate, Halt
  <2>2. QED
    BY <1>1, <2>1 DEF Steady, Mapped, MediaSized, BuffersSized, RequestSized, Halts
<1>4. CASE index[op.key] # NoBlock
  <2> DEFINE b == index[op.key]
  <2>1. /\ b \in Blocks /\ valid[b] = "VALID" /\ op.key \in KeysOf(media[b])
    BY <1>1, <1>2, <1>4 DEF TypeInv, TypeOK, Going, Homes, Homed
  <2>2. media[b] # << >> /\ media[b] \in Pages /\ Sized(media[b])
    BY <2>1, KeysOfEmpty DEF TypeInv, TypeOK, Steady, MediaSized
  <2>3. /\ upd' = [NoUpdate EXCEPT !.todo = media[b]]
        /\ valid' = [valid EXCEPT ![b] = "INVALID"]
        /\ index' = IF op.size = 0 THEN [index EXCEPT ![op.key] = NoBlock] ELSE index
        /\ pc' = "update"
    BY <1>4, <2>2 DEF StartUpdate, Parsed, Invalidate
  <2>4. upd'.todo = media[b] /\ upd'.acc = << >>
    BY <2>3 DEF NoUpdate
  <2>5. Mapped'
    BY <1>1, <2>1, <2>3 DEF Steady, Mapped, TypeInv, TypeOK
  <2>6. Steady'
    BY <1>1, <2>2, <2>3, <2>4, <2>5, SizedPages
    DEF Steady, MediaSized, BuffersSized, RequestSized
  <2>7. Homes'
    <3> SUFFICES ASSUME NEW k \in Keys, k \notin InFlight', index'[k] # NoBlock
                 PROVE  Homed(k)'
      BY DEF Homes, Homed
    <3>1. ~(k = op.key /\ op.size = 0)
      BY <1>1, <2>3 DEF TypeInv, TypeOK
    <3>2. k \notin KeysOf(media[b])
      BY <1>1, <2>4, <3>1 DEF InFlight
    <3>3. index'[k] = index[k]
      BY <2>3, <3>1 DEF TypeInv, TypeOK
    <3>4. index[k] \in Blocks /\ valid[index[k]] = "VALID" /\ k \in KeysOf(media[index[k]])
      BY <1>2, <3>3 DEF Going, Homes, Homed, TypeInv, TypeOK
    <3>5. valid'[index[k]] = valid[index[k]]
      BY <2>3, <3>2, <3>4 DEF TypeInv, TypeOK
    <3>6. QED
      BY <1>1, <3>3, <3>4, <3>5 DEF Homed
  <2>8. OnTheWay'
    BY <1>1, <2>1, <2>4 DEF OnTheWay
  <2>9. UpdateEmpty' /\ InPlace' /\ Covered'
    BY <2>3 DEF UpdateEmpty, InPlace, Covered, Within, Collecting
  <2>10. QED
    BY <2>6, <2>7, <2>8, <2>9 DEF Going
<1>5. QED
  BY <1>3, <1>4

\* A record that is kept stays in the buffers; only the key of a deletion is
\* dropped.
LEMMA UpdateRecordSafe ==
  ASSUME TypeInv, Steady, Going, UpdateRecord
  PROVE  Steady' /\ (pc' \notin Halts => Going')
<1> DEFINE r == Head(upd.todo)
<1>1. /\ pc = "update" /\ upd.todo # << >>
      /\ UNCHANGED <<wp, media, valid, index, gcQueue, pend, op, gc, pc, ret>>
      /\ upd.todo \in Seq(Records) /\ upd.acc \in Seq(Records)
      /\ Sized(upd.todo) /\ Sized(upd.acc)
  BY DEF UpdateRecord, TypeInv, TypeOK, Updates, Pages, Steady, BuffersSized, device
<1>2. /\ r \in Records /\ r.size # 0 /\ Tail(upd.todo) \in Seq(Records)
      /\ Sized(Tail(upd.todo)) /\ KeysOf(upd.todo) = {r.key} \cup KeysOf(Tail(upd.todo))
  BY <1>1, KeysOfHeadTail, SizedPages
<1>3. upd'.todo = Tail(upd.todo) /\ upd'.found = (upd.found \/ r.key = op.key)
  BY DEF UpdateRecord
<1>4. NewSize \in Sizes
  BY <1>2, SizesNat DEF NewSize, TypeInv, TypeOK, Operations
<1>5. /\ upd'.acc \in Seq(Records) /\ Sized(upd'.acc)
      /\ InFlight' = InFlight
  <2>1. CASE NewSize = 0
    <3>1. upd'.acc = upd.acc
      BY <1>1, <2>1 DEF UpdateRecord
    <3>2. r.key = op.key /\ op.size = 0
      BY <1>2, <2>1 DEF NewSize
    <3>3. QED
      BY <1>1, <1>2, <1>3, <3>1, <3>2 DEF InFlight
  <2>2. CASE NewSize # 0
    <3> DEFINE n == [key |-> r.key, size |-> NewSize]
    <3>1. n \in Records /\ n.size # 0 /\ n.key = r.key
      BY <1>2, <1>4, <2>2, SizesNat, RecordType
    <3>2. upd'.acc = Append(upd.acc, n)
      <4>1. upd'.acc = upd.acc \o <<n>>
        BY <2>2 DEF UpdateRecord
      <4>2. QED
        BY <1>1, <3>1, <4>1
    <3>3. KeysOf(upd'.acc) = KeysOf(upd.acc) \cup {r.key} /\ upd'.acc \in Seq(Records)
      BY <1>1, <3>1, <3>2, KeysOfAppend
    <3>4. Sized(upd'.acc)
      BY <1>1, <3>1, <3>2, SizedPages
    <3>5. QED
      BY <1>1, <1>2, <1>3, <3>3, <3>4 DEF InFlight
  <2>3. QED
    BY <2>1, <2>2
<1>6. Steady'
  BY <1>1, <1>2, <1>3, <1>5
  DEF Steady, Mapped, MediaSized, BuffersSized, RequestSized
<1>7. Homes'
  BY <1>1, <1>5 DEF Going, Homes, Homed
<1>8. OnTheWay'
  BY <1>1, <1>2, <1>3 DEF Going, OnTheWay, Within, Collecting
<1>9. UpdateEmpty' /\ InPlace' /\ Covered'
  BY <1>1 DEF UpdateEmpty, InPlace, Covered, Within, Collecting
<1>10. QED
  BY <1>6, <1>7, <1>8, <1>9 DEF Going

LEMMA EndUpdateSafe ==
  ASSUME TypeInv, Steady, Going, EndUpdate
  PROVE  Steady' /\ (pc' \notin Halts => Going')
<1>1. /\ pc = "updated" /\ upd.todo = << >> /\ upd.acc = << >> /\ upd.found
      /\ upd' = NoUpdate /\ pc' = "request"
      /\ UNCHANGED <<wp, media, valid, index, gcQueue, pend, op, gc>>
  BY KeysOfEmpty DEF EndUpdate, Going, UpdateEmpty, OnTheWay, Within, Collecting, device
<1>2. upd'.todo = << >> /\ upd'.acc = << >>
  BY <1>1 DEF NoUpdate
<1>3. InFlight = {} /\ InFlight' = {}
  BY <1>1, <1>2, KeysOfEmpty DEF InFlight
<1>4. Steady'
  BY <1>1, <1>2, SizedPages DEF Steady, Mapped, MediaSized, BuffersSized, RequestSized
<1>5. Homes'
  BY <1>1, <1>3 DEF Going, Homes, Homed
<1>6. UpdateEmpty' /\ OnTheWay' /\ InPlace' /\ Covered'
  BY <1>1, <1>2 DEF UpdateEmpty, OnTheWay, InPlace, Covered, Within, Collecting
<1>7. QED
  BY <1>4, <1>5, <1>6 DEF Going

\* The detector and the end of a collection go back to where they came from.
LEMMA DetectSafe ==
  ASSUME TypeInv, Steady, Going, Detect \/ EndGc
  PROVE  Steady' /\ (pc' \notin Halts => Going')
<1>1. /\ pc \in {"detect", "gczone"}
      /\ UNCHANGED <<wp, media, valid, index, pend, op, upd, gc>>
      /\ \/ pc' = "gczone" /\ ret' = ret
         \/ pc' = ret /\ ret' = "request"
  BY DEF Detect, EndGc, device
<1>2. ret \in {"request", "serve", "update", "updated"}
  BY DEF TypeInv, TypeOK
<1>3. Within = ret /\ Within' = ret
  BY <1>1, <1>2 DEF Within, Collecting
<1>4. Steady'
  BY <1>1, <1>2 DEF Steady, Mapped, MediaSized, BuffersSized, RequestSized
<1>5. Homes'
  BY <1>1 DEF Going, Homes, Homed, InFlight
<1>6. UpdateEmpty' /\ OnTheWay'
  BY <1>1, <1>3 DEF Going, UpdateEmpty, OnTheWay
<1>7. InPlace' /\ Covered'
  BY <1>1, <1>2 DEF InPlace, Covered
<1>8. QED
  BY <1>4, <1>5, <1>6, <1>7 DEF Going

\* A scan that starts at the zone's first block passes over no home.
LEMMA StartZoneSafe ==
  ASSUME TypeInv, Steady, Going, StartZone, ~astray'
  PROVE  Steady' /\ (pc' \notin Halts => Going')
<1>1. /\ pc = "gczone"
      /\ UNCHANGED <<wp, media, valid, index, gcQueue, pend, op, upd>>
  BY DEF StartZone, device
<1>2. InFlight' = InFlight
  BY <1>1 DEF InFlight
<1>3. PICK z \in gcQueue :
        IF Scan(<<z, 0>>) = {}
        THEN /\ \E how \in {"fault", "assert481"} : Halt(how)
             /\ UNCHANGED <<gc, astray>>
        ELSE \E b \in Scan(<<z, 0>>) :
             /\ gc' = [NoGc EXCEPT !.zone = z, !.src = b, !.todo = media[b]]
             /\ astray' = (astray \/ b[1] # z)
             /\ pc' = "gcread" /\ UNCHANGED ret
  BY DEF StartZone
<1>4. CASE Scan(<<z, 0>>) = {}
  <2>1. pc' \in {"fault", "assert481"} /\ gc' = gc
    BY <1>3, <1>4 DEF Halt
  <2>2. QED
    BY <1>1, <2>1 DEF Steady, Mapped, MediaSized, BuffersSized, RequestSized, Halts
<1>5. CASE Scan(<<z, 0>>) # {}
  <2>1. PICK b \in Scan(<<z, 0>>) :
           /\ gc' = [NoGc EXCEPT !.zone = z, !.src = b, !.todo = media[b]]
           /\ astray' = (astray \/ b[1] # z)
           /\ pc' = "gcread" /\ UNCHANGED ret
    BY <1>3, <1>5
  <2>2. /\ gc'.zone = z /\ gc'.src = b /\ gc'.todo = media[b] /\ gc'.acc = << >>
        /\ gc'.cut = {} /\ b[1] = z /\ b \in Blocks /\ z \in Zones
    BY <2>1, ScanStops DEF NoGc, TypeInv, TypeOK
  <2>3. Steady'
    BY <1>1, <2>1, <2>2, SizedPages
    DEF Steady, Mapped, MediaSized, BuffersSized, RequestSized
  <2>4. Homes'
    BY <1>1, <1>2 DEF Going, Homes, Homed
  <2>5. Covered'
    <3> SUFFICES ASSUME NEW k \in Keys \ InFlight, index[k][1] = z PROVE Ahead(k)'
      BY <1>1, <1>2, <2>1, <2>2 DEF Covered
    <3>1. /\ index[k] \in Blocks /\ valid[index[k]] = "VALID"
          /\ k \in KeysOf(media[index[k]])
      BY <2>2 DEF TypeInv, TypeOK, Going, Homes, Homed, NoBlock, Zones
    <3>2. ~Before(index[k], <<z, 0>>)
      BY <3>1, <2>2, BlocksDef DEF Before, Offsets, Zones
    <3>3. index[k] = b \/ Before(b, index[k])
      BY <3>1, <3>2, ScanStops
    <3>4. QED
      BY <1>1, <2>2, <3>1, <3>3 DEF Ahead
  <2>6. UpdateEmpty' /\ OnTheWay' /\ InPlace'
    BY <1>1, <2>1, <2>2 DEF Going, UpdateEmpty, OnTheWay, InPlace, Within, Collecting
  <2>7. QED
    BY <2>3, <2>4, <2>5, <2>6 DEF Going
<1>6. QED
  BY <1>4, <1>5

LEMMA GcRecordSafe ==
  ASSUME TypeInv, Steady, Going, GcRecord
  PROVE  Steady' /\ (pc' \notin Halts => Going')
<1> DEFINE r == Head(gc.todo)
<1>1. /\ pc = "gcread" /\ gc.todo # << >> /\ gc' = GcTaken(r, Tail(gc.todo))
      /\ UNCHANGED <<wp, media, valid, index, gcQueue, pend, op, upd, pc, ret>>
      /\ gc \in Collections /\ gc.todo \in Seq(Records) /\ gc.acc \in Seq(Records)
      /\ Sized(gc.todo) /\ Sized(gc.acc) /\ gc.cut = {}
  BY DEF GcRecord, TypeInv, TypeOK, Collections, Pages, Steady, BuffersSized, device
<1>2. /\ r \in Records /\ r.size # 0 /\ Tail(gc.todo) \in Seq(Records)
      /\ Sized(Tail(gc.todo)) /\ KeysOf(gc.todo) = {r.key} \cup KeysOf(Tail(gc.todo))
  BY <1>1, KeysOfHeadTail, SizedPages
<1>3. /\ gc'.zone = gc.zone /\ gc'.src = gc.src /\ gc'.todo = Tail(gc.todo)
      /\ gc'.acc = Append(gc.acc, r) /\ gc'.cut = {}
  BY <1>1, <1>2 DEF GcTaken, Collections
<1>4. Sized(gc'.acc) /\ KeysOf(gc'.acc) = KeysOf(gc.acc) \cup {r.key}
  BY <1>1, <1>2, <1>3, SizedPages, KeysOfAppend
<1>5. InFlight' = InFlight
  BY <1>1 DEF InFlight
<1>6. Steady'
  BY <1>1, <1>2, <1>3, <1>4
  DEF Steady, Mapped, MediaSized, BuffersSized, RequestSized
<1>7. Homes'
  BY <1>1, <1>5 DEF Going, Homes, Homed
<1>8. Covered'
  <2> SUFFICES ASSUME NEW k \in Keys \ InFlight, index[k][1] = gc.zone PROVE Ahead(k)'
    BY <1>1, <1>3, <1>5 DEF Covered
  <2>1. Ahead(k)
    BY <1>1 DEF Going, Covered
  <2>2. QED
    BY <1>1, <1>2, <1>3, <1>4, <2>1 DEF Ahead
<1>9. UpdateEmpty' /\ OnTheWay' /\ InPlace'
  BY <1>1, <1>3 DEF Going, UpdateEmpty, OnTheWay, InPlace, Within, Collecting
<1>10. QED
  BY <1>6, <1>7, <1>8, <1>9 DEF Going

LEMMA NextBlockSafe ==
  ASSUME TypeInv, Steady, Going, NextBlock
  PROVE  Steady' /\ (pc' \notin Halts => Going')
<1>1. /\ pc = "gcread" /\ gc.todo = << >> /\ InThisZone
      /\ UNCHANGED <<wp, media, valid, index, gcQueue, pend, op, upd, pc, ret>>
      /\ gc \in Collections
  BY DEF NextBlock, TypeInv, TypeOK, device
<1>2. PICK b \in NextBlocks : gc' = [gc EXCEPT !.src = b, !.todo = media[b]]
  BY DEF NextBlock
<1>3. b \in Blocks /\ b[1] = gc.zone
  BY <1>1, ScanStops DEF NextBlocks, InThisZone
<1>4. /\ gc'.zone = gc.zone /\ gc'.src = b /\ gc'.todo = media[b]
      /\ gc'.acc = gc.acc /\ gc'.cut = gc.cut
  BY <1>1, <1>2 DEF Collections
<1>5. InFlight' = InFlight
  BY <1>1 DEF InFlight
<1>6. Steady'
  BY <1>1, <1>3, <1>4 DEF Steady, Mapped, MediaSized, BuffersSized, RequestSized
<1>7. Homes'
  BY <1>1, <1>5 DEF Going, Homes, Homed
<1>8. Covered'
  <2> SUFFICES ASSUME NEW k \in Keys \ InFlight, index[k][1] = gc.zone PROVE Ahead(k)'
    BY <1>1, <1>4, <1>5 DEF Covered
  <2>1. gc.src \in Blocks /\ gc.src[1] = gc.zone /\ gc.zone \in Zones
    BY <1>1 DEF Going, InPlace, TypeInv, TypeOK
  <2>2. Before(gc.src, index[k]) \/ k \in KeysOf(gc.acc)
    BY <1>1, KeysOfEmpty DEF Going, Covered, Ahead
  <2>3. CASE Before(gc.src, index[k])
    <3>1. /\ index[k] \in Blocks /\ valid[index[k]] = "VALID"
          /\ k \in KeysOf(media[index[k]])
      BY <2>1 DEF TypeInv, TypeOK, Going, Homes, Homed, NoBlock, Zones
    <3>2. ~Before(index[k], After(gc.src))
      BY <2>1, <2>3, <3>1, BlocksDef DEF Before, After, Offsets, Zones
    <3>3. index[k] = b \/ Before(b, index[k])
      BY <3>1, <3>2, ScanStops DEF NextBlocks
    <3>4. QED
      BY <1>1, <1>4, <3>1, <3>3 DEF Ahead
  <2>4. CASE k \in KeysOf(gc.acc)
    BY <1>4, <2>4 DEF Ahead
  <2>5. QED
    BY <2>2, <2>3, <2>4
<1>9. UpdateEmpty' /\ OnTheWay' /\ InPlace'
  BY <1>1, <1>3, <1>4 DEF Going, UpdateEmpty, OnTheWay, InPlace, Within, Collecting
<1>10. QED
  BY <1>6, <1>7, <1>8, <1>9 DEF Going

\* The zone that is reset is no key's home any more.
LEMMA ResetZoneSafe ==
  ASSUME TypeInv, Steady, Going, ResetZone
  PROVE  Steady' /\ (pc' \notin Halts => Going')
<1>1. /\ pc = "gcreset" /\ pc' = "gczone" /\ gc' = NoGc /\ gc.zone \in Zones
      /\ UNCHANGED <<index, pend, op, upd, ret>>
      /\ wp' = [wp EXCEPT ![gc.zone] = 0]
      /\ media' = [b \in Blocks |-> IF b[1] = gc.zone THEN << >> ELSE media[b]]
      /\ valid' = [b \in Blocks |-> IF b[1] = gc.zone THEN "EMPTY" ELSE valid[b]]
  BY DEF ResetZone, Rewound, Cleared, Going, InPlace, TypeInv, TypeOK
<1>2. gc'.todo = << >> /\ gc'.acc = << >> /\ gc'.cut = {}
  BY <1>1 DEF NoGc
<1>3. InFlight' = InFlight
  BY <1>1 DEF InFlight
<1>4. Mapped'
  <2> SUFFICES ASSUME NEW b \in Blocks PROVE valid'[b] = "EMPTY" <=> b[2] >= wp'[b[1]]
    BY DEF Mapped
  <2>1. b[1] \in Zones /\ b[2] \in Nat
    BY BlocksDef DEF Offsets
  <2>2. CASE b[1] = gc.zone
    BY <1>1, <2>1, <2>2 DEF TypeInv, TypeOK
  <2>3. CASE b[1] # gc.zone
    <3>1. valid'[b] = valid[b] /\ wp'[b[1]] = wp[b[1]]
      BY <1>1, <2>1, <2>3 DEF TypeInv, TypeOK
    <3>2. QED
      BY <3>1 DEF Steady, Mapped
  <2>4. QED
    BY <2>2, <2>3
<1>5. MediaSized'
  BY <1>1, SizedPages DEF Steady, MediaSized
<1>6. Steady'
  BY <1>1, <1>2, <1>4, <1>5, SizedPages DEF Steady, BuffersSized, RequestSized
<1>7. Homes'
  <2> SUFFICES ASSUME NEW k \in Keys \ InFlight, index[k] # NoBlock PROVE Homed(k)'
    BY <1>1, <1>3 DEF Homes, Homed
  <2>1. index[k] \in Blocks /\ index[k][1] # gc.zone
    BY <1>1 DEF TypeInv, TypeOK, Going, Covered
  <2>2. Homed(k)
    BY DEF Going, Homes
  <2>3. valid'[index[k]] = valid[index[k]] /\ media'[index[k]] = media[index[k]]
    BY <1>1, <2>1
  <2>4. QED
    BY <1>1, <2>2, <2>3 DEF Homed
<1>8. UpdateEmpty' /\ OnTheWay' /\ InPlace' /\ Covered'
  BY <1>1 DEF Going, UpdateEmpty, OnTheWay, InPlace, Covered, Within, Collecting
<1>9. QED
  BY <1>6, <1>7, <1>8 DEF Going

-----------------------------------------------------------------------------

LEMMA InitSafe == Init => Safe
<1> SUFFICES ASSUME Init PROVE Safe
  OBVIOUS
<1>1. Mapped
  BY BlocksDef DEF Init, Mapped, Offsets
<1>2. MediaSized /\ BuffersSized
  BY SizedPages DEF Init, MediaSized, BuffersSized, NoBuffer, NoUpdate, NoGc
<1>3. Homes
  BY DEF Init, Homes, Homed
<1>4. UpdateEmpty /\ OnTheWay /\ InPlace /\ Covered
  BY DEF Init, UpdateEmpty, OnTheWay, InPlace, Covered, Within, Collecting, NoUpdate
<1>5. QED
  BY <1>1, <1>2, <1>3, <1>4 DEF Init, Safe, Steady, Going, RequestSized

LEMMA StartZoneAstray == StartZone /\ astray => astray'
<1> SUFFICES ASSUME StartZone, astray PROVE astray'
  OBVIOUS
<1>1. PICK z \in gcQueue :
        IF Scan(<<z, 0>>) = {}
        THEN UNCHANGED <<gc, astray>>
        ELSE \E b \in Scan(<<z, 0>>) : astray' = (astray \/ b[1] # z)
  BY DEF StartZone
<1>2. QED
  BY <1>1

\* A program that has stopped, or gone astray, does not come back.
LEMMA NoReturn ==
  ASSUME [Next]_vars, ~astray'
  PROVE  ~astray /\ (pc \in Halts => UNCHANGED vars)
<1>1. ~NextBlockEmpty
  BY DEF NextBlockEmpty
<1>2. CASE Stopped \/ UNCHANGED vars
  BY <1>2 DEF Stopped, vars
<1>3. CASE StartZone
  <2>1. pc = "gczone" /\ ~astray
    BY <1>3, StartZoneAstray DEF StartZone
  <2>2. QED
    BY <2>1 DEF Halts
<1>4. CASE ReadRequest \/ ReadPastEnd \/ Exit \/ FlushBuffer \/ ServeAdd
  BY <1>4 DEF ReadRequest, ReadPastEnd, Exit, FlushBuffer, ServeAdd, Halts
<1>5. CASE StartUpdate \/ SpillUpdate \/ UpdateRecord \/ LastPage \/ EndUpdate
  <2>1. pc \in {"serve", "update", "updated"} /\ astray' = astray
    BY <1>5 DEF StartUpdate, SpillUpdate, UpdateRecord, LastPage, EndUpdate
  <2>2. QED
    BY <2>1 DEF Halts
<1>6. CASE Detect \/ EndGc \/ ResetZone \/ EndZone
  <2>1. pc \in {"detect", "gczone", "gcreset", "gcread"} /\ astray' = astray
    BY <1>6 DEF Detect, EndGc, ResetZone, EndZone
  <2>2. QED
    BY <2>1 DEF Halts
<1>7. CASE SpillGc \/ GcRecord \/ NextBlock \/ OverrunFault
  <2>1. pc = "gcread" /\ astray' = astray
    BY <1>7 DEF SpillGc, GcRecord, NextBlock, OverrunFault
  <2>2. QED
    BY <2>1 DEF Halts
<1>8. QED
  BY <1>1, <1>2, <1>3, <1>4, <1>5, <1>6, <1>7 DEF Next, Serving

LEMMA StepSafe ==
  ASSUME CleanWords
  PROVE  TypeInv /\ Safe /\ [Next]_vars => Safe'
<1> SUFFICES ASSUME TypeInv, Safe, [Next]_vars, ~astray'
             PROVE  Steady' /\ (pc' \notin Halts => Going')
  BY DEF Safe
<1>1. ~NextBlockEmpty
  BY DEF NextBlockEmpty
<1>2. CASE Stopped \/ UNCHANGED vars
  <2>1. UNCHANGED vars
    BY <1>2 DEF Stopped
  <2>2. ~astray /\ UNCHANGED <<wp, media, valid, index, gcQueue, pend, op, upd, gc, pc,
                               ret>>
    BY <2>1 DEF vars
  <2>3. Steady'
    BY <2>2 DEF Safe, Steady, Mapped, MediaSized, BuffersSized, RequestSized
  <2>4. Going <=> Going'
    BY <2>2 DEF Going, Homes, Homed, InFlight, UpdateEmpty, OnTheWay, InPlace,
                Covered, Ahead, Within, Collecting
  <2>5. QED
    BY <2>2, <2>3, <2>4 DEF Safe
<1>3. CASE ~(Stopped \/ UNCHANGED vars)
  <2>1. ~astray /\ pc \notin Halts
    BY <1>3, NoReturn
  <2>2. Steady /\ Going
    BY <2>1 DEF Safe
  <2>3. CASE ReadRequest \/ ReadPastEnd \/ Exit \/ ServeAdd
    BY <2>2, <2>3, RequestSafe
  <2>4. CASE FlushBuffer
    BY <2>2, <2>4, FlushBufferSafe
  <2>5. CASE StartUpdate
    BY <2>2, <2>5, StartUpdateSafe
  <2>6. CASE SpillUpdate
    BY <2>2, <2>6, UpdateWriteSafe DEF SpillUpdate
  <2>7. CASE UpdateRecord
    BY <2>2, <2>7, UpdateRecordSafe
  <2>8. CASE LastPage
    BY <2>2, <2>8, UpdateWriteSafe DEF LastPage
  <2>9. CASE EndUpdate
    BY <2>2, <2>9, EndUpdateSafe
  <2>10. CASE Detect \/ EndGc
    BY <2>2, <2>10, DetectSafe
  <2>11. CASE StartZone
    BY <2>2, <2>11, StartZoneSafe
  <2>12. CASE SpillGc
    BY <2>2, <2>12, GcWriteSafe DEF SpillGc
  <2>13. CASE GcRecord
    BY <2>2, <2>13, GcRecordSafe
  <2>14. CASE NextBlock
    BY <2>2, <2>14, NextBlockSafe
  <2>15. CASE EndZone
    BY <2>2, <2>15, EndZoneSafe
  <2>16. CASE OverrunFault
    <3>1. pc' = "fault" /\ UNCHANGED <<wp, media, valid, index, pend, op, upd, gc>>
      BY <2>16 DEF OverrunFault, Halt, device
    <3>2. QED
      BY <2>2, <3>1
      DEF Steady, Mapped, MediaSized, BuffersSized, RequestSized, Halts
  <2>17. CASE ResetZone
    BY <2>2, <2>17, ResetZoneSafe
  <2>18. QED
    BY <1>1, <1>3, <2>3, <2>4, <2>5, <2>6, <2>7, <2>8, <2>9, <2>10, <2>11, <2>12,
       <2>13, <2>14, <2>15, <2>16, <2>17 DEF Next, Serving
<1>4. QED
  BY <1>2, <1>3

LEMMA Always ==
  ASSUME CleanWords
  PROVE  Spec => [](TypeInv /\ Safe)
<1>1. Init => TypeInv /\ Safe
  BY InitType, InitSafe
<1>2. TypeInv /\ Safe /\ [Next]_vars => (TypeInv /\ Safe)'
  BY StepType, StepSafe
<1>3. QED
  BY <1>1, <1>2, PTL DEF Spec

\* On clean words, and as long as no collection has gone astray, the map of
\* block states and the write pointers of the device agree (MapMatchesDevice).
THEOREM MapAgrees ==
  ASSUME CleanWords
  PROVE  Spec => []MapMatchesDevice
<1>1. Safe => MapMatchesDevice
  BY DEF Safe, Steady, Mapped, MapMatchesDevice
<1>2. QED
  BY <1>1, Always, PTL

\* Likewise no update and no collection ever loses a key: key_index names a
\* valid block that holds it, or an update has it in its buffers
\* (IndexNamesRecord).
THEOREM NoKeyLost ==
  ASSUME CleanWords
  PROVE  Spec => []IndexNamesRecord
<1>1. Safe => IndexNamesRecord
  BY DEF Safe, Going, Homes, Homed, IndexNamesRecord
<1>2. QED
  BY <1>1, Always, PTL

\* Likewise an update finds its key in the page that key_index names: the
\* assertion behind the loop of myUpdate_Delete holds (KeyFound).
THEOREM UpdatesFindKeys ==
  ASSUME CleanWords
  PROVE  Spec => []KeyFound
<1>1. Safe => KeyFound
  BY DEF Safe, Steady, KeyFound
<1>2. QED
  BY <1>1, Always, PTL

-----------------------------------------------------------------------------
(* The room a collection takes.  A page is written only because the next   *)
(* record does not fit behind it, so the collection has read one valid     *)
(* block more than it has written pages, until the records of the last     *)
(* block all fit.                                                          *)

\* The records of the page take n words with their headers.
Weighs(page, n) ==
    \E s \in [0 .. Len(page) -> Nat] :
        /\ s[0] = 0 /\ s[Len(page)] = n
        /\ \A i \in 1 .. Len(page) : s[i] = s[i - 1] + Header + page[i].size
        /\ \A i, j \in 0 .. Len(page) : i <= j => s[i] <= s[j]
Fits(page) == \E n \in Nat : Weighs(page, n) /\ n <= PageSize

\* The valid blocks of the zone that the collection has read.
Read == {b \in InZone(gc.zone, "VALID") : ~Before(gc.src, b)}

Filled   == \A b \in Blocks : valid[b] = "VALID" => Fits(media[b])
Buffered == /\ Weighs(pend.recs, pend.cap) /\ pend.cap <= PageSize
            /\ Weighs(upd.acc, upd.cap) /\ upd.cap <= PageSize
            /\ Weighs(gc.acc, gc.cap) /\ gc.cap <= PageSize
Spent    ==
    /\ pc = "gcread" =>
           /\ Fits(gc.todo)
           /\ gc.wrote < Cardinality(Read)
           /\ gc.wrote + 1 = Cardinality(Read) =>
                  \E n \in Nat : Weighs(gc.todo, n) /\ gc.cap + n <= PageSize
    /\ pc = "gcreset" => gc.wrote <= Cardinality(InZone(gc.zone, "VALID"))

Roomy  == Filled /\ Buffered /\ Spent
Sparse == ~astray /\ pc \notin Halts => Roomy

LEMMA Weight == \A r \in Records : r.size \in Nat /\ Header + r.size \in Nat
<1>1. \A r \in Records : r.size \in Nat
  BY SizesNat
<1>2. QED
  BY <1>1, NumbersOK

LEMMA WeighsEmpty == Weighs(<< >>, 0)
<1> DEFINE s == [i \in 0 .. 0 |-> 0]
<1>1. Len(<< >>) = 0
  OBVIOUS
<1>2. s \in [0 .. Len(<< >>) -> Nat] /\ s[0] = 0
  BY <1>1
<1>3. s[Len(<< >>)] = 0 /\ 1 .. Len(<< >>) = {}
  BY <1>1
<1>4. \A i, j \in 0 .. Len(<< >>) : i <= j => s[i] <= s[j]
  BY <1>1
<1>5. QED
  BY <1>2, <1>3, <1>4 DEF Weighs

LEMMA WeighsAppend ==
  ASSUME NEW page \in Seq(Records), NEW r \in Records, NEW n \in Nat, Weighs(page, n)
  PROVE  Weighs(Append(page, r), n + Header + r.size)
<1> DEFINE new == Append(page, r)
           m   == n + Header + r.size
           L   == Len(page)
<1>1. PICK s \in [0 .. L -> Nat] :
         /\ s[0] = 0 /\ s[L] = n
         /\ \A i \in 1 .. L : s[i] = s[i - 1] + Header + page[i].size
         /\ \A i, j \in 0 .. L : i <= j => s[i] <= s[j]
  BY DEF Weighs
<1>2. /\ Len(new) = L + 1 /\ L \in Nat /\ new[L + 1] = r
      /\ \A i \in 1 .. L : new[i] = page[i]
  OBVIOUS
<1>3. m \in Nat /\ n <= m /\ m = n + Header + r.size
  BY Weight, NumbersOK
<1> HIDE DEF new, m, L
<1> DEFINE t == [i \in 0 .. L + 1 |-> IF i = L + 1 THEN m ELSE s[i]]
<1>4. t \in [0 .. L + 1 -> Nat] /\ t[0] = 0 /\ t[L + 1] = m
  BY <1>1, <1>2, <1>3
<1>5. ASSUME NEW i \in 1 .. L + 1 PROVE t[i] = t[i - 1] + Header + new[i].size
  <2>1. CASE i = L + 1
    BY <1>1, <1>2, <1>3, <2>1
  <2>2. CASE i # L + 1
    <3>1. i \in 1 .. L /\ t[i] = s[i] /\ t[i - 1] = s[i - 1]
      BY <1>2, <2>2
    <3>2. s[i] = s[i - 1] + Header + page[i].size
      BY <1>1, <3>1
    <3>3. QED
      BY <1>2, <3>1, <3>2
  <2>3. QED
    BY <2>1, <2>2
<1>6. ASSUME NEW i \in 0 .. L + 1, NEW j \in 0 .. L + 1, i <= j PROVE t[i] <= t[j]
  <2>1. CASE j = L + 1
    <3>1. i # L + 1 => s[i] <= s[L] /\ s[i] \in Nat
      <4>1. i # L + 1 => i \in 0 .. L /\ L \in 0 .. L /\ i <= L
        BY <1>2
      <4>2. QED
        BY <1>1, <4>1
    <3>2. t[j] = m /\ t[i] = IF i = L + 1 THEN m ELSE s[i]
      BY <2>1
    <3>3. QED
      BY <1>1, <1>3, <3>1, <3>2
  <2>2. CASE j # L + 1
    BY <1>1, <1>2, <1>6, <2>2
  <2>3. QED
    BY <2>1, <2>2
<1> HIDE DEF t
<1>7. Weighs(new, m)
  <2>1. \A i \in 1 .. Len(new) : t[i] = t[i - 1] + Header + new[i].size
    BY <1>2, <1>5
  <2>2. \A i, j \in 0 .. Len(new) : i <= j => t[i] <= t[j]
    BY <1>2, <1>6
  <2>3. t \in [0 .. Len(new) -> Nat] /\ t[0] = 0 /\ t[Len(new)] = m
    BY <1>2, <1>4
  <2>4. QED
    BY <2>1, <2>2, <2>3 DEF Weighs
<1>8. QED
  BY <1>7 DEF new, m

LEMMA WeighsTail ==
  ASSUME NEW page \in Seq(Records), page # << >>, NEW n \in Nat, Weighs(page, n)
  PROVE  \E m \in Nat : Weighs(Tail(page), m) /\ n = Header + Head(page).size + m
<1> DEFINE rest == Tail(page)
           L    == Len(rest)
           w    == Header + Head(page).size
<1>1. /\ Len(page) = L + 1 /\ L \in Nat /\ page[1] = Head(page)
      /\ Head(page) \in Records
      /\ \A i \in 1 .. L : rest[i] = page[i + 1]
  OBVIOUS
<1>2. w \in Nat
  BY <1>1, Weight
<1>3. PICK s \in [0 .. L + 1 -> Nat] :
         /\ s[0] = 0 /\ s[L + 1] = n
         /\ \A i \in 1 .. L + 1 : s[i] = s[i - 1] + Header + page[i].size
         /\ \A i, j \in 0 .. L + 1 : i <= j => s[i] <= s[j]
  BY <1>1 DEF Weighs
<1>4. s[1] = w
  <2>1. 1 \in 1 .. L + 1 /\ 1 - 1 = 0
    BY <1>1
  <2>2. s[1] = 0 + Header + page[1].size
    BY <1>3, <2>1
  <2>3. QED
    BY <1>1, <1>2, <2>2, SizesNat, NumbersOK
<1>5. \A i \in 1 .. L : page[i + 1].size = rest[i].size
  BY <1>1
<1> HIDE DEF rest, L
<1> DEFINE t == [i \in 0 .. L |-> s[i + 1] - w]
<1>6. ASSUME NEW i \in 0 .. L PROVE t[i] \in Nat /\ t[i] = s[i + 1] - w
  <2>1. i + 1 \in 0 .. L + 1 /\ 1 \in 0 .. L + 1 /\ 1 <= i + 1
    BY <1>1
  <2>2. s[1] <= s[i + 1] /\ s[i + 1] \in Nat
    BY <1>3, <2>1
  <2>3. QED
    BY <1>2, <1>4, <2>2
<1>7. t[0] = 0 /\ t[L] = n - w /\ t \in [0 .. L -> Nat]
  BY <1>1, <1>2, <1>3, <1>4, <1>6
<1>8. ASSUME NEW i \in 1 .. L PROVE t[i] = t[i - 1] + Header + rest[i].size
  <2>1. i + 1 \in 1 .. L + 1 /\ (i + 1) - 1 = i /\ i \in 0 .. L + 1 /\ i \in 0 .. L
        /\ i - 1 \in 0 .. L /\ (i - 1) + 1 = i
    BY <1>1
  <2>2. s[i + 1] = s[i] + Header + rest[i].size
    BY <1>3, <1>5, <2>1
  <2>3. s[i + 1] \in Nat /\ s[i] \in Nat /\ t[i] = s[i + 1] - w /\ t[i - 1] = s[i] - w
    BY <1>3, <2>1
  <2>4. rest[i].size \in Nat
    <3>1. rest[i] \in Records
      BY <1>1 DEF rest, L
    <3>2. QED
      BY <3>1, SizesNat
  <2>5. Header \in Nat
    BY NumbersOK
  <2> DEFINE x == rest[i].size
             a == s[i + 1]
             b == s[i]
  <2>6. a = b + Header + x /\ t[i] = a - w /\ t[i - 1] = b - w
        /\ a \in Nat /\ b \in Nat /\ x \in Nat
    BY <2>2, <2>3, <2>4
  <2> HIDE DEF t, w, x, a, b
  <2>7. t[i] = t[i - 1] + Header + x
    BY <1>2, <2>5, <2>6
  <2>8. QED
    BY <2>7 DEF x
<1>9. ASSUME NEW i \in 0 .. L, NEW j \in 0 .. L, i <= j PROVE t[i] <= t[j]
  <2>1. i + 1 \in 0 .. L + 1 /\ j + 1 \in 0 .. L + 1 /\ i + 1 <= j + 1
    BY <1>1, <1>9
  <2>2. s[i + 1] <= s[j + 1] /\ s[i + 1] \in Nat /\ s[j + 1] \in Nat
    BY <1>3, <2>1
  <2>3. QED
    BY <1>2, <2>2
<1>10. n = w + t[L] /\ t[L] \in Nat
  BY <1>1, <1>2, <1>3, <1>6, <1>7
<1> HIDE DEF t
<1>11. Weighs(rest, t[L])
  BY <1>1, <1>7, <1>8, <1>9 DEF Weighs, L
<1>12. QED
  BY <1>10, <1>11 DEF rest

LEMMA FitsEmpty == Fits(<< >>)
  BY WeighsEmpty, NumbersOK DEF Fits

\* Sets of blocks of a zone are finite and can be counted.
LEMMA ZoneBlocks ==
  ASSUME NEW z, NEW what
  PROVE  /\ IsFiniteSet(InZone(z, what)) /\ Cardinality(InZone(z, what)) \in Nat
         /\ \A S \in SUBSET InZone(z, what) :
                /\ IsFiniteSet(S) /\ Cardinality(S) \in Nat
                /\ Cardinality(S) <= Cardinality(InZone(z, what))
<1>1. IsFiniteSet(Zones) /\ IsFiniteSet(Offsets)
  BY NumbersOK, FS_Interval DEF Zones, Offsets
<1>2. IsFiniteSet(Blocks)
  BY <1>1, FS_Product DEF Blocks
<1>3. IsFiniteSet(InZone(z, what))
  BY <1>2, FS_Subset DEF InZone
<1>4. QED
  BY <1>3, FS_CardinalityType, FS_Subset

\* A page goes to a zone that is not queued: the blocks of the others stay.
LEMMA InsertRoom ==
  ASSUME CleanWords, TypeInv, Filled, NEW page, Fits(page), NEW keys, NEW after,
         Insert(page, keys, after), pc' \notin Halts
  PROVE  /\ Filled'
         /\ \A z \in gcQueue : InZone(z, "VALID")' = InZone(z, "VALID")
         /\ pc' = IF gcFlag THEN after ELSE "detect"
<1>1. ~Refused
  BY DEF Refused, Halts
<1>2. PICK b \in Blocks : Written(b, page, keys)
  BY <1>1, InsertEffect
<1>3. /\ media'[b] = page
      /\ \A c \in Blocks : c # b => media'[c] = media[c] /\ valid'[c] = valid[c]
  BY <1>2 DEF Written, TypeInv, TypeOK
<1>4. Filled'
  BY <1>3 DEF Filled
<1>5. ASSUME NEW z \in gcQueue
      PROVE  InZone(z, "VALID")' = InZone(z, "VALID")
  <2>1. b[1] # z
    BY <1>2 DEF Written
  <2>2. \A c \in Blocks : c[1] = z => valid'[c] = valid[c]
    BY <1>3, <2>1
  <2>3. QED
    BY <2>2 DEF InZone
<1>6. gcFlag \in BOOLEAN
  BY DEF TypeInv, TypeOK
<1>7. pc' = IF gcFlag THEN after ELSE "detect"
  BY <1>1, <1>6, InsertEffect
<1>8. QED
  BY <1>4, <1>5, <1>7

\* Outside a collection there is nothing to count.
LEMMA NothingSpent ==
  ASSUME pc' \notin {"gcread", "gcreset"}
  PROVE  Spent'
  BY DEF Spent

LEMMA FlushRoom ==
  ASSUME CleanWords, TypeInv, Roomy, FlushBuffer, pc' \notin Halts
  PROVE  Roomy'
<1>1. /\ pc = "serve" /\ ~gcFlag /\ pend \in Buffers
      /\ pend' = NoBuffer /\ UNCHANGED <<upd, gc>>
  BY DEF TypeInv, TypeOK, FlagSet, Labels, Collecting, FlushBuffer, Returned
<1>2. Fits(pend.recs)
  BY <1>1 DEF Roomy, Buffered, Fits, Buffers
<1>3. Filled' /\ pc' = "detect"
  BY <1>1, <1>2, InsertRoom DEF FlushBuffer, Roomy
<1>4. pend'.recs = << >> /\ pend'.cap = 0 /\ 0 <= PageSize
  BY <1>1, NumbersOK DEF NoBuffer
<1>5. Buffered'
  BY <1>1, <1>4, WeighsEmpty DEF Roomy, Buffered
<1>6. QED
  BY <1>3, <1>5, NothingSpent DEF Roomy

LEMMA UpdateWriteRoom ==
  ASSUME CleanWords, TypeInv, Roomy, SpillUpdate \/ LastPage, pc' \notin Halts
  PROVE  Roomy'
<1>1. PICK after \in {"update", "updated"} : Insert(upd.acc, KeysOf(upd.acc), after)
  BY DEF SpillUpdate, LastPage
<1>2. /\ pc = "update" /\ ~gcFlag /\ upd \in Updates
      /\ upd' = UpdateFlushed /\ UNCHANGED <<pend, gc>>
  BY DEF TypeInv, TypeOK, FlagSet, Labels, Collecting, SpillUpdate, LastPage, Returned
<1>3. Fits(upd.acc)
  BY <1>2 DEF Roomy, Buffered, Fits, Updates
<1>4. Filled' /\ pc' = "detect"
  BY <1>1, <1>2, <1>3, InsertRoom DEF Roomy
<1>5. upd'.acc = << >> /\ upd'.cap = 0 /\ 0 <= PageSize
  BY <1>2, NumbersOK DEF UpdateFlushed, Updates
<1>6. Buffered'
  BY <1>2, <1>5, WeighsEmpty DEF Roomy, Buffered
<1>7. QED
  BY <1>4, <1>6, NothingSpent DEF Roomy

\* A page of the collection: one more was read before it.
LEMMA GcWriteRoom ==
  ASSUME CleanWords, TypeInv, Steady, Going, Roomy, pc = "gcread",
         NEW after \in {"gcread", "gcreset"}, NEW keys, Insert(gc.acc, keys, after),
         gc' = Returned(gc, GcFlushed), UNCHANGED <<gcQueue, gcFlag, pend, op, upd>>,
         after = "gcread" => gc.todo # << >> /\ GcSpills,
         pc' \notin Halts
  PROVE  Roomy'
<1>1. /\ gcFlag /\ gc \in Collections /\ gc' = GcFlushed
      /\ gc.zone \in gcQueue /\ gc.src \in Blocks
      /\ gc.todo \in Seq(Records) /\ gc.wrote \in Nat /\ gc.cap \in Nat
  BY DEF TypeInv, TypeOK, FlagSet, Labels, Collecting, Collections, Pages, Going, InPlace,
         Returned
<1>2. Fits(gc.acc)
  BY <1>1 DEF Roomy, Buffered, Fits
<1>3. /\ Filled' /\ pc' = after
      /\ \A z \in gcQueue : InZone(z, "VALID")' = InZone(z, "VALID")
  <2>1. Filled
    BY DEF Roomy
  <2>2. QED
    BY <1>1, <1>2, <2>1, InsertRoom
<1>4. /\ gc'.zone = gc.zone /\ gc'.src = gc.src /\ gc'.todo = gc.todo
      /\ gc'.acc = << >> /\ gc'.cap = 0 /\ gc'.wrote = gc.wrote + 1
  BY <1>1 DEF GcFlushed, Collections
<1>11. \A b \in Blocks : b[1] = gc.zone => (valid'[b] = "VALID" <=> valid[b] = "VALID")
  BY <1>1, <1>3 DEF InZone
<1>5. Buffered'
  <2>1. 0 <= PageSize
    BY NumbersOK
  <2>2. QED
    BY <1>4, <2>1, WeighsEmpty DEF Roomy, Buffered
<1> DEFINE V == InZone(gc.zone, "VALID")
<1>6. Cardinality(Read) \in Nat /\ Cardinality(Read) <= Cardinality(V)
  BY ZoneBlocks DEF Read
<1>7. gc.wrote < Cardinality(Read)
  BY DEF Roomy, Spent
<1>8. CASE after = "gcreset"
  <2>1. gc.wrote + 1 <= Cardinality(V)
    BY <1>1, <1>6, <1>7, ZoneBlocks
  <2>2. InZone(gc.zone, "VALID")' = V
    BY <1>4, <1>11 DEF InZone
  <2>3. QED
    BY <1>3, <1>4, <1>5, <1>8, <2>1, <2>2 DEF Roomy, Spent
<1>9. CASE after = "gcread"
  <2>1. gc.wrote + 1 # Cardinality(Read)
    <3> SUFFICES ASSUME gc.wrote + 1 = Cardinality(Read) PROVE FALSE
      OBVIOUS
    <3>1. PICK n \in Nat : Weighs(gc.todo, n) /\ gc.cap + n <= PageSize
      BY DEF Roomy, Spent
    <3>2. gc.todo # << >> /\ GcSpills
      BY <1>9
    <3>3. PICK m \in Nat : n = Header + Head(gc.todo).size + m
      BY <1>1, <3>1, <3>2, WeighsTail
    <3>4. gc.cap + Header + Head(gc.todo).size > PageSize
      BY <3>2 DEF GcSpills, Overflows
    <3>5. Head(gc.todo) \in Records
      BY <1>1, <3>2
    <3>6. Head(gc.todo).size \in Nat
      BY <3>5, Weight
    <3>7. Header \in Nat /\ PageSize \in Nat
      BY NumbersOK
    <3> DEFINE v == Head(gc.todo).size
    <3> HIDE DEF v
    <3>8. v \in Nat /\ n = Header + v + m /\ gc.cap + Header + v > PageSize
      BY <3>3, <3>4, <3>6 DEF v
    <3>9. QED
      BY <1>1, <3>1, <3>7, <3>8
  <2>2. gc.wrote + 1 < Cardinality(Read)
    BY <1>1, <1>6, <1>7, <2>1
  <2>3. Read' = Read
    BY <1>4, <1>11 DEF Read, InZone
  <2>4. PICK n \in Nat : Weighs(gc.todo, n) /\ n <= PageSize
    BY <1>9 DEF Roomy, Spent, Fits
  <2>5. 0 + n <= PageSize
    BY <2>4
  <2>6. Fits(gc'.todo) /\ \E k \in Nat : Weighs(gc'.todo, k) /\ gc'.cap + k <= PageSize
    BY <1>4, <2>4, <2>5 DEF Fits
  <2>7. Spent'
    BY <1>3, <1>4, <1>9, <2>2, <2>3, <2>6 DEF Spent
  <2>8. QED
    BY <1>3, <1>5, <2>7 DEF Roomy
<1>10. QED
  BY <1>8, <1>9

\* Steps of the program outside a collection that write no page.
LEMMA QuietRoom ==
  ASSUME Roomy, UNCHANGED <<media, valid, pend, upd, gc>>, pc' \notin {"gcread", "gcreset"}
  PROVE  Roomy'
<1>1. Filled' /\ Buffered'
  BY DEF Roomy, Filled, Buffered
<1>2. QED
  BY <1>1, NothingSpent DEF Roomy

LEMMA ServeAddRoom ==
  ASSUME TypeInv, Steady, Roomy, ServeAdd
  PROVE  Roomy'
<1> DEFINE r == [key |-> op.key, size |-> op.size]
<1>1. /\ pc' = "request" /\ ~FlushDue /\ op.kind = "ADD"
      /\ pend'.recs = Append(pend.recs, r) /\ pend'.cap = pend.cap + Header + op.size
      /\ UNCHANGED <<media, valid, upd, gc>>
  BY DEF ServeAdd, device
<1>2. /\ pend.recs \in Seq(Records) /\ pend.cap \in Nat /\ op.key \in Keys
      /\ op.size \in ValueSizes
  BY <1>1 DEF TypeInv, TypeOK, OpRead, Buffers, Pages, Operations, Sizes, Steady,
              RequestSized
<1>3. r \in Records /\ r.size = op.size /\ op.size \in Nat
  BY <1>2, SizesNat DEF Records, Sizes
<1>4. Weighs(pend'.recs, pend'.cap)
  BY <1>1, <1>2, <1>3, WeighsAppend DEF Roomy, Buffered
<1>5. pend'.cap <= PageSize
  <2>1. CASE pend.recs # << >>
    BY <1>1, <1>2, <1>3, <2>1, NumbersOK DEF FlushDue, Overflows
  <2>2. CASE pend.recs = << >>
    <3>1. pend.cap = 0
      BY <2>2 DEF Roomy, Buffered, Weighs
    <3>2. Header + op.size <= PageSize
      BY <1>2, OneValueFits
    <3>3. QED
      BY <1>1, <1>3, <3>1, <3>2, NumbersOK
  <2>3. QED
    BY <2>1, <2>2
<1>6. Filled' /\ Buffered'
  BY <1>1, <1>4, <1>5 DEF Roomy, Filled, Buffered
<1>7. QED
  BY <1>1, <1>6, NothingSpent DEF Roomy

LEMMA StartUpdateRoom ==
  ASSUME TypeInv, Roomy, StartUpdate, pc' \notin Halts
  PROVE  Roomy'
<1>1. /\ index[op.key] # NoBlock /\ pc' = "update"
      /\ valid' = [valid EXCEPT ![index[op.key]] = "INVALID"]
      /\ \E page \in Parsed(media[index[op.key]]) : upd' = [NoUpdate EXCEPT !.todo = page]
      /\ UNCHANGED <<media, pend, gc>>
  BY DEF StartUpdate, Halt, Halts, Invalidate
<1>2. upd'.acc = << >> /\ upd'.cap = 0
  BY <1>1 DEF NoUpdate
<1>3. Filled'
  <2>1. \A b \in Blocks : valid'[b] = "VALID" => valid[b] = "VALID"
    BY <1>1 DEF TypeInv, TypeOK
  <2>2. QED
    BY <1>1, <2>1 DEF Roomy, Filled
<1>4. Buffered'
  <2>1. 0 <= PageSize
    BY NumbersOK
  <2>2. QED
    BY <1>1, <1>2, <2>1, WeighsEmpty DEF Roomy, Buffered
<1>5. QED
  BY <1>1, <1>3, <1>4, NothingSpent DEF Roomy

LEMMA UpdateRecordRoom ==
  ASSUME TypeInv, Steady, Roomy, UpdateRecord
  PROVE  Roomy'
<1> DEFINE r == Head(upd.todo)
           n == [key |-> r.key, size |-> NewSize]
<1>1. /\ pc = "update" /\ pc' = pc /\ upd.todo # << >> /\ ~UpdateSpills
      /\ upd'.acc = upd.acc \o IF NewSize = 0 THEN << >> ELSE <<n>>
      /\ upd'.cap = IF NewSize = 0 THEN upd.cap ELSE upd.cap + Header + NewSize
      /\ UNCHANGED <<media, valid, pend, gc>>
  BY DEF UpdateRecord, device
<1>2. upd.todo \in Seq(Records) /\ upd.acc \in Seq(Records) /\ upd.cap \in Nat
  BY DEF TypeInv, TypeOK, Updates, Pages
<1>3. r \in Records /\ NewSize \in Sizes /\ NewSize \in Nat
  <2>1. r \in Records
    BY <1>1, <1>2
  <2>2. op.size \in Sizes
    BY DEF TypeInv, TypeOK, Operations
  <2>3. NewSize \in Sizes
    BY <2>1, <2>2, SizesNat DEF NewSize
  <2>4. QED
    BY <2>1, <2>3, SizesNat
<1>4. Weighs(upd'.acc, upd'.cap) /\ upd'.cap <= PageSize
  <2>1. CASE NewSize = 0
    <3>1. upd.acc \o << >> = upd.acc
      BY <1>2
    <3>2. QED
      BY <1>1, <2>1, <3>1 DEF Roomy, Buffered
  <2>2. CASE NewSize # 0
    <3>1. n \in Records /\ n.size = NewSize
      BY <1>3, SizesNat DEF Records
    <3>2. upd'.acc = Append(upd.acc, n) /\ upd'.cap = upd.cap + Header + NewSize
      BY <1>1, <1>2, <2>2, <3>1
    <3>3. Weighs(upd.acc, upd.cap)
      BY DEF Roomy, Buffered
    <3>4. Weighs(Append(upd.acc, n), upd.cap + Header + n.size)
      BY <1>2, <3>1, <3>3, WeighsAppend
    <3>5. ~(upd.cap + Header + NewSize > PageSize)
      BY <1>1, <2>2 DEF UpdateSpills, Overflows
    <3>6. QED
      BY <1>2, <1>3, <3>1, <3>2, <3>4, <3>5, NumbersOK
  <2>3. QED
    BY <2>1, <2>2
<1>5. Filled' /\ Buffered'
  BY <1>1, <1>4 DEF Roomy, Filled, Buffered
<1>6. QED
  BY <1>1, <1>5, NothingSpent DEF Roomy

LEMMA EndUpdateRoom ==
  ASSUME Roomy, EndUpdate
  PROVE  Roomy'
<1>1. upd' = NoUpdate /\ pc' \in {"request", "assert443"} /\ UNCHANGED <<media, valid, pend, gc>>
  BY DEF EndUpdate, device
<1>2. upd'.acc = << >> /\ upd'.cap = 0
  BY <1>1 DEF NoUpdate
<1>3. 0 <= PageSize
  BY NumbersOK
<1>4. Filled' /\ Buffered'
  BY <1>1, <1>2, <1>3, WeighsEmpty DEF Roomy, Filled, Buffered
<1>5. QED
  BY <1>1, <1>4, NothingSpent DEF Roomy

LEMMA StartZoneRoom ==
  ASSUME TypeInv, Roomy, StartZone, ~astray', pc' \notin Halts
  PROVE  Roomy'
<1>1. UNCHANGED <<media, valid, pend, upd>>
  BY DEF StartZone, device
<1>2. PICK z \in gcQueue : \E b \in Scan(<<z, 0>>) :
         /\ gc' = [NoGc EXCEPT !.zone = z, !.src = b, !.todo = media[b]]
         /\ astray' = (astray \/ b[1] # z)
         /\ pc' = "gcread"
  BY DEF StartZone, Halt, Halts
<1>3. PICK b \in Scan(<<z, 0>>) :
         /\ gc' = [NoGc EXCEPT !.zone = z, !.src = b, !.todo = media[b]]
         /\ astray' = (astray \/ b[1] # z)
         /\ pc' = "gcread"
  BY <1>2
<1>4. b \in Blocks /\ valid[b] = "VALID" /\ b[1] = z
  BY <1>3, ScanStops
<1>5. /\ gc'.zone = z /\ gc'.src = b /\ gc'.todo = media[b] /\ gc'.acc = << >>
      /\ gc'.cap = 0 /\ gc'.wrote = 0
  BY <1>3 DEF NoGc
<1>6. Filled' /\ Buffered'
  <2>1. 0 <= PageSize
    BY NumbersOK
  <2>2. QED
    BY <1>1, <1>5, <2>1, WeighsEmpty DEF Roomy, Filled, Buffered
<1>7. PICK n \in Nat : Weighs(gc'.todo, n) /\ n <= PageSize
  BY <1>4, <1>5 DEF Roomy, Filled, Fits
<1>8. Cardinality(Read') \in Nat /\ Cardinality(Read') # 0
  <2>1. ~Before(b, b)
    BY <1>4, BlocksDef DEF Before, Zones, Offsets
  <2>2. b \in Read'
    BY <1>1, <1>4, <1>5, <2>1 DEF Read, InZone
  <2>3. Read' \in SUBSET InZone(z, "VALID")
    BY <1>1, <1>5 DEF Read, InZone
  <2>4. IsFiniteSet(Read') /\ Cardinality(Read') \in Nat
    BY <2>3, ZoneBlocks
  <2>5. QED
    BY <2>2, <2>4, FS_EmptySet
<1>9. Spent'
  <2>1. gc'.wrote < Cardinality(Read') /\ gc'.cap + n <= PageSize
    BY <1>5, <1>7, <1>8
  <2>2. QED
    BY <1>3, <1>7, <2>1 DEF Spent, Fits
<1>10. QED
  BY <1>6, <1>9 DEF Roomy

LEMMA GcRecordRoom ==
  ASSUME TypeInv, Steady, Roomy, GcRecord
  PROVE  Roomy'
<1> DEFINE r == Head(gc.todo)
<1>1. /\ pc = "gcread" /\ gc.todo # << >> /\ ~GcSpills /\ gc' = GcTaken(r, Tail(gc.todo))
      /\ UNCHANGED <<media, valid, pend, upd, pc>>
      /\ gc \in Collections /\ gc.todo \in Seq(Records) /\ gc.acc \in Seq(Records)
      /\ Sized(gc.todo) /\ gc.cap \in Nat
  BY DEF GcRecord, TypeInv, TypeOK, Collections, Pages, Steady, BuffersSized, device
<1>2. /\ r \in Records /\ r.size # 0 /\ r.size \in Nat
  BY <1>1, SizedPages, Weight
<1>3. /\ gc'.zone = gc.zone /\ gc'.src = gc.src /\ gc'.todo = Tail(gc.todo)
      /\ gc'.acc = Append(gc.acc, r) /\ gc'.cap = gc.cap + Header + r.size
      /\ gc'.wrote = gc.wrote
  BY <1>1, <1>2 DEF GcTaken, Collections
<1>4. gc'.cap <= PageSize
  <2>1. ~(gc.cap + Header + r.size > PageSize)
    BY <1>1, <1>2 DEF GcSpills, Overflows
  <2>2. gc.cap + Header + r.size \in Nat
    BY <1>1, <1>2, NumbersOK
  <2>3. QED
    BY <1>3, <2>1, <2>2, NumbersOK
<1>5. Weighs(gc'.acc, gc'.cap)
  BY <1>1, <1>2, <1>3, WeighsAppend DEF Roomy, Buffered
<1>6. Filled' /\ Buffered'
  BY <1>1, <1>4, <1>5 DEF Roomy, Filled, Buffered
<1>7. Read' = Read
  BY <1>1, <1>3 DEF Read, InZone
<1>8. ASSUME NEW n \in Nat, Weighs(gc.todo, n)
      PROVE  \E m \in Nat : Weighs(gc'.todo, m) /\ n = Header + r.size + m
  BY <1>1, <1>3, <1>8, WeighsTail
<1>9. Fits(gc'.todo)
  <2>1. PICK n \in Nat : Weighs(gc.todo, n) /\ n <= PageSize
    BY <1>1 DEF Roomy, Spent, Fits
  <2>2. PICK m \in Nat : Weighs(gc'.todo, m) /\ n = Header + r.size + m
    BY <1>8, <2>1
  <2>3. m <= PageSize
    <3>1. Header \in Nat /\ PageSize \in Nat
      BY NumbersOK
    <3> HIDE DEF r
    <3>2. QED
      BY <1>2, <2>1, <2>2, <3>1
  <2>4. QED
    BY <2>2, <2>3 DEF Fits
<1>10. ASSUME gc.wrote + 1 = Cardinality(Read)
       PROVE  \E m \in Nat : Weighs(gc'.todo, m) /\ gc'.cap + m <= PageSize
  <2>1. PICK n \in Nat : Weighs(gc.todo, n) /\ gc.cap + n <= PageSize
    BY <1>1, <1>10 DEF Roomy, Spent
  <2>2. PICK m \in Nat : Weighs(gc'.todo, m) /\ n = Header + r.size + m
    BY <1>8, <2>1
  <2>3. gc'.cap + m <= PageSize
    <3>1. Header \in Nat /\ PageSize \in Nat
      BY NumbersOK
    <3> HIDE DEF r
    <3>2. QED
      BY <1>1, <1>2, <1>3, <2>1, <2>2, <3>1
  <2>4. QED
    BY <2>2, <2>3
<1>11. Spent'
  BY <1>1, <1>3, <1>7, <1>9, <1>10 DEF Roomy, Spent
<1>12. QED
  BY <1>6, <1>11 DEF Roomy

\* Another block is read: there is room for one page more.
LEMMA NextBlockRoom ==
  ASSUME TypeInv, Going, Roomy, NextBlock
  PROVE  Roomy'
<1>1. /\ pc = "gcread" /\ InThisZone /\ UNCHANGED <<media, valid, pend, upd, pc>>
      /\ gc \in Collections /\ gc.wrote \in Nat /\ gc.src \in Blocks /\ gc.src[1] = gc.zone
  BY DEF NextBlock, TypeInv, TypeOK, Collections, Going, InPlace, device
<1>2. PICK b \in NextBlocks : gc' = [gc EXCEPT !.src = b, !.todo = media[b]]
  BY DEF NextBlock
<1>3. b \in Blocks /\ b[1] = gc.zone /\ valid[b] = "VALID" /\ ~Before(b, After(gc.src))
  BY <1>1, ScanStops DEF NextBlocks, InThisZone
<1>4. /\ gc'.zone = gc.zone /\ gc'.src = b /\ gc'.todo = media[b]
      /\ gc'.acc = gc.acc /\ gc'.cap = gc.cap /\ gc'.wrote = gc.wrote
  BY <1>1, <1>2 DEF Collections
<1>5. Filled' /\ Buffered'
  BY <1>1, <1>4 DEF Roomy, Filled, Buffered
<1>6. Fits(gc'.todo)
  BY <1>3, <1>4 DEF Roomy, Filled
<1>7. /\ b[1] \in Nat /\ b[2] \in Nat /\ gc.src[1] \in Nat /\ gc.src[2] \in Nat
      /\ b[1] = gc.src[1] /\ b[2] > gc.src[2]
  <2>1. b[1] \in Nat /\ b[2] \in Nat /\ gc.src[1] \in Nat /\ gc.src[2] \in Nat
    BY <1>1, <1>3, BlocksDef DEF Zones, Offsets
  <2>2. QED
    BY <1>1, <1>3, <2>1 DEF Before, After
<1>8. Read \cup {b} \subseteq Read' /\ b \notin Read
  <2>1. b \notin Read
    BY <1>7 DEF Read, Before
  <2>2. b \in Read'
    BY <1>1, <1>3, <1>4, <1>7 DEF Read, InZone, Before
  <2>3. ASSUME NEW c \in Read PROVE c \in Read'
    <3>1. c \in Blocks /\ c[1] = gc.zone /\ valid[c] = "VALID" /\ ~Before(gc.src, c)
      BY DEF Read, InZone
    <3>2. c[1] \in Nat /\ c[2] \in Nat
      BY <3>1, BlocksDef DEF Zones, Offsets
    <3>3. ~Before(b, c)
      BY <1>7, <3>1, <3>2 DEF Before
    <3>4. QED
      BY <1>1, <1>4, <3>1, <3>3 DEF Read, InZone
  <2>4. QED
    BY <2>1, <2>2, <2>3
<1>9. Cardinality(Read) + 1 <= Cardinality(Read') /\ Cardinality(Read) \in Nat
      /\ Cardinality(Read') \in Nat
  <2>1. Read \in SUBSET InZone(gc.zone, "VALID") /\ Read' \in SUBSET InZone(gc.zone, "VALID")
    BY <1>1, <1>4 DEF Read, InZone
  <2>2. /\ IsFiniteSet(Read) /\ IsFiniteSet(Read')
        /\ Cardinality(Read) \in Nat /\ Cardinality(Read') \in Nat
    BY <2>1, ZoneBlocks
  <2>3. Cardinality(Read \cup {b}) = Cardinality(Read) + 1
    BY <1>8, <2>2, FS_AddElement
  <2>4. Cardinality(Read \cup {b}) <= Cardinality(Read')
    BY <1>8, <2>2, FS_Subset
  <2>5. QED
    BY <2>2, <2>3, <2>4
<1>10. gc.wrote < Cardinality(Read)
  BY <1>1 DEF Roomy, Spent
<1>11. gc'.wrote < Cardinality(Read') /\ gc'.wrote + 1 # Cardinality(Read')
  BY <1>1, <1>4, <1>9, <1>10
<1>12. Spent'
  BY <1>1, <1>6, <1>11 DEF Spent
<1>13. QED
  BY <1>5, <1>12 DEF Roomy

LEMMA EndZoneRoom ==
  ASSUME CleanWords, TypeInv, Steady, Going, Roomy, EndZone, pc' \notin Halts
  PROVE  Roomy'
<1>1. pc = "gcread" /\ UNCHANGED <<gcQueue, gcFlag, pend, op, upd>>
  BY DEF EndZone
<1>2. CASE RecordsLeft
  BY <1>1, <1>2, GcWriteRoom DEF EndZone
<1>3. CASE ~RecordsLeft
  <2>1. pc' = "gcreset" /\ UNCHANGED <<media, valid, gc>>
    BY <1>3 DEF EndZone, device
  <2>2. gc.wrote \in Nat
    BY DEF TypeInv, TypeOK, Collections
  <2>3. /\ Cardinality(Read) \in Nat /\ Cardinality(InZone(gc.zone, "VALID")) \in Nat
        /\ Cardinality(Read) <= Cardinality(InZone(gc.zone, "VALID"))
    BY ZoneBlocks DEF Read
  <2>4. gc.wrote < Cardinality(Read)
    BY <1>1 DEF Roomy, Spent
  <2>5. gc.wrote <= Cardinality(InZone(gc.zone, "VALID"))
    BY <2>2, <2>3, <2>4
  <2>6. InZone(gc.zone, "VALID")' = InZone(gc.zone, "VALID")
    BY <2>1 DEF InZone
  <2>7. Filled' /\ Buffered'
    BY <1>1, <2>1 DEF Roomy, Filled, Buffered
  <2>8. QED
    BY <2>1, <2>5, <2>6, <2>7 DEF Roomy, Spent
<1>4. QED
  BY <1>2, <1>3

LEMMA ResetZoneRoom ==
  ASSUME TypeInv, Roomy, ResetZone
  PROVE  Roomy'
<1>1. /\ gc' = NoGc /\ pc' = "gczone" /\ UNCHANGED <<pend, upd>>
      /\ media' = [b \in Blocks |-> IF b[1] = gc.zone THEN << >> ELSE media[b]]
      /\ valid' = [b \in Blocks |-> IF b[1] = gc.zone THEN "EMPTY" ELSE valid[b]]
  BY DEF ResetZone, Cleared
<1>2. gc'.acc = << >> /\ gc'.cap = 0
  BY <1>1 DEF NoGc
<1>3. 0 <= PageSize
  BY NumbersOK
<1>4. \A b \in Blocks : valid'[b] = "VALID" => valid[b] = "VALID" /\ media'[b] = media[b]
  BY <1>1
<1>5. Filled' /\ Buffered'
  BY <1>1, <1>2, <1>3, <1>4, WeighsEmpty DEF Roomy, Filled, Buffered
<1>6. QED
  BY <1>1, <1>5, NothingSpent DEF Roomy

LEMMA InitSparse == Init => Sparse
<1> SUFFICES ASSUME Init PROVE Roomy
  BY DEF Sparse
<1>1. 0 <= PageSize
  BY NumbersOK
<1>2. Filled
  BY DEF Init, Filled
<1>3. Buffered
  BY <1>1, WeighsEmpty DEF Init, Buffered, NoBuffer, NoUpdate, NoGc
<1>4. Spent
  BY DEF Init, Spent
<1>5. QED
  BY <1>2, <1>3, <1>4 DEF Roomy

LEMMA StepSparse ==
  ASSUME CleanWords
  PROVE  TypeInv /\ Safe /\ Sparse /\ [Next]_vars => Sparse'
<1> SUFFICES ASSUME TypeInv, Safe, Sparse, [Next]_vars, ~astray', pc' \notin Halts
             PROVE  Roomy'
  BY DEF Sparse
<1>1. ~astray /\ (pc \in Halts => UNCHANGED vars)
  BY NoReturn
<1>2. pc \notin Halts
  BY <1>1 DEF vars
<1>3. Steady /\ Going /\ Roomy /\ ~NextBlockEmpty
  BY <1>1, <1>2 DEF Safe, Sparse, NextBlockEmpty
<1>4. CASE Stopped \/ UNCHANGED vars
  <2>1. UNCHANGED <<media, valid, pend, upd, gc, pc>>
    BY <1>4 DEF Stopped, vars, device
  <2>2. QED
    BY <1>3, <2>1 DEF Roomy, Filled, Buffered, Spent, Read, InZone
<1>5. CASE ReadRequest \/ ReadPastEnd \/ Exit
  <2>1. UNCHANGED <<media, valid, pend, upd, gc>> /\ pc' \in {"serve", "exit"}
    BY <1>5 DEF ReadRequest, ReadPastEnd, Exit, device
  <2>2. QED
    BY <1>3, <2>1, QuietRoom
<1>6. CASE FlushBuffer
  BY <1>3, <1>6, FlushRoom
<1>7. CASE ServeAdd
  BY <1>3, <1>7, ServeAddRoom
<1>8. CASE StartUpdate
  BY <1>3, <1>8, StartUpdateRoom
<1>9. CASE SpillUpdate \/ LastPage
  BY <1>3, <1>9, UpdateWriteRoom
<1>10. CASE UpdateRecord
  BY <1>3, <1>10, UpdateRecordRoom
<1>11. CASE EndUpdate
  BY <1>3, <1>11, EndUpdateRoom
<1>12. CASE Detect \/ EndGc
  <2>1. /\ UNCHANGED <<media, valid, pend, upd, gc>>
        /\ pc' \in {"gczone", ret}
    BY <1>12 DEF Detect, EndGc, device
  <2>2. ret \in {"request", "serve", "update", "updated"}
    BY DEF TypeInv, TypeOK
  <2>3. QED
    BY <1>3, <2>1, <2>2, QuietRoom
<1>13. CASE StartZone
  BY <1>3, <1>13, StartZoneRoom
<1>14. CASE SpillGc
  BY <1>3, <1>14, GcWriteRoom DEF SpillGc
<1>15. CASE GcRecord
  BY <1>3, <1>15, GcRecordRoom
<1>16. CASE NextBlock
  BY <1>3, <1>16, NextBlockRoom
<1>17. CASE EndZone
  BY <1>3, <1>17, EndZoneRoom
<1>18. CASE OverrunFault
  BY <1>18 DEF OverrunFault, Halt, Halts
<1>19. CASE ResetZone
  BY <1>3, <1>19, ResetZoneRoom
<1>20. QED
  BY <1>3, <1>4, <1>5, <1>6, <1>7, <1>8, <1>9, <1>10, <1>11, <1>12, <1>13, <1>14, <1>15,
     <1>16, <1>17, <1>18, <1>19 DEF Next, Serving

\* On clean words, and as long as no collection has gone astray, a collection
\* writes no more pages for a zone than the zone has valid ones when it is
\* reset (GcNeverGrows).
THEOREM CollectionsShrink ==
  ASSUME CleanWords
  PROVE  Spec => []GcNeverGrows
<1>1. Init => TypeInv /\ Safe /\ Sparse
  BY InitType, InitSafe, InitSparse
<1>2. TypeInv /\ Safe /\ Sparse /\ [Next]_vars => (TypeInv /\ Safe /\ Sparse)'
  BY StepType, StepSafe, StepSparse
<1>3. Sparse => GcNeverGrows
  BY DEF Sparse, Roomy, Spent, GcNeverGrows, Halts
<1>4. QED
  BY <1>1, <1>2, <1>3, PTL DEF Spec

-----------------------------------------------------------------------------
(***************************************************************************)
(* The engine keeps the values: proofs that NoStaleCopy and Served are     *)
(* invariants and that it implements the map KVStore.                      *)
(*                                                                         *)
(* The invariant behind them says where the records are.  A key has one    *)
(* record at most: in the buffer of additions, in the buffers of an        *)
(* update, or in the valid block that key_index names; a collection adds   *)
(* copies, which stay in the zone that it resets or in its buffers.        *)
(***************************************************************************)

\* A page has no two records of one key.
Distinct(page) == \A i, j \in DOMAIN page : page[i].key = page[j].key => i = j
InPage(r, page) == \E i \in DOMAIN page : page[i] = r

\* The last request has been served twice: nothing but the exit is left.
Closing == pc = "request" /\ eof

\* Outside a collection its frame is empty.
Idle == pc \notin {"gcread", "gcreset"} => gc = NoGc

\* A valid block that no collection has read so far holds a record only where
\* key_index leads to it.
Unread(b) == b[1] # gc.zone \/ (pc = "gcread" /\ Before(gc.src, b))
Single == \A b \in Blocks : valid[b] = "VALID" => Distinct(media[b])
Sole   == \A b \in Blocks : valid[b] = "VALID" /\ Unread(b) =>
              \A k \in KeysOf(media[b]) : index[k] = b

\* Keys in the buffer of additions have no home yet, and the key of an addition
\* is new but for the last request, which the end of the file repeats.
Additions ==
    /\ Within \in {"update", "updated"} => pend.recs = << >>
    /\ ~Closing => /\ Distinct(pend.recs)
                   /\ \A k \in KeysOf(pend.recs) : index[k] = NoBlock
    /\ eof /\ op.kind = "ADD" =>
           \A i \in DOMAIN pend.recs : pend.recs[i].key = op.key =>
                                           pend.recs[i].size = op.size
    /\ ~eof /\ Within = "serve" /\ op.kind = "ADD" =>
           index[op.key] = NoBlock /\ op.key \notin KeysOf(pend.recs)

\* Records in the buffers of an update are nowhere else.
Nowhere(k) == \A b \in Blocks : valid[b] = "VALID" => k \notin KeysOf(media[b])
Rewrites ==
    /\ Distinct(upd.todo) /\ Distinct(upd.acc)
    /\ KeysOf(upd.todo) \cap KeysOf(upd.acc) = {}
    /\ \A k \in KeysOf(upd.todo) \cup KeysOf(upd.acc) : Nowhere(k)
    /\ Within \in {"update", "updated"} /\ op.size = 0 =>
           index[op.key] = NoBlock /\ op.key \notin KeysOf(upd.acc)

\* Records in the buffers of a collection are copies of those at home.
Copied(r) ==
    LET b == index[r.key]
    IN  /\ b \in Blocks /\ b[1] = gc.zone /\ ~Before(gc.src, b)
        /\ valid[b] = "VALID" /\ InPage(r, media[b])
Copies ==
    pc = "gcread" =>
        /\ valid[gc.src] = "VALID" /\ Distinct(gc.todo) /\ Distinct(gc.acc)
        /\ KeysOf(gc.todo) \cap KeysOf(gc.acc) = {}
        /\ \A i \in DOMAIN gc.todo : /\ InPage(gc.todo[i], media[gc.src])
                                     /\ index[gc.todo[i].key] = gc.src
        /\ \A i \in DOMAIN gc.acc : Copied(gc.acc[i])

\* The request in hand is the last one that was read.
Asked == op.kind # "NONE" => live[op.key] = op.size

Exact == Idle /\ Single /\ Sole /\ Additions /\ Rewrites /\ Copies /\ Asked

\* Every key has the value it should have, but for the key of a request that
\* is not served yet.
Unserved == Within = "serve" \/ op.key \in KeysOf(upd.todo)
Answers  == \A k \in Keys : Stored(k) = live[k] \/ (k = op.key /\ Unserved)

\* What a step may do to the values.
Changes == \A k \in Keys : \/ Stored(k)' = Stored(k)
                           \/ k = op.key /\ Stored(k)' = op.size

Held == ~astray /\ pc \notin Halts => Exact /\ Answers

-----------------------------------------------------------------------------
(* Pages without two records of one key.                                   *)

LEMMA SizeInSome ==
  ASSUME NEW page, NEW k \in KeysOf(page)
  PROVE  \E i \in DOMAIN page : page[i].key = k /\ SizeIn(page, k) = page[i].size
<1> DEFINE j == CHOOSE n \in DOMAIN page : page[n].key = k
<1>1. \E n \in DOMAIN page : page[n].key = k
  BY DEF KeysOf
<1>2. j \in DOMAIN page /\ page[j].key = k
  BY <1>1
<1>3. SizeIn(page, k) = page[j].size
  BY DEF SizeIn
<1>4. QED
  BY <1>2, <1>3

LEMMA SizeInDistinct ==
  ASSUME NEW page, Distinct(page), NEW i \in DOMAIN page
  PROVE  SizeIn(page, page[i].key) = page[i].size
<1>1. page[i].key \in KeysOf(page)
  BY DEF KeysOf
<1>2. PICK j \in DOMAIN page : /\ page[j].key = page[i].key
                               /\ SizeIn(page, page[i].key) = page[j].size
  BY <1>1, SizeInSome
<1>3. j = i
  BY <1>2 DEF Distinct
<1>4. QED
  BY <1>2, <1>3

LEMMA SizedValue ==
  ASSUME NEW page, Sized(page), NEW k \in KeysOf(page)
  PROVE  SizeIn(page, k) # 0
  BY SizeInSome DEF Sized

LEMMA DistinctEmpty == Distinct(<< >>)
  BY DEF Distinct

LEMMA DistinctHeadTail ==
  ASSUME NEW page \in Seq(Records), page # << >>, Distinct(page)
  PROVE  /\ Distinct(Tail(page)) /\ Head(page).key \notin KeysOf(Tail(page))
         /\ SizeIn(page, Head(page).key) = Head(page).size
         /\ \A k \in KeysOf(Tail(page)) : SizeIn(Tail(page), k) = SizeIn(page, k)
<1>1. /\ 1 \in DOMAIN page /\ page[1] = Head(page)
      /\ \A i \in DOMAIN Tail(page) : i + 1 \in DOMAIN page /\ page[i + 1] = Tail(page)[i]
                                      /\ i + 1 # 1 /\ i \in Int
  OBVIOUS
<1>2. Distinct(Tail(page))
  <2> SUFFICES ASSUME NEW i \in DOMAIN Tail(page), NEW j \in DOMAIN Tail(page),
                      Tail(page)[i].key = Tail(page)[j].key
               PROVE  i = j
    BY DEF Distinct
  <2>1. i + 1 = j + 1
    BY <1>1 DEF Distinct
  <2>2. QED
    BY <1>1, <2>1
<1>3. Head(page).key \notin KeysOf(Tail(page))
  <2> SUFFICES ASSUME NEW i \in DOMAIN Tail(page), Tail(page)[i].key = Head(page).key
               PROVE  FALSE
    BY DEF KeysOf
  <2>1. i + 1 = 1
    BY <1>1 DEF Distinct
  <2>2. QED
    BY <1>1, <2>1
<1>4. SizeIn(page, Head(page).key) = Head(page).size
  BY <1>1, SizeInDistinct
<1>5. ASSUME NEW k \in KeysOf(Tail(page))
      PROVE  SizeIn(Tail(page), k) = SizeIn(page, k)
  <2>1. PICK i \in DOMAIN Tail(page) : /\ Tail(page)[i].key = k
                                       /\ SizeIn(Tail(page), k) = Tail(page)[i].size
    BY SizeInSome
  <2>2. i + 1 \in DOMAIN page /\ page[i + 1].key = k /\ page[i + 1].size = Tail(page)[i].size
    BY <1>1, <2>1
  <2>3. SizeIn(page, k) = page[i + 1].size
    BY <2>2, SizeInDistinct
  <2>4. QED
    BY <2>1, <2>2, <2>3
<1>6. QED
  BY <1>2, <1>3, <1>4, <1>5

\* A record that is appended is the value of its key, if those of the key that
\* are there already have the same size; the other keys keep their value.
LEMMA AppendValues ==
  ASSUME NEW page \in Seq(Records), Distinct(page), NEW r \in Records
  PROVE  /\ \A k \in KeysOf(page) : k # r.key => SizeIn(Append(page, r), k) = SizeIn(page, k)
         /\ (\A i \in DOMAIN page : page[i].key = r.key => page[i].size = r.size) =>
                SizeIn(Append(page, r), r.key) = r.size
         /\ r.key \notin KeysOf(page) => Distinct(Append(page, r))
<1> DEFINE new == Append(page, r)
<1>1. /\ DOMAIN new = DOMAIN page \cup {Len(page) + 1} /\ new[Len(page) + 1] = r
      /\ \A i \in DOMAIN page : new[i] = page[i]
  OBVIOUS
<1>2. KeysOf(new) = KeysOf(page) \cup {r.key}
  BY KeysOfAppend
<1> HIDE DEF new
<1>3. ASSUME NEW k \in KeysOf(page), k # r.key
      PROVE  SizeIn(new, k) = SizeIn(page, k)
  <2>1. k \in KeysOf(new)
    BY <1>2
  <2>2. PICK i \in DOMAIN new : new[i].key = k /\ SizeIn(new, k) = new[i].size
    BY <2>1, SizeInSome
  <2>3. i \in DOMAIN page /\ new[i] = page[i]
    BY <1>1, <1>3, <2>2
  <2>4. SizeIn(page, k) = page[i].size
    BY <2>2, <2>3, SizeInDistinct
  <2>5. QED
    BY <2>2, <2>3, <2>4
<1>4. ASSUME \A i \in DOMAIN page : page[i].key = r.key => page[i].size = r.size
      PROVE  SizeIn(new, r.key) = r.size
  <2>1. r.key \in KeysOf(new)
    BY <1>2
  <2>2. PICK i \in DOMAIN new : new[i].key = r.key /\ SizeIn(new, r.key) = new[i].size
    BY <2>1, SizeInSome
  <2>3. QED
    BY <1>1, <1>4, <2>2
<1>5. ASSUME r.key \notin KeysOf(page)
      PROVE  Distinct(new)
  <2>1. \A i \in DOMAIN page : page[i].key # r.key
    BY <1>5 DEF KeysOf
  <2>2. QED
    BY <1>1, <2>1 DEF Distinct
<1>6. QED
  BY <1>3, <1>4, <1>5 DEF new

\* Without two records of one key a page has as many keys as records.
LEMMA DistinctCount ==
  ASSUME NEW page \in Seq(Records), Distinct(page)
  PROVE  Cardinality(KeysOf(page)) = Len(page)
<1> DEFINE f == [i \in 1 .. Len(page) |-> page[i].key]
<1>1. DOMAIN page = 1 .. Len(page) /\ Len(page) \in Nat
  OBVIOUS
<1>2. f \in Surjection(1 .. Len(page), KeysOf(page))
  BY <1>1 DEF Surjection, KeysOf
<1>3. f \in Injection(1 .. Len(page), KeysOf(page))
  <2>1. f \in [1 .. Len(page) -> KeysOf(page)]
    BY <1>1 DEF KeysOf
  <2>2. \A i, j \in 1 .. Len(page) : f[i] = f[j] => i = j
    BY <1>1 DEF Distinct
  <2>3. QED
    BY <2>1, <2>2 DEF Injection, IsInjective
<1>4. IsFiniteSet(1 .. Len(page)) /\ Cardinality(1 .. Len(page)) = Len(page)
  BY <1>1, FS_Interval
<1>5. QED
  BY <1>2, <1>3, <1>4, FS_Surjection
-----------------------------------------------------------------------------
(* What the steps share.                                                   *)

LEMMA Typed ==
  ASSUME TypeInv
  PROVE  /\ pend.recs \in Seq(Records)
         /\ upd.todo \in Seq(Records) /\ upd.acc \in Seq(Records)
         /\ gc.todo \in Seq(Records) /\ gc.acc \in Seq(Records)
         /\ gc.zone \in Zones \cup {-1}
         /\ \A b \in Blocks : media[b] \in Seq(Records)
         /\ \A k \in Keys : index[k] \in Blocks \cup {NoBlock}
         /\ op.kind # "NONE" => op.key \in Keys
         /\ pc # "request" => op.kind # "NONE"
         /\ op.size \in Sizes
  BY DEF TypeInv, TypeOK, OpRead, Buffers, Updates, Collections, Operations, Pages

LEMMA NoZone ==
  ASSUME gc = NoGc
  PROVE  gc.zone = -1 /\ \A b \in Blocks : Unread(b)
<1>1. gc.zone = -1
  BY DEF NoGc
<1>2. \A b \in Blocks : b[1] \in Nat
  BY BlocksDef DEF Zones
<1>3. QED
  BY <1>1, <1>2 DEF Unread

\* A value is the same after a step that leaves alone the buffer it is in, or
\* its home and the page there.
LEMMA StoredSame ==
  ASSUME NEW k \in Keys, pend'.recs = pend.recs, upd'.acc = upd.acc, upd'.todo = upd.todo,
         \/ k \in KeysOf(pend.recs) \cup KeysOf(upd.acc) \cup KeysOf(upd.todo)
         \/ /\ index'[k] = index[k]
            /\ index[k] # NoBlock => media'[index[k]] = media[index[k]]
  PROVE  Stored(k)' = Stored(k)
  BY DEF Stored

LEMMA Untouched ==
  ASSUME UNCHANGED <<index, media>>, pend'.recs = pend.recs, upd'.acc = upd.acc,
         upd'.todo = upd.todo
  PROVE  Changes
  BY StoredSame DEF Changes

\* A page is written to an empty block, the others are left alone.
LEMMA WrittenElsewhere ==
  ASSUME TypeInv, Mapped, NEW page, NEW keys, NEW b \in Blocks, Written(b, page, keys)
  PROVE  /\ valid[b] = "EMPTY" /\ valid'[b] = "VALID" /\ media'[b] = page
         /\ \A d \in Blocks : d # b => valid'[d] = valid[d] /\ media'[d] = media[d]
         /\ \A k \in Keys : index'[k] = IF k \in keys THEN b ELSE index[k]
<1>1. b[2] \in Nat /\ b[2] >= wp[b[1]]
  BY BlocksDef DEF Offsets, Written
<1>2. valid[b] = "EMPTY"
  BY <1>1 DEF Mapped
<1>3. QED
  BY <1>2 DEF Written, TypeInv, TypeOK

\* The page of keys that no unread block holds is their only one.
LEMMA WrittenExact ==
  ASSUME TypeInv, Mapped, Single, Sole, NEW page \in Seq(Records), Distinct(page),
         NEW b \in Blocks, Written(b, page, KeysOf(page)),
         \A d \in Blocks : Unread(d)' => Unread(d),
         \A d \in Blocks : valid[d] = "VALID" /\ Unread(d) =>
             \A k \in KeysOf(page) : k \notin KeysOf(media[d])
  PROVE  Single' /\ Sole'
<1>1. /\ valid[b] = "EMPTY" /\ valid'[b] = "VALID" /\ media'[b] = page
      /\ \A d \in Blocks : d # b => valid'[d] = valid[d] /\ media'[d] = media[d]
      /\ \A k \in Keys : index'[k] = IF k \in KeysOf(page) THEN b ELSE index[k]
  BY WrittenElsewhere
<1>2. Single'
  BY <1>1 DEF Single
<1>3. Sole'
  <2> SUFFICES ASSUME NEW d \in Blocks, valid'[d] = "VALID", Unread(d)',
                      NEW k \in KeysOf(media'[d])
               PROVE  index'[k] = d
    BY DEF Sole
  <2>1. CASE d = b
    <3>1. k \in KeysOf(page) /\ k \in Keys
      BY <1>1, <2>1, KeysOfType
    <3>2. QED
      BY <1>1, <2>1, <3>1
  <2>2. CASE d # b
    <3>1. valid[d] = "VALID" /\ k \in KeysOf(media[d]) /\ Unread(d)
      BY <1>1, <2>2
    <3>2. index[k] = d /\ k \notin KeysOf(page)
      BY <3>1 DEF Sole
    <3>3. k \in Keys
      BY <3>1, Typed, KeysOfType
    <3>4. QED
      BY <1>1, <3>2, <3>3
  <2>3. QED
    BY <2>1, <2>2
<1>4. QED
  BY <1>2, <1>3

\* What the page at a key's home says.
LEMMA AtHome ==
  ASSUME TypeInv, NEW k \in Keys, index[k] # NoBlock, k \in KeysOf(media[index[k]]),
         k \notin KeysOf(pend.recs) \cup KeysOf(upd.acc) \cup KeysOf(upd.todo)
  PROVE  Stored(k) = SizeIn(media[index[k]], k)
  BY DEF Stored

\* Only the key of the request gets another value, and gets the one it asks for.
LEMMA AnswersKept ==
  ASSUME Changes, Asked, Answers, UNCHANGED <<op, live>>, op.kind # "NONE",
         Unserved => Unserved' \/ Stored(op.key)' = op.size
  PROVE  Answers'
<1> SUFFICES ASSUME NEW k \in Keys
             PROVE  Stored(k)' = live[k] \/ (k = op.key /\ Unserved')
  BY DEF Answers
<1>1. CASE k # op.key
  BY <1>1 DEF Changes, Answers
<1>2. CASE k = op.key
  <2>1. live[k] = op.size
    BY <1>2 DEF Asked
  <2>2. CASE Unserved
    BY <1>2, <2>1, <2>2
  <2>3. CASE ~Unserved
    BY <1>2, <2>1, <2>3 DEF Changes, Answers
  <2>4. QED
    BY <2>2, <2>3
<1>3. QED
  BY <1>1, <1>2
-----------------------------------------------------------------------------
(* Every step keeps the records where they may be, and the values of all   *)
(* keys but that of the request.  The steps that write a page come first.  *)

LEMMA FlushBufferExact ==
  ASSUME CleanWords, TypeInv, Steady, Going, Exact, FlushBuffer
  PROVE  Changes /\ (pc' \notin Halts => Exact')
<1>1. /\ pc = "serve" /\ ~gcFlag /\ pend' = Returned(pend, NoBuffer) /\ gc = NoGc
      /\ UNCHANGED <<op, eof, upd, gc, live>> /\ Insert(pend.recs, KeysOf(pend.recs), "serve")
      /\ upd.todo = << >> /\ upd.acc = << >> /\ op.kind # "NONE" /\ op.key \in Keys
  BY DEF TypeInv, OpRead, FlagSet, Labels, Collecting, FlushBuffer, Exact, Idle,
         Going, UpdateEmpty, Within
<1>2. /\ Distinct(pend.recs) /\ pend.recs \in Seq(Records)
      /\ \A k \in KeysOf(pend.recs) : k \in Keys /\ index[k] = NoBlock
  BY <1>1, Typed, KeysOfType DEF Exact, Additions, Closing
<1>3. CASE Refused
  <2>1. pend' = pend /\ pc' \in Halts
    BY <1>1, <1>3 DEF Refused, Returned, Halts
  <2>2. Changes
    BY <1>1, <1>3, <2>1, Untouched DEF Refused
  <2>3. QED
    BY <2>1, <2>2
<1>4. CASE ~Refused
  <2>1. pc' = "detect" /\ ret' = "serve" /\ pend'.recs = << >>
    BY <1>1, <1>4, InsertEffect DEF Returned, Halts, NoBuffer
  <2>2. PICK b \in Blocks : Written(b, pend.recs, KeysOf(pend.recs))
    BY <1>1, <1>4, InsertEffect
  <2>3. /\ valid[b] = "EMPTY" /\ valid'[b] = "VALID" /\ media'[b] = pend.recs
        /\ \A d \in Blocks : d # b => valid'[d] = valid[d] /\ media'[d] = media[d]
        /\ \A k \in Keys : index'[k] = IF k \in KeysOf(pend.recs) THEN b ELSE index[k]
    BY <2>2, WrittenElsewhere DEF Steady
  <2>4. Single' /\ Sole'
    <3>1. \A d \in Blocks : Unread(d)
      BY <1>1, NoZone
    <3>2. ASSUME NEW d \in Blocks, valid[d] = "VALID", NEW k \in KeysOf(pend.recs)
          PROVE  k \notin KeysOf(media[d])
      BY <1>2, <3>1, <3>2, BlocksDef DEF Exact, Sole
    <3>3. QED
      BY <1>2, <2>2, <3>1, <3>2, WrittenExact DEF Steady, Exact
  <2>5. Additions'
    <3>1. Within' = "serve" /\ Distinct(pend'.recs) /\ KeysOf(pend'.recs) = {}
      BY <2>1, DistinctEmpty, KeysOfEmpty DEF Within, Collecting
    <3>2. op'.kind = "ADD" /\ ~eof' => index'[op'.key] = NoBlock
      BY <1>1, <2>3, <1>2 DEF Exact, Additions, Within, Collecting
    <3>3. QED
      BY <2>1, <3>1, <3>2 DEF Additions
  <2>6. Rewrites' /\ Copies' /\ Idle' /\ Asked'
    BY <1>1, <2>1, DistinctEmpty, KeysOfEmpty
    DEF Exact, Rewrites, Copies, Idle, Asked, Within, Collecting
  <2>7. Changes
    <3> SUFFICES ASSUME NEW k \in Keys PROVE Stored(k)' = Stored(k)
      BY DEF Changes
    <3>1. CASE k \in KeysOf(pend.recs)
      <4>1. Stored(k) = SizeIn(pend.recs, k)
        BY <3>1 DEF Stored
      <4>2. index'[k] = b /\ b # NoBlock /\ media'[b] = pend.recs
        BY <2>3, <3>1, BlocksDef
      <4>3. Stored(k)' = SizeIn(pend.recs, k)
        BY <1>1, <2>1, <3>1, <4>2, KeysOfEmpty DEF Stored
      <4>4. QED
        BY <4>1, <4>3
    <3>2. CASE k \notin KeysOf(pend.recs)
      <4>1. index'[k] = index[k]
        BY <2>3, <3>2
      <4>2. index[k] # NoBlock => index[k] \in Blocks /\ valid[index[k]] = "VALID"
        BY <1>1, Typed, KeysOfEmpty DEF Going, Homes, Homed, InFlight
      <4>3. index[k] # NoBlock => media'[index[k]] = media[index[k]]
        BY <2>3, <4>2
      <4>4. QED
        BY <1>1, <2>1, <3>2, <4>1, <4>3, KeysOfEmpty DEF Stored
    <3>3. QED
      BY <3>1, <3>2
  <2>8. QED
    BY <2>4, <2>5, <2>6, <2>7 DEF Exact
<1>5. QED
  BY <1>3, <1>4

\* The records that an update writes move from its buffer to their new home.
LEMMA UpdateWriteExact ==
  ASSUME CleanWords, TypeInv, Steady, Going, Exact, NEW after \in {"update", "updated"},
         pc = "update", Insert(upd.acc, KeysOf(upd.acc), after),
         upd' = Returned(upd, UpdateFlushed), UNCHANGED <<pend, op, eof, gc, live>>
  PROVE  /\ Changes /\ (pc' \notin Halts => Exact')
         /\ upd'.todo = upd.todo
<1>1. /\ ~gcFlag /\ gc = NoGc /\ Within = "update" /\ pend.recs = << >>
      /\ op.kind # "NONE" /\ op.key \in Keys /\ upd'.todo = upd.todo
      /\ upd'.acc = IF pc' \in Halts THEN upd.acc ELSE << >>
  BY DEF TypeInv, TypeOK, OpRead, FlagSet, Labels, Collecting, Updates, Exact, Idle,
         Additions, Within, Returned, UpdateFlushed
<1>2. /\ Distinct(upd.acc) /\ upd.acc \in Seq(Records)
      /\ \A k \in KeysOf(upd.acc) : k \in Keys /\ k \notin KeysOf(upd.todo) /\ Nowhere(k)
  BY Typed, KeysOfType DEF Exact, Rewrites
<1>3. CASE Refused
  <2>1. pc' \in Halts /\ upd'.acc = upd.acc
    BY <1>1, <1>3 DEF Refused, Halts
  <2>2. Changes
    BY <1>1, <1>3, <2>1, Untouched DEF Refused
  <2>3. QED
    BY <1>1, <2>1, <2>2
<1>4. CASE ~Refused
  <2>1. pc' = "detect" /\ ret' = after /\ upd'.acc = << >>
    BY <1>1, <1>4, InsertEffect DEF Halts
  <2>2. PICK b \in Blocks : Written(b, upd.acc, KeysOf(upd.acc))
    BY <1>1, <1>4, InsertEffect
  <2>3. /\ valid[b] = "EMPTY" /\ valid'[b] = "VALID" /\ media'[b] = upd.acc
        /\ \A d \in Blocks : d # b => valid'[d] = valid[d] /\ media'[d] = media[d]
        /\ \A k \in Keys : index'[k] = IF k \in KeysOf(upd.acc) THEN b ELSE index[k]
    BY <2>2, WrittenElsewhere DEF Steady
  <2>4. Single' /\ Sole'
    <3>1. \A d \in Blocks : Unread(d)
      BY <1>1, NoZone
    <3>2. QED
      BY <1>2, <2>2, <3>1, WrittenExact DEF Steady, Exact, Nowhere
  <2>5. Additions'
    BY <1>1, <2>1, DistinctEmpty, KeysOfEmpty DEF Additions, Within, Collecting
  <2>6. Rewrites'
    <3>1. ASSUME NEW k \in KeysOf(upd.todo) PROVE Nowhere(k)'
      BY <1>2, <2>3, <3>1 DEF Exact, Rewrites, Nowhere
    <3>2. op.size = 0 => index'[op.key] = NoBlock
      BY <1>1, <2>3 DEF Exact, Rewrites
    <3>3. Distinct(upd'.todo) /\ Distinct(upd'.acc) /\ KeysOf(upd'.acc) = {}
      BY <1>1, <2>1, DistinctEmpty, KeysOfEmpty DEF Exact, Rewrites
    <3>4. QED
      BY <1>1, <3>1, <3>2, <3>3 DEF Rewrites
  <2>7. Copies' /\ Idle' /\ Asked'
    BY <1>1, <2>1 DEF Exact, Copies, Idle, Asked
  <2>8. Changes
    <3> SUFFICES ASSUME NEW k \in Keys PROVE Stored(k)' = Stored(k)
      BY DEF Changes
    <3>1. CASE k \in KeysOf(upd.acc)
      <4>1. Stored(k) = SizeIn(upd.acc, k)
        BY <1>1, <3>1, KeysOfEmpty DEF Stored
      <4>2. index'[k] = b /\ b # NoBlock /\ media'[b] = upd.acc
        BY <2>3, <3>1, BlocksDef
      <4>3. Stored(k)' = SizeIn(upd.acc, k)
        BY <1>1, <1>2, <2>1, <3>1, <4>2, KeysOfEmpty DEF Stored
      <4>4. QED
        BY <4>1, <4>3
    <3>2. CASE k \notin KeysOf(upd.acc) /\ k \in KeysOf(upd.todo)
      BY <1>1, <2>1, <3>2, KeysOfEmpty DEF Stored
    <3>3. CASE k \notin KeysOf(upd.acc) \cup KeysOf(upd.todo)
      <4>1. index'[k] = index[k]
        BY <2>3, <3>3
      <4>2. index[k] # NoBlock => index[k] \in Blocks /\ valid[index[k]] = "VALID"
        BY <3>3, Typed DEF Going, Homes, Homed, InFlight
      <4>3. index[k] # NoBlock => media'[index[k]] = media[index[k]]
        BY <2>3, <4>2
      <4>4. QED
        BY <1>1, <2>1, <3>3, <4>1, <4>3, KeysOfEmpty DEF Stored
    <3>4. QED
      BY <3>1, <3>2, <3>3
  <2>9. QED
    BY <1>1, <2>4, <2>5, <2>6, <2>7, <2>8 DEF Exact
<1>5. QED
  BY <1>3, <1>4

\* The key of a copy has its home in the zone, behind the scan, with the same
\* value; it waits neither in the buffer of additions nor in an update.
LEMMA CopiedKey ==
  ASSUME TypeInv, Exact, pc = "gcread", NEW k \in KeysOf(gc.acc)
  PROVE  /\ k \in Keys /\ index[k] \in Blocks /\ index[k] # NoBlock
         /\ valid[index[k]] = "VALID" /\ index[k][1] = gc.zone
         /\ ~Before(gc.src, index[k])
         /\ k \in KeysOf(media[index[k]])
         /\ SizeIn(media[index[k]], k) = SizeIn(gc.acc, k)
         /\ k \notin KeysOf(pend.recs) \cup KeysOf(upd.acc) \cup KeysOf(upd.todo)
<1>1. k \in Keys /\ Distinct(gc.acc)
  BY Typed, KeysOfType DEF Exact, Copies
<1>2. PICK i \in DOMAIN gc.acc : gc.acc[i].key = k
  BY DEF KeysOf
<1>3. SizeIn(gc.acc, k) = gc.acc[i].size
  BY <1>1, <1>2, SizeInDistinct
<1> DEFINE b == index[k]
<1>4. /\ b \in Blocks /\ b[1] = gc.zone /\ ~Before(gc.src, b)
      /\ valid[b] = "VALID" /\ InPage(gc.acc[i], media[b])
  BY <1>2 DEF Exact, Copies, Copied
<1>5. PICK j \in DOMAIN media[b] : media[b][j] = gc.acc[i]
  BY <1>4 DEF InPage
<1>6. Distinct(media[b])
  BY <1>4 DEF Exact, Single
<1>7. SizeIn(media[b], k) = gc.acc[i].size /\ k \in KeysOf(media[b])
  BY <1>2, <1>5, <1>6, SizeInDistinct DEF KeysOf
<1>8. b # NoBlock
  BY <1>4, BlocksDef
<1>9. k \notin KeysOf(pend.recs)
  BY <1>8 DEF Exact, Additions, Closing
<1>10. k \notin KeysOf(upd.acc) \cup KeysOf(upd.todo)
  BY <1>4, <1>7 DEF Exact, Rewrites, Nowhere
<1>11. QED
  BY <1>1, <1>3, <1>4, <1>7, <1>8, <1>9, <1>10

\* A collection moves homes: the values stay.
LEMMA GcWriteExact ==
  ASSUME CleanWords, TypeInv, Steady, Going, Exact, NEW after \in {"gcread", "gcreset"},
         pc = "gcread", Insert(gc.acc, KeysOf(gc.acc) \cup gc.cut, after),
         gc' = Returned(gc, GcFlushed), UNCHANGED <<pend, op, eof, upd, live>>
  PROVE  Changes /\ (pc' \notin Halts => Exact')
<1>1. /\ gcFlag /\ op.kind # "NONE" /\ op.key \in Keys
      /\ KeysOf(gc.acc) \cup gc.cut = KeysOf(gc.acc)
      /\ gc'.zone = gc.zone /\ gc'.src = gc.src /\ gc'.todo = gc.todo
      /\ pc' \notin Halts => gc'.acc = << >>
  BY DEF TypeInv, TypeOK, OpRead, FlagSet, Labels, Collecting, Collections, Steady,
         BuffersSized, Returned, GcFlushed
<1>2. Distinct(gc.acc) /\ gc.acc \in Seq(Records)
  BY Typed DEF Exact, Copies
<1>3. CASE Refused
  <2>1. pc' \in Halts
    BY <1>3 DEF Refused, Halts
  <2>2. Changes
    BY <1>3, Untouched DEF Refused
  <2>3. QED
    BY <2>1, <2>2
<1>4. CASE ~Refused
  <2>1. pc' = after /\ ret' = ret /\ gc'.acc = << >>
    BY <1>1, <1>4, InsertEffect DEF Halts
  <2>2. PICK b \in Blocks : Written(b, gc.acc, KeysOf(gc.acc))
    BY <1>1, <1>4, InsertEffect
  <2>3. /\ valid[b] = "EMPTY" /\ valid'[b] = "VALID" /\ media'[b] = gc.acc
        /\ \A d \in Blocks : d # b => valid'[d] = valid[d] /\ media'[d] = media[d]
        /\ \A k \in Keys : index'[k] = IF k \in KeysOf(gc.acc) THEN b ELSE index[k]
    BY <2>2, WrittenElsewhere DEF Steady
  <2>4. Single' /\ Sole'
    <3>1. \A d \in Blocks : Unread(d)' => Unread(d)
      BY <1>1 DEF Unread
    <3>2. ASSUME NEW d \in Blocks, valid[d] = "VALID", Unread(d), NEW k \in KeysOf(gc.acc),
                 k \in KeysOf(media[d])
          PROVE  FALSE
      <4>1. index[k] = d
        BY <3>2 DEF Exact, Sole
      <4>2. QED
        BY <3>2, <4>1, CopiedKey DEF Unread
    <3>3. QED
      BY <1>2, <2>2, <3>1, <3>2, WrittenExact DEF Steady, Exact
  <2>5. Within' = Within /\ ~Closing /\ ~Closing'
    BY <2>1 DEF Within, Collecting, Closing
  <2>6. \A k \in Keys : index[k] = NoBlock => index'[k] = NoBlock
    BY <2>3, CopiedKey
  <2>7. Additions'
    <3>1. /\ Distinct(pend'.recs)
          /\ \A k \in KeysOf(pend'.recs) : index'[k] = NoBlock
      BY <2>5, <2>6, Typed, KeysOfType DEF Exact, Additions
    <3>2. QED
      BY <1>1, <2>5, <2>6, <3>1 DEF Exact, Additions
  <2>8. Rewrites'
    <3>1. ASSUME NEW k \in KeysOf(upd.todo) \cup KeysOf(upd.acc) PROVE Nowhere(k)'
      <4>1. Nowhere(k) /\ k \notin KeysOf(gc.acc)
        BY CopiedKey DEF Exact, Rewrites
      <4>2. QED
        BY <2>3, <4>1 DEF Nowhere
    <3>2. QED
      BY <1>1, <2>5, <2>6, <3>1 DEF Exact, Rewrites
  <2>9. Copies'
    <3> SUFFICES ASSUME pc' = "gcread" PROVE Copies'
      BY DEF Copies
    <3>1. gc.src \in Blocks /\ gc.src # b
      BY <2>3 DEF Exact, Copies, Going, InPlace
    <3>2. valid'[gc.src] = "VALID" /\ media'[gc.src] = media[gc.src]
      BY <2>3, <3>1 DEF Exact, Copies
    <3>3. ASSUME NEW i \in DOMAIN gc.todo
          PROVE  InPage(gc.todo[i], media'[gc.src]) /\ index'[gc.todo[i].key] = gc.src
      <4>1. gc.todo[i].key \in KeysOf(gc.todo) /\ gc.todo[i].key \in Keys
        BY Typed, KeysOfType DEF KeysOf
      <4>2. index'[gc.todo[i].key] = index[gc.todo[i].key]
        BY <2>3, <4>1 DEF Exact, Copies
      <4>3. QED
        BY <3>2, <4>2 DEF Exact, Copies
    <3>4. QED
      BY <1>1, <2>1, <3>2, <3>3, DistinctEmpty, KeysOfEmpty DEF Exact, Copies
  <2>10. Idle' /\ Asked'
    BY <2>1 DEF Exact, Idle, Asked
  <2>11. Changes
    <3> SUFFICES ASSUME NEW k \in Keys PROVE Stored(k)' = Stored(k)
      BY DEF Changes
    <3>1. CASE k \in KeysOf(gc.acc)
      <4>1. Stored(k) = SizeIn(gc.acc, k)
        BY <3>1, CopiedKey, AtHome
      <4>2. index'[k] = b /\ b # NoBlock /\ media'[b] = gc.acc
        BY <2>3, <3>1, BlocksDef
      <4>3. k \notin KeysOf(pend'.recs) \cup KeysOf(upd'.acc) \cup KeysOf(upd'.todo)
        BY <3>1, CopiedKey
      <4>4. Stored(k)' = SizeIn(gc.acc, k)
        BY <3>1, <4>2, <4>3 DEF Stored
      <4>5. QED
        BY <4>1, <4>4
    <3>2. CASE k \notin KeysOf(gc.acc)
      <4>1. index'[k] = index[k]
        BY <2>3, <3>2
      <4>2. CASE k \in KeysOf(upd.acc) \cup KeysOf(upd.todo)
        BY <4>2, StoredSame
      <4>3. CASE k \notin KeysOf(upd.acc) \cup KeysOf(upd.todo)
        <5>1. index[k] # NoBlock => index[k] \in Blocks /\ valid[index[k]] = "VALID"
          BY <4>3, Typed DEF Going, Homes, Homed, InFlight
        <5>2. index[k] # NoBlock => media'[index[k]] = media[index[k]]
          BY <2>3, <5>1
        <5>3. QED
          BY <4>1, <5>2, StoredSame
      <4>4. QED
        BY <4>2, <4>3
    <3>3. QED
      BY <3>1, <3>2
  <2>12. QED
    BY <2>4, <2>7, <2>8, <2>9, <2>10, <2>11 DEF Exact
<1>5. QED
  BY <1>3, <1>4

LEMMA EndZoneExact ==
  ASSUME CleanWords, TypeInv, Steady, Going, Exact, EndZone
  PROVE  Changes /\ (pc' \notin Halts => Exact')
<1>1. pc = "gcread" /\ UNCHANGED <<pend, op, eof, upd, live>>
  BY DEF EndZone
<1>2. CASE RecordsLeft
  BY <1>1, <1>2, GcWriteExact DEF EndZone
<1>3. CASE ~RecordsLeft
  <2>1. pc' = "gcreset" /\ UNCHANGED <<media, valid, index, gc, ret>>
    BY <1>3 DEF EndZone, device
  <2>2. Changes
    BY <1>1, <2>1, Untouched
  <2>3. Within' = Within /\ ~Closing /\ ~Closing'
    BY <1>1, <2>1 DEF Within, Collecting, Closing
  <2>4. Single' /\ Sole'
    BY <1>1, <2>1 DEF Exact, Single, Sole, Unread
  <2>5. Additions'
    BY <1>1, <2>1, <2>3 DEF Exact, Additions
  <2>6. Rewrites'
    BY <1>1, <2>1, <2>3 DEF Exact, Rewrites, Nowhere
  <2>7. Copies' /\ Idle' /\ Asked'
    BY <1>1, <2>1 DEF Exact, Copies, Idle, Asked
  <2>8. QED
    BY <2>2, <2>4, <2>5, <2>6, <2>7 DEF Exact
<1>4. QED
  BY <1>2, <1>3

-----------------------------------------------------------------------------
(* The steps that write nothing.                                           *)

\* A key that is not stored is in no buffer and has no home.
LEMMA AbsentKey ==
  ASSUME TypeInv, Steady, Going, pc = "request", NEW k \in Keys, Stored(k) = 0
  PROVE  index[k] = NoBlock /\ k \notin KeysOf(pend.recs)
<1>1. /\ upd.todo = << >> /\ upd.acc = << >>
      /\ KeysOf(upd.todo) = {} /\ KeysOf(upd.acc) = {}
  BY KeysOfEmpty DEF Going, UpdateEmpty, Within, Collecting
<1>2. ASSUME k \in KeysOf(pend.recs) PROVE FALSE
  <2>1. SizeIn(pend.recs, k) # 0
    BY <1>2, SizedValue DEF Steady, BuffersSized
  <2>2. QED
    BY <1>2, <2>1 DEF Stored
<1>3. ASSUME index[k] # NoBlock PROVE FALSE
  <2>1. index[k] \in Blocks /\ k \in KeysOf(media[index[k]])
    BY <1>1, <1>3, Typed DEF Going, Homes, Homed, InFlight
  <2>2. SizeIn(media[index[k]], k) # 0
    BY <2>1, SizedValue DEF Steady, MediaSized
  <2>3. Stored(k) = SizeIn(media[index[k]], k)
    BY <1>1, <1>2, <1>3, <2>1, AtHome
  <2>4. QED
    BY <2>2, <2>3
<1>4. QED
  BY <1>2, <1>3

LEMMA ReadExact ==
  ASSUME TypeInv, Steady, Going, Exact, Answers, ReadRequest \/ ReadPastEnd
  PROVE  Changes /\ Exact' /\ Answers'
<1>1. /\ pc = "request" /\ ~eof /\ pc' = "serve"
      /\ UNCHANGED <<media, valid, index, pend, upd, gc, ret>>
      /\ upd.todo = << >> /\ upd.acc = << >> /\ gc = NoGc
  BY DEF ReadRequest, ReadPastEnd, device, Going, UpdateEmpty, Within, Collecting, Exact,
         Idle
<1>2. Within = "request" /\ Within' = "serve" /\ ~Closing /\ ~Closing'
  BY <1>1 DEF Within, Collecting, Closing
<1>3. Changes
  BY <1>1, Untouched
<1>4. \A k \in Keys : Stored(k) = live[k] /\ Stored(k)' = Stored(k)
  BY <1>1, <1>2, StoredSame, KeysOfEmpty DEF Answers, Unserved
<1>5. Idle' /\ Single' /\ Sole' /\ Copies'
  BY <1>1 DEF Exact, Idle, Single, Sole, Unread, Copies
<1>6. Rewrites'
  BY <1>1, <1>2 DEF Exact, Rewrites, Nowhere
<1>7. CASE ReadRequest
  <2>1. PICK r \in Requests : op' = r /\ live' = [live EXCEPT ![r.key] = r.size]
    BY <1>7 DEF ReadRequest
  <2>2. /\ r.key \in Keys /\ (r.kind = "ADD" => live[r.key] = 0) /\ eof' = FALSE
    BY <1>1, <1>7, <2>1 DEF ReadRequest, Requests
  <2>3. live \in [Keys -> Sizes]
    BY DEF TypeInv, TypeOK
  <2>4. Asked'
    BY <2>1, <2>2, <2>3 DEF Asked
  <2>5. r.kind = "ADD" => index[r.key] = NoBlock /\ r.key \notin KeysOf(pend.recs)
    BY <1>1, <1>4, <2>2, AbsentKey
  <2>6. Additions'
    BY <1>1, <1>2, <2>1, <2>2, <2>5 DEF Exact, Additions
  <2>7. Answers'
    BY <1>2, <1>4, <2>1, <2>2, <2>3 DEF Answers, Unserved
  <2>8. QED
    BY <1>3, <1>5, <1>6, <2>4, <2>6, <2>7 DEF Exact
<1>8. CASE ReadPastEnd
  <2>1. eof' = TRUE /\ UNCHANGED <<op, live>> /\ op.key \in Keys /\ op.kind # "NONE"
    BY <1>8, Typed DEF ReadPastEnd
  <2>2. Asked'
    BY <2>1 DEF Exact, Asked
  <2>3. ASSUME NEW i \in DOMAIN pend.recs, pend.recs[i].key = op.key
        PROVE  pend.recs[i].size = op.size
    <3>1. SizeIn(pend.recs, op.key) = pend.recs[i].size
      BY <1>2, <2>3, SizeInDistinct DEF Exact, Additions
    <3>2. op.key \in KeysOf(pend.recs)
      BY <2>3 DEF KeysOf
    <3>3. Stored(op.key) = pend.recs[i].size
      BY <3>1, <3>2 DEF Stored
    <3>4. QED
      BY <1>4, <2>1, <3>3 DEF Exact, Asked
  <2>4. Additions'
    BY <1>1, <1>2, <2>1, <2>3 DEF Exact, Additions
  <2>5. Answers'
    BY <1>4, <2>1 DEF Answers
  <2>6. QED
    BY <1>3, <1>5, <1>6, <2>2, <2>4, <2>5 DEF Exact
<1>9. QED
  BY <1>7, <1>8

LEMMA ServeAddExact ==
  ASSUME TypeInv, Steady, Going, Exact, ServeAdd
  PROVE  Changes /\ Exact' /\ Stored(op.key)' = op.size
<1> DEFINE r == [key |-> op.key, size |-> op.size]
<1>1. /\ pc = "serve" /\ pc' = "request" /\ op.kind = "ADD" /\ op.key \in Keys
      /\ UNCHANGED <<media, valid, index, op, eof, upd, gc, ret, live>>
      /\ pend'.recs = Append(pend.recs, r) /\ pend.recs \in Seq(Records)
      /\ upd.todo = << >> /\ upd.acc = << >> /\ gc = NoGc
  BY Typed DEF ServeAdd, device, Going, UpdateEmpty, Within, Collecting, Exact, Idle
<1>2. r \in Records /\ r.key = op.key /\ r.size = op.size
  BY <1>1, Typed, RecordType
<1> HIDE DEF r
<1>3. KeysOf(pend'.recs) = KeysOf(pend.recs) \cup {op.key} /\ Distinct(pend.recs)
  BY <1>1, <1>2, KeysOfAppend DEF Exact, Additions, Closing
<1>4. \A i \in DOMAIN pend.recs : pend.recs[i].key = op.key => pend.recs[i].size = op.size
  <2>1. CASE eof
    BY <1>1, <2>1 DEF Exact, Additions
  <2>2. CASE ~eof
    <3>1. op.key \notin KeysOf(pend.recs)
      BY <1>1, <2>2 DEF Exact, Additions, Within, Collecting
    <3>2. QED
      BY <3>1 DEF KeysOf
  <2>3. QED
    BY <2>1, <2>2
<1>5. Within = "serve" /\ Within' = "request" /\ (~Closing' => ~eof) /\ ~Closing
  BY <1>1 DEF Within, Collecting, Closing
<1>6. Additions'
  <2>1. ASSUME ~eof
        PROVE  /\ Distinct(pend'.recs)
               /\ \A k \in KeysOf(pend'.recs) : index'[k] = NoBlock
    <3>1. index[op.key] = NoBlock /\ op.key \notin KeysOf(pend.recs)
      BY <1>1, <1>5, <2>1 DEF Exact, Additions
    <3>2. Distinct(pend'.recs)
      BY <1>1, <1>2, <1>3, <3>1, AppendValues
    <3>3. QED
      BY <1>1, <1>3, <1>5, <3>1, <3>2 DEF Exact, Additions
  <2>2. ASSUME NEW i \in DOMAIN pend'.recs, pend'.recs[i].key = op.key
        PROVE  pend'.recs[i].size = op.size
    <3>1. CASE i \in DOMAIN pend.recs
      <4>1. pend'.recs[i] = pend.recs[i]
        BY <1>1, <1>2, <3>1
      <4>2. QED
        BY <1>4, <2>2, <3>1, <4>1
    <3>2. CASE i \notin DOMAIN pend.recs
      <4>1. pend'.recs[i] = r
        BY <1>1, <1>2, <2>2, <3>2
      <4>2. QED
        BY <1>2, <4>1
    <3>3. QED
      BY <3>1, <3>2
  <2>3. QED
    BY <1>1, <1>5, <2>1, <2>2 DEF Additions
<1>7. Idle' /\ Single' /\ Sole' /\ Copies' /\ Asked'
  BY <1>1 DEF Exact, Idle, Single, Sole, Unread, Copies, Asked
<1>8. Rewrites'
  BY <1>1, <1>5 DEF Exact, Rewrites, Nowhere
<1>9. Stored(op.key)' = op.size
  <2>1. SizeIn(pend'.recs, op.key) = op.size
    BY <1>1, <1>2, <1>3, <1>4, AppendValues
  <2>2. QED
    BY <1>1, <1>3, <2>1 DEF Stored
<1>10. ASSUME NEW k \in Keys, k # op.key PROVE Stored(k)' = Stored(k)
  <2>1. CASE k \in KeysOf(pend.recs)
    <3>1. SizeIn(pend'.recs, k) = SizeIn(pend.recs, k)
      BY <1>1, <1>2, <1>3, <1>10, <2>1, AppendValues
    <3>2. QED
      BY <1>3, <2>1, <3>1 DEF Stored
  <2>2. CASE k \notin KeysOf(pend.recs)
    BY <1>1, <1>3, <1>10, <2>2 DEF Stored
  <2>3. QED
    BY <2>1, <2>2
<1>11. Changes
  <2>1. ASSUME NEW k \in Keys, k = op.key PROVE Stored(k)' = op.size
    BY <1>1, <1>9, <2>1
  <2>2. QED
    BY <1>10, <2>1 DEF Changes
<1>12. QED
  BY <1>6, <1>7, <1>8, <1>9, <1>11 DEF Exact

\* The records of a page that an update reads leave it for the buffer.
LEMMA StartUpdateExact ==
  ASSUME TypeInv, Steady, Going, Exact, StartUpdate
  PROVE  /\ Changes
         /\ pc' \notin Halts => Exact' /\ op.key \in KeysOf(upd'.todo)
<1>1. /\ pc = "serve" /\ op.key \in Keys /\ upd.todo = << >> /\ upd.acc = << >>
      /\ UNCHANGED <<media, pend, op, eof, gc, live>>
      /\ op.kind # "ADD" /\ pend.recs = << >> /\ gc = NoGc
      /\ KeysOf(upd.todo) = {} /\ KeysOf(upd.acc) = {}
  BY Typed, KeysOfEmpty DEF StartUpdate, FlushDue, Going, UpdateEmpty, Within,
                            Collecting, Exact, Idle
<1>2. CASE index[op.key] = NoBlock
  <2>1. pc' = "assert394" /\ UNCHANGED <<index, upd>>
    BY <1>2 DEF StartUpdate, Halt
  <2>2. QED
    BY <1>1, <2>1, Untouched DEF Halts
<1>3. CASE index[op.key] # NoBlock
  <2> DEFINE b == index[op.key]
  <2>1. b \in Blocks /\ valid[b] = "VALID" /\ op.key \in KeysOf(media[b])
    BY <1>1, <1>3, Typed DEF Going, Homes, Homed, InFlight
  <2>2. media[b] # << >> /\ media[b] \in Seq(Records)
    BY <2>1, Typed, KeysOfEmpty
  <2>3. /\ upd' = [NoUpdate EXCEPT !.todo = media[b]]
        /\ valid' = [valid EXCEPT ![b] = "INVALID"]
        /\ index' = IF op.size = 0 THEN [index EXCEPT ![op.key] = NoBlock] ELSE index
        /\ pc' = "update"
    BY <1>3, <2>2 DEF StartUpdate, Parsed, Invalidate
  <2>4. upd'.todo = media[b] /\ upd'.acc = << >> /\ KeysOf(upd'.acc) = {}
    BY <2>3, KeysOfEmpty DEF NoUpdate
  <2>5. \A d \in Blocks : valid'[d] = "VALID" => d # b /\ valid[d] = "VALID"
    BY <2>1, <2>3 DEF TypeInv, TypeOK
  <2>6. /\ \A k \in Keys : index'[k] = IF k = op.key /\ op.size = 0 THEN NoBlock
                                                               ELSE index[k]
    BY <1>1, <2>3 DEF TypeInv, TypeOK
  <2>7. \A d \in Blocks : valid[d] = "VALID" => \A k \in KeysOf(media[d]) :
            k \in Keys /\ index[k] = d
    BY <1>1, NoZone, Typed, KeysOfType DEF Exact, Sole
  <2> HIDE DEF b
  <2>8. ASSUME NEW k \in KeysOf(media[b]) PROVE Nowhere(k)'
    BY <1>1, <2>1, <2>5, <2>7, <2>8 DEF Nowhere
  <2>9. Single' /\ Sole'
    BY <1>1, <2>1, <2>5, <2>6, <2>7 DEF Exact, Single, Sole
  <2>10. Within' = "update"
    BY <2>3 DEF Within, Collecting
  <2>11. Additions'
    BY <1>1, <2>10, DistinctEmpty, KeysOfEmpty DEF Additions
  <2>12. Rewrites'
    BY <1>1, <2>1, <2>4, <2>6, <2>8, DistinctEmpty DEF Exact, Single, Rewrites
  <2>13. Copies' /\ Idle' /\ Asked'
    BY <1>1, <2>3 DEF Exact, Copies, Idle, Asked
  <2>14. Changes
    <3> SUFFICES ASSUME NEW k \in Keys PROVE Stored(k)' = Stored(k)
      BY DEF Changes
    <3>1. CASE k \in KeysOf(media[b])
      <4>1. index[k] = b /\ b # NoBlock
        BY <2>1, <2>7, <3>1, BlocksDef
      <4>2. Stored(k) = SizeIn(media[b], k)
        BY <1>1, <3>1, <4>1, KeysOfEmpty DEF Stored
      <4>3. Stored(k)' = SizeIn(media[b], k)
        BY <1>1, <2>4, <3>1, KeysOfEmpty DEF Stored
      <4>4. QED
        BY <4>2, <4>3
    <3>2. CASE k \notin KeysOf(media[b])
      <4>1. index'[k] = index[k]
        BY <2>1, <2>6, <3>2
      <4>2. QED
        BY <1>1, <2>4, <3>2, <4>1 DEF Stored
    <3>3. QED
      BY <3>1, <3>2
  <2>15. QED
    BY <2>1, <2>4, <2>9, <2>11, <2>12, <2>13, <2>14 DEF Exact
<1>4. QED
  BY <1>2, <1>3

\* A record that is rewritten goes from one buffer to the other; that of the
\* request gets the size it asks for, or is dropped.
LEMMA UpdateRecordExact ==
  ASSUME TypeInv, Steady, Going, Exact, UpdateRecord
  PROVE  /\ Changes /\ Exact'
         /\ op.key \in KeysOf(upd.todo) \ KeysOf(upd'.todo) => Stored(op.key)' = op.size
<1> DEFINE r == Head(upd.todo)
<1> DEFINE rest == Tail(upd.todo)
<1>1. /\ pc = "update" /\ upd.todo # << >> /\ gc = NoGc /\ pend.recs = << >>
      /\ UNCHANGED <<media, valid, index, pend, op, eof, gc, pc, ret, live>>
      /\ upd.todo \in Seq(Records) /\ upd.acc \in Seq(Records)
      /\ op.key \in Keys /\ op.size \in Sizes
  BY Typed DEF UpdateRecord, device, Exact, Idle, Additions, Within, Collecting
<1>2. /\ r \in Records /\ r.size # 0 /\ r.key \in Keys /\ rest \in Seq(Records)
      /\ KeysOf(upd.todo) = {r.key} \cup KeysOf(rest)
      /\ Distinct(rest) /\ r.key \notin KeysOf(rest)
      /\ SizeIn(upd.todo, r.key) = r.size
      /\ \A k \in KeysOf(rest) : SizeIn(rest, k) = SizeIn(upd.todo, k)
  BY <1>1, KeysOfHeadTail, SizedPages, SizesNat, DistinctHeadTail
  DEF Exact, Rewrites, Steady, BuffersSized
<1>3. upd'.todo = rest
  BY DEF UpdateRecord
<1>4. NewSize = IF r.key = op.key THEN op.size ELSE r.size
  BY DEF NewSize
<1>5. /\ Distinct(upd.acc) /\ r.key \notin KeysOf(upd.acc)
      /\ KeysOf(rest) \cap KeysOf(upd.acc) = {}
  BY <1>2 DEF Exact, Rewrites
<1> HIDE DEF r, rest
<1>6. CASE NewSize = 0
  <2>1. upd'.acc = upd.acc /\ r.key = op.key /\ op.size = 0
    <3>1. upd'.acc = upd.acc \o << >>
      BY <1>6 DEF UpdateRecord
    <3>2. r.key = op.key /\ op.size = 0
      BY <1>2, <1>4, <1>6
    <3>3. QED
      BY <1>1, <3>1, <3>2
  <2>2. index[op.key] = NoBlock /\ op.key \notin KeysOf(upd.acc)
    BY <1>1, <2>1 DEF Exact, Rewrites, Within, Collecting
  <2>3. Distinct(upd'.acc) /\ KeysOf(upd'.acc) = KeysOf(upd.acc)
    BY <1>5, <2>1
  <2>4. ASSUME NEW k \in Keys PROVE Stored(k)' = IF k = op.key THEN 0 ELSE Stored(k)
    <3>1. CASE k = op.key
      BY <1>1, <1>2, <1>3, <2>1, <2>2, <3>1, KeysOfEmpty DEF Stored
    <3>2. CASE k # op.key
      BY <1>1, <1>2, <1>3, <2>1, <3>2, KeysOfEmpty DEF Stored
    <3>3. QED
      BY <3>1, <3>2
  <2>5. Rewrites'
    BY <1>1, <1>2, <1>3, <1>5, <2>1, <2>2, <2>3 DEF Exact, Rewrites, Nowhere
  <2>6. Changes
    BY <2>1, <2>4 DEF Changes
  <2>7. op.key \in Keys => Stored(op.key)' = op.size
    BY <1>1, <2>1, <2>4
  <2>8. Idle' /\ Single' /\ Sole' /\ Copies' /\ Asked' /\ Additions'
    BY <1>1 DEF Exact, Idle, Single, Sole, Unread, Copies, Asked, Additions, Within,
                Closing, Collecting
  <2>9. QED
    BY <1>1, <2>5, <2>6, <2>7, <2>8 DEF Exact
<1>7. CASE NewSize # 0
  <2> DEFINE n == [key |-> r.key, size |-> NewSize]
  <2>1. n \in Records /\ n.key = r.key /\ n.size = NewSize
    BY <1>1, <1>2, <1>4, RecordType, SizesNat
  <2>2. upd'.acc = upd.acc \o <<n>>
    BY <1>7 DEF UpdateRecord, r
  <2> HIDE DEF n
  <2>3. upd'.acc = Append(upd.acc, n)
    BY <1>1, <2>1, <2>2
  <2>4. /\ KeysOf(upd'.acc) = KeysOf(upd.acc) \cup {r.key}
        /\ Distinct(upd'.acc)
        /\ \A k \in KeysOf(upd.acc) : SizeIn(upd'.acc, k) = SizeIn(upd.acc, k)
        /\ SizeIn(upd'.acc, r.key) = NewSize
    <3>1. \A i \in DOMAIN upd.acc : upd.acc[i].key # r.key
      BY <1>5 DEF KeysOf
    <3>2. QED
      BY <1>1, <1>5, <2>1, <2>3, <3>1, KeysOfAppend, AppendValues
  <2>5. ASSUME NEW k \in Keys
        PROVE  Stored(k)' = IF k = r.key THEN NewSize ELSE Stored(k)
    <3>1. CASE k = r.key
      BY <1>1, <2>4, <3>1, KeysOfEmpty DEF Stored
    <3>2. CASE k # r.key
      BY <1>1, <1>2, <1>3, <2>4, <3>2, KeysOfEmpty DEF Stored
    <3>3. QED
      BY <3>1, <3>2
  <2>6. r.key \notin KeysOf(pend.recs) /\ Stored(r.key) = r.size
    BY <1>1, <1>2, <1>5, KeysOfEmpty DEF Stored
  <2>7. Changes
    BY <1>4, <2>5, <2>6 DEF Changes
  <2>8. op.key \in KeysOf(upd.todo) \ KeysOf(upd'.todo) =>
            op.key = r.key /\ Stored(op.key)' = op.size
    BY <1>1, <1>2, <1>3, <1>4, <2>5
  <2>9. Rewrites'
    <3>1. op.size = 0 => op.key \notin KeysOf(upd'.acc)
      BY <1>1, <1>4, <1>7, <2>4 DEF Exact, Rewrites, Within, Collecting
    <3>2. QED
      BY <1>1, <1>2, <1>3, <1>5, <2>4, <3>1
      DEF Exact, Rewrites, Nowhere, Within, Collecting
  <2>10. Idle' /\ Single' /\ Sole' /\ Copies' /\ Asked' /\ Additions'
    BY <1>1 DEF Exact, Idle, Single, Sole, Unread, Copies, Asked, Additions, Within,
                Closing, Collecting
  <2>11. QED
    BY <2>7, <2>8, <2>9, <2>10 DEF Exact
<1>8. QED
  BY <1>6, <1>7

LEMMA EndUpdateExact ==
  ASSUME TypeInv, Steady, Going, Exact, EndUpdate
  PROVE  Changes /\ Exact' /\ UNCHANGED <<op, live>>
<1>1. /\ pc = "updated" /\ upd.todo = << >> /\ upd.acc = << >> /\ upd.found
      /\ upd' = NoUpdate /\ pc' = "request" /\ gc = NoGc /\ pend.recs = << >>
      /\ UNCHANGED <<media, valid, index, pend, op, eof, gc, ret, live>>
  BY KeysOfEmpty
  DEF EndUpdate, Going, UpdateEmpty, OnTheWay, Exact, Idle, Additions, Within,
      Collecting, device
<1>2. upd'.todo = << >> /\ upd'.acc = << >>
  BY <1>1 DEF NoUpdate
<1>3. Changes
  BY <1>1, <1>2, Untouched
<1>4. Idle' /\ Single' /\ Sole' /\ Copies' /\ Asked'
  BY <1>1 DEF Exact, Idle, Single, Sole, Unread, Copies, Asked
<1>5. Additions' /\ Rewrites'
  BY <1>1, <1>2, DistinctEmpty, KeysOfEmpty DEF Additions, Rewrites, Within, Collecting
<1>6. QED
  BY <1>1, <1>3, <1>4, <1>5 DEF Exact

LEMMA DetectExact ==
  ASSUME TypeInv, Steady, Going, Exact, Detect \/ EndGc
  PROVE  Changes /\ Exact' /\ Unserved' = Unserved
<1>1. /\ pc \in {"detect", "gczone"} /\ gc = NoGc
      /\ UNCHANGED <<media, valid, index, pend, op, eof, upd, gc, live>>
      /\ \/ pc' = "gczone" /\ ret' = ret
         \/ pc' = ret /\ ret' = "request"
      /\ ret \in {"request", "serve", "update", "updated"}
  BY DEF Detect, EndGc, device, Exact, Idle, TypeInv, TypeOK
<1>2. Within = ret /\ Within' = ret /\ ~Closing
  BY <1>1 DEF Within, Collecting, Closing
<1>3. Changes
  BY <1>1, Untouched
<1>4. Idle' /\ Single' /\ Sole' /\ Copies' /\ Asked'
  BY <1>1, NoZone DEF Exact, Idle, Single, Sole, Copies, Asked
<1>5. Additions' /\ Rewrites'
  BY <1>1, <1>2 DEF Exact, Additions, Rewrites, Nowhere
<1>6. QED
  BY <1>1, <1>2, <1>3, <1>4, <1>5 DEF Exact, Unserved

\* What a collection reads are copies: every key of an unread page is at home.
LEMMA StartZoneExact ==
  ASSUME TypeInv, Steady, Going, Exact, StartZone, ~astray'
  PROVE  Changes /\ (pc' \notin Halts => Exact' /\ Within' = Within)
<1>1. /\ pc = "gczone" /\ gc = NoGc
      /\ UNCHANGED <<media, valid, index, pend, op, eof, upd, live>>
  BY DEF StartZone, device, Exact, Idle
<1>2. Changes
  BY <1>1, Untouched
<1>3. PICK z \in gcQueue :
        IF Scan(<<z, 0>>) = {}
        THEN \E how \in {"fault", "assert481"} : Halt(how)
        ELSE \E b \in Scan(<<z, 0>>) :
             /\ gc' = [NoGc EXCEPT !.zone = z, !.src = b, !.todo = media[b]]
             /\ pc' = "gcread" /\ UNCHANGED ret
  BY DEF StartZone
<1>4. CASE Scan(<<z, 0>>) = {}
  <2>1. pc' \in Halts
    BY <1>3, <1>4 DEF Halt, Halts
  <2>2. QED
    BY <1>2, <2>1
<1>5. CASE Scan(<<z, 0>>) # {}
  <2>1. PICK b \in Scan(<<z, 0>>) :
           /\ gc' = [NoGc EXCEPT !.zone = z, !.src = b, !.todo = media[b]]
           /\ pc' = "gcread" /\ UNCHANGED ret
    BY <1>3, <1>5
  <2>2. /\ gc'.src = b /\ gc'.todo = media[b] /\ gc'.acc = << >>
        /\ b \in Blocks /\ valid[b] = "VALID"
    BY <2>1, ScanStops DEF NoGc
  <2>3. Within' = Within /\ ~Closing /\ ~Closing'
    BY <1>1, <2>1 DEF Within, Collecting, Closing
  <2>4. \A d \in Blocks : Unread(d)
    BY <1>1, NoZone
  <2>5. Copies'
    <3>1. \A k \in KeysOf(media[b]) : index[k] = b
      BY <2>2, <2>4 DEF Exact, Sole
    <3>2. \A i \in DOMAIN media[b] : index[media[b][i].key] = b /\ InPage(media[b][i], media[b])
      BY <3>1 DEF KeysOf, InPage
    <3>3. QED
      BY <1>1, <2>2, <3>2, DistinctEmpty, KeysOfEmpty DEF Exact, Single, Copies
  <2>6. Single' /\ Sole' /\ Idle' /\ Asked'
    BY <1>1, <2>1, <2>4 DEF Exact, Single, Sole, Idle, Asked
  <2>7. Additions' /\ Rewrites'
    BY <1>1, <2>3 DEF Exact, Additions, Rewrites, Nowhere
  <2>8. QED
    BY <1>2, <2>3, <2>5, <2>6, <2>7 DEF Exact
<1>6. QED
  BY <1>4, <1>5

LEMMA GcRecordExact ==
  ASSUME TypeInv, Steady, Going, Exact, GcRecord
  PROVE  Changes /\ Exact' /\ Within' = Within
<1> DEFINE r == Head(gc.todo)
<1> DEFINE rest == Tail(gc.todo)
<1>1. /\ pc = "gcread" /\ gc.todo # << >> /\ gc' = GcTaken(r, rest)
      /\ UNCHANGED <<media, valid, index, pend, op, eof, upd, pc, ret, live>>
      /\ gc \in Collections /\ gc.todo \in Seq(Records) /\ gc.acc \in Seq(Records)
      /\ gc.src \in Blocks /\ gc.src[1] = gc.zone
  BY Typed DEF GcRecord, TypeInv, TypeOK, device, Going, InPlace
<1>2. /\ r \in Records /\ r.size # 0 /\ r.key \in Keys /\ rest \in Seq(Records)
      /\ KeysOf(gc.todo) = {r.key} \cup KeysOf(rest)
      /\ Distinct(rest) /\ r.key \notin KeysOf(rest)
  BY <1>1, KeysOfHeadTail, SizedPages, SizesNat, DistinctHeadTail
  DEF Exact, Copies, Steady, BuffersSized
<1>3. /\ gc'.zone = gc.zone /\ gc'.src = gc.src /\ gc'.todo = rest
      /\ gc'.acc = Append(gc.acc, r)
  BY <1>1, <1>2 DEF GcTaken, Collections
<1>4. /\ r = gc.todo[1] /\ 1 \in DOMAIN gc.todo
      /\ \A i \in DOMAIN rest : i + 1 \in DOMAIN gc.todo /\ gc.todo[i + 1] = rest[i]
  BY <1>1
<1> HIDE DEF r, rest
<1>5. /\ KeysOf(gc'.acc) = KeysOf(gc.acc) \cup {r.key}
      /\ r.key \notin KeysOf(gc.acc) /\ Distinct(gc'.acc)
  BY <1>1, <1>2, <1>3, KeysOfAppend, AppendValues DEF Exact, Copies
<1>6. ASSUME NEW i \in DOMAIN rest
      PROVE  InPage(rest[i], media[gc.src]) /\ index[rest[i].key] = gc.src
  BY <1>1, <1>4 DEF Exact, Copies
<1>7. Copied(r)
  <2>1. index[r.key] = gc.src /\ InPage(r, media[gc.src]) /\ valid[gc.src] = "VALID"
    BY <1>1, <1>4 DEF Exact, Copies
  <2>2. ~Before(gc.src, gc.src)
    BY <1>1, BlocksDef DEF Before, Zones, Offsets
  <2>3. QED
    BY <1>1, <2>1, <2>2 DEF Copied
<1>8. \A x : Copied(x) => Copied(x)'
  BY <1>1, <1>3 DEF Copied
<1>81. \A i \in DOMAIN gc'.acc : \E x : x = gc'.acc[i] /\ Copied(x)
  <2> SUFFICES ASSUME NEW i \in DOMAIN gc'.acc
               PROVE  \E x : x = gc'.acc[i] /\ Copied(x)
    OBVIOUS
  <2>1. CASE i \in DOMAIN gc.acc
    <3>1. gc'.acc[i] = gc.acc[i] /\ Copied(gc.acc[i])
      BY <1>1, <1>2, <1>3, <2>1 DEF Exact, Copies
    <3>2. QED
      BY <3>1
  <2>2. CASE i \notin DOMAIN gc.acc
    <3>1. gc'.acc[i] = r
      BY <1>1, <1>2, <1>3, <2>2
    <3>2. QED
      BY <1>7, <3>1
  <2>3. QED
    BY <2>1, <2>2
<1>9. Copies'
  <2>1. KeysOf(rest) \cap KeysOf(gc'.acc) = {}
    BY <1>1, <1>2, <1>5 DEF Exact, Copies
  <2>2. QED
    BY <1>1, <1>2, <1>3, <1>5, <1>6, <1>8, <1>81, <2>1 DEF Exact, Copies
<1>10. Changes
  BY <1>1, Untouched
<1>11. Single' /\ Sole' /\ Idle' /\ Asked' /\ Additions' /\ Rewrites' /\ Within' = Within
  BY <1>1, <1>3 DEF Exact, Single, Sole, Unread, Idle, Asked, Additions, Rewrites,
                    Nowhere, Closing, Within, Collecting
<1>12. QED
  BY <1>9, <1>10, <1>11 DEF Exact

\* The scan goes on behind what it has read: the copies stay behind it.
LEMMA NextBlockExact ==
  ASSUME TypeInv, Steady, Going, Exact, NextBlock
  PROVE  Changes /\ Exact' /\ Within' = Within
<1>1. /\ pc = "gcread" /\ gc.todo = << >> /\ InThisZone /\ gc \in Collections
      /\ UNCHANGED <<media, valid, index, pend, op, eof, upd, pc, ret, live>>
      /\ gc.src \in Blocks /\ gc.src[1] = gc.zone
  BY DEF NextBlock, TypeInv, TypeOK, device, Going, InPlace
<1>2. PICK b \in NextBlocks : gc' = [gc EXCEPT !.src = b, !.todo = media[b]]
  BY DEF NextBlock
<1>3. b \in Blocks /\ valid[b] = "VALID" /\ b[1] = gc.zone /\ ~Before(b, After(gc.src))
  BY <1>1, ScanStops DEF NextBlocks, InThisZone
<1>4. /\ gc'.zone = gc.zone /\ gc'.src = b /\ gc'.todo = media[b] /\ gc'.acc = gc.acc
  BY <1>1, <1>2 DEF Collections
<1>5. /\ Before(gc.src, b)
      /\ \A d \in Blocks : Before(b, d) => Before(gc.src, d)
      /\ \A d \in Blocks : d[1] = gc.zone /\ ~Before(gc.src, d) => ~Before(b, d)
  <2>1. /\ b[1] \in Nat /\ b[2] \in Nat /\ gc.src[2] \in Nat
        /\ \A d \in Blocks : d[1] \in Nat /\ d[2] \in Nat
    BY <1>1, <1>3, BlocksDef DEF Zones, Offsets
  <2>2. b[2] > gc.src[2]
    BY <1>1, <1>3, <2>1 DEF Before, After
  <2>3. QED
    BY <1>1, <1>3, <2>1, <2>2 DEF Before
<1>6. \A d \in Blocks : Unread(d)' => Unread(d)
  BY <1>1, <1>4, <1>5 DEF Unread
<1>7. \A k \in KeysOf(media[b]) : index[k] = b
  BY <1>1, <1>3, <1>5 DEF Exact, Sole, Unread
<1>8. Copies'
  <2>1. \A i \in DOMAIN media[b] : index[media[b][i].key] = b /\ InPage(media[b][i], media[b])
    BY <1>7 DEF KeysOf, InPage
  <2>2. KeysOf(media[b]) \cap KeysOf(gc.acc) = {}
    BY <1>1, <1>5, <1>7, CopiedKey
  <2>3. \A i \in DOMAIN gc.acc : Copied(gc.acc[i])'
    BY <1>1, <1>4, <1>5 DEF Exact, Copies, Copied
  <2>4. QED
    BY <1>1, <1>3, <1>4, <2>1, <2>2, <2>3 DEF Exact, Single, Copies
<1>9. Changes
  BY <1>1, Untouched
<1>10. Sole'
  BY <1>1, <1>6 DEF Exact, Sole
<1>11. Single' /\ Idle' /\ Asked' /\ Additions' /\ Rewrites' /\ Within' = Within
  BY <1>1 DEF Exact, Single, Idle, Asked, Additions, Rewrites, Nowhere, Closing, Within,
              Collecting
<1>12. QED
  BY <1>8, <1>9, <1>10, <1>11 DEF Exact

\* What a reset erases is no key's record.
LEMMA ResetZoneExact ==
  ASSUME TypeInv, Steady, Going, Exact, ResetZone
  PROVE  Changes /\ Exact' /\ Within' = Within
<1>1. /\ pc = "gcreset" /\ pc' = "gczone" /\ gc' = NoGc
      /\ UNCHANGED <<index, pend, op, eof, upd, ret, live>>
      /\ media' = [b \in Blocks |-> IF b[1] = gc.zone THEN << >> ELSE media[b]]
      /\ valid' = [b \in Blocks |-> IF b[1] = gc.zone THEN "EMPTY" ELSE valid[b]]
  BY DEF ResetZone, Cleared
<1>2. \A b \in Blocks : valid'[b] = "VALID" => /\ b[1] # gc.zone /\ valid[b] = "VALID"
                                              /\ media'[b] = media[b] /\ Unread(b)
  BY <1>1 DEF Unread
<1>3. Within' = Within /\ ~Closing /\ ~Closing'
  BY <1>1 DEF Within, Collecting, Closing
<1>4. Single' /\ Sole'
  BY <1>1, <1>2 DEF Exact, Single, Sole
<1>5. Additions' /\ Rewrites'
  BY <1>1, <1>2, <1>3 DEF Exact, Additions, Rewrites, Nowhere
<1>6. Idle' /\ Copies' /\ Asked'
  BY <1>1 DEF Exact, Idle, Copies, Asked
<1>7. Changes
  <2> SUFFICES ASSUME NEW k \in Keys PROVE Stored(k)' = Stored(k)
    BY DEF Changes
  <2>1. CASE k \in KeysOf(upd.acc) \cup KeysOf(upd.todo)
    BY <1>1, <2>1, StoredSame
  <2>2. CASE k \notin KeysOf(upd.acc) \cup KeysOf(upd.todo)
    <3>1. index[k][1] # gc.zone
      BY <1>1, <2>2 DEF Going, Covered, InFlight
    <3>2. index[k] # NoBlock => media'[index[k]] = media[index[k]]
      BY <1>1, <3>1, Typed
    <3>3. QED
      BY <1>1, <3>2, StoredSame
  <2>3. QED
    BY <2>1, <2>2
<1>8. QED
  BY <1>3, <1>4, <1>5, <1>6, <1>7 DEF Exact

-----------------------------------------------------------------------------
(* The invariant, and what follows from it.                                *)

LEMMA InitHeld == Init => Held
<1> SUFFICES ASSUME Init PROVE Exact /\ Answers
  BY DEF Held
<1>1. Idle /\ Single /\ Sole /\ Copies /\ Asked
  BY DEF Init, Idle, Single, Sole, Copies, Asked
<1>2. /\ pend.recs = << >> /\ upd.todo = << >> /\ upd.acc = << >>
      /\ KeysOf(pend.recs) = {} /\ KeysOf(upd.todo) = {} /\ KeysOf(upd.acc) = {}
      /\ Within = "request"
  BY KeysOfEmpty DEF Init, NoBuffer, NoUpdate, Within, Collecting
<1>3. Additions /\ Rewrites
  BY <1>2, DistinctEmpty DEF Init, Additions, Rewrites
<1>4. Answers
  BY <1>2 DEF Init, Answers, Stored
<1>5. QED
  BY <1>1, <1>3, <1>4 DEF Exact

\* A step from a state where all is in place leaves the values alone but for
\* that of the request, and where it goes on, all is in place again.
LEMMA StepExact ==
  ASSUME CleanWords, TypeInv, Steady, Going, Exact, Answers, ~astray, pc \notin Halts,
         [Next]_vars, ~astray'
  PROVE  Changes /\ (pc' \notin Halts => Exact' /\ Answers')
<1>1. ~NextBlockEmpty /\ ~Stopped
  BY DEF NextBlockEmpty, Stopped
<1>2. CASE UNCHANGED vars
  <2>1. UNCHANGED <<media, valid, index, pend, op, eof, upd, gc, pc, ret, live>>
    BY <1>2 DEF vars, device
  <2>2. Changes
    BY <2>1, Untouched
  <2>3. Exact' <=> Exact
    BY <2>1 DEF Exact, Idle, Single, Sole, Unread, Additions, Closing, Within, Collecting,
                Rewrites, Nowhere, Copies, Copied, Asked
  <2>4. Answers' <=> Answers
    BY <2>1 DEF Answers, Unserved, Stored, Within, Collecting
  <2>5. QED
    BY <2>2, <2>3, <2>4
<1>3. CASE ReadRequest \/ ReadPastEnd
  BY <1>3, ReadExact
<1>4. CASE Exit \/ OverrunFault
  <2>1. UNCHANGED <<index, media, pend, upd>> /\ pc' \in Halts
    BY <1>4 DEF Exit, OverrunFault, Halt, Halts, device
  <2>2. QED
    BY <2>1, Untouched
<1>5. CASE Serving /\ ~OverrunFault
  <2>1. op.kind # "NONE" /\ pc # "request" /\ UNCHANGED <<op, live>>
    <3>1. pc # "request"
      BY <1>1, <1>5 DEF Serving, FlushBuffer, ServeAdd, StartUpdate, SpillUpdate, UpdateRecord,
        LastPage, EndUpdate, Detect, StartZone, SpillGc, GcRecord, NextBlock, EndZone,
        ResetZone, EndGc
    <3>2. UNCHANGED <<op, live>>
      BY <1>1, <1>5 DEF Serving, FlushBuffer, ServeAdd, StartUpdate, SpillUpdate, UpdateRecord,
        LastPage, EndUpdate, Detect, StartZone, SpillGc, GcRecord, NextBlock, EndZone,
        ResetZone, EndGc
    <3>3. QED
      BY <3>1, <3>2, Typed
  <2>2. CASE FlushBuffer
    <3>1. Changes /\ (pc' \notin Halts => Exact')
      BY <2>2, FlushBufferExact
    <3>2. pc' \notin Halts => Unserved'
      <4>1. pc = "serve" /\ ~gcFlag /\ Insert(pend.recs, KeysOf(pend.recs), "serve")
        BY <2>2 DEF FlushBuffer, TypeInv, FlagSet, Labels, Collecting
      <4>2. pc' \in Halts \/ (pc' = "detect" /\ ret' = "serve")
        BY <4>1, InsertEffect DEF Refused, Halts
      <4>3. QED
        BY <4>2 DEF Unserved, Within, Collecting
    <3>3. QED
      BY <2>1, <3>1, <3>2, AnswersKept DEF Exact
  <2>3. CASE ServeAdd
    BY <2>1, <2>3, ServeAddExact, AnswersKept DEF Exact
  <2>4. CASE StartUpdate
    <3>1. Changes /\ (pc' \notin Halts => Exact' /\ Unserved')
      BY <2>1, <2>4, StartUpdateExact DEF Unserved
    <3>2. QED
      BY <2>1, <3>1, AnswersKept DEF Exact
  <2>5. CASE SpillUpdate \/ LastPage
    <3>1. /\ Changes /\ (pc' \notin Halts => Exact') /\ upd'.todo = upd.todo
          /\ pc = "update"
      BY <2>5, UpdateWriteExact DEF SpillUpdate, LastPage
    <3>2. Unserved => Unserved'
      BY <2>1, <3>1 DEF Unserved, Within, Collecting
    <3>3. QED
      BY <2>1, <3>1, <3>2, AnswersKept DEF Exact
  <2>6. CASE UpdateRecord
    <3>1. /\ Changes /\ Exact' /\ pc = "update"
          /\ op.key \in KeysOf(upd.todo) \ KeysOf(upd'.todo) => Stored(op.key)' = op.size
      BY <2>6, UpdateRecordExact DEF UpdateRecord
    <3>2. Unserved => Unserved' \/ Stored(op.key)' = op.size
      BY <2>1, <3>1 DEF Unserved, Within, Collecting
    <3>3. QED
      BY <2>1, <3>1, <3>2, AnswersKept DEF Exact
  <2>7. CASE EndUpdate
    <3>1. Changes /\ Exact' /\ pc = "updated"
      BY <2>7, EndUpdateExact DEF EndUpdate
    <3>2. ~Unserved
      BY <3>1, KeysOfEmpty DEF Unserved, Within, Collecting, Going, UpdateEmpty
    <3>3. QED
      BY <2>1, <3>1, <3>2, AnswersKept DEF Exact
  <2>8. CASE Detect \/ EndGc
    <3>1. Changes /\ Exact' /\ Unserved' = Unserved
      BY <2>8, DetectExact
    <3>2. QED
      BY <2>1, <3>1, AnswersKept DEF Exact
  <2>9. CASE StartZone \/ GcRecord \/ NextBlock \/ ResetZone
    <3>1. Changes /\ (pc' \notin Halts => Exact' /\ Within' = Within) /\ upd' = upd
      BY <2>9, StartZoneExact, GcRecordExact, NextBlockExact, ResetZoneExact
      DEF StartZone, GcRecord, NextBlock, ResetZone
    <3>2. pc' \notin Halts => (Unserved => Unserved')
      BY <2>1, <3>1 DEF Unserved
    <3>3. QED
      BY <2>1, <3>1, <3>2, AnswersKept DEF Exact
  <2>10. CASE SpillGc \/ EndZone
    <3>1. /\ Changes /\ (pc' \notin Halts => Exact') /\ upd' = upd
          /\ pc = "gcread" /\ gcFlag
      BY <2>10, GcWriteExact, EndZoneExact
      DEF SpillGc, EndZone, TypeInv, FlagSet, Labels, Collecting
    <3>2. pc' \notin Halts => Within' = Within
      <4>1. CASE EndZone /\ ~RecordsLeft
        BY <3>1, <4>1 DEF EndZone, Within, Collecting
      <4>2. CASE SpillGc \/ (EndZone /\ RecordsLeft)
        <5>1. PICK after \in {"gcread", "gcreset"} :
                Insert(gc.acc, KeysOf(gc.acc) \cup gc.cut, after)
          BY <4>2 DEF SpillGc, EndZone
        <5>2. pc' \in Halts \/ (pc' = after /\ ret' = ret)
          BY <3>1, <5>1, InsertEffect DEF Refused, Halts
        <5>3. QED
          BY <3>1, <5>2 DEF Within, Collecting
      <4>3. QED
        BY <2>10, <4>1, <4>2
    <3>3. pc' \notin Halts => (Unserved => Unserved')
      BY <2>1, <3>1, <3>2 DEF Unserved
    <3>4. QED
      BY <2>1, <3>1, <3>3, AnswersKept DEF Exact
  <2>11. QED
    BY <1>1, <1>5, <2>2, <2>3, <2>4, <2>5, <2>6, <2>7, <2>8, <2>9, <2>10 DEF Serving
<1>6. QED
  BY <1>1, <1>2, <1>3, <1>4, <1>5 DEF Next

LEMMA StepHeld ==
  ASSUME CleanWords
  PROVE  TypeInv /\ Safe /\ Held /\ [Next]_vars => Held' /\ (~astray' => Changes)
<1> SUFFICES ASSUME TypeInv, Safe, Held, [Next]_vars, ~astray'
             PROVE  Changes /\ (pc' \notin Halts => Exact' /\ Answers')
  BY DEF Held
<1>1. ~astray /\ (pc \in Halts => UNCHANGED vars)
  BY NoReturn
<1>2. CASE pc \in Halts
  <2>1. UNCHANGED <<index, media, pend, upd, pc>>
    BY <1>1, <1>2 DEF vars, device
  <2>2. QED
    BY <1>2, <2>1, Untouched
<1>3. CASE pc \notin Halts
  BY <1>1, <1>3, StepExact DEF Safe, Held
<1>4. QED
  BY <1>2, <1>3

LEMMA AlwaysHeld ==
  ASSUME CleanWords
  PROVE  Spec => [](TypeInv /\ Safe /\ Held)
<1>1. Init => TypeInv /\ Safe /\ Held
  BY InitType, InitSafe, InitHeld
<1>2. TypeInv /\ Safe /\ Held /\ [Next]_vars => (TypeInv /\ Safe /\ Held)'
  BY StepType, StepSafe, StepHeld
<1>3. QED
  BY <1>1, <1>2, PTL DEF Spec

\* On clean words, and as long as no collection has gone astray, no valid block
\* outside the zone being collected holds a record that key_index does not lead
\* to, or two of one key (NoStaleCopy).
THEOREM NothingStale ==
  ASSUME CleanWords
  PROVE  Spec => []NoStaleCopy
<1>1. TypeInv /\ Held => NoStaleCopy
  <2> SUFFICES ASSUME TypeInv, Exact, NEW b \in Blocks, valid[b] = "VALID", b[1] # gc.zone
               PROVE  /\ \A k \in KeysOf(media[b]) : index[k] = b
                      /\ Cardinality(KeysOf(media[b])) = Len(media[b])
    BY DEF Held, NoStaleCopy
  <2>1. \A k \in KeysOf(media[b]) : index[k] = b
    BY DEF Exact, Sole, Unread
  <2>2. Distinct(media[b]) /\ media[b] \in Seq(Records)
    BY Typed DEF Exact, Single
  <2>3. QED
    BY <2>1, <2>2, DistinctCount
<1>2. QED
  BY <1>1, AlwaysHeld, PTL

\* Likewise between two requests every key has the value that the requests so
\* far have given it (Served).
THEOREM RequestsServed ==
  ASSUME CleanWords
  PROVE  Spec => []Served
<1>1. TypeInv /\ Safe /\ Held => Served
  <2> SUFFICES ASSUME TypeInv, Safe, Held, pc = "request", ~astray
               PROVE  View = live
    BY DEF Served
  <2>1. Going /\ Answers /\ Within = "request"
    BY DEF Safe, Held, Halts, Within, Collecting
  <2>2. ~Unserved
    BY <2>1, KeysOfEmpty DEF Unserved, Going, UpdateEmpty
  <2>3. \A k \in Keys : Stored(k) = live[k]
    BY <2>1, <2>2 DEF Answers
  <2>4. live \in [Keys -> Sizes]
    BY DEF TypeInv, TypeOK
  <2>5. live = [k \in Keys |-> live[k]]
    BY <2>4
  <2>6. View = [k \in Keys |-> live[k]]
    BY <2>3 DEF View
  <2>7. QED
    BY <2>5, <2>6
<1>2. QED
  BY <1>1, AlwaysHeld, PTL

LEMMA InitView == Init => KV!Init
<1> SUFFICES ASSUME Init, NEW k \in Keys
             PROVE  Stored(k) = 0
  BY DEF KV!Init, KV!Absent, View
<1>1. index[k] = NoBlock /\ pend.recs = << >> /\ upd.acc = << >> /\ upd.todo = << >>
  BY DEF Init, NoBuffer, NoUpdate
<1>2. QED
  BY <1>1, KeysOfEmpty DEF Stored

\* Values of which only the one of the request changes make a step of the map.
LEMMA ChangesPut ==
  ASSUME Changes, View' # View
  PROVE  \E k \in Keys \cap {op.key} : IF op.size # 0 THEN KV!Put(k, op.size) ELSE KV!Delete(k)
<1>1. /\ View = [k \in Keys |-> Stored(k)]
      /\ View' = [k \in Keys |-> Stored(k)']
  BY DEF View
<1>2. PICK k \in Keys : Stored(k)' # Stored(k)
  BY <1>1
<1>3. k = op.key /\ Stored(k)' = op.size
  BY <1>2 DEF Changes
<1>4. \A j \in Keys : j # k => Stored(j)' = Stored(j)
  BY <1>3 DEF Changes
<1>5. View' = [View EXCEPT ![k] = op.size]
  BY <1>1, <1>3, <1>4
<1>6. View[k] = Stored(k)
  BY <1>1
<1>7. CASE op.size # 0
  BY <1>3, <1>5, <1>7 DEF KV!Put
<1>8. CASE op.size = 0
  BY <1>2, <1>3, <1>5, <1>6, <1>8 DEF KV!Delete, KV!Absent
<1>9. QED
  BY <1>7, <1>8

\* On clean words the engine implements the map KVStore: no step of an update,
\* a collection or a placement changes a value but the one that the request in
\* hand puts or deletes (ImplementsMap).
THEOREM MapImplemented ==
  ASSUME CleanWords
  PROVE  Spec => ImplementsMap
<1> DEFINE Asks == \E k \in Keys \cap {op.key} : IF op.size # 0 THEN KV!Put(k, op.size)
                                                         ELSE KV!Delete(k)
<1>1. TypeInv /\ Safe /\ Held /\ [Next]_vars => [Asks \/ astray']_View
  <2> SUFFICES ASSUME TypeInv, Safe, Held, [Next]_vars, ~astray', View' # View
               PROVE  Asks
    OBVIOUS
  <2>1. Changes
    BY StepHeld
  <2>2. QED
    BY <2>1, ChangesPut
<1>2. QED
  BY <1>1, InitView, AlwaysHeld, PTL DEF Spec, ImplementsMap
=============================================================================
