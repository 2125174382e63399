------------------------------ MODULE ZnsStore ------------------------------
(***************************************************************************)
(* The zone-aware placement engine: class ZNS_Simulation                   *)
(* (zns_simulation.cc) over the zones of the device as ZONE_SIM            *)
(* (zns_controller.cc) reads and writes them.                              *)
(*                                                                         *)
(* A block is a pair <<zone, offset>>; the code numbers it                 *)
(* zone * block_per_zone + offset.  A page is the sequence of key/size     *)
(* records that the parsers find in it.  Sizes are in words of four bytes. *)
(* Lifetimes are abstracted: every order of the candidate zones by         *)
(* lifetime distance, and every outcome of the variance test that needs    *)
(* two valid blocks, is allowed.                                           *)
(***************************************************************************)
EXTENDS Integers, Sequences, FiniteSets

CONSTANTS
    Keys,          \* keys of the workload (indices of key_index)
    ValueSizes,    \* sizes of the values, in words
    NZ,            \* zone_number
    BPZ,           \* block_per_zone
    PageSize,      \* BLOCK_SIZE
    Header,        \* the three ints in front of a value
    GL,            \* gl, the length of the queue that starts a collection
    SE,            \* se, the empty rate below which a zone is collected, in %
    SG,            \* sg, the garbage rate above which it is, in %
    HeapWords,     \* what an uninitialised word of can_zone may hold (2: other)
    StrayZones,    \* what the uninitialised zone_in may hold
    StrayKeys,     \* what the uninitialised key_read may hold
    Overrun,       \* how a scan past the end of block_valid_map may end
    NoKey,         \* no key
    Spread,        \* whether lifetimes in a zone may vary by more than sl
    Length         \* bound: the longest workload, in requests

Zones   == 0 .. NZ - 1
Offsets == 0 .. BPZ - 1
Blocks  == Zones \X Offsets
NoBlock == <<-1, 0>>            \* key_index[k] = -1
Sizes   == ValueSizes \cup {0}
Records == [key : Keys, size : Sizes]
Pages   == Seq(Records)

ASSUME NumbersOK ==
    /\ NZ \in Nat \ {0} /\ BPZ \in Nat \ {0} /\ GL \in Nat \ {0}
    /\ Length \in Nat
    /\ PageSize \in Nat /\ Header \in Nat /\ SE \in Nat /\ SG \in Nat
    /\ ValueSizes \subseteq Nat \ {0}

ASSUME StrayOK ==
    /\ HeapWords \subseteq 0 .. 2
    /\ StrayZones \subseteq Int
    /\ StrayKeys \subseteq Keys \cup {NoKey}
    /\ NoKey \notin Keys
    /\ Overrun \subseteq {"stop", "fault"} /\ Overrun # {}
    /\ Spread \in BOOLEAN

\* MAX_VALUE_SIZE is half a page: a page has room for any one record.
ASSUME OneValueFits == \A v \in ValueSizes : Header + v <= PageSize

VARIABLES
    wp,        \* write pointer of each zone, in blocks from its start
    media,     \* the page each block of the device holds
    valid,     \* block_valid_map
    index,     \* key_index
    seenWp,    \* the write pointers that empty_rate was last computed from
    gcQueue,   \* the zones with gc_queue[z] = 1
    gcFlag,    \* gc_flag
    pend,      \* key/value_size buffer of request_workload, with its cap
    op,        \* OP, key_read and value_size_read of request_workload
    load,      \* requests read
    eof,       \* the stream has failed: op is served for the second time
    upd,       \* the frame of myUpdate_Delete
    gc,        \* the frame of myGarbageCollection
    pc,        \* the statement the program is at, or how it stopped
    ret,       \* where myInsert returns to once its myGcDetect is done
    live,      \* ghost: what the requests read so far ask to be stored
    astray     \* ghost: a collection has read a block of another zone, or
               \* taken a record from a page that has none

device == <<wp, media, valid>>
vars == <<wp, media, valid, index, seenWp, gcQueue, gcFlag, pend, op, load,
          eof, upd, gc, pc, ret, live, astray>>

Halts == {"exit", "fault", "assert327", "assert394", "assert443", "assert481"}
Labels == {"request", "serve", "update", "updated", "detect",
           "gczone", "gcread", "gcreset"}

-----------------------------------------------------------------------------
(* The frames.                                                             *)

NoBuffer == [recs |-> << >>, cap |-> 0]
NoUpdate == [todo |-> << >>, acc |-> << >>, cap |-> 0, found |-> FALSE]
NoGc     == [zone |-> -1, src |-> NoBlock, todo |-> << >>, acc |-> << >>,
             cut |-> {}, cap |-> 0, key |-> NoKey, wrote |-> 0]

Buffers     == [recs : Pages, cap : Nat]
Updates     == [todo : Pages, acc : Pages, cap : Nat, found : BOOLEAN]
Collections == [zone : Zones \cup {-1}, src : Blocks \cup {NoBlock}, todo : Pages,
                acc : Pages, cut : SUBSET Keys, cap : Nat,
                key : Keys \cup {NoKey}, wrote : Nat]
Operations  == [kind : {"NONE", "ADD", "MODIFY", "DELETE"},
                key : Keys \cup {NoKey}, size : Sizes]

KeysOf(page) == {page[i].key : i \in DOMAIN page}

\* One more record of this size does not fit behind cap words.
Overflows(cap, size) == cap + Header + size > PageSize

Halt(how) == /\ pc' = how
             /\ UNCHANGED ret

-----------------------------------------------------------------------------
(* myInsert: choose a zone, write the page, enter it in the maps.          *)

\* Zones that are neither queued for collection nor full.
Free == {z \in Zones : z \notin gcQueue /\ wp[z] < BPZ}

\* Of these zones the first one with the most empty space.
Emptiest(zs, w) ==
    {z \in zs : \A y \in zs : w[z] < w[y] \/ (w[z] = w[y] /\ z <= y)}

\* The uninitialised zone_in, when no zone is free.
Unset == IF Free = {} THEN StrayZones ELSE {}

\* The zones that the gl rounds over can_zone may mark: the nearest lifetimes
\* among the free zones whose word is 0, else the default zone.
Rounds(words) ==
    LET cand == {z \in Free : words[z] = 0}
        n    == IF Cardinality(cand) < GL THEN Cardinality(cand) ELSE GL
    IN  IF cand = {} THEN {Emptiest(Free, [z \in Zones |-> 0])}
        ELSE {c \in SUBSET cand : Cardinality(c) = n}

\* The marked zone with the largest recorded empty rate, else the last one
\* a round has picked.
FromMarked(words, picked) ==
    LET marked == picked \cup {z \in Zones : words[z] = 1}
        open   == {z \in marked : seenWp[z] < BPZ}
    IN  IF open = {} THEN picked ELSE Emptiest(open, seenWp)

ByLifetime ==
    UNION {UNION {FromMarked(words, picked) : picked \in Rounds(words)} :
           words \in [Zones -> HeapWords]}

\* write_block and refreshLifetime, or the assertion on write_block's result.
WritePage(z, page, keys, after) ==
    IF z \in Zones /\ wp[z] < BPZ   \* a stray zone_in may be no zone at all
    THEN LET b == <<z, wp[z]>>
         IN  /\ wp' = [wp EXCEPT ![z] = @ + 1]
             /\ media' = [media EXCEPT ![b] = page]
             /\ valid' = [valid EXCEPT ![b] = "VALID"]
             /\ index' = [k \in Keys |->
                            IF k \in keys THEN b ELSE index[k]]
             /\ IF gcFlag THEN pc' = after /\ UNCHANGED ret
                          ELSE pc' = "detect" /\ ret' = after
    ELSE /\ Halt(IF z \in Zones THEN "assert327" ELSE "fault")
         /\ UNCHANGED <<device, index>>

\* Placement by empty rate reads the write pointers anew, placement by
\* lifetime works with the empty rates of the last time.
Insert(page, keys, after) ==
    \/ /\ \E z \in Emptiest(Free, wp) \cup Unset :
            WritePage(z, page, keys, after)
       /\ seenWp' = wp
    \/ /\ \E z \in ByLifetime \cup Unset :
            WritePage(z, page, keys, after)
       /\ UNCHANGED seenWp

\* What myInsert was called to write leaves its buffer only once it returns.
Returned(frame, flushed) == IF pc' \in Halts THEN frame ELSE flushed

-----------------------------------------------------------------------------
(* request_workload, fed by the workload generator.                        *)

\* The generator adds absent keys and modifies or deletes present ones.
Requests ==
    {[kind |-> "ADD", key |-> k, size |-> v] :
        k \in {k \in Keys : live[k] = 0}, v \in ValueSizes}
    \cup {[kind |-> "MODIFY", key |-> k, size |-> v] :
        k \in {k \in Keys : live[k] # 0}, v \in ValueSizes}
    \cup {[kind |-> "DELETE", key |-> k, size |-> 0] :
        k \in {k \in Keys : live[k] # 0}}

\* Now and then the progress report computes the empty rates anew.
Progress == seenWp' \in {seenWp, wp}

ReadRequest ==
    /\ pc = "request" /\ ~eof /\ load < Length
    /\ load' = load + 1
    /\ \E r \in Requests : op' = r /\ live' = [live EXCEPT ![r.key] = r.size]
    /\ pc' = "serve"
    /\ Progress
    /\ UNCHANGED <<device, index, gcQueue, gcFlag, pend, eof, upd, gc, ret,
                   astray>>

\* good() is still true behind the last line: the extraction fails, the
\* variables keep the last request and it is served again.
ReadPastEnd ==
    /\ pc = "request" /\ ~eof /\ op.kind # "NONE"
    /\ eof' = TRUE /\ pc' = "serve"
    /\ Progress
    /\ UNCHANGED <<device, index, gcQueue, gcFlag, pend, op, load, upd, gc, ret,
                   live, astray>>

Exit ==
    /\ pc = "request" /\ eof
    /\ pc' = "exit"
    /\ UNCHANGED <<device, index, seenWp, gcQueue, gcFlag, pend, op, load, eof, upd,
                   gc, ret, live, astray>>

FlushDue == /\ pend.recs # << >>
            /\ op.kind # "ADD" \/ Overflows(pend.cap, op.size)

FlushBuffer ==
    /\ pc = "serve" /\ FlushDue
    /\ Insert(pend.recs, KeysOf(pend.recs), "serve")
    /\ pend' = Returned(pend, NoBuffer)
    /\ UNCHANGED <<gcQueue, gcFlag, op, load, eof, upd, gc, live, astray>>

ServeAdd ==
    /\ pc = "serve" /\ ~FlushDue /\ op.kind = "ADD"
    /\ pend' = [recs |-> Append(pend.recs, [key |-> op.key, size |-> op.size]),
                cap  |-> pend.cap + Header + op.size]
    /\ pc' = "request"
    /\ UNCHANGED <<device, index, seenWp, gcQueue, gcFlag, op, load, eof, upd, gc,
                   ret, live, astray>>

-----------------------------------------------------------------------------
(* myUpdate_Delete                                                         *)

LeftValid(b)  == valid    \* fault: the old copy stays
Invalidate(b) == [valid EXCEPT ![b] = "INVALID"]

\* What the parser makes of a page: in an empty one the uninitialised key_read
\* may be the key it looks for.
Parsed(page) ==
    IF page = << >> /\ op.key \in StrayKeys
    THEN {page, <<[key |-> op.key, size |-> 0]>>} ELSE {page}

\* Read the key's page, invalidate its block, forget a deleted key.
StartUpdate ==
    /\ pc = "serve" /\ ~FlushDue /\ op.kind # "ADD"
    /\ IF index[op.key] = NoBlock
       THEN /\ Halt("assert394")
            /\ UNCHANGED <<valid, index, upd>>
       ELSE /\ valid' = Invalidate(index[op.key])
            /\ index' = IF op.size = 0 THEN [index EXCEPT ![op.key] = NoBlock]
                                       ELSE index
            /\ \E page \in Parsed(media[index[op.key]]) :
                  upd' = [NoUpdate EXCEPT !.todo = page]
            /\ pc' = "update" /\ UNCHANGED ret
    /\ UNCHANGED <<wp, media, seenWp, gcQueue, gcFlag, pend, op, load, eof, gc, live,
                   astray>>

OldSize == Head(upd.todo).size   \* fault: the request is not applied
\* The size the next record of the page is to have.
NewSize == LET r == Head(upd.todo) IN IF r.key = op.key THEN op.size ELSE r.size

\* cnt = cap = 0 behind a flush.
UpdateFlushed == [upd EXCEPT !.acc = << >>, !.cap = 0]

UpdateSpills == NewSize # 0 /\ Overflows(upd.cap, NewSize)

\* The rewritten records fill a page: write it, with the rest of the old page
\* only in memory.
SpillUpdate ==
    /\ pc = "update" /\ upd.todo # << >> /\ UpdateSpills
    /\ Insert(upd.acc, KeysOf(upd.acc), "update")
    /\ upd' = Returned(upd, UpdateFlushed)
    /\ UNCHANGED <<gcQueue, gcFlag, pend, op, load, eof, gc, live, astray>>

UpdateRecord ==
    /\ pc = "update" /\ upd.todo # << >> /\ ~UpdateSpills
    /\ LET r    == Head(upd.todo)
           kept == IF NewSize = 0 THEN << >>
                   ELSE <<[key |-> r.key, size |-> NewSize]>>
       IN  upd' = [todo  |-> Tail(upd.todo),
                   acc   |-> upd.acc \o kept,
                   cap   |-> IF NewSize = 0 THEN upd.cap
                             ELSE upd.cap + Header + NewSize,
                   found |-> upd.found \/ r.key = op.key]
    /\ UNCHANGED <<device, index, seenWp, gcQueue, gcFlag, pend, op, load, eof, gc,
                   pc, ret, live, astray>>

\* The last page is written even when it has no record.
LastPage ==
    /\ pc = "update" /\ upd.todo = << >>
    /\ Insert(upd.acc, KeysOf(upd.acc), "updated")
    /\ upd' = Returned(upd, UpdateFlushed)
    /\ UNCHANGED <<gcQueue, gcFlag, pend, op, load, eof, gc, live, astray>>

EndUpdate ==
    /\ pc = "updated"
    /\ pc' = IF upd.found THEN "request" ELSE "assert443"
    /\ upd' = NoUpdate
    /\ UNCHANGED <<device, index, seenWp, gcQueue, gcFlag, pend, op, load, eof, gc,
                   ret, live, astray>>

-----------------------------------------------------------------------------
(* myGcDetect                                                              *)

InZone(z, what) == {b \in Blocks : b[1] = z /\ valid[b] = what}

LowSpace(z)    == (BPZ - wp[z]) * 100 < SE * BPZ
HighGarbage(z) == Cardinality(InZone(z, "INVALID")) * 100 > SG * BPZ
\* A variance above the threshold takes two blocks with a lifetime.
MayVary == {z \in Zones : Spread /\ Cardinality(InZone(z, "VALID")) >= 2}

Beyond(queue) == Cardinality(queue) > GL   \* fault: one zone too many
\* The queue is long enough for a collection.
Enough(queue) == Cardinality(queue) >= GL
\* Zones are queued in order until there are enough.
Queued(due) == {z \in due : ~Enough(gcQueue \cup {y \in due : y < z})}

Detect ==
    /\ pc = "detect"
    /\ \E spread \in SUBSET MayVary :
         LET due == {z \in Zones \ gcQueue :
                       LowSpace(z) /\ (HighGarbage(z) \/ z \in spread)}
             new  == Queued(due)
             full == new # {} /\ Enough(gcQueue \cup new)
         IN  /\ gcQueue' = gcQueue \cup new
             /\ gcFlag' = full
             /\ IF full THEN pc' = "gczone" /\ UNCHANGED ret
                        ELSE pc' = ret /\ ret' = "request"
    /\ seenWp' = wp
    /\ UNCHANGED <<device, index, pend, op, load, eof, upd, gc, live, astray>>

-----------------------------------------------------------------------------
(* myGarbageCollection                                                     *)

Before(a, b) == a[1] < b[1] \/ (a[1] = b[1] /\ a[2] < b[2])

\* The block where a scan for BLOCK_VALID that starts at b stops, if any: the
\* scan is not bounded by the zone.
Scan(b) ==
    LET ahead == {c \in Blocks : valid[c] = "VALID" /\ ~Before(c, b)}
    IN  {c \in ahead : \A d \in ahead : ~Before(d, c)}

After(b) == <<b[1], b[2] + 1>>

\* Take the next queued zone and read the first valid block from its start.
StartZone ==
    /\ pc = "gczone" /\ gcQueue # {}
    /\ \E z \in gcQueue :
         /\ \A y \in gcQueue : z <= y
         /\ IF Scan(<<z, 0>>) = {}
            THEN /\ \E how \in {"fault", "assert481"} : Halt(how)
                 /\ UNCHANGED <<gc, astray>>
            ELSE \E b \in Scan(<<z, 0>>) :
                 /\ gc' = [NoGc EXCEPT !.zone = z, !.src = b, !.todo = media[b]]
                 /\ astray' = (astray \/ b[1] # z)
                 /\ pc' = "gcread" /\ UNCHANGED ret
    /\ UNCHANGED <<device, index, seenWp, gcQueue, gcFlag, pend, op, load, eof, upd,
                   live>>

\* fault: a page that is just full counts as too full
GcSpillsEarly == LET v == Head(gc.todo).size
                 IN  v # 0 /\ gc.cap + Header + v >= PageSize
GcSpills == LET v == Head(gc.todo).size IN v # 0 /\ Overflows(gc.cap, v)

GcFlushed == [gc EXCEPT !.acc = << >>, !.cut = {}, !.cap = 0, !.wrote = @ + 1]

\* A record joins the page being filled.  One without a value is taken even
\* where no record fits: the parsers stop before it, the index does not.
GcTaken(r, rest) ==
    LET hidden == r.size = 0 /\ Overflows(gc.cap, 1)
    IN  [gc EXCEPT !.todo = rest, !.key = r.key, !.cap = @ + Header + r.size,
                   !.acc = IF hidden THEN @ ELSE Append(@, r),
                   !.cut = IF hidden THEN @ \cup {r.key} ELSE @]

SpillGc ==
    /\ pc = "gcread" /\ gc.todo # << >> /\ GcSpills
    /\ Insert(gc.acc, KeysOf(gc.acc) \cup gc.cut, "gcread")
    /\ gc' = Returned(gc, GcFlushed)
    /\ UNCHANGED <<gcQueue, gcFlag, pend, op, load, eof, upd, live, astray>>

GcRecord ==
    /\ pc = "gcread" /\ gc.todo # << >> /\ ~GcSpills
    /\ gc' = GcTaken(Head(gc.todo), Tail(gc.todo))
    /\ UNCHANGED <<device, index, seenWp, gcQueue, gcFlag, pend, op, load, eof, upd,
                   pc, ret, live, astray>>

\* The next valid block, when the scan finds one in this zone or beyond.
NextBlocks == Scan(After(gc.src))
InThisZone == \E b \in NextBlocks : b[1] = gc.zone

NextBlock ==
    /\ pc = "gcread" /\ gc.todo = << >> /\ InThisZone
    /\ \E b \in NextBlocks :
         gc' = [gc EXCEPT !.src = b, !.todo = media[b]]
    /\ \E b \in NextBlocks : media[b] # << >>
    /\ UNCHANGED <<device, index, seenWp, gcQueue, gcFlag, pend, op, load, eof, upd,
                   pc, ret, live, astray>>

\* The next valid block holds an empty page.  Its zero bytes are taken for a
\* record of the last key with a value of size 0.
NextBlockEmpty ==
    /\ pc = "gcread" /\ gc.todo = << >> /\ InThisZone
    /\ \E b \in NextBlocks : media[b] = << >>
    /\ \E k \in IF gc.key = NoKey THEN StrayKeys ELSE {gc.key} :
         IF k = NoKey
         THEN Halt("fault") /\ UNCHANGED gc
         ELSE /\ \E b \in NextBlocks :
                   gc' = [GcTaken([key |-> k, size |-> 0], << >>) EXCEPT !.src = b]
              /\ UNCHANGED <<pc, ret>>
    /\ astray' = TRUE
    /\ UNCHANGED <<device, index, seenWp, gcQueue, gcFlag, pend, op, load, eof, upd,
                   live>>

NothingLeft == FALSE    \* fault: the last page is not written
RecordsLeft == gc.acc # << >>

\* No more valid block in the zone: write what is left.  A scan that finds no
\* valid block behind the zone either runs off the end of the map.
EndZone ==
    /\ pc = "gcread" /\ gc.todo = << >> /\ ~InThisZone
    /\ NextBlocks = {} => "stop" \in Overrun
    /\ IF RecordsLeft
       THEN /\ Insert(gc.acc, KeysOf(gc.acc) \cup gc.cut, "gcreset")
            /\ gc' = Returned(gc, GcFlushed)
       ELSE /\ pc' = "gcreset"
            /\ UNCHANGED <<device, index, seenWp, gc, ret>>
    /\ UNCHANGED <<gcQueue, gcFlag, pend, op, load, eof, upd, live, astray>>

OverrunFault ==
    /\ pc = "gcread" /\ gc.todo = << >> /\ NextBlocks = {}
    /\ "fault" \in Overrun
    /\ Halt("fault")
    /\ UNCHANGED <<device, index, seenWp, gcQueue, gcFlag, pend, op, load, eof, upd,
                   gc, live, astray>>

\* fault: rewound by a whole zone from wherever the pointer is
RewoundBy(w, z) == [w EXCEPT ![z] = @ - BPZ]
Rewound(w, z)   == [w EXCEPT ![z] = 0]

\* fault: the last block is left out
ClearedBut1(z) ==
    [b \in Blocks |-> IF b[1] = z /\ b[2] < BPZ - 1 THEN "EMPTY" ELSE valid[b]]
Cleared(z) == [b \in Blocks |-> IF b[1] = z THEN "EMPTY" ELSE valid[b]]

StillQueued(z) == gcQueue   \* fault: gc_queue is not cleared
Unqueued(z)    == gcQueue \ {z}

\* Reset the zone and clear its entries in the maps.
ResetZone ==
    /\ pc = "gcreset"
    /\ gcQueue' = Unqueued(gc.zone)
    /\ wp' = Rewound(wp, gc.zone)
    /\ media' = [b \in Blocks |-> IF b[1] = gc.zone THEN << >> ELSE media[b]]
    /\ valid' = Cleared(gc.zone)
    /\ gc' = NoGc
    /\ pc' = "gczone"
    /\ UNCHANGED <<index, seenWp, gcFlag, pend, op, load, eof, upd, ret, live, astray>>

EndGc ==
    /\ pc = "gczone" /\ gcQueue = {}
    /\ gcFlag' = FALSE
    /\ pc' = ret /\ ret' = "request"
    /\ UNCHANGED <<device, index, seenWp, gcQueue, pend, op, load, eof, upd, gc, live,
                   astray>>

-----------------------------------------------------------------------------

Init ==
    /\ wp = [z \in Zones |-> 0]
    /\ media = [b \in Blocks |-> << >>]
    /\ valid = [b \in Blocks |-> "EMPTY"]
    /\ index = [k \in Keys |-> NoBlock]
    /\ seenWp = [z \in Zones |-> 0]
    /\ gcQueue = {} /\ gcFlag = FALSE
    /\ pend = NoBuffer /\ upd = NoUpdate /\ gc = NoGc
    /\ op = [kind |-> "NONE", key |-> NoKey, size |-> 0] /\ load = 0 /\ eof = FALSE
    /\ pc = "request" /\ ret = "request"
    /\ live = [k \in Keys |-> 0] /\ astray = FALSE

Stopped == pc \in Halts /\ UNCHANGED vars

Serving ==
    \/ FlushBuffer \/ ServeAdd
    \/ StartUpdate \/ SpillUpdate \/ UpdateRecord \/ LastPage \/ EndUpdate
    \/ Detect
    \/ StartZone \/ SpillGc \/ GcRecord \/ NextBlock \/ NextBlockEmpty
    \/ EndZone \/ OverrunFault \/ ResetZone \/ EndGc

Next == ReadRequest \/ ReadPastEnd \/ Exit \/ Serving \/ Stopped

Spec == Init /\ [][Next]_vars /\ WF_vars(Serving)
-----------------------------------------------------------------------------
(* Properties.                                                             *)

\* The range of every variable.
TypeOK ==
    /\ wp \in [Zones -> 0 .. BPZ]
    /\ media \in [Blocks -> Pages]
    /\ valid \in [Blocks -> {"EMPTY", "VALID", "INVALID"}]
    /\ index \in [Keys -> Blocks \cup {NoBlock}]
    /\ seenWp \in [Zones -> 0 .. BPZ]
    /\ gcQueue \subseteq Zones /\ gcFlag \in BOOLEAN
    /\ pend \in Buffers /\ op \in Operations /\ load \in 0 .. Length
    /\ eof \in BOOLEAN /\ upd \in Updates /\ gc \in Collections
    /\ pc \in Labels \cup Halts
    /\ ret \in {"request", "serve", "update", "updated"}
    /\ live \in [Keys -> Sizes] /\ astray \in BOOLEAN

\* block_valid_map and the write pointers the device keeps never disagree: a
\* block is empty in the map exactly from the write pointer on, through
\* updates, collections and resets (lines 75-99, 240, 393-399, 536-541).
MapMatchesDevice ==
    ~astray => \A b \in Blocks : valid[b] = "EMPTY" <=> b[2] >= wp[b[1]]

\* The queue never grows beyond gl, and gl zones are in it only while they are
\* being collected: no later insertion finds a full queue (lines 261-278).
QueueBounded == /\ Cardinality(gcQueue) <= GL
                /\ ~gcFlag => Cardinality(gcQueue) < GL

\* Keys whose record is on its way from one page to the next in the buffers of
\* myUpdate_Delete.  A key being deleted has no place to go.
InFlight == {k \in KeysOf(upd.todo) \cup KeysOf(upd.acc) :
                ~(k = op.key /\ op.size = 0)}

\* key_index names a valid block that holds a record of the key, at every step
\* of an update or a collection: what a collection resets is never the home of
\* a key, although it may start with half an update's page only in memory.
IndexNamesRecord ==
    ~astray /\ pc \notin Halts =>
        \A k \in Keys \ InFlight :
            index[k] # NoBlock => /\ valid[index[k]] = "VALID"
                                  /\ k \in KeysOf(media[index[k]])

\* The assertion flag == 1 of myUpdate_Delete (line 443) never fails.
KeyFound == pc = "assert443" => astray

\* No valid block but those of the zone being collected holds a record that
\* key_index does not lead to, and none holds two of one key: nothing is there
\* that a later collection could bring back.
NoStaleCopy ==
    ~astray /\ pc \notin Halts =>
        \A b \in Blocks : valid[b] = "VALID" /\ b[1] # gc.zone =>
            /\ \A k \in KeysOf(media[b]) : index[k] = b
            /\ Cardinality(KeysOf(media[b])) = Len(media[b])

\* A collection writes no more pages for a zone than the zone had valid ones,
\* so it never takes more space than the reset gives back.
GcNeverGrows ==
    pc = "gcreset" /\ ~astray =>
        gc.wrote <= Cardinality(InZone(gc.zone, "VALID"))

SizeIn(page, k) == page[CHOOSE i \in DOMAIN page : page[i].key = k].size

\* The value of a key, wherever it is: in the buffer of additions, in the
\* buffers of an update, or in the page that key_index names.
Stored(k) ==
    IF k \in KeysOf(pend.recs) THEN SizeIn(pend.recs, k)
    ELSE IF k \in KeysOf(upd.acc) THEN SizeIn(upd.acc, k)
    ELSE IF k \in KeysOf(upd.todo) THEN SizeIn(upd.todo, k)
    ELSE IF index[k] # NoBlock /\ k \in KeysOf(media[index[k]])
         THEN SizeIn(media[index[k]], k)
    ELSE 0

View == [k \in Keys |-> Stored(k)]

\* Between two requests the store holds what the requests so far asked for,
\* with the last request of the file served twice at its end.
Served == pc = "request" /\ ~astray => View = live

KV == INSTANCE KVStore WITH store <- View

\* The engine implements the map: whatever a step does to pages, zones and
\* indexes, it changes no value but that of the request in hand, to the size
\* it asks for.  Collections are invisible.
ImplementsMap ==
    /\ KV!Init
    /\ [][\/ \E k \in Keys \cap {op.key} : IF op.size # 0 THEN KV!Put(k, op.size)
                                                           ELSE KV!Delete(k)
          \/ astray']_View

\* A request that was read is served, or the program stops: no collection and
\* no rewrite goes on for ever (lines 411-442, 471-544).
RequestServed == pc = "serve" ~> pc \in Halts \cup {"request"}
=============================================================================
