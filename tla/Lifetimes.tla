------------------------------ MODULE Lifetimes -----------------------------
(***************************************************************************)
(* The lifetimes by which the engine places pages (zns_simulation.cc):     *)
(* ZnsStore allows every order of the zones and every outcome of the       *)
(* variance test; here they follow from the lifetimes of keys, blocks and  *)
(* zones.  Steps that place nothing are those of ZnsStore, with what they  *)
(* do to the lifetimes; insertions and the detection are stated anew.  A   *)
(* zone's average is kept exactly, as a sum and a count, and so is the     *)
(* variance.                                                               *)
(***************************************************************************)
EXTENDS ZnsStore, FiniteSetsExt

CONSTANTS
    SZ,            \* sz: the share of recorded zones above which lifetimes count, in %
    SL,            \* sl: the variance above which a zone is collected
    Recent         \* RECENT_MODIFY: the lifetime of a key that is never modified

ASSUME LifetimeConstants ==
    SZ \in Nat /\ SL \in Nat /\ Recent \in Nat \ {0} /\ Spread

VARIABLES
    keyLife,    \* key_lifetime_map: writes since the last change of each key
    blockLife,  \* block_lifetime_map
    zoneLife,   \* zone_lifetime_map, as a sum and a count
    met,        \* the first record of upd.todo is behind the test of line 424
    since       \* ghost: the keys changed since the last change of each key; all
                \* of them, itself too, for a key that was never changed

lifetimes == <<keyLife, blockLife, zoneLife>>
lifeVars == <<vars, lifetimes, met, since>>

-----------------------------------------------------------------------------
(* Lifetimes.                                                              *)

\* fault: the oldest key counts
get_page_lifetime_Max(life, keys) == Max({life[k] : k \in keys} \cup {0})

\* A page is as young as the youngest of its keys.
get_page_lifetime(life, keys) == Min({life[k] : k \in keys} \cup {Recent})

\* fault: a key that was never modified ages too
AgedAll(life) == [k \in Keys |-> life[k] + 1]

\* A write that is not an addition ages the keys that were ever modified.
Aged(life) == [k \in Keys |-> IF life[k] # Recent THEN life[k] + 1 ELSE Recent]

BlocksOf(z) == {b \in Blocks : b[1] = z}

\* Sums of natural numbers are counted: f[b] pairs for every b.
SumOf(f, S) == Cardinality(UNION {{b} \X (1 .. f[b]) : b \in S})

\* The average over the valid blocks of a zone.
MeanOf(z, life, map) ==
    LET S == {b \in BlocksOf(z) : life[b] >= 0 /\ map[b] = "VALID"}
    IN  [sum |-> SumOf(life, S), cnt |-> Cardinality(S)]

\* lifetimeVarience(z) > sl: over the n blocks with a lifetime above 0, both sides
\* times n * n.  Without any, the code compares a NaN, and the comparison fails.
WidelySpread(z) ==
    LET S   == {b \in BlocksOf(z) : blockLife[b] > 0}
        n   == Cardinality(S)
        sum == SumOf(blockLife, S)
    IN  n * SumOf([b \in S |-> blockLife[b] * blockLife[b]], S) - sum * sum > SL * n * n

-----------------------------------------------------------------------------
(* myInsert.                                                               *)

Abs(n) == IF n < 0 THEN -n ELSE n

\* szone: the zones whose lifetime is not the initial one.
Recorded == {z \in Zones : Abs(zoneLife[z].sum - Recent * zoneLife[z].cnt) > zoneLife[z].cnt}

\* Of two zones, the loop over can_zone prefers the one with the lifetime nearer to
\* l, and of equally near ones the first.
Nearer(l, y, z) ==
    LET far(x) == Abs(l * zoneLife[x].cnt - zoneLife[x].sum)
        a      == far(y) * zoneLife[z].cnt
        b      == far(z) * zoneLife[y].cnt
    IN  a < b \/ (a = b /\ y < z)

\* fault: full zones are candidates
MarkedFull(l, words) ==
    LET cand == {z \in Zones \ gcQueue : words[z] = 0}
    IN  IF cand = {} THEN {z \in Free : \A y \in Free : z <= y}
        ELSE {z \in cand : Cardinality({y \in cand : Nearer(l, y, z)}) < GL}

\* The gl rounds over can_zone mark one after the other the nearest of the free
\* zones whose word is 0.  If there is none, each marks the default zone, the first
\* free one, if there is any.
Marked(l, words) ==
    LET cand == {z \in Free : words[z] = 0}
    IN  IF cand = {} THEN {z \in Free : \A y \in Free : z <= y}
        ELSE {z \in cand : Cardinality({y \in cand : Nearer(l, y, z)}) < GL}

\* Of the zones whose word is 1 now the one with the most empty space that was seen,
\* or, if none of them had any, the one marked last.
NearestOf(l, words) ==
    LET marked == Marked(l, words)
        open   == {z \in Zones : (z \in marked \/ words[z] = 1) /\ seenWp[z] < BPZ}
    IN  IF open = {} THEN {z \in marked : \A y \in marked \ {z} : Nearer(l, y, z)}
        ELSE Emptiest(open, seenWp)

ByEmptyRate == Cardinality(Recorded) * 100 < SZ * NZ

\* Where a page of lifetime l may go.
Targets(l) ==
    Unset \cup IF ByEmptyRate THEN Emptiest(Free, wp)
               ELSE UNION {NearestOf(l, words) : words \in [Zones -> HeapWords]}

\* refreshLifetime behind the write of a page of lifetime l to zone z.
Refresh(life, z, l, add) ==
    /\ keyLife' = IF add THEN life ELSE Aged(life)
    /\ blockLife' = [blockLife EXCEPT ![<<z, wp[z]>>] = l]
    /\ zoneLife' = [zoneLife EXCEPT ![z] = MeanOf(z, blockLife', valid')]

\* myInsert, when the lifetimes of the keys are those of life.
Place(life, page, keys, add, after) ==
    LET l == get_page_lifetime(life, keys)
    IN  /\ \E z \in Targets(l) :
             /\ WritePage(z, page, keys, after)
             /\ IF pc' \in Halts
                THEN keyLife' = life /\ UNCHANGED <<blockLife, zoneLife>>
                ELSE Refresh(life, z, l, add)
        /\ seenWp' = IF ByEmptyRate THEN wp ELSE seenWp

-----------------------------------------------------------------------------
(* Steps that place a page.                                                *)

PlaceBuffer ==
    /\ pc = "serve" /\ FlushDue
    /\ Place(keyLife, pend.recs, KeysOf(pend.recs), TRUE, "serve")
    /\ pend' = Returned(pend, NoBuffer)
    /\ UNCHANGED <<gcQueue, gcFlag, op, load, eof, upd, gc, live, astray, met, since>>

\* The first record left is the one that changes.
Changing == ~met /\ Head(upd.todo).key = op.key

\* fault: a deletion does not count as a change
ChangeLifeUpdated ==
    IF Changing /\ op.size # 0 THEN [keyLife EXCEPT ![op.key] = 0] ELSE keyLife

\* The changed key is young again before a page is full with it.
ChangeLife == IF Changing THEN [keyLife EXCEPT ![op.key] = 0] ELSE keyLife

\* What the ghost makes of it.
NoteChange ==
    since' = IF Changing
             THEN [j \in Keys |-> IF j = op.key THEN {} ELSE since[j] \cup {op.key}]
             ELSE since

PlaceSpill ==
    /\ pc = "update" /\ upd.todo # << >> /\ UpdateSpills
    /\ Place(ChangeLife, upd.acc, KeysOf(upd.acc), FALSE, "update")
    /\ upd' = Returned(upd, UpdateFlushed)
    /\ met' = TRUE /\ NoteChange
    /\ UNCHANGED <<gcQueue, gcFlag, pend, op, load, eof, gc, live, astray>>

PlaceLast ==
    /\ pc = "update" /\ upd.todo = << >>
    /\ Place(keyLife, upd.acc, KeysOf(upd.acc), FALSE, "updated")
    /\ upd' = Returned(upd, UpdateFlushed)
    /\ UNCHANGED <<gcQueue, gcFlag, pend, op, load, eof, gc, live, astray, met, since>>

PlaceGcSpill ==
    /\ pc = "gcread" /\ gc.todo # << >> /\ GcSpills
    /\ Place(keyLife, gc.acc, KeysOf(gc.acc) \cup gc.cut, FALSE, "gcread")
    /\ gc' = Returned(gc, GcFlushed)
    /\ UNCHANGED <<gcQueue, gcFlag, pend, op, load, eof, upd, live, astray, met, since>>

PlaceGcRest ==
    /\ pc = "gcread" /\ gc.todo = << >> /\ ~InThisZone
    /\ NextBlocks = {} => "stop" \in Overrun
    /\ RecordsLeft
    /\ Place(keyLife, gc.acc, KeysOf(gc.acc) \cup gc.cut, FALSE, "gcreset")
    /\ gc' = Returned(gc, GcFlushed)
    /\ UNCHANGED <<gcQueue, gcFlag, pend, op, load, eof, upd, live, astray, met, since>>

\* myGcDetect: the zones whose lifetimes vary too much are known.
DetectSpread ==
    LET due  == {z \in Zones \ gcQueue : LowSpace(z) /\ (HighGarbage(z) \/ WidelySpread(z))}
        new  == Queued(due)
        full == new # {} /\ Enough(gcQueue \cup new)
    IN  /\ pc = "detect"
        /\ gcQueue' = gcQueue \cup new
        /\ gcFlag' = full
        /\ IF full THEN pc' = "gczone" /\ UNCHANGED ret
                   ELSE pc' = ret /\ ret' = "request"
        /\ seenWp' = wp
        /\ UNCHANGED <<device, index, pend, op, load, eof, upd, gc, live, astray,
                       lifetimes, met, since>>

-----------------------------------------------------------------------------
(* Steps of ZnsStore that change lifetimes without placing a page, and     *)
(* those that leave them alone.                                            *)

\* The block that is not valid any more has no lifetime.
InvalidateBlock ==
    /\ StartUpdate
    /\ blockLife' = IF pc' \in Halts THEN blockLife
                    ELSE [blockLife EXCEPT ![index[op.key]] = -1]
    /\ UNCHANGED <<keyLife, zoneLife, met, since>>

RewriteRecord ==
    /\ UpdateRecord
    /\ keyLife' = ChangeLife /\ NoteChange
    /\ met' = FALSE
    /\ UNCHANGED <<blockLife, zoneLife>>

\* fault: the lifetimes of the blocks are kept
ForgottenKept == blockLife

Forgotten == [b \in Blocks |-> IF b[1] = gc.zone THEN -1 ELSE blockLife[b]]

ForgetZone ==
    /\ ResetZone
    /\ blockLife' = Forgotten
    /\ zoneLife' = [zoneLife EXCEPT ![gc.zone] = [sum |-> 0, cnt |-> 1]]
    /\ UNCHANGED <<keyLife, met, since>>

\* A collection that has nothing left to write ends like that of ZnsStore.
EndZoneEmpty == EndZone /\ ~RecordsLeft

Ageless ==
    /\ \/ ReadRequest \/ ReadPastEnd \/ Exit \/ ServeAdd \/ EndUpdate
       \/ StartZone \/ GcRecord \/ NextBlock \/ NextBlockEmpty
       \/ EndZoneEmpty \/ OverrunFault \/ EndGc \/ Stopped
    /\ UNCHANGED <<lifetimes, met, since>>

-----------------------------------------------------------------------------

LifeInit ==
    /\ Init
    /\ keyLife = [k \in Keys |-> Recent] /\ blockLife = [b \in Blocks |-> -1]
    /\ zoneLife = [z \in Zones |-> [sum |-> Recent, cnt |-> 1]]
    /\ met = FALSE /\ since = [k \in Keys |-> Keys]

LifeNext ==
    \/ PlaceBuffer \/ PlaceSpill \/ PlaceLast \/ PlaceGcSpill \/ PlaceGcRest
    \/ DetectSpread
    \/ InvalidateBlock \/ RewriteRecord \/ ForgetZone \/ Ageless

LifeSpec == LifeInit /\ [][LifeNext]_lifeVars
-----------------------------------------------------------------------------
(* Properties.                                                             *)

\* Types: lifetimes stay between 0 and that of a key never modified, and no average
\* is taken over nothing.
LifeTypeOK ==
    /\ keyLife \in [Keys -> 0 .. Recent] /\ blockLife \in [Blocks -> -1 .. Recent]
    /\ zoneLife \in [Zones -> [sum : 0 .. BPZ * Recent, cnt : 1 .. BPZ]]
    /\ met \in BOOLEAN /\ since \in [Keys -> SUBSET Keys]

\* Through updates that write up to three pages and collections in the midst of
\* them, the block of a key that is on the device is recorded no older than the key
\* (lines 228-258, 396-435, 534-540).
BlockNotOlder ==
    ~astray /\ pc \notin Halts =>
        \A k \in Keys \ InFlight : index[k] # NoBlock =>
            blockLife[index[k]] \in 0 .. keyLife[k]

\* Exactly the valid blocks have a lifetime, those with an empty page too: no
\* average and no variance counts what was invalidated or reset, even by a
\* collection that has left its zone (lines 214, 251, 396-397, 538-539).
LifeIffValid == \A b \in Blocks : blockLife[b] >= 0 <=> valid[b] = "VALID"

\* Lifetimes tell which of two keys was changed last, however many pages were
\* rewritten for other keys or collections since, until the older one is at the
\* maximum (lines 241-244, 426).
RecencyOrder ==
    \A k \in Keys : \A j \in since[k] : keyLife[j] < keyLife[k] \/ keyLife[k] = Recent

\* The lifetimes decide among what ZnsStore allows: every page goes where its Insert
\* may put it, every zone that is queued is one its Detect may queue, and every other
\* step is a step of it.  So what holds of ZnsStore holds whatever the lifetimes are.
ImplementsPlacement == Init /\ [][Next]_vars
=============================================================================
