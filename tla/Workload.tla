------------------------------ MODULE Workload ------------------------------
(***************************************************************************)
(* The workload generator (workload.cc, the constructor with a hot data    *)
(* rate): it writes a file of requests, one per line, and keeps a bitmap   *)
(* of the keys that are stored when a reader has come this far.  The hot   *)
(* keys are a window that moves by MaxKey \div WorkloadShift each round.   *)
(***************************************************************************)
EXTENDS Integers

CONSTANTS
    MaxKey,          \* MAX_KEY
    HotData,         \* hot_data: the number of hot keys
    WorkloadShift,   \* WORKLOAD_SHIFT: rounds
    Length,          \* lines of each round
    Prefill          \* lines that add keys before the first round

ASSUME WorkloadConstants ==
    /\ MaxKey \in Nat /\ HotData \in Nat \ {0} /\ HotData < MaxKey
    /\ WorkloadShift \in Nat \ {0} /\ Length \in Nat \ {0} /\ Prefill \in Nat \ {0}

\* The last window ends before MaxKey, and there are more keys than lines.
ASSUME WorkloadFits ==
    /\ (WorkloadShift - 1) * (MaxKey \div WorkloadShift) + HotData <= MaxKey
    /\ Prefill + WorkloadShift * Length < MaxKey

Keys == 0 .. MaxKey - 1

VARIABLES
    bitmap,   \* the keys whose bit is set
    k, i,     \* the counters of the rounds and of the lines
    pc,       \* "fill", "choose", and while it probes "add", "hot" or "cold"
    key,      \* the key it probes
    line,     \* the last line written
    stored    \* what a reader of the file has stored after this line

vars == <<bitmap, k, i, pc, key, line, stored>>

center_shift == k * (MaxKey \div WorkloadShift)

Window == center_shift .. center_shift + HotData - 1

-----------------------------------------------------------------------------

\* Writes a line, and goes on to the next one.
Write(op) ==
    /\ line' = [op |-> op, key |-> key]
    /\ stored' = IF op = "delete" THEN stored \ {key} ELSE stored \cup {key}
    /\ i' = IF i + 1 = Length THEN 0 ELSE i + 1
    /\ k' = IF i + 1 = Length THEN k + 1 ELSE k
    /\ pc' = IF k' = WorkloadShift THEN "end" ELSE "choose"
    /\ UNCHANGED key

\* Keys drawn at random until one is absent.
Fill ==
    /\ pc = "fill"
    /\ \E new \in Keys \ bitmap :
          /\ bitmap' = bitmap \cup {new} /\ stored' = stored \cup {new}
          /\ line' = [op |-> "add", key |-> new]
    /\ i' = IF i + 1 = Prefill THEN 0 ELSE i + 1
    /\ pc' = IF i + 1 = Prefill THEN "choose" ELSE "fill"
    /\ UNCHANGED <<k, key>>

\* The random key at which a line begins to probe.
Choose ==
    /\ pc = "choose"
    /\ \/ pc' = "add"  /\ key' \in Keys
       \/ pc' = "hot"  /\ \E r \in 0 .. HotData - 1 : key' = r + center_shift
       \/ pc' = "cold" /\ \E r \in 0 .. MaxKey - HotData - 1 :
                             key' = (r + HotData + center_shift) % MaxKey
    /\ UNCHANGED <<bitmap, k, i, line, stored>>

\* fault: the last key is not followed by the first
NextAbsentStuck == IF key + 1 < MaxKey THEN key + 1 ELSE key

\* fault: the last key is left out
NextAbsentShort == (key + 1) % (MaxKey - 1)

\* fault: past the last key
NextAbsentPast == key + 1

\* The keys that the probes try next.
NextAbsent == (key + 1) % MaxKey

NextHot == ((key + 1) % HotData) + center_shift

\* fault: the next key, hot or not
NextColdAny == (key + 1) % MaxKey

NextCold ==
    (((key + MaxKey - HotData - center_shift + 1) % (MaxKey - HotData)) + HotData + center_shift)
        % MaxKey

Probe ==
    /\ \/ pc = "add"  /\ key \in bitmap    /\ key' = NextAbsent
       \/ pc = "hot"  /\ key \notin bitmap /\ key' = NextHot
       \/ pc = "cold" /\ key \notin bitmap /\ key' = NextCold
    /\ UNCHANGED <<bitmap, k, i, pc, line, stored>>

AddKv ==
    /\ pc = "add" /\ key \notin bitmap
    /\ bitmap' = bitmap \cup {key}
    /\ Write("add")

ModifyKv ==
    /\ pc \in {"hot", "cold"} /\ key \in bitmap
    /\ Write("modify") /\ UNCHANGED bitmap

\* fault: the bit stays
DeleteKvStale ==
    /\ pc = "cold" /\ key \in bitmap
    /\ Write("delete") /\ UNCHANGED bitmap

\* Only a cold key is deleted, one time in ten.
DeleteKv ==
    /\ pc = "cold" /\ key \in bitmap
    /\ bitmap' = bitmap \ {key}
    /\ Write("delete")

-----------------------------------------------------------------------------

Init ==
    /\ bitmap = {} /\ stored = {}
    /\ k = 0 /\ i = 0 /\ pc = "fill" /\ key = 0
    /\ line = [op |-> "none", key |-> 0]

Next == Fill \/ Choose \/ Probe \/ AddKv \/ ModifyKv \/ DeleteKv

Spec == Init /\ [][Next]_vars

\* The constructor is sequential code: it runs.
FairSpec == Spec /\ WF_vars(Next)

-----------------------------------------------------------------------------
(* Properties.                                                             *)

\* Types: counters and lines are in range, and bitmap is never indexed outside.
TypeOK ==
    /\ bitmap \subseteq Keys /\ stored \subseteq Keys /\ key \in Keys
    /\ k \in 0 .. WorkloadShift /\ i \in Nat
    /\ pc \in {"fill", "choose", "add", "hot", "cold", "end"}
    /\ line \in [op : {"none", "add", "modify", "delete"}, key : Keys]

\* What the file asks for is possible for a reader that takes it line by line, as
\* request_workload does: it adds only keys that are not stored, and modifies and
\* deletes only keys that are.
LinesLegal ==
    [][pc # "choose" /\ <<i, k, pc>>' # <<i, k, pc>> =>
         IF line'.op = "add" THEN line'.key \notin stored ELSE line'.key \in stored]_vars

\* Probing keeps to its kind of key: a hot line stays in the window of the round,
\* a cold one outside of it, through every wrap around.
HotAndCold == /\ pc = "hot" => key \in Window
              /\ pc = "cold" => key \notin Window

\* The probe for a stored hot key goes round by center_shift + 1 modulo HotData.
Divisors(n) == {d \in 1 .. n : n % d = 0}

Gcd(m, n) ==
    CHOOSE d \in Divisors(n) : m % d = 0 /\ \A e \in Divisors(n) : m % e = 0 => e <= d

HotReachable ==
    \E s \in Window \cap stored : (s + HotData - key) % Gcd(center_shift + 1, HotData) = 0

\* The key that comes d turns after q, round the keys.
Turn(q, d) == IF q + d < MaxKey THEN q + d ELSE q + d - MaxKey

\* The first absent key from q on is d turns away.
AbsentAt(q, d) ==
    /\ d \in 0 .. MaxKey - 1 /\ Turn(q, d) \notin bitmap
    /\ \A e \in 0 .. d - 1 : Turn(q, e) \in bitmap

ToGo == CHOOSE d \in 0 .. MaxKey - 1 : AbsentAt(key, d)

\* Every turn of a probe for an absent key comes nearer to the first one that follows,
\* and passes none over: a probe takes fewer turns than there are keys, however the
\* keys that are stored lie.
AbsentNearer ==
    [][pc = "add" /\ pc' = "add" => ToGo \in 1 .. MaxKey - 1 /\ ToGo' = ToGo - 1]_vars

\* A probe for an absent key always ends: there is one, and the probe comes to it.
\* A probe for a stored hot key ends if one is stored at a distance that the steps
\* of the probe add up to; it is not enough that one is stored.
ProbesEnd == /\ pc = "add" ~> pc # "add"
             /\ pc = "hot" /\ HotReachable ~> pc # "hot"
=============================================================================
