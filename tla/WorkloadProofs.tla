--------------------------- MODULE WorkloadProofs ---------------------------
(***************************************************************************)
(* Safety of the workload generator, for every number of keys, of hot keys *)
(* and of lines: the probes keep to their kind of key through every wrap   *)
(* around, one for an absent key comes nearer to it at every turn, and the *)
(* file only asks for what its reader can do.                              *)
(***************************************************************************)
EXTENDS Workload, FiniteSetTheorems, WellFoundedInduction, TLAPS

\* The bitmap says what is stored, and only a finished generator is past the last
\* round.
IInv == TypeOK /\ HotAndCold /\ bitmap = stored /\ (pc # "end" => k < WorkloadShift)

-----------------------------------------------------------------------------
(* Arithmetic.                                                             *)

LEMMA ModRange ==
  ASSUME NEW a \in Int, NEW n \in Nat \ {0}
  PROVE  a % n \in 0 .. n - 1
OBVIOUS

LEMMA ModOnce ==
  ASSUME NEW a \in Nat, NEW n \in Nat \ {0}, a < 2 * n
  PROVE  a % n = IF a < n THEN a ELSE a - n
OBVIOUS

\* The window of a round lies within the keys.
LEMMA ShiftFits ==
  ASSUME IInv, pc # "end"
  PROVE  center_shift \in Nat /\ center_shift + HotData <= MaxKey
<1> DEFINE d == MaxKey \div WorkloadShift
<1>1. d \in Nat /\ WorkloadShift \in Nat \ {0} /\ HotData \in Nat /\ MaxKey \in Nat
  BY WorkloadConstants
<1>2. (WorkloadShift - 1) * d + HotData <= MaxKey
  BY WorkloadFits
<1>3. k \in Nat /\ k <= WorkloadShift - 1
  BY <1>1 DEF IInv, TypeOK
<1> HIDE DEF d
<1>4. k * d \in Nat /\ k * d <= (WorkloadShift - 1) * d
  BY <1>1, <1>3
<1>5. center_shift = k * d
  BY DEF center_shift, d
<1>6. k * d + HotData <= MaxKey
  <2>1. (WorkloadShift - 1) * d \in Int
    BY <1>1
  <2>2. QED
    BY <1>1, <1>2, <1>4, <2>1
<1>7. QED
  BY <1>4, <1>5, <1>6

LEMMA InitIInv == Init => IInv
BY WorkloadConstants DEF Init, IInv, TypeOK, HotAndCold, Keys

\* A cold key is one of the MaxKey - HotData keys that follow the window.
LEMMA ColdKey ==
  ASSUME NEW s \in Nat, s + HotData <= MaxKey, NEW r \in 0 .. MaxKey - HotData - 1
  PROVE  /\ (r + HotData + s) % MaxKey \in Keys
         /\ (r + HotData + s) % MaxKey \notin s .. s + HotData - 1
<1>1. HotData \in Nat \ {0} /\ MaxKey \in Nat \ {0} /\ r \in Nat /\ r < MaxKey - HotData
  BY WorkloadConstants
<1> DEFINE a == r + HotData + s
<1>2. a \in Nat /\ a < 2 * MaxKey /\ a = r + HotData + s
  BY <1>1
<1> HIDE DEF a
<1>3. a % MaxKey = IF a < MaxKey THEN a ELSE a - MaxKey
  BY <1>1, <1>2, ModOnce
<1>4. a % MaxKey \in Keys /\ a % MaxKey \notin s .. s + HotData - 1
  BY <1>1, <1>2, <1>3 DEF Keys
<1>5. QED
  BY <1>2, <1>4

-----------------------------------------------------------------------------
(* The steps.                                                              *)

LEMMA FillStep ==
  ASSUME IInv, Fill
  PROVE  IInv'
<1>1. k' = k /\ k \in 0 .. WorkloadShift /\ k < WorkloadShift /\ i' \in Nat
  BY WorkloadConstants DEF IInv, TypeOK, Fill
<1>2. QED
  BY <1>1 DEF IInv, TypeOK, HotAndCold, Fill, Keys

LEMMA ChooseStep ==
  ASSUME IInv, Choose
  PROVE  IInv'
<1>1. pc = "choose" /\ center_shift \in Nat /\ center_shift + HotData <= MaxKey
  BY ShiftFits DEF Choose
<1>2. center_shift' = center_shift /\ Window' = Window
  BY DEF Choose, center_shift, Window
<1>3. HotData \in Nat \ {0} /\ MaxKey \in Nat \ {0}
  BY WorkloadConstants
<1>4. key' \in Keys /\ pc' \in {"add", "hot", "cold"}
      /\ (pc' = "hot" => key' \in Window) /\ (pc' = "cold" => key' \notin Window)
  <2>1. CASE pc' = "add" /\ key' \in Keys
    BY <2>1
  <2>2. CASE pc' = "hot" /\ \E r \in 0 .. HotData - 1 : key' = r + center_shift
    BY <1>1, <1>3, <2>2 DEF Keys, Window
  <2>3. CASE pc' = "cold" /\ \E r \in 0 .. MaxKey - HotData - 1 :
                                key' = (r + HotData + center_shift) % MaxKey
    BY <1>1, <2>3, ColdKey DEF Window
  <2>4. QED
    BY <2>1, <2>2, <2>3 DEF Choose
<1>5. QED
  BY <1>1, <1>2, <1>4 DEF IInv, TypeOK, HotAndCold, Choose

LEMMA ProbeStep ==
  ASSUME IInv, Probe
  PROVE  IInv'
<1>1. pc # "end" /\ center_shift \in Nat /\ center_shift + HotData <= MaxKey
  BY ShiftFits DEF Probe
<1>2. center_shift' = center_shift /\ Window' = Window
  BY DEF Probe, center_shift, Window
<1>3. HotData \in Nat \ {0} /\ MaxKey \in Nat \ {0} /\ MaxKey - HotData \in Nat \ {0}
      /\ key \in Nat
  BY WorkloadConstants DEF IInv, TypeOK, Keys
<1>4. key' \in Keys
      /\ (pc = "hot" => key' \in Window) /\ (pc = "cold" => key' \notin Window)
  <2>1. CASE pc = "add" /\ key' = NextAbsent
    BY <1>3, <2>1, ModRange DEF NextAbsent, Keys
  <2>2. CASE pc = "hot" /\ key' = NextHot
    <3>1. (key + 1) % HotData \in 0 .. HotData - 1
      BY <1>3, ModRange
    <3>2. QED
      BY <1>1, <1>3, <2>2, <3>1 DEF NextHot, Keys, Window
  <2>3. CASE pc = "cold" /\ key' = NextCold
    <3>1. (key + MaxKey - HotData - center_shift + 1) % (MaxKey - HotData)
             \in 0 .. MaxKey - HotData - 1
      BY <1>1, <1>3, ModRange
    <3>2. QED
      BY <1>1, <2>3, <3>1, ColdKey DEF NextCold, Window
  <2>4. QED
    BY <2>1, <2>2, <2>3 DEF Probe
<1>5. QED
  BY <1>1, <1>2, <1>4 DEF IInv, TypeOK, HotAndCold, Probe

\* What every line does to the counters.
LEMMA WriteFrame ==
  ASSUME IInv, pc \in {"add", "hot", "cold"}, NEW op \in {"add", "modify", "delete"}, Write(op)
  PROVE  /\ k' \in 0 .. WorkloadShift /\ i' \in Nat /\ pc' \in {"choose", "end"}
         /\ (pc' # "end" => k' < WorkloadShift) /\ key' = key
         /\ line' = [op |-> op, key |-> key]
         /\ stored' = IF op = "delete" THEN stored \ {key} ELSE stored \cup {key}
BY WorkloadConstants DEF IInv, TypeOK, Write

LEMMA LineStep ==
  ASSUME IInv, AddKv \/ ModifyKv \/ DeleteKv
  PROVE  IInv'
<1>1. CASE AddKv
  BY <1>1, WriteFrame DEF IInv, TypeOK, HotAndCold, AddKv
<1>2. CASE ModifyKv
  BY <1>2, WriteFrame DEF IInv, TypeOK, HotAndCold, ModifyKv
<1>3. CASE DeleteKv
  BY <1>3, WriteFrame DEF IInv, TypeOK, HotAndCold, DeleteKv
<1>4. QED
  BY <1>1, <1>2, <1>3

LEMMA NextIInv == IInv /\ [Next]_vars => IInv'
<1> SUFFICES ASSUME IInv, [Next]_vars
             PROVE  IInv'
  OBVIOUS
<1>1. CASE Fill
  BY <1>1, FillStep
<1>2. CASE Choose
  BY <1>2, ChooseStep
<1>3. CASE Probe
  BY <1>3, ProbeStep
<1>4. CASE AddKv \/ ModifyKv \/ DeleteKv
  BY <1>4, LineStep
<1>5. CASE UNCHANGED vars
  BY <1>5 DEF vars, IInv, TypeOK, HotAndCold, Window, center_shift
<1>6. QED
  BY <1>1, <1>2, <1>3, <1>4, <1>5 DEF Next

LEMMA Invariance == Spec => []IInv
BY InitIInv, NextIInv, PTL DEF Spec

-----------------------------------------------------------------------------
(* The results.                                                            *)

\* The bitmap is never indexed outside of its MAX_KEY entries, and the counters keep
\* to their ranges (workload.cc, lines 33-81).
THEOREM TypesHold == Spec => []TypeOK
<1>1. IInv => TypeOK
  BY DEF IInv
<1>2. QED
  BY <1>1, Invariance, PTL

\* A hot line stays in the window of its round and a cold line outside of it, for
\* every size of the window and every shift (lines 54-68).
THEOREM KindsHold == Spec => []HotAndCold
<1>1. IInv => HotAndCold
  BY DEF IInv
<1>2. QED
  BY <1>1, Invariance, PTL

\* The file only adds keys that are not stored, and only modifies and deletes keys
\* that are: what request_workload assumes of it.
THEOREM LinesHold == Spec => LinesLegal
<1>1. IInv /\ [Next]_vars =>
        [pc # "choose" /\ <<i, k, pc>>' # <<i, k, pc>> =>
            IF line'.op = "add" THEN line'.key \notin stored ELSE line'.key \in stored]_vars
  <2> SUFFICES ASSUME IInv, Next, pc # "choose", <<i, k, pc>>' # <<i, k, pc>>
               PROVE  IF line'.op = "add" THEN line'.key \notin stored
                                          ELSE line'.key \in stored
    OBVIOUS
  <2>1. CASE Fill
    BY <2>1 DEF IInv, Fill
  <2>2. CASE Choose \/ Probe
    BY <2>2 DEF Choose, Probe
  <2>3. CASE AddKv
    BY <2>3 DEF IInv, AddKv, Write
  <2>4. CASE ModifyKv
    BY <2>4 DEF IInv, ModifyKv, Write
  <2>5. CASE DeleteKv
    BY <2>5 DEF IInv, DeleteKv, Write
  <2>6. QED
    BY <2>1, <2>2, <2>3, <2>4, <2>5 DEF Next
<1>2. QED
  BY <1>1, Invariance, PTL DEF Spec, LinesLegal
-----------------------------------------------------------------------------
(* The probe for an absent key.                                            *)

\* The lines so far: each has set one bit at most.
Lines == IF pc = "fill" THEN i ELSE Prefill + k * Length + i

CountInv ==
    /\ IsFiniteSet(bitmap) /\ Cardinality(bitmap) <= Lines
    /\ pc = "fill" => k = 0 /\ i < Prefill
    /\ pc # "fill" => i < Length

LEMMA LinesType == ASSUME IInv PROVE Lines \in Nat /\ k * Length \in Nat
<1>1. k \in Nat /\ i \in Nat /\ Length \in Nat /\ Prefill \in Nat
  BY WorkloadConstants DEF IInv, TypeOK
<1>2. k * Length \in Nat
  BY <1>1
<1>3. QED
  BY <1>1, <1>2 DEF Lines

\* A line more sets a bit, clears one or leaves the bitmap.
LEMMA CountLine ==
  ASSUME IInv, CountInv, pc \in {"add", "hot", "cold"}, NEW op, Write(op),
         bitmap' \in {bitmap, bitmap \cup {key}, bitmap \ {key}}
  PROVE  CountInv'
<1>1. k \in Nat /\ i \in Nat /\ i < Length /\ Length \in Nat \ {0} /\ Prefill \in Nat
  BY WorkloadConstants DEF IInv, TypeOK, CountInv
<1>2. pc' # "fill" /\ i' \in Nat /\ i' < Length
  BY <1>1 DEF Write
<1>3. Lines' = Lines + 1
  <2>1. CASE i + 1 = Length
    <3>1. k' = k + 1 /\ i' = 0
      BY <2>1 DEF Write
    <3>2. (k + 1) * Length = k * Length + Length
      BY <1>1
    <3>3. QED
      BY <1>1, <1>2, <2>1, <3>1, <3>2, LinesType DEF Lines
  <2>2. CASE i + 1 # Length
    <3>1. k' = k /\ i' = i + 1
      BY <2>2 DEF Write
    <3>2. QED
      BY <1>1, <1>2, <3>1, LinesType DEF Lines
  <2>3. QED
    BY <2>1, <2>2
<1>4. IsFiniteSet(bitmap) /\ Cardinality(bitmap) \in Nat /\ Cardinality(bitmap) <= Lines
  BY FS_CardinalityType DEF CountInv
<1>5. IsFiniteSet(bitmap') /\ Cardinality(bitmap') <= Cardinality(bitmap) + 1
  BY <1>4, FS_AddElement, FS_RemoveElement
<1>6. Lines \in Nat /\ Cardinality(bitmap') \in Nat
  BY <1>5, LinesType, FS_CardinalityType
<1>7. QED
  BY <1>2, <1>3, <1>4, <1>5, <1>6 DEF CountInv

LEMMA NextCount == IInv /\ CountInv /\ [Next]_vars => CountInv'
<1> SUFFICES ASSUME IInv, CountInv, [Next]_vars PROVE CountInv'
  OBVIOUS
<1>1. CASE Fill
  <2>1. k = 0 /\ i \in Nat /\ i < Prefill /\ k' = k /\ Prefill \in Nat /\ Length \in Nat \ {0}
    BY <1>1, WorkloadConstants DEF CountInv, Fill, IInv, TypeOK
  <2>2. IsFiniteSet(bitmap) /\ Cardinality(bitmap) \in Nat /\ Cardinality(bitmap) <= i
    BY <1>1, FS_CardinalityType DEF CountInv, Lines, Fill
  <2>3. PICK new \in Keys \ bitmap : bitmap' = bitmap \cup {new}
    BY <1>1 DEF Fill
  <2>4. IsFiniteSet(bitmap') /\ Cardinality(bitmap') = Cardinality(bitmap) + 1
    BY <2>2, <2>3, FS_AddElement
  <2>5. CASE i + 1 = Prefill
    <3>1. i' = 0 /\ pc' = "choose" /\ k' * Length = 0
      BY <1>1, <2>1, <2>5 DEF Fill
    <3>2. Lines' = Prefill
      BY <2>1, <3>1 DEF Lines
    <3>3. QED
      BY <2>1, <2>2, <2>4, <2>5, <3>1, <3>2 DEF CountInv
  <2>6. CASE i + 1 # Prefill
    <3>1. i' = i + 1 /\ pc' = "fill"
      BY <1>1, <2>6 DEF Fill
    <3>2. QED
      BY <2>1, <2>2, <2>4, <2>6, <3>1 DEF CountInv, Lines
  <2>7. QED
    BY <2>5, <2>6
<1>2. CASE Choose \/ Probe \/ UNCHANGED vars
  <2>1. UNCHANGED <<bitmap, k, i>> /\ (pc' = "fill" <=> pc = "fill")
    BY <1>2 DEF Choose, Probe, vars
  <2>2. QED
    BY <2>1 DEF CountInv, Lines
<1>3. CASE AddKv
  BY <1>3, CountLine DEF AddKv
<1>4. CASE ModifyKv
  BY <1>4, CountLine DEF ModifyKv
<1>5. CASE DeleteKv
  BY <1>5, CountLine DEF DeleteKv
<1>6. QED
  BY <1>1, <1>2, <1>3, <1>4, <1>5 DEF Next

LEMMA CountInvariance == Spec => []CountInv
<1>1. Init => CountInv
  BY FS_EmptySet, WorkloadConstants DEF Init, CountInv, Lines
<1>2. QED
  BY <1>1, NextCount, Invariance, PTL DEF Spec

\* There are more keys than lines.
LEMMA SomeAbsent ==
  ASSUME IInv, CountInv, pc # "end"
  PROVE  \E key1 \in Keys : key1 \notin bitmap
<1>1. /\ k \in Nat /\ i \in Nat /\ k <= WorkloadShift - 1 /\ MaxKey \in Nat
      /\ Length \in Nat \ {0} /\ Prefill \in Nat \ {0} /\ WorkloadShift \in Nat \ {0}
  BY WorkloadConstants DEF IInv, TypeOK
<1>2. k * Length <= (WorkloadShift - 1) * Length
  BY <1>1
<1>3. (WorkloadShift - 1) * Length = WorkloadShift * Length - Length
  BY <1>1
<1>4. /\ k * Length \in Nat /\ WorkloadShift * Length \in Nat
      /\ Prefill + WorkloadShift * Length < MaxKey
  BY <1>1, WorkloadFits
<1>5. Lines < MaxKey
  <2>1. CASE pc = "fill"
    BY <1>1, <1>4, <2>1 DEF CountInv, Lines
  <2>2. CASE pc # "fill"
    BY <1>1, <1>2, <1>3, <1>4, <2>2 DEF CountInv, Lines
  <2>3. QED
    BY <2>1, <2>2
<1>6. IsFiniteSet(Keys) /\ Cardinality(Keys) = MaxKey
  <2>1. IsFiniteSet(0 .. MaxKey - 1) /\ Cardinality(0 .. MaxKey - 1) = MaxKey
    BY <1>1, FS_Interval
  <2>2. QED
    BY <2>1 DEF Keys
<1>7. Cardinality(bitmap) \in Nat /\ Cardinality(bitmap) < MaxKey
  BY <1>1, <1>5, LinesType, FS_CardinalityType DEF CountInv
<1>8. bitmap # Keys
  BY <1>1, <1>6, <1>7
<1>9. QED
  BY <1>8 DEF IInv, TypeOK

\* Numbers have a least one wherever there is one.
LEMMA LeastOf ==
  ASSUME NEW S \in SUBSET Nat, S # {}
  PROVE  \E n \in S : \A m \in S : n <= m
<1>1. PICK n \in S : \A m \in S : <<m, n>> \notin OpToRel(<, Nat)
  BY NatLessThanWellFounded, WFMin
<1>2. \A m \in S : ~(m < n)
  BY <1>1 DEF OpToRel
<1>3. QED
  BY <1>2

\* There is a first absent key, and only one distance to it.
LEMMA FirstAbsent ==
  ASSUME IInv, CountInv, pc # "end"
  PROVE  \E d \in 0 .. MaxKey - 1 : AbsentAt(key, d)
<1>1. key \in Nat /\ key < MaxKey /\ MaxKey \in Nat
  BY WorkloadConstants DEF IInv, TypeOK, Keys
<1>2. PICK a \in Keys : a \notin bitmap
  BY SomeAbsent
<1> DEFINE D == {d \in 0 .. MaxKey - 1 : Turn(key, d) \notin bitmap}
           c == IF key <= a THEN a - key ELSE a - key + MaxKey
<1>3. a \in Nat /\ a < MaxKey
  BY <1>1 DEF Keys
<1>4. c \in 0 .. MaxKey - 1 /\ Turn(key, c) = a
  BY <1>1, <1>3 DEF Turn
<1>5. D \in SUBSET Nat /\ D # {}
  BY <1>1, <1>2, <1>4
<1>6. PICK d \in D : \A e \in D : d <= e
  <2> HIDE DEF D
  <2>1. QED
    BY <1>5, LeastOf
<1>7. d \in Nat /\ \A e \in 0 .. d - 1 : e \notin D
  BY <1>1, <1>6
<1>8. \A e \in 0 .. d - 1 : e \in 0 .. MaxKey - 1
  BY <1>1, <1>7
<1>9. AbsentAt(key, d)
  BY <1>7, <1>8 DEF AbsentAt
<1>10. QED
  BY <1>9 DEF AbsentAt

LEMMA OneDistance ==
  ASSUME NEW q \in Keys, NEW d, NEW e, AbsentAt(q, d), AbsentAt(q, e)
  PROVE  d = e
BY WorkloadConstants DEF AbsentAt

\* The turn after a stored key: the first absent one is a turn nearer.
LEMMA TurnTaken ==
  ASSUME NEW d, key \in bitmap, key \in Keys, AbsentAt(key, d)
  PROVE  /\ d \in 1 .. MaxKey - 1
         /\ AbsentAt(NextAbsent, d - 1)
<1>1. /\ key \in Nat /\ key < MaxKey /\ MaxKey \in Nat \ {0} /\ d \in 0 .. MaxKey - 1
      /\ Turn(key, d) \notin bitmap /\ \A e \in 0 .. d - 1 : Turn(key, e) \in bitmap
  BY WorkloadConstants DEF Keys, AbsentAt
<1>2. NextAbsent = IF key + 1 < MaxKey THEN key + 1 ELSE key + 1 - MaxKey
  <2> DEFINE n == key + 1
  <2>1. n \in Nat /\ n < 2 * MaxKey
    BY <1>1
  <2> HIDE DEF n
  <2>2. n % MaxKey = IF n < MaxKey THEN n ELSE n - MaxKey
    BY <1>1, <2>1, ModOnce
  <2>3. NextAbsent = n % MaxKey
    BY DEF NextAbsent, n
  <2>4. NextAbsent = IF n < MaxKey THEN n ELSE n - MaxKey
    BY <2>2, <2>3
  <2>5. QED
    BY <1>1, <2>4 DEF n
<1>3. d # 0
  BY <1>1 DEF Turn
<1>4. d \in 1 .. MaxKey - 1 /\ d - 1 \in 0 .. MaxKey - 1
  BY <1>1, <1>3
<1>5. ASSUME NEW e \in 0 .. d - 1
      PROVE  Turn(NextAbsent, e) = Turn(key, e + 1)
  BY <1>1, <1>2, <1>4 DEF Turn
<1>6. Turn(NextAbsent, d - 1) \notin bitmap
  BY <1>1, <1>4, <1>5
<1>7. ASSUME NEW e \in 0 .. d - 1 - 1
      PROVE  Turn(NextAbsent, e) \in bitmap
  <2>1. e \in 0 .. d - 1 /\ e + 1 \in 0 .. d - 1
    BY <1>4
  <2>2. QED
    BY <1>1, <1>5, <2>1
<1>8. QED
  BY <1>4, <1>6, <1>7 DEF AbsentAt

\* A probe for an absent key comes a turn nearer to it at every step, from fewer
\* turns than there are keys (workload.cc, lines 44-49): the bitmap is never full,
\* because there are more keys than lines.
THEOREM ProbesComeNearer == Spec => AbsentNearer
<1>1. IInv /\ CountInv /\ [Next]_vars =>
        [pc = "add" /\ pc' = "add" => ToGo \in 1 .. MaxKey - 1 /\ ToGo' = ToGo - 1]_vars
  <2> SUFFICES ASSUME IInv, CountInv, Next, pc = "add", pc' = "add"
               PROVE  ToGo \in 1 .. MaxKey - 1 /\ ToGo' = ToGo - 1
    OBVIOUS
  <2>1. Probe /\ key \in bitmap /\ key' = NextAbsent /\ bitmap' = bitmap
    BY DEF Next, Fill, Choose, Probe, AddKv, ModifyKv, DeleteKv, Write
  <2>2. key \in Keys /\ key' \in Keys
    BY <2>1, ProbeStep DEF IInv, TypeOK
  <2>3. AbsentAt(key, ToGo)
    BY FirstAbsent DEF ToGo
  <2>4. ToGo \in 1 .. MaxKey - 1 /\ AbsentAt(NextAbsent, ToGo - 1)
    BY <2>1, <2>2, <2>3, TurnTaken
  <2> DEFINE near == ToGo - 1
  <2>5. near \in 0 .. MaxKey - 1
    BY <2>4 DEF AbsentAt
  <2>6. \A q, d : AbsentAt(q, d)' <=> AbsentAt(q, d)
    BY <2>1 DEF AbsentAt, Turn
  <2>7. ToGo' = CHOOSE d \in 0 .. MaxKey - 1 : AbsentAt(NextAbsent, d)
    BY <2>1 DEF ToGo, AbsentAt, Turn
  <2>8. ToGo' = near
    <3> HIDE DEF near
    <3>1. QED
      BY <2>1, <2>2, <2>4, <2>5, <2>7, OneDistance DEF near
  <2>9. QED
    BY <2>4, <2>8
<1>2. QED
  BY <1>1, Invariance, CountInvariance, PTL DEF Spec, AbsentNearer
=============================================================================
